-------------------------- MODULE OmniCoordinator --------------------------
(***************************************************************************)
(* The instance registry of OmniCoordinator, the stage clients that report *)
(* to it, and the lists it publishes to the hubs.                          *)
(*                                                                         *)
(* Three kinds of threads run: each stage client (its owner's calls and    *)
(* its heartbeat thread, serialised by _send_lock), the coordinator's      *)
(* receive thread and its periodic thread.  The last two share _instances  *)
(* (under _lock) and _pending_broadcast (under _pending_lock); what they   *)
(* do between two lock sections is split where the other can come in.      *)
(*                                                                         *)
(* Abstracted: addresses and stage ids (an instance is its input address), *)
(* queue lengths (an update that changes only them still broadcasts), the  *)
(* clock (the age of a heartbeat in ticks, up to GcTtl + 1), malformed     *)
(* messages, reconnects within one client, and the hub's cache, which is a *)
(* copy of a published list.                                               *)
(***************************************************************************)
EXTENDS Containers

CONSTANTS
  Instances,    \* stage instances, by input address
  Timeout,      \* _heartbeat_timeout, in ticks
  GcTtl,        \* gc_ttl, in ticks
  MaxInFlight,  \* send buffer of a client's DEALER socket
  MaxStarts     \* bound: clients started for one instance

ASSUME CoordinatorAssumption ==
  /\ Timeout \in Nat /\ GcTtl \in Nat /\ Timeout < GcTtl
  /\ MaxInFlight \in Nat \ {0}
  /\ MaxStarts \in Nat \ {0}

VARIABLES
  client,     \* per instance: the status its running client reports, or "off"
  starts,     \* per instance: how many clients have been started for it
  net,        \* per connection <<instance, start>>: events not yet received
  registry,   \* _instances: instance -> [status, age]
  recv,       \* the receive thread: "idle", or about to _schedule_broadcast()
  pc,         \* the periodic thread
  pending,    \* _pending_broadcast
  snapshot,   \* get_active_instances(): the InstanceInfo objects picked
  published,  \* the list last sent: instance -> status
  slipped     \* history: a broadcast was requested after the last snapshot

clientVars == <<client, starts, net>>
periodicVars == <<pc, snapshot, published>>
vars == <<clientVars, registry, recv, periodicVars, pending, slipped>>

StageStatus == {"UP", "DOWN", "ERROR"}
Event == [type : {"update", "heartbeat"}, status : StageStatus]
Connections == Instances \X (1..MaxStarts)
MaxAge == GcTtl + 1
Known == DOMAIN registry

Init ==
  /\ client = [i \in Instances |-> "off"]
  /\ starts = [i \in Instances |-> 0]
  /\ net = [c \in Connections |-> <<>>]
  /\ registry = <<>>
  /\ recv = "idle"
  /\ pc = "top"
  /\ pending = FALSE
  /\ snapshot = {}
  /\ published = <<>>
  /\ slipped = FALSE
-----------------------------------------------------------------------------
(* OmniCoordClientForStage                                                 *)

Conn(i) == <<i, starts[i]>>

\* _send_event: a full send buffer drops the event silently (zmq.Again).
SendOn(c, event) ==
  net' = IF Len(net[c]) < MaxInFlight THEN [net EXCEPT ![c] = Append(@, event)] ELSE net

Start(i) ==
  /\ client[i] = "off"
  /\ starts[i] < MaxStarts
  /\ client' = [client EXCEPT ![i] = "UP"]
  /\ starts' = [starts EXCEPT ![i] = @ + 1]
  /\ SendOn(<<i, starts[i] + 1>>, [type |-> "update", status |-> "UP"])
  /\ UNCHANGED <<registry, recv, periodicVars, pending, slipped>>

\* update_info(), with or without a change of status.
UpdateInfo(i, status) ==
  /\ client[i] # "off"
  /\ client' = [client EXCEPT ![i] = status]
  /\ SendOn(Conn(i), [type |-> "update", status |-> status])
  /\ UNCHANGED <<starts, registry, recv, periodicVars, pending, slipped>>

Heartbeat(i) ==
  /\ client[i] # "off"
  /\ SendOn(Conn(i), [type |-> "heartbeat", status |-> client[i]])
  /\ UNCHANGED <<client, starts, registry, recv, periodicVars, pending, slipped>>

\* The socket is closed without lingering: a suffix of what it still holds,
\* the final "down" included, may never leave.
StopWith(i, events) ==
  /\ client[i] # "off"
  /\ client' = [client EXCEPT ![i] = "off"]
  /\ \E n \in 0..Len(events) : net' = [net EXCEPT ![Conn(i)] = SubSeq(events, 1, n)]
  /\ UNCHANGED <<starts, registry, recv, periodicVars, pending, slipped>>

Close(i) == StopWith(i, Append(net[Conn(i)], [type |-> "update", status |-> "DOWN"]))

\* The stage's process dies.
Crash(i) == StopWith(i, net[Conn(i)])
-----------------------------------------------------------------------------
(* OmniCoordinator: the receive thread                                     *)

Store(i, info) == registry' = Put(registry, {i}, info)

\* Mutant: a heartbeat promotes from DOWN as well.
HandleHeartbeatRevives(i) ==
  IF i \in Known
  THEN /\ Store(i, [status |-> "UP", age |-> 0])
       /\ recv' = IF registry[i].status # "UP" THEN "schedule" ELSE "idle"
  ELSE UNCHANGED <<registry, recv>>

\* Mutant: the promotion asks for no broadcast.
HandleHeartbeatQuietly(i) ==
  IF i \in Known
  THEN /\ Store(i, [status |-> IF registry[i].status = "ERROR" THEN "UP" ELSE registry[i].status,
                    age    |-> 0])
       /\ recv' = "idle"
  ELSE UNCHANGED <<registry, recv>>

\* Mutant: a heartbeat only refreshes.
HandleHeartbeatRefreshes(i) ==
  IF i \in Known
  THEN Store(i, [registry[i] EXCEPT !.age = 0]) /\ recv' = "idle"
  ELSE UNCHANGED <<registry, recv>>

\* A heartbeat refreshes its instance and promotes it from ERROR; one of an
\* instance the registry does not know is ignored.
HandleHeartbeat(i) ==
  IF i \in Known
  THEN /\ Store(i, [status |-> IF registry[i].status = "ERROR" THEN "UP" ELSE registry[i].status,
                    age    |-> 0])
       /\ recv' = IF registry[i].status = "ERROR" THEN "schedule" ELSE "idle"
  ELSE UNCHANGED <<registry, recv>>

\* Mutant: the status of an update is stored as "off" when it is DOWN.
HandleUpdateRaw(i, status) ==
  /\ Store(i, [status |-> IF status = "DOWN" THEN "off" ELSE status, age |-> 0])
  /\ recv' = "schedule"

\* An update registers its instance, or sets its status; it refreshes nothing.
HandleUpdate(i, status) ==
  /\ Store(i, [status |-> status, age |-> IF i \in Known THEN registry[i].age ELSE 0])
  /\ recv' = "schedule"

HandleEvent(c) ==
  /\ recv = "idle"
  /\ net[c] # <<>>
  /\ net' = [net EXCEPT ![c] = Tail(@)]
  /\ LET event == Head(net[c])
     IN  \/ event.type = "heartbeat" /\ HandleHeartbeat(c[1])
         \/ event.type = "update" /\ HandleUpdate(c[1], event.status)
  /\ UNCHANGED <<client, starts, periodicVars, pending, slipped>>

ScheduleBroadcast ==
  /\ recv = "schedule"
  /\ pending' = TRUE
  /\ slipped' = (slipped \/ pc \in {"send", "clear"})
  /\ recv' = "idle"
  /\ UNCHANGED <<clientVars, registry, periodicVars>>
-----------------------------------------------------------------------------
(* OmniCoordinator: the periodic thread                                    *)

Tick ==
  /\ \E i \in Known : registry[i].age < MaxAge
  /\ registry' = [i \in Known |-> [registry[i] EXCEPT !.age = IF @ < MaxAge THEN @ + 1 ELSE @]]
  /\ UNCHANGED <<clientVars, recv, periodicVars, pending, slipped>>

\* Mutant: only an instance that has said so itself is in error.
TimedOutNever == {}

TimedOut == {i \in Known : registry[i].status = "UP" /\ registry[i].age > Timeout}
Expired == {i \in Known : registry[i].status # "UP" /\ registry[i].age > GcTtl}

\* _check_heartbeat_timeouts, when it is due.
CheckTimeouts ==
  /\ pc = "top"
  /\ registry' = [i \in Known \ Expired |->
                    IF i \in TimedOut THEN [registry[i] EXCEPT !.status = "ERROR"]
                    ELSE registry[i]]
  /\ pending' = (pending \/ TimedOut # {})
  /\ pc' = "pending"
  /\ UNCHANGED <<clientVars, recv, snapshot, published, slipped>>

CheckNotDue ==
  /\ pc = "top"
  /\ pc' = "pending"
  /\ UNCHANGED <<clientVars, registry, recv, snapshot, published, pending, slipped>>

ReadPending ==
  /\ pc = "pending"
  /\ pc' = IF pending THEN "snapshot" ELSE "top"
  /\ UNCHANGED <<clientVars, registry, recv, snapshot, published, pending, slipped>>

Active == {i \in Known : registry[i].status = "UP"}

\* get_active_instances(): the active InstanceInfo objects, not copies of them.
TakeSnapshot ==
  /\ pc = "snapshot"
  /\ snapshot' = Active
  /\ slipped' = FALSE
  /\ pc' = "send"
  /\ UNCHANGED <<clientVars, registry, recv, published, pending>>

\* The objects are read, without the lock, and the list is sent ...
Send ==
  /\ pc = "send"
  /\ published' = [i \in snapshot |-> registry[i].status]
  /\ snapshot' = {}
  /\ pc' = "clear"
  /\ UNCHANGED <<clientVars, registry, recv, pending, slipped>>

\* ... or dropped by the PUB socket, and the flag stays for the next round.
SendFails ==
  /\ pc = "send"
  /\ snapshot' = {}
  /\ pc' = "top"
  /\ UNCHANGED <<clientVars, registry, recv, published, pending, slipped>>

ClearPending ==
  /\ pc = "clear"
  /\ pending' = FALSE
  /\ pc' = "top"
  /\ UNCHANGED <<clientVars, registry, recv, snapshot, published, slipped>>
-----------------------------------------------------------------------------
StageClient(i) ==
  \/ Start(i) \/ Heartbeat(i) \/ Close(i) \/ Crash(i)
  \/ \E status \in {"UP", "ERROR"} : UpdateInfo(i, status)

Receive == ScheduleBroadcast \/ \E c \in Connections : HandleEvent(c)

Check == CheckTimeouts \/ CheckNotDue
Flush == ReadPending \/ TakeSnapshot \/ Send \/ SendFails \/ ClearPending

Next == Tick \/ Receive \/ Check \/ Flush \/ \E i \in Instances : StageClient(i)

\* Time passes and both threads run; the timeout check falls due again and again;
\* the ROUTER socket serves its peers fairly; a PUB socket that is tried again and
\* again takes a message some time; the heartbeat thread of a running client
\* beats, and not always into a full buffer.
Fairness ==
  /\ WF_vars(Tick) /\ WF_vars(ScheduleBroadcast) /\ WF_vars(Flush)
  /\ SF_vars(CheckTimeouts) /\ SF_vars(Send)
  /\ \A i \in Instances :
       SF_vars(Heartbeat(i)) /\ SF_vars(\E k \in 1..MaxStarts : HandleEvent(<<i, k>>))

Spec == Init /\ [][Next]_vars /\ Fairness
-----------------------------------------------------------------------------
(* Properties                                                              *)

TypeOK ==
  /\ client \in [Instances -> {"off", "UP", "ERROR"}]
  /\ starts \in [Instances -> 0..MaxStarts]
  /\ net \in [Connections -> Seq(Event)]
  /\ registry \in [Known -> [status : StageStatus, age : 0..MaxAge]]
  /\ Known \subseteq Instances
  /\ recv \in {"idle", "schedule"}
  /\ pc \in {"top", "pending", "snapshot", "send", "clear"}
  /\ pending \in BOOLEAN /\ slipped \in BOOLEAN
  /\ snapshot \subseteq Instances
  /\ published \in [DOMAIN published -> StageStatus] /\ DOMAIN published \subseteq Instances

\* What the hubs should see: the active instances, each UP.
View == [i \in Active |-> "UP"]

\* Whenever no broadcast is pending, about to be requested or being flushed, the
\* list last published is the active list, however registrations, timeouts,
\* failed sends and garbage collection have interleaved - except when a
\* broadcast was requested between a snapshot and the clearing of the flag.
PublishedIsCurrent == ~pending /\ recv = "idle" /\ ~slipped => published = View

\* The same without the exception, as the documentation of InstanceList has it:
\* "publishes an InstanceList whenever its view of active instances changes".
\* The code disagrees: ClearPending forgets requests it has not served.
EveryChangeIsPublished == ~pending /\ recv = "idle" => published = View

\* A heartbeat that arrives after its instance went DOWN - from the heartbeat
\* thread of a closing client, or over the connection of an earlier one - does
\* not bring it back: only an update does.
OnlyUpdatesRevive ==
  [][\A i \in Known \cap Known' :
       registry[i].status = "DOWN" /\ registry'[i].status # "DOWN" =>
         \E c \in Connections :
           c[1] = i /\ net[c] # net'[c] /\ Head(net[c]).type = "update"]_vars

\* An instance whose clients have all ended, gracefully or not, and whatever
\* was lost with them, stays out of the published list from some time on -
\* unless the broadcast that says so is the one that slipped.
GoneIsUnpublished ==
  \A i \in Instances :
    <>[](client[i] = "off") => <>[](i \notin DOMAIN published) \/ <>[]slipped

\* A live instance that was marked ERROR for late heartbeats is UP again some
\* time, if its registry entry is neither collected nor DOWN before that.
ErrorIsRecovered ==
  \A i \in Instances :
    (i \in Known /\ registry[i].status = "ERROR" /\ client[i] # "off")
      ~> (i \in Active \/ i \notin Known \/ registry[i].status = "DOWN" \/ client[i] = "off")
=============================================================================
