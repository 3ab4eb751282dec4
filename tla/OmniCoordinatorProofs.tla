----------------------- MODULE OmniCoordinatorProofs -----------------------
(***************************************************************************)
(* Proofs about OmniCoordinator for every set of instances, every timeout, *)
(* buffer size and number of restarts.  TLC checks these properties for    *)
(* one instance only: two already make too many states.                    *)
(***************************************************************************)
EXTENDS OmniCoordinator, SequenceTheorems, TLAPS

Info == [status : StageStatus, age : 0..MaxAge]

\* The empty dict has every value type.
LEMMA EmptyFunction == ASSUME NEW S PROVE <<>> \in [DOMAIN <<>> -> S] /\ DOMAIN <<>> = {}
<1>1. <<>> \in Seq(S) /\ Len(<<>>) = 0
  OBVIOUS
<1>. QED
  BY <1>1

\* Store replaces or adds the entry of one instance.
LEMMA StoreEffect ==
  ASSUME TypeOK, NEW i \in Instances, NEW info \in Info, Store(i, info)
  PROVE  /\ registry' \in [Known' -> Info]
         /\ Known' = Known \cup {i}
         /\ registry'[i] = info
         /\ \A j \in Known \ {i} : registry'[j] = registry[j]
  BY DEF TypeOK, Known, Store, Put, Info

\* An event that is sent, and one that is dropped, leave a queue of events.
LEMMA SendOnType ==
  ASSUME TypeOK, NEW c, NEW event \in Event, SendOn(c, event)
  PROVE  net' \in [Connections -> Seq(Event)]
<1>1. CASE c \in Connections
  <2>1. Append(net[c], event) \in Seq(Event)
    BY <1>1 DEF TypeOK
  <2>. QED
    BY <2>1 DEF TypeOK, SendOn
<1>2. CASE c \notin Connections
  BY <1>2 DEF TypeOK, SendOn
<1>. QED
  BY <1>1, <1>2

\* A prefix of a queue of events is a queue of events.
LEMMA PrefixType ==
  ASSUME NEW s \in Seq(Event), NEW n \in 0..Len(s)
  PROVE  SubSeq(s, 1, n) \in Seq(Event)
<1>1. \A j \in 1..n : s[j] \in Event
  OBVIOUS
<1>. QED
  BY <1>1, SubSeqProperties

-----------------------------------------------------------------------------
(* Type correctness                                                        *)

LEMMA InitTypeOK == ASSUME Init PROVE TypeOK
<1>1. net \in [Connections -> Seq(Event)]
  BY DEF Init
<1>2. starts \in [Instances -> 0..MaxStarts]
  BY CoordinatorAssumption DEF Init
<1>3. registry \in [Known -> Info] /\ Known = {}
  BY EmptyFunction DEF Init, Known
<1>4. published \in [DOMAIN published -> StageStatus] /\ DOMAIN published = {}
  BY EmptyFunction DEF Init
<1>. QED
  BY <1>1, <1>2, <1>3, <1>4 DEF Init, TypeOK, Info

\* The conjuncts of TypeOK that the stage clients can disturb.
ClientTypes ==
  /\ client \in [Instances -> {"off", "UP", "ERROR"}]
  /\ starts \in [Instances -> 0..MaxStarts]
  /\ net \in [Connections -> Seq(Event)]

LEMMA StageClientTypes ==
  ASSUME TypeOK, NEW i \in Instances, StageClient(i)
  PROVE  ClientTypes'
<1>. USE DEF ClientTypes
<1>0. /\ client \in [Instances -> {"off", "UP", "ERROR"}]
      /\ starts \in [Instances -> 0..MaxStarts]
      /\ net \in [Connections -> Seq(Event)]
      /\ client[i] # "off" => starts[i] \in 0..MaxStarts
  BY DEF TypeOK
<1>1. CASE Start(i)
  <2>1. <<i, starts[i] + 1>> \in Connections /\ starts[i] + 1 \in 0..MaxStarts
    BY <1>0, <1>1, CoordinatorAssumption DEF Start, Connections
  <2>2. [type |-> "update", status |-> "UP"] \in Event
    BY DEF Event, StageStatus
  <2>3. net' \in [Connections -> Seq(Event)]
    BY <1>1, <2>1, <2>2, SendOnType DEF Start
  <2>. QED
    BY <1>0, <1>1, <2>1, <2>3 DEF Start
<1>2. CASE Heartbeat(i)
  <2>1. [type |-> "heartbeat", status |-> client[i]] \in Event
    BY <1>0, <1>2 DEF Heartbeat, Event, StageStatus
  <2>. QED
    BY <1>0, <1>2, <2>1, SendOnType DEF Heartbeat
<1>3. ASSUME NEW status \in {"UP", "ERROR"}, UpdateInfo(i, status)
      PROVE  ClientTypes'
  <2>1. [type |-> "update", status |-> status] \in Event
    BY DEF Event, StageStatus
  <2>2. net' \in [Connections -> Seq(Event)]
    BY <1>3, <2>1, SendOnType DEF UpdateInfo
  <2>. QED
    BY <1>0, <1>3, <2>2 DEF UpdateInfo
<1>4. ASSUME NEW events, StopWith(i, events),
             Conn(i) \in Connections => events \in Seq(Event)
      PROVE  ClientTypes'
  <2>1. PICK n \in 0..Len(events) :
          net' = [net EXCEPT ![Conn(i)] = SubSeq(events, 1, n)]
    BY <1>4 DEF StopWith
  <2>2. net' \in [Connections -> Seq(Event)]
    BY <1>0, <1>4, <2>1, PrefixType
  <2>. QED
    BY <1>0, <1>4, <2>2 DEF StopWith
<1>5. CASE Close(i)
  <2>1. [type |-> "update", status |-> "DOWN"] \in Event
    BY DEF Event, StageStatus
  <2>2. Conn(i) \in Connections =>
          Append(net[Conn(i)], [type |-> "update", status |-> "DOWN"]) \in Seq(Event)
    BY <1>0, <2>1
  <2>. QED
    BY <1>4, <1>5, <2>2 DEF Close
<1>6. CASE Crash(i)
  BY <1>0, <1>4, <1>6 DEF Crash
<1>. QED
  BY <1>1, <1>2, <1>3, <1>5, <1>6 DEF StageClient

\* What an event does to the registry and the receive thread.
LEMMA HandleEventEffect ==
  ASSUME TypeOK, NEW c \in Connections, HandleEvent(c)
  PROVE  /\ net' \in [Connections -> Seq(Event)]
         /\ registry' \in [Known' -> Info] /\ Known' \subseteq Instances
         /\ recv' \in {"idle", "schedule"}
         /\ Known \subseteq Known'
         /\ recv' = "idle" => Active' = Active
<1>. DEFINE event == Head(net[c])  i == c[1]
<1>1. event \in Event /\ Tail(net[c]) \in Seq(Event) /\ i \in Instances
  BY HeadTailProperties DEF TypeOK, HandleEvent, Connections
<1>2. net' \in [Connections -> Seq(Event)]
  BY <1>1 DEF TypeOK, HandleEvent
<1>3. CASE HandleHeartbeat(i)
  <2>1. CASE i \in Known
    <3>1. registry[i] \in Info
      BY <2>1 DEF TypeOK, Info
    <3>. DEFINE info == [status |-> IF registry[i].status = "ERROR" THEN "UP"
                                    ELSE registry[i].status,
                         age    |-> 0]
    <3>2. info \in Info
      BY <3>1, CoordinatorAssumption DEF Info, StageStatus, MaxAge
    <3>3. Store(i, info)
      BY <1>3, <2>1 DEF HandleHeartbeat
    <3>. HIDE DEF info
    <3>4. /\ registry' \in [Known' -> Info] /\ Known' = Known
          /\ registry'[i] = info
          /\ \A j \in Known \ {i} : registry'[j] = registry[j]
      <4>1. i \in Instances
        BY <1>1
      <4>. HIDE DEF i
      <4>2. Known' = Known \cup {i}
        BY <4>1, <3>2, <3>3, StoreEffect
      <4>. QED
        BY <2>1, <3>2, <3>3, <4>1, <4>2, StoreEffect
    <3>5. recv' = "idle" => info.status = registry[i].status
      BY <1>3, <2>1 DEF HandleHeartbeat, info
    <3>6. recv' = "idle" => Active' = Active
      BY <2>1, <3>4, <3>5 DEF Active
    <3>. QED
      BY <1>2, <1>3, <2>1, <3>4, <3>6 DEF TypeOK, HandleHeartbeat
  <2>2. CASE i \notin Known
    BY <1>2, <1>3, <2>2 DEF TypeOK, HandleHeartbeat, Info, Known, Active
  <2>. QED
    BY <2>1, <2>2
<1>4. CASE HandleUpdate(i, event.status)
  <2>. DEFINE info == [status |-> event.status,
                       age    |-> IF i \in Known THEN registry[i].age ELSE 0]
  <2>1. info \in Info
    BY <1>1, CoordinatorAssumption DEF TypeOK, Info, Event, StageStatus, MaxAge
  <2>2. Store(i, info) /\ recv' = "schedule"
    BY <1>4 DEF HandleUpdate
  <2>. HIDE DEF info
  <2>. QED
    BY <1>1, <1>2, <2>1, <2>2, StoreEffect DEF TypeOK
<1>. QED
  BY <1>3, <1>4 DEF HandleEvent

\* What a timeout check does to the registry.
LEMMA CheckTimeoutsEffect ==
  ASSUME TypeOK, CheckTimeouts
  PROVE  /\ registry' \in [Known' -> Info] /\ Known' \subseteq Instances
         /\ TimedOut = {} => Active' = Active
<1>1. Known' = Known \ Expired
  BY DEF CheckTimeouts, Known
<1>2. \A j \in Known' : registry'[j] \in Info
  BY <1>1 DEF CheckTimeouts, TypeOK, Info, StageStatus
<1>3. TimedOut = {} => \A j \in Known' : registry'[j] = registry[j]
  BY <1>1 DEF CheckTimeouts
<1>4. \A j \in Expired : registry[j].status # "UP"
  BY DEF Expired
<1>5. registry' \in [Known' -> Info]
  BY <1>1, <1>2 DEF CheckTimeouts
<1>. QED
  BY <1>1, <1>3, <1>4, <1>5 DEF TypeOK, Active

\* What a tick does to the registry.
LEMMA TickEffect ==
  ASSUME TypeOK, Tick
  PROVE  registry' \in [Known' -> Info] /\ Known' = Known /\ Active' = Active
<1>1. Known' = Known
  BY DEF Tick, Known
<1>2. \A j \in Known : registry'[j] \in Info /\ registry'[j].status = registry[j].status
  BY CoordinatorAssumption DEF Tick, TypeOK, Info, MaxAge
<1>3. registry' \in [Known' -> Info]
  BY <1>1, <1>2 DEF Tick
<1>. QED
  BY <1>1, <1>2, <1>3 DEF Active
-----------------------------------------------------------------------------
(* The inductive invariant.  TypeOK alone is not inductive: Send reads the *)
(* registry entries of the snapshot.  PublishedIsCurrent alone is not: it  *)
(* says nothing while a publication is under way.                          *)

\* Only between TakeSnapshot and the send is there a snapshot, and every
\* instance in it is still registered: garbage collection runs elsewhere.
SnapshotIsKnown ==
  /\ snapshot \subseteq Known
  /\ pc # "send" => snapshot = {}

\* The flag stays set from the moment it is read until it is cleared.
FlagCoversFlush == pc \in {"snapshot", "send", "clear"} => pending

\* Unless a request is about to be made or has slipped, what is about to be sent,
\* what has just been sent and, with no request pending, what was sent last is
\* the view of the active instances.
FlushIsCurrent ==
  ~slipped /\ recv = "idle" =>
    /\ pc = "send" => snapshot = Active
    /\ pc = "clear" \/ ~pending => published = View

IInv == TypeOK /\ SnapshotIsKnown /\ FlagCoversFlush /\ FlushIsCurrent

LEMMA InitIInv == ASSUME Init PROVE IInv
<1>1. TypeOK
  BY InitTypeOK
<1>2. Known = {} /\ Active = {}
  BY EmptyFunction DEF Init, Known, Active
<1>3. View = <<>>
  <2>1. <<>> \in [DOMAIN <<>> -> {"UP"}] /\ DOMAIN <<>> = {}
    BY EmptyFunction
  <2>2. <<>> = [i \in {} |-> "UP"]
    BY <2>1
  <2>. QED
    BY <1>2, <2>2 DEF View
<1>. QED
  BY <1>1, <1>2, <1>3 DEF Init, IInv, SnapshotIsKnown, FlagCoversFlush, FlushIsCurrent

LEMMA NextIInv == ASSUME IInv, [Next]_vars PROVE IInv'
<1>. USE DEF IInv, SnapshotIsKnown, FlagCoversFlush, FlushIsCurrent
<1>1. ASSUME NEW i \in Instances, StageClient(i)
      PROVE  IInv'
  <2>1. UNCHANGED <<registry, recv, periodicVars, pending, slipped>>
    BY <1>1 DEF StageClient, Start, Heartbeat, UpdateInfo, Close, Crash, StopWith
  <2>2. ClientTypes'
    BY <1>1, StageClientTypes
  <2>. QED
    BY <2>1, <2>2 DEF TypeOK, ClientTypes, periodicVars, Known, Active, View
<1>2. CASE Tick
  <2>1. registry' \in [Known' -> Info] /\ Known' = Known /\ Active' = Active
    BY <1>2, TickEffect
  <2>. QED
    BY <1>2, <2>1 DEF Tick, TypeOK, clientVars, periodicVars, Info, View
<1>3. ASSUME NEW c \in Connections, HandleEvent(c)
      PROVE  IInv'
  <2>1. /\ net' \in [Connections -> Seq(Event)]
        /\ registry' \in [Known' -> Info] /\ Known' \subseteq Instances
        /\ recv' \in {"idle", "schedule"}
        /\ Known \subseteq Known'
        /\ recv' = "idle" => Active' = Active
    BY <1>3, HandleEventEffect
  <2>2. recv = "idle" /\ UNCHANGED <<client, starts, periodicVars, pending, slipped>>
    BY <1>3 DEF HandleEvent
  <2>. QED
    BY <2>1, <2>2 DEF TypeOK, periodicVars, Info, View
<1>4. CASE ScheduleBroadcast
  <2>1. UNCHANGED <<clientVars, registry, periodicVars>>
    BY <1>4 DEF ScheduleBroadcast
  <2>2. TypeOK'
    BY <1>4, <2>1 DEF ScheduleBroadcast, TypeOK, clientVars, periodicVars, Known
  <2>. QED
    BY <1>4, <2>1, <2>2 DEF ScheduleBroadcast, periodicVars, Known, TypeOK
<1>5. CASE CheckTimeouts
  <2>1. /\ registry' \in [Known' -> Info] /\ Known' \subseteq Instances
        /\ TimedOut = {} => Active' = Active
    BY <1>5, CheckTimeoutsEffect
  <2>2. snapshot = {} /\ pc = "top" /\ pc' = "pending"
        /\ pending' = (pending \/ TimedOut # {})
        /\ UNCHANGED <<clientVars, recv, snapshot, published, slipped>>
    BY <1>5 DEF CheckTimeouts
  <2>. QED
    BY <2>1, <2>2 DEF TypeOK, clientVars, Info, View
<1>6. CASE CheckNotDue
  BY <1>6 DEF CheckNotDue, TypeOK, clientVars, Known, Active, View
<1>7. CASE ReadPending
  BY <1>7 DEF ReadPending, TypeOK, clientVars, Known, Active, View
<1>8. CASE TakeSnapshot
  BY <1>8 DEF TakeSnapshot, TypeOK, clientVars, Known, Active, View
<1>9. CASE Send
  <2>1. /\ pc = "send" /\ pc' = "clear" /\ snapshot' = {}
        /\ published' = [i \in snapshot |-> registry[i].status]
        /\ UNCHANGED <<clientVars, registry, recv, pending, slipped>>
    BY <1>9 DEF Send
  <2>2. \A i \in snapshot : registry[i].status \in StageStatus
    BY DEF TypeOK
  <2>3. snapshot = Active => published' = View
    BY <2>1 DEF Active, View
  <2>. QED
    BY <2>1, <2>2, <2>3 DEF TypeOK, clientVars, Known, Active, View
<1>10. CASE SendFails
  BY <1>10 DEF SendFails, TypeOK, clientVars, Known, Active, View
<1>11. CASE ClearPending
  BY <1>11 DEF ClearPending, TypeOK, clientVars, Known, Active, View
<1>12. CASE UNCHANGED vars
  BY <1>12 DEF vars, clientVars, periodicVars, TypeOK, Known, Active, View
<1>. QED
  BY <1>1, <1>2, <1>3, <1>4, <1>5, <1>6, <1>7, <1>8, <1>9, <1>10, <1>11, <1>12
  DEF Next, Receive, Check, Flush

\* The inductive invariant holds of every reachable state.
THEOREM Invariance == Spec => []IInv
<1>1. Init => IInv
  BY InitIInv
<1>2. IInv /\ [Next]_vars => IInv'
  BY NextIInv
<1>. QED
  BY <1>1, <1>2, PTL DEF Spec

\* Type correctness of the registry, the connections and the published list,
\* for any instances, timeouts and bounds.
THEOREM TypeCorrect == Spec => []TypeOK
<1>1. IInv => TypeOK
  BY DEF IInv
<1>. QED
  BY <1>1, Invariance, PTL

\* However many instances register, beat, time out, are collected and stop, the
\* list last published is the current one whenever no broadcast is pending and
\* none has slipped between a snapshot and the clearing of the flag.
THEOREM PublishedCurrent == Spec => []PublishedIsCurrent
<1>1. IInv => PublishedIsCurrent
  BY DEF IInv, FlushIsCurrent, PublishedIsCurrent
<1>. QED
  BY <1>1, Invariance, PTL
-----------------------------------------------------------------------------
(* The action property                                                     *)

\* No event of another instance, and no heartbeat, takes i out of DOWN.
LEMMA EventRevives ==
  ASSUME TypeOK, NEW c \in Connections, HandleEvent(c),
         NEW i \in Known, registry[i].status = "DOWN", registry'[i].status # "DOWN"
  PROVE  c[1] = i /\ net[c] # net'[c] /\ Head(net[c]).type = "update"
<1>1. net[c] \in Seq(Event) /\ net[c] # <<>> /\ net'[c] = Tail(net[c])
  BY DEF TypeOK, HandleEvent
<1>2. Len(Tail(net[c])) = Len(net[c]) - 1 /\ Len(net[c]) \in Nat
  BY <1>1, HeadTailProperties
<1>3. net[c] # net'[c]
  <2>1. ASSUME Tail(net[c]) = net[c] PROVE Len(net[c]) = Len(net[c]) - 1
    BY <1>2, <2>1, Zenon
  <2>2. Tail(net[c]) # net[c]
    <3>. DEFINE n == Len(net[c])
    <3>1. n \in Nat
      BY <1>2
    <3>. HIDE DEF n
    <3>2. n # n - 1
      BY <3>1
    <3>. QED
      BY <2>1, <3>2 DEF n
  <2>. QED
    BY <1>1, <2>2, Zenon
<1>4. Head(net[c]).type = "update" /\ HandleUpdate(c[1], Head(net[c]).status)
  <2>1. ~HandleHeartbeat(c[1])
    <3>1. CASE c[1] \in Known /\ c[1] # i
      BY <3>1 DEF HandleHeartbeat, Store, Put, Known
    <3>2. CASE c[1] = i
      <4>. DEFINE info == [status |-> IF registry[i].status = "ERROR" THEN "UP"
                                      ELSE registry[i].status,
                           age    |-> 0]
      <4>1. ASSUME HandleHeartbeat(i) PROVE registry'[i] = info
        BY <4>1 DEF HandleHeartbeat, Store, Put, Known
      <4>. QED
        BY <3>2, <4>1
    <3>3. CASE c[1] \notin Known
      BY <3>3 DEF HandleHeartbeat
    <3>. QED
      BY <3>1, <3>2, <3>3
  <2>. QED
    BY <2>1 DEF HandleEvent
<1>5. c[1] = i
  BY <1>4 DEF HandleUpdate, Store, Put, Known
<1>. QED
  BY <1>3, <1>4, <1>5

\* A closed instance comes back by an update of its own and by nothing else, for
\* any number of instances, connections and restarts.
THEOREM UpdatesReviveOnly == Spec => OnlyUpdatesRevive
<1>. DEFINE Revived(i) == registry[i].status = "DOWN" /\ registry'[i].status # "DOWN"
            A == \A i \in Known \cap Known' :
                   Revived(i) => \E c \in Connections :
                     c[1] = i /\ net[c] # net'[c] /\ Head(net[c]).type = "update"
<1>1. TypeOK /\ [Next]_vars => [A]_vars
  <2>. SUFFICES ASSUME TypeOK, Next, NEW i \in Known \cap Known', Revived(i)
                PROVE  \E c \in Connections :
                         c[1] = i /\ net[c] # net'[c] /\ Head(net[c]).type = "update"
    OBVIOUS
  <2>1. ~UNCHANGED registry
    OBVIOUS
  <2>2. ~Tick
    BY DEF Tick, TypeOK
  <2>3. ~CheckTimeouts
    <3>1. i \notin TimedOut
      BY DEF TimedOut
    <3>2. ASSUME CheckTimeouts PROVE registry'[i] = registry[i]
      BY <3>1, <3>2 DEF CheckTimeouts, Known
    <3>. QED
      BY <3>2
  <2>4. PICK c \in Connections : HandleEvent(c)
    BY <2>1, <2>2, <2>3
    DEF Next, Receive, Check, Flush, StageClient, Start, Heartbeat, UpdateInfo, Close, Crash,
        StopWith, ScheduleBroadcast, CheckNotDue, ReadPending, TakeSnapshot, Send, SendFails,
        ClearPending
  <2>. QED
    BY <2>4, EventRevives
<1>. QED
  BY <1>1, TypeCorrect, PTL DEF Spec, OnlyUpdatesRevive
=============================================================================
