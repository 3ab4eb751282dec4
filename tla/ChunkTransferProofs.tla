------------------------- MODULE ChunkTransferProofs -------------------------
(***************************************************************************)
(* Safety of the transfer of chunks for any requests, any number of chunks *)
(* and any max_num_seqs: the queues and the recv thread agree on who waits,*)
(* no batch is too large, and the model of the later stage is given the    *)
(* stream that was sent (ChunkStream).                                     *)
(***************************************************************************)
EXTENDS ChunkTransfer, ContainersProofs

Active == {"WAITING", "RUNNING", "PREEMPTED", Wfc}

\* The chunks of a request are numbered as they are made, and only the newest
\* one can be the last.
MadeInOrder ==
  \A r \in Requests :
    /\ Len(made[r]) <= MaxChunks
    /\ \A i \in 1..Len(made[r]) : made[r][i].n = i /\ (made[r][i].last => i = Len(made[r]))

\* The tasks of a request hold made chunks, in order.
TasksInOrder ==
  /\ \A i \in 1..Len(tasks) :
       LET c == tasks[i].chunk  m == made[tasks[i].req] IN c.n <= Len(m) /\ c = m[c.n]
  /\ \A i, j \in 1..Len(tasks) : i < j /\ tasks[i].req = tasks[j].req => tasks[i].chunk.n < tasks[j].chunk.n

\* So do the chunks sent, and what is queued comes after them.
SentInOrder ==
  /\ \A r \in Requests : \A i \in 1..Len(sent[r]) :
       LET c == sent[r][i] IN i <= c.n /\ c.n <= Len(made[r]) /\ c = made[r][c.n]
  /\ \A r \in Requests : \A i, j \in 1..Len(sent[r]) : i < j => sent[r][i].n < sent[r][j].n
  /\ \A k \in 1..Len(tasks) : \A i \in 1..Len(sent[tasks[k].req]) : sent[tasks[k].req][i].n < tasks[k].chunk.n

\* The chunks of a request are stored under their numbers in its stream; after
\* the last one the number is forgotten.
IsClosed(r) == \E i \in 1..Len(sent[r]) : sent[r][i].last
StoreIsStream ==
  /\ \A r \in Requests : putChunk[r] = IF IsClosed(r) THEN 0 ELSE Len(sent[r])
  /\ \A x \in store : x.key < Len(sent[x.req]) /\ x.chunk = sent[x.req][x.key + 1]

\* The recv thread knows the request it polls, and its chunk once it has it.
PollingIsWhole ==
  /\ polling.at = "idle" => polling.req = None
  /\ polling.at # "idle" => polling.req \in Requests
  /\ polling.at = "fill" => polling.chunk \in Chunks

\* Each request is in one queue at most, and once.
QueuesAreDisjoint ==
  /\ NoDuplicates(waiting) /\ NoDuplicates(running) /\ ToSet(waiting) \cap ToSet(running) = {}

\* Nothing knows a request before it is added.
NewIsUntouched ==
  \A r \in Requests : status[r] = "new" =>
    /\ r \notin requests \cup cancelled \cup loaded \cup ended \cup ready
    /\ r \notin ToSet(waiting) \cup ToSet(running) \cup ToSet(pending)
    /\ polling.req # r /\ getChunk[r] = 0 /\ played[r] = <<>> /\ prompt[r] = None

\* The scheduler has only active requests, and one that stopped is gone.
StoppedIsGone ==
  /\ \A r \in requests : status[r] \in Active
  /\ \A r \in Requests : status[r] = "FINISHED_STOPPED" => r \notin ToSet(waiting) \cup ToSet(running)

\* A request waits for a chunk exactly if it is polled, or loaded, or once on the
\* deque, where it will not be taken for a cancelled one, or dropped.
Fetching(r) == polling.req = r
WaitingIsFetched ==
  /\ cancelled \cap requests = {}
  /\ \A r \in requests :
       /\ \A i, j \in 1..Len(pending) : pending[i] = r /\ pending[j] = r => i = j
       /\ status[r] = Wfc <=> r \in ToSet(pending) \cup loaded \/ Fetching(r) \/ Dropped(r)
       /\ ~(r \in ToSet(pending) /\ r \in loaded) /\ ~(r \in ToSet(pending) \cup loaded /\ Fetching(r))
       /\ Dropped(r) => r \notin ToSet(pending) \cup loaded /\ ~Fetching(r)

\* The newest chunk read is not yet given to the model.
Unplayed(r) == r \in ready \cup loaded \/ (polling.at = "fill" /\ Fetching(r)) \/ Dropped(r)

\* The chunks of the stream are read in order, and each is played before the next
\* one is asked for.
ReadIsPlayed ==
  \A r \in requests :
    /\ getChunk[r] <= Len(sent[r]) /\ getChunk[r] = Len(played[r]) + (IF Unplayed(r) THEN 1 ELSE 0)
    /\ r \in ready => status[r] # Wfc
    /\ r \in ready \cup loaded => prompt[r] = sent[r][getChunk[r]]
    /\ polling.at = "fill" /\ Fetching(r) => polling.chunk = sent[r][getChunk[r]]
    /\ r \in ended => getChunk[r] > 0 /\ sent[r][getChunk[r]].last /\ (Unplayed(r) \/ r \in batch)

\* A request of the batch that was not aborted since runs and was given its chunk.
BatchIsPlayed ==
  \A r \in batch \cap requests : r \in ToSet(running) /\ status[r] # Wfc /\ r \notin ready /\ computed[r]

ChunkIInv ==
  /\ ChunkTypeOK /\ MadeInOrder /\ TasksInOrder /\ SentInOrder /\ StoreIsStream
  /\ PollingIsWhole /\ QueuesAreDisjoint /\ NewIsUntouched /\ StoppedIsGone
  /\ WaitingIsFetched /\ ReadIsPlayed /\ BatchIsPlayed /\ BatchFits
-----------------------------------------------------------------------------
(* Types, and what a step of one side leaves alone                         *)

Task == [req : Requests, chunk : Chunks]

\* The types of what the earlier stage keeps, one by one.
LEMMA SenderTypes ==
  ASSUME ChunkIInv
  PROVE  /\ MaxChunks \in Nat /\ tasks \in Seq(Task) /\ Len(tasks) \in Nat
         /\ made \in [Requests -> Seq(Chunks)] /\ sent \in [Requests -> Seq(Chunks)]
         /\ \A r \in Requests : /\ made[r] \in Seq(Chunks) /\ Len(made[r]) \in Nat
                                /\ sent[r] \in Seq(Chunks) /\ Len(sent[r]) \in Nat
         /\ \A k \in 1..Len(tasks) : /\ tasks[k] \in Task /\ tasks[k].req \in Requests
                                     /\ tasks[k].chunk \in Chunks /\ tasks[k].chunk.n \in 1..MaxChunks
         /\ \A r \in Requests : \A i \in 1..Len(made[r]) : made[r][i] \in Chunks /\ made[r][i].n \in 1..MaxChunks
         /\ \A r \in Requests : \A i \in 1..Len(sent[r]) : sent[r][i] \in Chunks /\ sent[r][i].n \in 1..MaxChunks
<1>1. /\ MaxChunks \in Nat /\ tasks \in Seq(Task)
      /\ made \in [Requests -> Seq(Chunks)] /\ sent \in [Requests -> Seq(Chunks)]
  BY ChunkAssumption DEF ChunkIInv, ChunkTypeOK, Task
<1>2. \A r \in Requests : made[r] \in Seq(Chunks) /\ sent[r] \in Seq(Chunks)
  BY <1>1
<1>3. Len(tasks) \in Nat /\ \A k \in 1..Len(tasks) : tasks[k] \in Task
  BY <1>1, ListElement
<1>4. \A r \in Requests : /\ Len(made[r]) \in Nat /\ \A i \in 1..Len(made[r]) : made[r][i] \in Chunks
                          /\ Len(sent[r]) \in Nat /\ \A i \in 1..Len(sent[r]) : sent[r][i] \in Chunks
  BY <1>2, ListElement
<1>5. \A c \in Chunks : c.n \in 1..MaxChunks
  BY DEF Chunks
<1>6. \A t \in Task : t.req \in Requests /\ t.chunk \in Chunks
  BY DEF Task
<1>. QED
  BY <1>1, <1>2, <1>3, <1>4, <1>5, <1>6

\* Whether a request was dropped is a matter of the last chunk read for it.
LEMMA DroppedStays ==
  ASSUME UNCHANGED <<legacy, prompt>>
  PROVE  \A r : Dropped(r)' = Dropped(r)
BY DEF Dropped, Empty, Codes, Marked

\* Where the stream only grows and the later stage does nothing, what holds of
\* the later stage still does.
LEMMA LaterStageKeeps ==
  ASSUME ChunkIInv,
         UNCHANGED <<legacy, requests, status, waiting, running, prompt, computed, batch, pending, polling>>,
         UNCHANGED <<cancelled, loaded, ended, getChunk, ready, played>>,
         \A r \in Requests : /\ Len(sent[r]) <= Len(sent'[r]) /\ Len(sent'[r]) \in Nat
                             /\ \A i \in 1..Len(sent[r]) : sent'[r][i] = sent[r][i]
  PROVE  /\ PollingIsWhole' /\ QueuesAreDisjoint' /\ NewIsUntouched' /\ StoppedIsGone'
         /\ WaitingIsFetched' /\ ReadIsPlayed' /\ BatchIsPlayed' /\ BatchFits'
<1>1. PollingIsWhole' /\ QueuesAreDisjoint'
  BY DEF ChunkIInv, PollingIsWhole, QueuesAreDisjoint, Chunks
<1>2. NewIsUntouched' /\ StoppedIsGone'
  BY DEF ChunkIInv, NewIsUntouched, StoppedIsGone
<1>6. \A r : Dropped(r)' = Dropped(r)
  BY DroppedStays
<1>3. WaitingIsFetched'
  BY <1>6 DEF ChunkIInv, WaitingIsFetched, Fetching
<1>4. ReadIsPlayed'
  <2>1. \A r : Unplayed(r)' = Unplayed(r) /\ Fetching(r)' = Fetching(r)
    BY <1>6 DEF Unplayed, Fetching
  <2>2. ASSUME NEW r \in requests
        PROVE  /\ r \in Requests /\ getChunk[r] \in Nat /\ Len(sent[r]) \in Nat
               /\ getChunk[r] <= Len(sent[r]) /\ (getChunk[r] > 0 => sent'[r][getChunk[r]] = sent[r][getChunk[r]])
    <3>1. r \in Requests /\ getChunk[r] \in Nat
      BY DEF ChunkIInv, ChunkTypeOK
    <3>2. Len(sent[r]) \in Nat /\ getChunk[r] <= Len(sent[r])
      BY <3>1, SenderTypes DEF ChunkIInv, ReadIsPlayed
    <3>. QED
      BY <3>1, <3>2
  <2>3. ASSUME NEW r \in requests, Unplayed(r) PROVE getChunk[r] > 0
    <3>1. getChunk[r] = Len(played[r]) + 1 /\ played[r] \in Seq(Chunks)
      BY <2>2, <2>3 DEF ChunkIInv, ReadIsPlayed, ChunkTypeOK
    <3>. QED
      BY <2>2, <3>1
  <2>4. ASSUME NEW r \in requests
        PROVE  /\ getChunk[r] <= Len(sent'[r]) /\ getChunk[r] = Len(played[r]) + (IF Unplayed(r) THEN 1 ELSE 0)
               /\ r \in ready => status[r] # Wfc
               /\ r \in ready \cup loaded => prompt[r] = sent'[r][getChunk[r]]
               /\ polling.at = "fill" /\ Fetching(r) => polling.chunk = sent'[r][getChunk[r]]
               /\ r \in ended => /\ getChunk[r] > 0 /\ sent'[r][getChunk[r]].last
                                 /\ Unplayed(r) \/ r \in batch
    <3>1. /\ getChunk[r] = Len(played[r]) + (IF Unplayed(r) THEN 1 ELSE 0)
          /\ r \in ready => status[r] # Wfc
          /\ r \in ready \cup loaded => prompt[r] = sent[r][getChunk[r]]
          /\ polling.at = "fill" /\ Fetching(r) => polling.chunk = sent[r][getChunk[r]]
          /\ r \in ended => /\ getChunk[r] > 0 /\ sent[r][getChunk[r]].last
                            /\ Unplayed(r) \/ r \in batch
      BY DEF ChunkIInv, ReadIsPlayed
    <3>2. getChunk[r] <= Len(sent'[r])
      BY <2>2
    <3>3. r \in ready \cup loaded => Unplayed(r)
      BY DEF Unplayed
    <3>4. polling.at = "fill" /\ Fetching(r) => Unplayed(r)
      BY DEF Unplayed
    <3>5. Unplayed(r) \/ r \in ended => sent'[r][getChunk[r]] = sent[r][getChunk[r]]
      BY <2>2, <2>3, <3>1
    <3>. QED
      BY <3>1, <3>2, <3>3, <3>4, <3>5
  <2>. QED
    BY <2>1, <2>4 DEF ReadIsPlayed
<1>5. BatchIsPlayed' /\ BatchFits'
  BY DEF ChunkIInv, BatchIsPlayed, BatchFits
<1>. QED
  BY <1>1, <1>2, <1>3, <1>4, <1>5

\* Where the earlier stage does nothing and segments are only unlinked, what
\* holds of the earlier stage still does.
LEMMA EarlierStageKeeps ==
  ASSUME ChunkIInv, UNCHANGED <<made, tasks, putChunk, sent>>, store' \subseteq store
  PROVE  MadeInOrder' /\ TasksInOrder' /\ SentInOrder' /\ StoreIsStream'
<1>1. MadeInOrder' /\ TasksInOrder' /\ SentInOrder'
  BY DEF ChunkIInv, MadeInOrder, TasksInOrder, SentInOrder
<1>2. StoreIsStream'
  BY DEF ChunkIInv, StoreIsStream, IsClosed
<1>. QED
  BY <1>1, <1>2
-----------------------------------------------------------------------------
(* The earlier stage                                                       *)

\* A stream that is closed ends with its last chunk, and nothing is queued for it.
LEMMA ClosedIsDone ==
  ASSUME ChunkIInv, NEW r \in Requests
  PROVE  /\ Len(sent[r]) <= Len(made[r]) /\ Len(made[r]) <= MaxChunks
         /\ \A i \in 1..Len(sent[r]) : sent[r][i].last => i = Len(sent[r])
         /\ \A k \in 1..Len(tasks) : tasks[k].req = r => ~IsClosed(r) /\ Len(sent[r]) < tasks[k].chunk.n
<1>1. /\ Len(made[r]) \in Nat /\ Len(sent[r]) \in Nat /\ MaxChunks \in Nat
      /\ \A i \in 1..Len(sent[r]) : sent[r][i].n \in Nat
  BY SenderTypes
<1>2. \A i \in 1..Len(sent[r]) : sent[r][i] = made[r][sent[r][i].n]
  BY DEF ChunkIInv, SentInOrder
<1>3. \A i \in 1..Len(sent[r]) : i <= sent[r][i].n /\ sent[r][i].n <= Len(made[r])
  BY DEF ChunkIInv, SentInOrder
<1>4. Len(made[r]) <= MaxChunks /\ \A i \in 1..Len(made[r]) : made[r][i].last => i = Len(made[r])
  BY DEF ChunkIInv, MadeInOrder
<1>5. Len(sent[r]) <= Len(made[r])
  <2>1. CASE Len(sent[r]) = 0
    BY <1>1, <2>1
  <2>2. CASE Len(sent[r]) # 0
    <3> DEFINE k == Len(sent[r])  n == sent[r][k].n
    <3>1. k \in 1..Len(sent[r])
      BY <1>1, <2>2
    <3>2. k \in Nat /\ n \in Nat /\ k <= n /\ n <= Len(made[r])
      BY <1>1, <1>3, <3>1
    <3> HIDE DEF k, n
    <3>3. k <= Len(made[r])
      BY <1>1, <3>2
    <3>. QED
      BY <3>3 DEF k
  <2>. QED
    BY <2>1, <2>2
<1>6. ASSUME NEW i \in 1..Len(sent[r]), sent[r][i].last PROVE sent[r][i].n = Len(made[r])
  <2> DEFINE n == sent[r][i].n
  <2>1. n \in Nat /\ i <= n /\ n <= Len(made[r]) /\ sent[r][i] = made[r][n]
    BY <1>1, <1>2, <1>3
  <2>2. made[r][n].last
    BY <1>6, <2>1
  <2> HIDE DEF n
  <2>3. n \in 1..Len(made[r])
    BY <1>1, <2>1
  <2>4. n = Len(made[r])
    BY <1>4, <2>2, <2>3
  <2>. QED
    BY <2>4 DEF n
<1>7. ASSUME NEW i \in 1..Len(sent[r]), sent[r][i].last PROVE i = Len(sent[r])
  <2>1. CASE i < Len(sent[r])
    <3>1. sent[r][i].n < sent[r][Len(sent[r])].n
      BY <1>1, <2>1 DEF ChunkIInv, SentInOrder
    <3>. QED
      BY <1>1, <1>3, <1>6, <1>7, <3>1
  <2>. QED
    BY <1>1, <2>1
<1>8. ASSUME NEW k \in 1..Len(tasks), tasks[k].req = r
      PROVE  ~IsClosed(r) /\ Len(sent[r]) < tasks[k].chunk.n
  <2>1. tasks[k].chunk.n \in 1..MaxChunks
    BY SenderTypes
  <2>2. tasks[k].chunk.n <= Len(made[r])
    BY <1>8 DEF ChunkIInv, TasksInOrder
  <2>3. \A i \in 1..Len(sent[r]) : sent[r][i].n < tasks[k].chunk.n
    BY <1>8 DEF ChunkIInv, SentInOrder
  <2>4. ~IsClosed(r)
    BY <1>1, <1>6, <2>1, <2>2, <2>3 DEF IsClosed
  <2>5. Len(sent[r]) < tasks[k].chunk.n
    BY <1>1, <1>3, <2>1, <2>3
  <2>. QED
    BY <2>4, <2>5
<1>. QED
  BY <1>4, <1>5, <1>7, <1>8

LEMMA SaveAsyncIInv ==
  ASSUME ChunkIInv, NEW r \in Requests, NEW c \in Chunks, SaveAsync(r, c)
  PROVE  ChunkIInv'
<1> DEFINE t == [req |-> r, chunk |-> c]
<1>1. /\ UNCHANGED <<legacy, putChunk, sent, store, requests, waiting, running, status, batch, played, prompt, computed>>
      /\ UNCHANGED <<pending, polling, cancelled, loaded, ended, getChunk, ready, origin>>
      /\ made' = [made EXCEPT ![r] = Append(made[r], c)] /\ tasks' = Append(tasks, t)
      /\ Len(made[r]) < MaxChunks /\ (\A i \in DOMAIN made[r] : ~made[r][i].last) /\ c.n = Len(made[r]) + 1
  BY DEF SaveAsync, engine, queues, adapter
<1>2. /\ made \in [Requests -> Seq(Chunks)] /\ made[r] \in Seq(Chunks) /\ tasks \in Seq(Task) /\ t \in Task
      /\ sent \in [Requests -> Seq(Chunks)] /\ MaxChunks \in Nat
  <2>1. t \in Task
    BY DEF Task
  <2>. QED
    BY <2>1, SenderTypes
<1> DEFINE m == Append(made[r], c)
<1>3. /\ m \in Seq(Chunks) /\ Len(m) = Len(made[r]) + 1 /\ m[Len(m)] = c
      /\ \A i \in 1..Len(made[r]) : m[i] = made[r][i]
  BY <1>2
<1>4. /\ made' \in [Requests -> Seq(Chunks)] /\ made'[r] = m
      /\ \A q \in Requests \ {r} : made'[q] = made[q]
  BY <1>1, <1>2, <1>3
<1> HIDE DEF m, t
<1>5. /\ tasks' \in Seq(Task) /\ Len(tasks') = Len(tasks) + 1 /\ tasks'[Len(tasks')] = t
      /\ \A k \in 1..Len(tasks) : tasks'[k] = tasks[k]
  BY <1>1, <1>2
<1>6. t.req = r /\ t.chunk = c
  BY DEF t
<1>7. Len(made[r]) \in Nat /\ DOMAIN made[r] = 1..Len(made[r]) /\ Len(tasks) \in Nat
  BY <1>2
<1>8. \A k \in 1..Len(tasks') : k \in 1..Len(tasks) \/ k = Len(tasks')
  BY <1>5, <1>7
<1>9. ASSUME NEW k \in 1..Len(tasks)
      PROVE  /\ tasks[k].req \in Requests /\ tasks[k].chunk.n \in 1..Len(made[tasks[k].req])
             /\ tasks[k].chunk = made[tasks[k].req][tasks[k].chunk.n]
  <2>1. tasks[k].req \in Requests /\ tasks[k].chunk.n \in 1..MaxChunks /\ Len(made[tasks[k].req]) \in Nat
    BY SenderTypes
  <2>. QED
    BY <1>2, <2>1 DEF ChunkIInv, TasksInOrder
<1>10. ASSUME NEW q \in Requests, NEW i \in 1..Len(sent[q])
       PROVE  sent[q][i].n \in 1..Len(made[q]) /\ i <= sent[q][i].n /\ sent[q][i] = made[q][sent[q][i].n]
  <2>1. sent[q][i].n \in 1..MaxChunks /\ Len(made[q]) \in Nat
    BY SenderTypes
  <2>. QED
    BY <1>2, <2>1 DEF ChunkIInv, SentInOrder
<1>11. \A q \in Requests : \A n \in 1..Len(made[q]) : n \in 1..Len(made'[q]) /\ made'[q][n] = made[q][n]
  BY <1>3, <1>4, <1>7
<1>12. ChunkTypeOK'
  BY <1>1, <1>4, <1>5 DEF ChunkIInv, ChunkTypeOK, Task, Chunks
<1>13. MadeInOrder'
  <2>1. ASSUME NEW q \in Requests
        PROVE  /\ Len(made'[q]) <= MaxChunks
               /\ \A i \in 1..Len(made'[q]) : made'[q][i].n = i /\ (made'[q][i].last => i = Len(made'[q]))
    <3>1. CASE q = r
      BY <1>1, <1>2, <1>3, <1>4, <1>7, <3>1 DEF ChunkIInv, MadeInOrder
    <3>2. CASE q # r
      BY <1>4, <3>2 DEF ChunkIInv, MadeInOrder
    <3>. QED
      BY <3>1, <3>2
  <2>. QED
    BY <2>1 DEF MadeInOrder
<1>14. c.n = Len(made'[r]) /\ c = made'[r][c.n]
  BY <1>1, <1>3, <1>4
<1>15. TasksInOrder'
  <2>1. ASSUME NEW k \in 1..Len(tasks')
        PROVE  /\ tasks'[k].chunk.n <= Len(made'[tasks'[k].req])
               /\ tasks'[k].chunk = made'[tasks'[k].req][tasks'[k].chunk.n]
    <3>1. CASE k \in 1..Len(tasks)
      <4>1. tasks[k].chunk.n \in 1..Len(made'[tasks[k].req])
        BY <1>9, <1>11, <3>1
      <4>2. tasks[k].chunk = made'[tasks[k].req][tasks[k].chunk.n] /\ Len(made'[tasks[k].req]) \in Nat
        BY <1>4, <1>9, <1>11, <3>1
      <4>3. tasks'[k] = tasks[k]
        BY <1>5, <3>1
      <4>. QED
        BY <4>1, <4>2, <4>3
    <3>2. CASE k = Len(tasks')
      BY <1>5, <1>6, <1>3, <1>4, <1>14, <3>2
    <3>. QED
      BY <1>8, <3>1, <3>2
  <2>2. ASSUME NEW i \in 1..Len(tasks'), NEW j \in 1..Len(tasks'), i < j, tasks'[i].req = tasks'[j].req
        PROVE  tasks'[i].chunk.n < tasks'[j].chunk.n
    <3>1. CASE j \in 1..Len(tasks)
      BY <1>5, <1>7, <2>2, <3>1 DEF ChunkIInv, TasksInOrder
    <3>2. CASE j = Len(tasks')
      <4>1. i \in 1..Len(tasks)
        BY <1>5, <1>7, <2>2, <3>2
      <4>2. tasks[i].req = r /\ tasks'[j].chunk = c /\ tasks'[i] = tasks[i]
        BY <1>5, <1>6, <2>2, <3>2, <4>1
      <4>3. tasks[i].chunk.n \in 1..Len(made[r])
        BY <1>9, <4>1, <4>2
      <4>. QED
        BY <1>1, <1>7, <4>2, <4>3
    <3>. QED
      BY <1>8, <3>1, <3>2
  <2>. QED
    BY <2>1, <2>2 DEF TasksInOrder
<1>16. SentInOrder'
  <2>1. ASSUME NEW q \in Requests, NEW i \in 1..Len(sent[q])
        PROVE  i <= sent[q][i].n /\ sent[q][i].n <= Len(made'[q]) /\ sent[q][i] = made'[q][sent[q][i].n]
    <3>1. sent[q][i].n \in 1..Len(made'[q]) /\ Len(made'[q]) \in Nat
      BY <1>4, <1>10, <1>11
    <3>. QED
      BY <1>10, <1>11, <3>1
  <2>2. ASSUME NEW k \in 1..Len(tasks'), NEW i \in 1..Len(sent[tasks'[k].req])
        PROVE  sent[tasks'[k].req][i].n < tasks'[k].chunk.n
    <3>1. CASE k \in 1..Len(tasks)
      BY <1>5, <2>2, <3>1 DEF ChunkIInv, SentInOrder
    <3>2. CASE k = Len(tasks')
      <4>1. tasks'[k].req = r /\ tasks'[k].chunk = c
        BY <1>5, <1>6, <3>2
      <4>2. sent[r][i].n \in 1..Len(made[r])
        BY <1>10, <2>2, <4>1
      <4>. QED
        BY <1>1, <1>7, <4>1, <4>2
    <3>. QED
      BY <1>8, <3>1, <3>2
  <2>3. \A q \in Requests : \A i, j \in 1..Len(sent[q]) : i < j => sent[q][i].n < sent[q][j].n
    BY DEF ChunkIInv, SentInOrder
  <2>. QED
    BY <1>1, <2>1, <2>2, <2>3 DEF SentInOrder
<1>17. StoreIsStream'
  BY <1>1 DEF ChunkIInv, StoreIsStream, IsClosed
<1>18. /\ PollingIsWhole' /\ QueuesAreDisjoint' /\ NewIsUntouched' /\ StoppedIsGone'
       /\ WaitingIsFetched' /\ ReadIsPlayed' /\ BatchIsPlayed' /\ BatchFits'
  BY <1>1, SenderTypes, LaterStageKeeps
<1>. QED
  BY <1>12, <1>13, <1>15, <1>16, <1>17, <1>18 DEF ChunkIInv

\* What is left to send once the first task is taken is in order.
LEMMA TailInOrder ==
  ASSUME ChunkIInv, tasks # <<>>, tasks' = Tail(tasks), UNCHANGED made
  PROVE  /\ TasksInOrder' /\ tasks' \in Seq(Task) /\ 1 \in 1..Len(tasks) /\ Head(tasks) = tasks[1]
         /\ \A k \in 1..Len(tasks') : k + 1 \in 1..Len(tasks) /\ tasks'[k] = tasks[k + 1]
<1>1. tasks \in Seq(Task)
  BY SenderTypes
<1>2. /\ Len(tasks) \in Nat \ {0} /\ Head(tasks) = tasks[1]
      /\ Tail(tasks) \in Seq(Task) /\ Len(Tail(tasks)) = Len(tasks) - 1
      /\ \A k \in 1..Len(Tail(tasks)) : k + 1 \in 1..Len(tasks) /\ Tail(tasks)[k] = tasks[k + 1]
  BY <1>1, ListHeadTail
<1>3. \A k \in 1..Len(tasks') : k + 1 \in 1..Len(tasks) /\ tasks'[k] = tasks[k + 1]
  BY <1>2
<1>4. ASSUME NEW k \in 1..Len(tasks')
      PROVE  /\ tasks'[k].chunk.n <= Len(made'[tasks'[k].req])
             /\ tasks'[k].chunk = made'[tasks'[k].req][tasks'[k].chunk.n]
  <2>1. k + 1 \in 1..Len(tasks) /\ tasks'[k] = tasks[k + 1]
    BY <1>3
  <2>2. /\ tasks[k + 1].chunk.n <= Len(made[tasks[k + 1].req])
        /\ tasks[k + 1].chunk = made[tasks[k + 1].req][tasks[k + 1].chunk.n]
    BY <2>1 DEF ChunkIInv, TasksInOrder
  <2>. QED
    BY <2>1, <2>2
<1>5. ASSUME NEW i \in 1..Len(tasks'), NEW j \in 1..Len(tasks'), i < j, tasks'[i].req = tasks'[j].req
      PROVE  tasks'[i].chunk.n < tasks'[j].chunk.n
  <2>1. i + 1 \in 1..Len(tasks) /\ tasks'[i] = tasks[i + 1] /\ j + 1 \in 1..Len(tasks) /\ tasks'[j] = tasks[j + 1]
    BY <1>3
  <2>2. i + 1 < j + 1
    BY <1>5
  <2>3. tasks[i + 1].chunk.n < tasks[j + 1].chunk.n
    BY <1>5, <2>1, <2>2 DEF ChunkIInv, TasksInOrder
  <2>. QED
    BY <2>1, <2>3
<1>6. TasksInOrder'
  BY <1>4, <1>5 DEF TasksInOrder
<1>. QED
  BY <1>2, <1>3, <1>6

LEMMA SendSingleRequestIInv ==
  ASSUME ChunkIInv, SendSingleRequest
  PROVE  ChunkIInv'
<1> DEFINE r == tasks[1].req
           c == tasks[1].chunk
           s == Append(sent[r], c)
           n == Len(sent[r])
           new == [req |-> r, key |-> putChunk[r], chunk |-> c]
<1>1. /\ UNCHANGED <<legacy, made, requests, waiting, running, status, batch, played, prompt, computed>>
      /\ UNCHANGED <<pending, polling, cancelled, loaded, ended, getChunk, ready, origin>>
      /\ tasks # <<>> /\ tasks' = Tail(tasks)
  BY DEF SendSingleRequest, engine, queues, adapter
<1>2. /\ TasksInOrder' /\ tasks' \in Seq(Task) /\ 1 \in 1..Len(tasks) /\ Head(tasks) = tasks[1]
      /\ \A k \in 1..Len(tasks') : k + 1 \in 1..Len(tasks) /\ tasks'[k] = tasks[k + 1]
  BY <1>1, TailInOrder
<1>3. /\ r \in Requests /\ c \in Chunks /\ c.n \in 1..MaxChunks /\ MaxChunks \in Nat
      /\ sent \in [Requests -> Seq(Chunks)] /\ sent[r] \in Seq(Chunks) /\ n \in Nat
      /\ \A q \in Requests : Len(sent[q]) \in Nat /\ Len(made[q]) \in Nat
  BY <1>2, SenderTypes
<1>4. ~IsClosed(r) /\ n < c.n /\ putChunk[r] = n
  <2>1. ~IsClosed(r) /\ n < c.n
    BY <1>2, <1>3, ClosedIsDone
  <2>. QED
    BY <1>3, <2>1 DEF ChunkIInv, StoreIsStream
<1>5. c.n <= Len(made[r]) /\ c = made[r][c.n] /\ \A i \in 1..n : sent[r][i].n < c.n
  BY <1>2 DEF ChunkIInv, TasksInOrder, SentInOrder
<1>6. /\ s \in Seq(Chunks) /\ Len(s) = n + 1 /\ s[n + 1] = c
      /\ \A i \in 1..n : s[i] = sent[r][i]
  BY <1>3
<1>7. MadeInOrder'
  BY <1>1 DEF ChunkIInv, MadeInOrder
<1>8. CASE UNCHANGED <<putChunk, sent, store>>
  <2>1. SentInOrder'
    <3>1. \A k \in 1..Len(tasks') : \A i \in 1..Len(sent[tasks'[k].req]) : sent[tasks'[k].req][i].n < tasks'[k].chunk.n
      BY <1>2 DEF ChunkIInv, SentInOrder
    <3>. QED
      BY <1>1, <1>8, <3>1 DEF ChunkIInv, SentInOrder
  <2>2. StoreIsStream'
    BY <1>8 DEF ChunkIInv, StoreIsStream, IsClosed
  <2>3. /\ PollingIsWhole' /\ QueuesAreDisjoint' /\ NewIsUntouched' /\ StoppedIsGone'
        /\ WaitingIsFetched' /\ ReadIsPlayed' /\ BatchIsPlayed' /\ BatchFits'
    BY <1>1, <1>3, <1>8, LaterStageKeeps
  <2>4. ChunkTypeOK'
    BY <1>1, <1>2, <1>8 DEF ChunkIInv, ChunkTypeOK, Task, Chunks
  <2>. QED
    BY <1>2, <1>7, <2>1, <2>2, <2>3, <2>4 DEF ChunkIInv
<1>9. CASE /\ store' = {x \in store : x.req # r \/ x.key # putChunk[r]} \cup {new}
           /\ sent' = [sent EXCEPT ![r] = s]
           /\ putChunk' = [putChunk EXCEPT ![r] = IF c.last THEN 0 ELSE putChunk[r] + 1]
  <2>1. /\ sent' \in [Requests -> Seq(Chunks)] /\ sent'[r] = s
        /\ \A q \in Requests \ {r} : sent'[q] = sent[q]
    BY <1>3, <1>6, <1>9
  <2>2. \A q \in Requests : /\ Len(sent[q]) <= Len(sent'[q]) /\ Len(sent'[q]) \in Nat
                            /\ \A i \in 1..Len(sent[q]) : sent'[q][i] = sent[q][i]
    <3>1. ASSUME NEW q \in Requests
          PROVE  /\ Len(sent[q]) <= Len(sent'[q]) /\ Len(sent'[q]) \in Nat
                 /\ \A i \in 1..Len(sent[q]) : sent'[q][i] = sent[q][i]
      <4>1. CASE q = r
        BY <1>3, <1>6, <2>1, <4>1
      <4>2. CASE q # r
        BY <1>3, <2>1, <4>2
      <4>. QED
        BY <4>1, <4>2
    <3>. QED
      BY <3>1
  <2> HIDE DEF r, c, s, new
  <2>3. /\ PollingIsWhole' /\ QueuesAreDisjoint' /\ NewIsUntouched' /\ StoppedIsGone'
        /\ WaitingIsFetched' /\ ReadIsPlayed' /\ BatchIsPlayed' /\ BatchFits'
    BY <1>1, <2>2, LaterStageKeeps
  <2>4. \A i \in 1..Len(s) : i \in 1..n \/ i = n + 1
    BY <1>3, <1>6
  <2>5. SentInOrder'
    <3>1. ASSUME NEW q \in Requests, NEW i \in 1..Len(sent'[q])
          PROVE  i <= sent'[q][i].n /\ sent'[q][i].n <= Len(made[q]) /\ sent'[q][i] = made[q][sent'[q][i].n]
      <4>1. CASE i \in 1..Len(sent[q])
        <5>1. i <= sent[q][i].n /\ sent[q][i].n <= Len(made[q]) /\ sent[q][i] = made[q][sent[q][i].n]
          BY <4>1 DEF ChunkIInv, SentInOrder
        <5>. QED
          BY <2>2, <4>1, <5>1
      <4>2. CASE q = r /\ i = n + 1
        BY <1>3, <1>4, <1>5, <1>6, <2>1, <4>2
      <4>. QED
        BY <2>1, <2>4, <3>1, <4>1, <4>2 DEF n
    <3>2. ASSUME NEW q \in Requests, NEW i \in 1..Len(sent'[q]), NEW j \in 1..Len(sent'[q]), i < j
          PROVE  sent'[q][i].n < sent'[q][j].n
      <4>1. CASE j \in 1..Len(sent[q])
        <5>1. i \in 1..Len(sent[q])
          BY <1>3, <3>2, <4>1
        <5>2. sent[q][i].n < sent[q][j].n
          BY <3>2, <4>1, <5>1 DEF ChunkIInv, SentInOrder
        <5>. QED
          BY <2>2, <4>1, <5>1, <5>2
      <4>2. CASE q = r /\ j = n + 1
        <5>1. i \in 1..n
          BY <1>3, <3>2, <4>2
        <5>. QED
          BY <1>5, <1>6, <2>1, <4>2, <5>1
      <4>. QED
        BY <2>1, <2>4, <3>2, <4>1, <4>2 DEF n
    <3>3. ASSUME NEW k \in 1..Len(tasks'), NEW i \in 1..Len(sent'[tasks'[k].req])
          PROVE  sent'[tasks'[k].req][i].n < tasks'[k].chunk.n
      <4> DEFINE q == tasks[k + 1].req
      <4>1. k + 1 \in 1..Len(tasks) /\ tasks'[k] = tasks[k + 1] /\ k \in 1..Len(tasks')
        BY <1>2
      <4>2. q \in Requests /\ tasks'[k].req = q
        BY <4>1, SenderTypes
      <4>3. CASE i \in 1..Len(sent[q])
        <5>1. sent[q][i].n < tasks[k + 1].chunk.n
          BY <4>1, <4>3 DEF ChunkIInv, SentInOrder
        <5>. QED
          BY <2>2, <4>1, <4>2, <4>3, <5>1
      <4>4. CASE q = r /\ i = n + 1
        <5>1. tasks[1].chunk.n < tasks[k + 1].chunk.n
          <6>1. 1 < k + 1 /\ tasks[1].req = tasks[k + 1].req
            BY <4>1, <4>4 DEF r
          <6>. QED
            BY <1>2, <4>1, <6>1 DEF ChunkIInv, TasksInOrder
        <5>2. sent'[q][i] = c
          BY <1>6, <2>1, <4>4
        <5>. QED
          BY <4>1, <4>2, <5>1, <5>2 DEF c
      <4>. QED
        BY <2>1, <2>4, <3>3, <4>2, <4>3, <4>4 DEF n
    <3>. QED
      BY <1>1, <3>1, <3>2, <3>3 DEF SentInOrder
  <2>6. StoreIsStream'
    <3>1. ASSUME NEW q \in Requests
          PROVE  putChunk'[q] = IF \E i \in 1..Len(sent'[q]) : sent'[q][i].last THEN 0 ELSE Len(sent'[q])
      <4>1. CASE q = r
        <5>1. (\E i \in 1..Len(s) : s[i].last) <=> c.last
          <6>1. \A i \in 1..n : ~s[i].last
            BY <1>4, <1>6 DEF IsClosed, n
          <6>2. n + 1 \in 1..Len(s) /\ s[n + 1] = c
            BY <1>3, <1>6
          <6> HIDE DEF n
          <6>. QED
            BY <2>4, <6>1, <6>2
        <5>2. putChunk'[r] = IF c.last THEN 0 ELSE n + 1
          BY <1>3, <1>4, <1>9 DEF ChunkIInv, ChunkTypeOK
        <5>. QED
          BY <1>6, <2>1, <4>1, <5>1, <5>2
      <4>2. CASE q # r
        BY <1>9, <2>1, <4>2 DEF ChunkIInv, ChunkTypeOK, StoreIsStream, IsClosed
      <4>. QED
        BY <4>1, <4>2
    <3>2. ASSUME NEW x \in store' PROVE x.key < Len(sent'[x.req]) /\ x.chunk = sent'[x.req][x.key + 1]
      <4>1. CASE x = new
        <5>1. x.key = n /\ x.req = r /\ x.chunk = c
          BY <1>4, <4>1 DEF new
        <5>. QED
          BY <1>3, <1>6, <2>1, <5>1
      <4>2. CASE x \in store
        <5>1. x.key \in Nat /\ x.req \in Requests /\ x.key < Len(sent[x.req]) /\ x.chunk = sent[x.req][x.key + 1]
          BY <4>2 DEF ChunkIInv, ChunkTypeOK, StoreIsStream
        <5>2. x.key + 1 \in 1..Len(sent[x.req])
          BY <1>3, <5>1
        <5>. QED
          BY <1>3, <2>2, <5>1, <5>2
      <4>. QED
        BY <1>9, <4>1, <4>2
    <3>. QED
      BY <3>1, <3>2 DEF StoreIsStream, IsClosed
  <2>7. ChunkTypeOK'
    <3>1. n + 1 \in 0..MaxChunks /\ n \in 0..MaxChunks
      BY <1>3, <1>4
    <3>2. putChunk' \in [Requests -> 0..MaxChunks]
      BY <1>3, <1>4, <1>9, <3>1 DEF ChunkIInv, ChunkTypeOK
    <3>3. store' \subseteq [req : Requests, key : 0..MaxChunks, chunk : Chunks]
      <4>1. new \in [req : Requests, key : 0..MaxChunks, chunk : Chunks]
        BY <1>3, <1>4, <3>1 DEF new
      <4>2. store \subseteq [req : Requests, key : 0..MaxChunks, chunk : Chunks]
        BY DEF ChunkIInv, ChunkTypeOK
      <4>. QED
        BY <1>9, <4>1, <4>2
    <3>. QED
      BY <1>1, <1>2, <2>1, <3>2, <3>3 DEF ChunkIInv, ChunkTypeOK, Task, Chunks
  <2>. QED
    BY <1>2, <1>7, <2>3, <2>5, <2>6, <2>7 DEF ChunkIInv
<1>. QED
  BY <1>2, <1>8, <1>9 DEF SendSingleRequest
-----------------------------------------------------------------------------
(* The recv thread                                                         *)

LEMMA TakePendingIInv ==
  ASSUME ChunkIInv, TakePending
  PROVE  ChunkIInv'
<1> DEFINE h == pending[1]
<1>1. /\ UNCHANGED <<legacy, made, tasks, putChunk, sent, store, requests, waiting, running, status, batch, played>>
      /\ UNCHANGED <<prompt, computed, loaded, ended, getChunk, ready, origin>>
      /\ polling.at = "idle" /\ pending # <<>> /\ pending' = Tail(pending)
  BY DEF TakePending, sender, engine, queues
<1>16. \A q : Dropped(q)' = Dropped(q)
  BY <1>1, DroppedStays
<1>2. /\ pending \in Seq(Requests) /\ polling.req = None /\ None \notin Requests /\ requests \subseteq Requests
      /\ cancelled \subseteq Requests
  BY <1>1, ChunkAssumption DEF ChunkIInv, ChunkTypeOK, PollingIsWhole
<1>3. /\ Len(pending) \in Nat \ {0} /\ Head(pending) = h /\ h \in Requests
      /\ pending' \in Seq(Requests) /\ Len(pending') = Len(pending) - 1
      /\ \A k \in 1..Len(pending') : k + 1 \in 1..Len(pending) /\ pending'[k] = pending[k + 1]
  BY <1>1, <1>2, ListHeadTail
<1>4. \/ h \in cancelled /\ cancelled' = cancelled \ {h} /\ polling' = polling
      \/ h \notin cancelled /\ cancelled' = cancelled /\ polling' = [Idle EXCEPT !.at = "get", !.req = h]
  BY <1>3 DEF TakePending
<1>5. polling' = [Idle EXCEPT !.at = "get", !.req = h] => polling' = [at |-> "get", req |-> h, chunk |-> None]
  BY DEF Idle
<1> HIDE DEF h
<1>6. ChunkTypeOK'
  <2>1. polling' \in [at : {"idle", "get", "fill"}, req : Requests \cup {None}, chunk : Chunks \cup {None}]
    <3>1. polling \in [at : {"idle", "get", "fill"}, req : Requests \cup {None}, chunk : Chunks \cup {None}]
      BY DEF ChunkIInv, ChunkTypeOK
    <3>2. CASE polling' = polling
      BY <3>1, <3>2
    <3>3. CASE polling' = [at |-> "get", req |-> h, chunk |-> None]
      BY <1>3, <3>3
    <3>. QED
      BY <1>4, <1>5, <3>2, <3>3
  <2>2. cancelled' \subseteq Requests
    BY <1>2, <1>4
  <2>. QED
    BY <1>1, <1>3, <2>1, <2>2 DEF ChunkIInv, ChunkTypeOK, Chunks
<1>7. MadeInOrder' /\ TasksInOrder' /\ SentInOrder' /\ StoreIsStream'
  BY <1>1, EarlierStageKeeps
<1>8. PollingIsWhole' /\ polling'.at # "fill"
  BY <1>1, <1>3, <1>4, <1>5 DEF ChunkIInv, PollingIsWhole
<1>9. QueuesAreDisjoint' /\ StoppedIsGone' /\ BatchFits' /\ BatchIsPlayed'
  BY <1>1 DEF ChunkIInv, QueuesAreDisjoint, StoppedIsGone, BatchFits, BatchIsPlayed
<1>10. ToSet(pending) = {pending[k] : k \in 1..Len(pending)} /\ ToSet(pending') = {pending'[k] : k \in 1..Len(pending')}
  BY <1>2, <1>3 DEF ToSet
<1>11. h \in ToSet(pending) /\ ToSet(pending') \subseteq ToSet(pending) /\ \A r \in ToSet(pending) : r = h \/ r \in ToSet(pending')
  <2>1. h \in ToSet(pending)
    BY <1>3, <1>10 DEF h
  <2>2. ToSet(pending') \subseteq ToSet(pending)
    BY <1>3, <1>10
  <2>3. ASSUME NEW r \in ToSet(pending), r # h PROVE r \in ToSet(pending')
    <3>1. PICK k \in 1..Len(pending) : pending[k] = r
      BY <1>10
    <3>2. k # 1
      BY <2>3, <3>1 DEF h
    <3>3. k - 1 \in 1..Len(pending') /\ k - 1 + 1 = k
      BY <1>3, <3>2
    <3>4. pending'[k - 1] = r
      BY <1>3, <3>1, <3>3
    <3>. QED
      BY <1>10, <3>3, <3>4
  <2>. QED
    BY <2>1, <2>2, <2>3
<1>12. NewIsUntouched'
  <2>1. ASSUME NEW r \in Requests, status[r] = "new"
        PROVE  r \notin cancelled' /\ r \notin ToSet(pending') /\ polling'.req # r
    <3>1. r \notin cancelled /\ r \notin ToSet(pending)
      BY <2>1 DEF ChunkIInv, NewIsUntouched
    <3>2. r # h
      BY <1>11, <3>1
    <3>. QED
      BY <1>2, <1>4, <1>5, <1>11, <3>1, <3>2
  <2>. QED
    BY <1>1, <2>1 DEF ChunkIInv, NewIsUntouched
<1>13. ASSUME NEW r \in requests
       PROVE  /\ \A i, j \in 1..Len(pending') : pending'[i] = r /\ pending'[j] = r => i = j
              /\ status[r] = Wfc <=> r \in ToSet(pending') \cup loaded \/ polling'.req = r \/ Dropped(r)
              /\ ~(r \in ToSet(pending') /\ r \in loaded) /\ ~(r \in ToSet(pending') \cup loaded /\ polling'.req = r)
              /\ Dropped(r) => r \notin ToSet(pending') \cup loaded /\ polling'.req # r
  <2>1. /\ r \in Requests /\ r \notin cancelled /\ polling.req # r
        /\ \A i, j \in 1..Len(pending) : pending[i] = r /\ pending[j] = r => i = j
        /\ status[r] = Wfc <=> r \in ToSet(pending) \cup loaded \/ Dropped(r)
        /\ ~(r \in ToSet(pending) /\ r \in loaded)
        /\ Dropped(r) => r \notin ToSet(pending) \cup loaded
    BY <1>2 DEF ChunkIInv, WaitingIsFetched, Fetching
  <2>2. ASSUME NEW i \in 1..Len(pending'), NEW j \in 1..Len(pending'), pending'[i] = r, pending'[j] = r
        PROVE  i = j
    <3>1. i + 1 = j + 1
      BY <1>3, <2>1, <2>2
    <3>. QED
      BY <3>1
  <2>3. CASE r = h
    <3>1. polling'.req = r
      BY <1>4, <1>5, <2>1, <2>3
    <3>2. r \notin ToSet(pending')
      <4>1. SUFFICES ASSUME NEW k \in 1..Len(pending'), pending'[k] = r PROVE FALSE
        BY <1>10
      <4>2. k + 1 \in 1..Len(pending) /\ pending[k + 1] = r /\ 1 \in 1..Len(pending) /\ pending[1] = r /\ k + 1 # 1
        BY <1>3, <2>3, <4>1 DEF h
      <4>. QED
        BY <2>1, <4>2
    <3>. QED
      BY <1>11, <2>1, <2>2, <2>3, <3>1, <3>2
  <2>4. CASE r # h
    <3>1. polling'.req # r
      BY <1>2, <1>4, <1>5, <2>1, <2>4
    <3>2. r \in ToSet(pending') <=> r \in ToSet(pending)
      BY <1>11, <2>4
    <3>. QED
      BY <2>1, <2>2, <3>1, <3>2
  <2>. QED
    BY <2>3, <2>4
<1>14. WaitingIsFetched'
  <2>1. cancelled' \cap requests = {}
    BY <1>4 DEF ChunkIInv, WaitingIsFetched
  <2>. QED
    BY <1>1, <1>13, <1>16, <2>1 DEF WaitingIsFetched, Fetching
<1>15. ReadIsPlayed'
  <2>1. \A r \in requests : (polling.at = "fill" /\ Fetching(r)) = (polling.at = "fill" /\ Fetching(r))'
    BY <1>1, <1>8
  <2>2. \A r \in requests : Unplayed(r)' = Unplayed(r)
    BY <1>1, <1>8, <1>16 DEF Unplayed
  <2>. QED
    BY <1>1, <1>8, <2>2 DEF ChunkIInv, ReadIsPlayed
<1>. QED
  BY <1>6, <1>7, <1>8, <1>9, <1>12, <1>14, <1>15 DEF ChunkIInv

LEMMA PollMissIInv ==
  ASSUME ChunkIInv, PollMiss
  PROVE  ChunkIInv'
<1> DEFINE r == polling.req
<1>1. /\ UNCHANGED <<legacy, made, tasks, putChunk, sent, store, requests, waiting, running, status, batch, played>>
      /\ UNCHANGED <<prompt, computed, cancelled, loaded, ended, getChunk, ready, origin>>
      /\ polling.at = "get" /\ pending' = Append(pending, r) /\ polling' = Idle
  BY DEF PollMiss, sender, engine, queues, adapter
<1>13. \A q : Dropped(q)' = Dropped(q)
  BY <1>1, DroppedStays
<1>2. pending \in Seq(Requests) /\ r \in Requests /\ None \notin Requests /\ requests \subseteq Requests
  BY <1>1, ChunkAssumption DEF ChunkIInv, ChunkTypeOK, PollingIsWhole
<1>3. /\ pending' \in Seq(Requests) /\ ToSet(pending') = ToSet(pending) \cup {r}
      /\ Len(pending) \in Nat /\ Len(pending') = Len(pending) + 1 /\ pending'[Len(pending')] = r
      /\ \A k \in 1..Len(pending) : pending'[k] = pending[k] /\ pending[k] \in ToSet(pending)
  <2>1. ToSet(Append(pending, r)) = ToSet(pending) \cup {r}
    BY <1>2, ListAppend
  <2>. QED
    BY <1>1, <1>2, <2>1 DEF ToSet
<1>4. polling' = [at |-> "idle", req |-> None, chunk |-> None]
  BY <1>1 DEF Idle
<1>5. ChunkTypeOK'
  <2>1. polling' \in [at : {"idle", "get", "fill"}, req : Requests \cup {None}, chunk : Chunks \cup {None}]
    BY <1>4
  <2>. QED
    BY <1>1, <1>3, <2>1 DEF ChunkIInv, ChunkTypeOK, Chunks
<1>6. MadeInOrder' /\ TasksInOrder' /\ SentInOrder' /\ StoreIsStream'
  BY <1>1, EarlierStageKeeps
<1>7. PollingIsWhole'
  BY <1>4 DEF PollingIsWhole
<1>8. QueuesAreDisjoint' /\ StoppedIsGone' /\ BatchFits' /\ BatchIsPlayed'
  BY <1>1 DEF ChunkIInv, QueuesAreDisjoint, StoppedIsGone, BatchFits, BatchIsPlayed
<1>9. NewIsUntouched'
  <2>1. ASSUME NEW q \in Requests, status[q] = "new" PROVE q \notin ToSet(pending') /\ polling'.req # q
    BY <1>2, <1>3, <1>4, <2>1 DEF ChunkIInv, NewIsUntouched
  <2>. QED
    BY <1>1, <2>1 DEF ChunkIInv, NewIsUntouched
<1>10. ASSUME NEW q \in requests
       PROVE  /\ \A i, j \in 1..Len(pending') : pending'[i] = q /\ pending'[j] = q => i = j
              /\ status[q] = Wfc <=> q \in ToSet(pending') \cup loaded \/ polling'.req = q \/ Dropped(q)
              /\ ~(q \in ToSet(pending') /\ q \in loaded) /\ ~(q \in ToSet(pending') \cup loaded /\ polling'.req = q)
              /\ Dropped(q) => q \notin ToSet(pending') \cup loaded /\ polling'.req # q
  <2>1. /\ q \in Requests
        /\ \A i, j \in 1..Len(pending) : pending[i] = q /\ pending[j] = q => i = j
        /\ status[q] = Wfc <=> q \in ToSet(pending) \cup loaded \/ r = q \/ Dropped(q)
        /\ ~(q \in ToSet(pending) /\ q \in loaded) /\ ~(q \in ToSet(pending) \cup loaded /\ r = q)
        /\ Dropped(q) => q \notin ToSet(pending) \cup loaded /\ r # q
    BY <1>2 DEF ChunkIInv, WaitingIsFetched, Fetching
  <2>2. polling'.req # q
    BY <1>2, <1>4, <2>1
  <2>3. ASSUME NEW i \in 1..Len(pending'), NEW j \in 1..Len(pending'), pending'[i] = q, pending'[j] = q
        PROVE  i = j
    <3>1. \A k \in 1..Len(pending') : k \in 1..Len(pending) \/ k = Len(pending')
      BY <1>3
    <3>2. CASE q = r
      <4>1. \A k \in 1..Len(pending) : pending'[k] # q
        BY <1>3, <2>1, <3>2
      <4>. QED
        BY <2>3, <3>1, <4>1
    <3>3. CASE q # r
      <4>1. i \in 1..Len(pending) /\ j \in 1..Len(pending)
        BY <1>3, <2>3, <3>1, <3>3
      <4>. QED
        BY <1>3, <2>1, <2>3, <4>1
    <3>. QED
      BY <3>2, <3>3
  <2>. QED
    BY <1>3, <2>1, <2>2, <2>3
<1>11. WaitingIsFetched'
  BY <1>1, <1>10, <1>13 DEF ChunkIInv, WaitingIsFetched, Fetching
<1>12. ReadIsPlayed'
  <2>1. \A q \in requests : Unplayed(q)' = Unplayed(q)
    BY <1>1, <1>4, <1>13 DEF Unplayed
  <2>2. polling.at # "fill" /\ polling'.at # "fill"
    BY <1>1, <1>4
  <2>. QED
    BY <1>1, <2>1, <2>2 DEF ChunkIInv, ReadIsPlayed
<1>. QED
  BY <1>5, <1>6, <1>7, <1>8, <1>9, <1>11, <1>12 DEF ChunkIInv

LEMMA PollHitIInv ==
  ASSUME ChunkIInv, PollHit
  PROVE  ChunkIInv'
<1>16. polling.req \in Requests
  BY DEF PollHit, ChunkIInv, PollingIsWhole
<1>17. PICK r \in Requests : r = polling.req
  BY <1>16
<1>1. PICK x \in store :
        /\ polling.at = "get" /\ x.req = r /\ x.key = getChunk[r]
        /\ store' = store \ {x}
        /\ getChunk' = [getChunk EXCEPT ![r] = @ + 1]
        /\ ended' = IF Marked(x.chunk) THEN ended \cup {r} ELSE ended
        /\ polling' = [polling EXCEPT !.at = "fill", !.chunk = x.chunk]
        /\ UNCHANGED <<sender, engine, prompt, computed, pending, cancelled, loaded, ready, origin>>
  BY <1>17 DEF PollHit
<1>2. /\ UNCHANGED <<legacy, made, tasks, putChunk, sent, requests, waiting, running, status, batch, played>>
      /\ UNCHANGED <<prompt, computed, pending, cancelled, loaded, ready, origin>>
  BY <1>1 DEF sender, engine, queues
<1>18. \A q : Dropped(q)' = Dropped(q)
  BY <1>2, DroppedStays
<1>3. /\ r \in Requests /\ requests \subseteq Requests /\ getChunk \in [Requests -> 0..MaxChunks] /\ MaxChunks \in Nat
      /\ x.chunk \in Chunks /\ Len(sent[r]) \in Nat /\ ended \subseteq Requests
  BY <1>1, SenderTypes DEF ChunkIInv, ChunkTypeOK
<1>4. x.key < Len(sent[r]) /\ x.chunk = sent[r][x.key + 1]
  BY <1>1 DEF ChunkIInv, StoreIsStream
<1> DEFINE g == getChunk[r] + 1
<1>5. g \in 1..Len(sent[r]) /\ g \in 1..MaxChunks /\ x.chunk = sent[r][g]
  <2>1. Len(sent[r]) <= Len(made[r]) /\ Len(made[r]) <= MaxChunks /\ Len(made[r]) \in Nat
    BY <1>3, ClosedIsDone, SenderTypes
  <2>. QED
    BY <1>1, <1>3, <1>4, <2>1
<1>6. getChunk' \in [Requests -> 0..MaxChunks] /\ getChunk'[r] = g /\ \A q \in Requests \ {r} : getChunk'[q] = getChunk[q]
  BY <1>1, <1>3, <1>5
<1>7. polling'.at = "fill" /\ polling'.req = r /\ polling'.chunk = x.chunk /\ polling' = [at |-> "fill", req |-> r, chunk |-> x.chunk]
  BY <1>1, <1>17 DEF ChunkIInv, ChunkTypeOK
<1>8. ended' \subseteq Requests /\ \A q \in Requests \ {r} : q \in ended' <=> q \in ended
  BY <1>1, <1>3
<1> HIDE DEF g
<1>9. ChunkTypeOK'
  <2>1. polling' \in [at : {"idle", "get", "fill"}, req : Requests \cup {None}, chunk : Chunks \cup {None}]
    BY <1>3, <1>7
  <2>2. store' \subseteq [req : Requests, key : 0..MaxChunks, chunk : Chunks]
    BY <1>1 DEF ChunkIInv, ChunkTypeOK
  <2>. QED
    BY <1>2, <1>6, <1>8, <2>1, <2>2 DEF ChunkIInv, ChunkTypeOK, Chunks
<1>10. MadeInOrder' /\ TasksInOrder' /\ SentInOrder' /\ StoreIsStream'
  BY <1>1, <1>2, EarlierStageKeeps
<1>11. PollingIsWhole'
  <2>1. polling'.at = "fill" /\ polling'.req \in Requests /\ polling'.chunk \in Chunks
    BY <1>3, <1>7
  <2>. QED
    BY <2>1 DEF PollingIsWhole, Chunks
<1>12. QueuesAreDisjoint' /\ StoppedIsGone' /\ BatchFits' /\ BatchIsPlayed'
  BY <1>2 DEF ChunkIInv, QueuesAreDisjoint, StoppedIsGone, BatchFits, BatchIsPlayed
<1>13. NewIsUntouched'
  <2>1. ASSUME NEW q \in Requests, status[q] = "new"
        PROVE  q \notin ended' /\ polling'.req # q /\ getChunk'[q] = 0
    <3>1. q \notin ended /\ q # r /\ getChunk[q] = 0
      BY <1>17, <2>1 DEF ChunkIInv, NewIsUntouched
    <3>. QED
      BY <1>6, <1>7, <1>8, <3>1
  <2>. QED
    BY <1>2, <2>1 DEF ChunkIInv, NewIsUntouched
<1>14. WaitingIsFetched'
  <2>1. polling'.req = polling.req
    BY <1>7, <1>17
  <2>. QED
    BY <1>2, <1>18, <2>1 DEF ChunkIInv, WaitingIsFetched, Fetching
<1>15. ReadIsPlayed'
  <2>1. ASSUME NEW q \in requests, q # r
        PROVE  /\ getChunk'[q] = getChunk[q] /\ (q \in ended' <=> q \in ended) /\ Unplayed(q)' = Unplayed(q)
               /\ ~Fetching(q)' /\ ~Fetching(q)
    BY <1>1, <1>2, <1>3, <1>6, <1>7, <1>8, <1>17, <1>18, <2>1 DEF Unplayed, Fetching
  <2>2. ASSUME r \in requests
        PROVE  r \notin ready /\ r \notin loaded /\ ~Dropped(r) /\ g = Len(played[r]) + 1 /\ Unplayed(r)' /\ Fetching(r)'
    <3>1. status[r] = Wfc /\ r \notin loaded /\ ~Dropped(r)
      BY <1>17, <2>2 DEF ChunkIInv, WaitingIsFetched, Fetching
    <3>2. r \notin ready
      BY <2>2, <3>1 DEF ChunkIInv, ReadIsPlayed
    <3>3. ~Unplayed(r)
      BY <1>1, <3>1, <3>2 DEF Unplayed
    <3>4. getChunk[r] = Len(played[r]) + 0 /\ Len(played[r]) \in Nat
      <4>1. played[r] \in Seq(Chunks)
        BY <1>3 DEF ChunkIInv, ChunkTypeOK
      <4>. QED
        BY <2>2, <3>3, <4>1, ListElement DEF ChunkIInv, ReadIsPlayed
    <3>. QED
      <4>1. Unplayed(r)' /\ Fetching(r)'
        BY <1>7 DEF Unplayed, Fetching
      <4>. QED
        BY <3>1, <3>2, <3>4, <4>1 DEF g
  <2>3. ASSUME NEW q \in requests
        PROVE  /\ getChunk'[q] <= Len(sent[q]) /\ getChunk'[q] = Len(played[q]) + (IF Unplayed(q)' THEN 1 ELSE 0)
               /\ q \in ready => status[q] # Wfc
               /\ q \in ready \cup loaded => prompt[q] = sent[q][getChunk'[q]]
               /\ polling'.at = "fill" /\ Fetching(q)' => polling'.chunk = sent[q][getChunk'[q]]
               /\ q \in ended' => getChunk'[q] > 0 /\ sent[q][getChunk'[q]].last /\ (Unplayed(q)' \/ q \in batch)
    <3>1. CASE q = r
      <4>1. /\ r \notin ready /\ r \notin loaded /\ getChunk'[r] = Len(played[r]) + 1 /\ Unplayed(r)' /\ getChunk'[r] = g
            /\ polling'.chunk = sent[r][g] /\ g > 0 /\ g <= Len(sent[r])
        BY <1>3, <1>5, <1>6, <1>7, <2>2, <3>1
      <4>2. r \in ended' => sent[r][g].last
        <5>1. CASE Marked(x.chunk)
          BY <1>5, <5>1 DEF Marked
        <5>2. CASE ~Marked(x.chunk)
          <6>1. r \in ended => Unplayed(r) \/ r \in batch
            BY <3>1 DEF ChunkIInv, ReadIsPlayed
          <6>2. ~Unplayed(r)
            BY <1>1, <2>2, <3>1 DEF Unplayed
          <6>3. status[r] = Wfc
            BY <1>17, <3>1 DEF ChunkIInv, WaitingIsFetched, Fetching
          <6>4. r \notin batch
            BY <3>1, <6>3 DEF ChunkIInv, BatchIsPlayed
          <6>. QED
            BY <1>1, <5>2, <6>1, <6>2, <6>4
        <5>. QED
          BY <5>1, <5>2
      <4>3. g = Len(played[r]) + (IF Unplayed(q)' THEN 1 ELSE 0)
        BY <3>1, <4>1
      <4>. QED
        BY <3>1, <4>1, <4>2, <4>3
    <3>2. CASE q # r
      BY <2>1, <3>2 DEF ChunkIInv, ReadIsPlayed
    <3>. QED
      BY <3>1, <3>2
  <2>. QED
    BY <1>2, <2>3 DEF ReadIsPlayed
<1>. QED
  BY <1>9, <1>10, <1>11, <1>12, <1>13, <1>14, <1>15 DEF ChunkIInv

LEMMA FillPromptIInv ==
  ASSUME ChunkIInv, FillPrompt
  PROVE  ChunkIInv'
<1>13. polling.req \in Requests
  BY DEF FillPrompt, ChunkIInv, PollingIsWhole
<1>14. PICK r \in Requests : r = polling.req
  BY <1>13
<1>1. /\ UNCHANGED <<legacy, made, tasks, putChunk, sent, store, requests, waiting, running, status, batch, played>>
      /\ UNCHANGED <<pending, cancelled, ended, getChunk, ready, origin>>
      /\ polling.at = "fill" /\ polling' = Idle
      /\ loaded' = IF Empty(polling.chunk) THEN loaded ELSE loaded \cup {r}
      /\ prompt' = [prompt EXCEPT ![r] = polling.chunk]
      /\ computed' = [computed EXCEPT ![r] = ~Codes(polling.chunk)]
  BY <1>14 DEF FillPrompt, sender, engine, queues
<1>2. /\ r \in Requests /\ requests \subseteq Requests /\ None \notin Requests /\ polling.chunk \in Chunks
      /\ prompt \in [Requests -> Chunks \cup {None}] /\ computed \in [Requests -> BOOLEAN] /\ loaded \subseteq Requests
  BY <1>1, ChunkAssumption DEF ChunkIInv, ChunkTypeOK, PollingIsWhole
<1>3. polling' = [at |-> "idle", req |-> None, chunk |-> None]
  BY <1>1 DEF Idle
<1>4. /\ prompt' \in [Requests -> Chunks \cup {None}] /\ prompt'[r] = polling.chunk
      /\ \A q \in Requests \ {r} : prompt'[q] = prompt[q]
  BY <1>1, <1>2
<1>12. (Dropped(r)' <=> Empty(polling.chunk)) /\ \A q \in Requests \ {r} : Dropped(q)' <=> Dropped(q)
  <2>1. polling.chunk # None
    BY <1>2, ChunkAssumption DEF Chunks
  <2>2. legacy' = legacy /\ prompt'[r] = polling.chunk
    BY <1>1, <1>4
  <2>3. Dropped(r)' <=> Empty(polling.chunk)
    BY <2>1, <2>2 DEF Dropped, Empty, Codes, Marked
  <2>4. ASSUME NEW q \in Requests \ {r} PROVE Dropped(q)' <=> Dropped(q)
    <3>1. prompt'[q] = prompt[q]
      BY <1>4
    <3>. QED
      BY <2>2, <3>1 DEF Dropped, Empty, Codes, Marked
  <2>. QED
    BY <2>3, <2>4
<1>5. ChunkTypeOK'
  <2>1. polling' \in [at : {"idle", "get", "fill"}, req : Requests \cup {None}, chunk : Chunks \cup {None}]
    BY <1>3
  <2>2. computed' \in [Requests -> BOOLEAN] /\ loaded' \subseteq Requests
    BY <1>1, <1>2
  <2>. QED
    BY <1>1, <1>4, <2>1, <2>2 DEF ChunkIInv, ChunkTypeOK, Chunks
<1>6. MadeInOrder' /\ TasksInOrder' /\ SentInOrder' /\ StoreIsStream'
  BY <1>1, EarlierStageKeeps
<1>7. PollingIsWhole'
  BY <1>3 DEF PollingIsWhole
<1>8. QueuesAreDisjoint' /\ StoppedIsGone' /\ BatchFits' /\ BatchIsPlayed'
  <2>1. ASSUME NEW q \in batch \cap requests PROVE computed'[q] = computed[q]
    <3>1. q \in requests /\ status[q] # Wfc
      BY DEF ChunkIInv, ChunkTypeOK, BatchIsPlayed
    <3>2. q # r
      BY <3>1, <1>14 DEF ChunkIInv, WaitingIsFetched, Fetching
    <3>. QED
      BY <1>1, <1>2, <3>1, <3>2
  <2>. QED
    BY <1>1, <2>1 DEF ChunkIInv, QueuesAreDisjoint, StoppedIsGone, BatchFits, BatchIsPlayed
<1>9. NewIsUntouched'
  <2>1. ASSUME NEW q \in Requests, status[q] = "new"
        PROVE  q \notin loaded' /\ polling'.req # q /\ prompt'[q] = None
    <3>1. q \notin loaded /\ q # r /\ prompt[q] = None
      BY <2>1, <1>14 DEF ChunkIInv, NewIsUntouched
    <3>. QED
      BY <1>1, <1>2, <1>3, <1>4, <3>1
  <2>. QED
    BY <1>1, <2>1 DEF ChunkIInv, NewIsUntouched
<1>10. WaitingIsFetched'
  <2>1. ASSUME NEW q \in requests
        PROVE  /\ status[q] = Wfc <=> q \in ToSet(pending) \cup loaded' \/ polling'.req = q \/ Dropped(q)'
               /\ ~(q \in ToSet(pending) /\ q \in loaded') /\ ~(q \in ToSet(pending) \cup loaded' /\ polling'.req = q)
               /\ Dropped(q)' => q \notin ToSet(pending) \cup loaded' /\ polling'.req # q
    <3>1. /\ status[q] = Wfc <=> q \in ToSet(pending) \cup loaded \/ polling.req = q \/ Dropped(q)
          /\ ~(q \in ToSet(pending) /\ q \in loaded) /\ ~(q \in ToSet(pending) \cup loaded /\ polling.req = q)
          /\ Dropped(q) => q \notin ToSet(pending) \cup loaded /\ polling.req # q
      BY DEF ChunkIInv, WaitingIsFetched, Fetching
    <3>2. polling'.req # q
      BY <1>2, <1>3
    <3>3. CASE q = r
      BY <1>1, <1>12, <3>1, <3>2, <3>3, <1>14
    <3>4. CASE q # r
      BY <1>1, <1>2, <1>12, <3>1, <3>2, <3>4, <1>14
    <3>. QED
      BY <3>3, <3>4
  <2>. QED
    BY <1>1, <2>1 DEF ChunkIInv, WaitingIsFetched, Fetching
<1>11. ReadIsPlayed'
  <2>1. ASSUME NEW q \in requests PROVE Unplayed(q)' = Unplayed(q)
    <3>1. CASE q = r
      BY <1>1, <1>3, <1>12, <3>1, <1>14 DEF Unplayed, Fetching
    <3>2. CASE q # r
      BY <1>1, <1>2, <1>3, <1>12, <3>2, <1>14 DEF Unplayed, Fetching
    <3>. QED
      BY <3>1, <3>2
  <2>2. ASSUME NEW q \in requests, q \in ready \cup loaded' PROVE prompt'[q] = sent[q][getChunk[q]]
    <3>1. CASE q = r
      BY <1>1, <1>4, <3>1, <1>14 DEF ChunkIInv, ReadIsPlayed, Fetching
    <3>2. CASE q # r
      BY <1>1, <1>2, <1>4, <2>2, <3>2 DEF ChunkIInv, ReadIsPlayed
    <3>. QED
      BY <3>1, <3>2
  <2>3. polling'.at # "fill"
    BY <1>3
  <2>. QED
    BY <1>1, <2>1, <2>2, <2>3 DEF ChunkIInv, ReadIsPlayed
<1>. QED
  BY <1>5, <1>6, <1>7, <1>8, <1>9, <1>10, <1>11 DEF ChunkIInv
-----------------------------------------------------------------------------
(* Adding and aborting                                                     *)

LEMMA AddRequestIInv ==
  ASSUME ChunkIInv, NEW r \in Requests, AddRequest(r)
  PROVE  ChunkIInv'
<1>1. /\ UNCHANGED <<legacy, made, tasks, putChunk, sent, store, running, batch, played, prompt, computed>>
      /\ UNCHANGED <<pending, polling, cancelled, loaded, ended, getChunk, ready, origin>>
      /\ status[r] = "new" /\ batch = {} /\ requests' = requests \cup {r}
      /\ status' = [status EXCEPT ![r] = "WAITING"] /\ waiting' = Append(waiting, r)
  BY DEF AddRequest, sender, adapter
<1>14. \A q : Dropped(q)' = Dropped(q)
  BY <1>1, DroppedStays
<1>2. /\ r \notin requests \cup cancelled \cup loaded \cup ended \cup ready
      /\ r \notin ToSet(waiting) \cup ToSet(running) \cup ToSet(pending)
      /\ polling.req # r /\ getChunk[r] = 0 /\ played[r] = <<>> /\ prompt[r] = None
  BY <1>1 DEF ChunkIInv, NewIsUntouched
<1>3. /\ waiting \in Seq(Requests) /\ NoDuplicates(waiting) /\ requests \subseteq Requests
      /\ pending \in Seq(Requests) /\ Len(sent[r]) \in Nat
      /\ status \in [Requests -> {"new", "WAITING", "RUNNING", "PREEMPTED", Wfc, "FINISHED_STOPPED", "FINISHED_ABORTED"}]
  BY SenderTypes DEF ChunkIInv, ChunkTypeOK, QueuesAreDisjoint
<1>4. waiting' \in Seq(Requests) /\ ToSet(waiting') = ToSet(waiting) \cup {r} /\ NoDuplicates(waiting')
  <2>1. r \notin ToSet(waiting)
    BY <1>2
  <2>. QED
    BY <1>1, <1>3, <2>1, ListAppend
<1>5. /\ status' \in [Requests -> {"new", "WAITING", "RUNNING", "PREEMPTED", Wfc, "FINISHED_STOPPED", "FINISHED_ABORTED"}]
      /\ status'[r] = "WAITING" /\ \A q \in Requests \ {r} : status'[q] = status[q]
  BY <1>1, <1>3
<1>6. ChunkTypeOK'
  BY <1>1, <1>4, <1>5 DEF ChunkIInv, ChunkTypeOK, Chunks
<1>7. MadeInOrder' /\ TasksInOrder' /\ SentInOrder' /\ StoreIsStream'
  BY <1>1, EarlierStageKeeps
<1>8. PollingIsWhole' /\ BatchFits' /\ BatchIsPlayed'
  BY <1>1 DEF ChunkIInv, PollingIsWhole, BatchFits, BatchIsPlayed, Chunks
<1>9. QueuesAreDisjoint'
  BY <1>1, <1>2, <1>4 DEF ChunkIInv, QueuesAreDisjoint
<1>10. NewIsUntouched'
  <2>1. ASSUME NEW q \in Requests, status'[q] = "new"
        PROVE  status[q] = "new" /\ q \notin requests' /\ q \notin ToSet(waiting')
    BY <1>1, <1>4, <1>5, <2>1 DEF ChunkIInv, NewIsUntouched
  <2>. QED
    BY <1>1, <2>1 DEF ChunkIInv, NewIsUntouched
<1>11. StoppedIsGone'
  <2>1. \A q \in requests' : status'[q] \in Active
    BY <1>1, <1>3, <1>5 DEF ChunkIInv, StoppedIsGone, Active
  <2>2. \A q \in Requests : status'[q] = "FINISHED_STOPPED" => q \notin ToSet(waiting') \cup ToSet(running)
    BY <1>4, <1>5 DEF ChunkIInv, StoppedIsGone
  <2>. QED
    BY <1>1, <2>1, <2>2 DEF StoppedIsGone
<1>12. WaitingIsFetched'
  <2>1. ASSUME NEW q \in requests'
        PROVE  /\ \A i, j \in 1..Len(pending) : pending[i] = q /\ pending[j] = q => i = j
               /\ status'[q] = Wfc <=> q \in ToSet(pending) \cup loaded \/ Fetching(q) \/ Dropped(q)
               /\ ~(q \in ToSet(pending) /\ q \in loaded) /\ ~(q \in ToSet(pending) \cup loaded /\ Fetching(q))
               /\ Dropped(q) => q \notin ToSet(pending) \cup loaded /\ ~Fetching(q)
    <3>1. CASE q = r
      <4>1. \A i \in 1..Len(pending) : pending[i] # r
        BY <1>2, <1>3 DEF ToSet
      <4>. QED
        BY <1>2, <1>5, <3>1, <4>1 DEF Fetching, Wfc, Dropped
    <3>2. CASE q # r
      BY <1>1, <1>3, <1>5, <3>2 DEF ChunkIInv, WaitingIsFetched
    <3>. QED
      BY <3>1, <3>2
  <2>2. cancelled' \cap requests' = {}
    BY <1>1, <1>2 DEF ChunkIInv, WaitingIsFetched
  <2>. QED
    BY <1>1, <1>14, <2>1, <2>2 DEF WaitingIsFetched, Fetching
<1>13. ReadIsPlayed'
  <2>1. \A q : Unplayed(q)' = Unplayed(q) /\ Fetching(q)' = Fetching(q)
    BY <1>1, <1>14 DEF Unplayed, Fetching
  <2>2. ASSUME NEW q \in requests'
        PROVE  /\ getChunk[q] <= Len(sent[q]) /\ getChunk[q] = Len(played[q]) + (IF Unplayed(q) THEN 1 ELSE 0)
               /\ q \in ready => status'[q] # Wfc
               /\ q \in ready \cup loaded => prompt[q] = sent[q][getChunk[q]]
               /\ polling.at = "fill" /\ Fetching(q) => polling.chunk = sent[q][getChunk[q]]
               /\ q \in ended => getChunk[q] > 0 /\ sent[q][getChunk[q]].last /\ (Unplayed(q) \/ q \in batch)
    <3>1. CASE q = r
      <4>1. ~Unplayed(r) /\ ~Fetching(r) /\ Len(played[r]) = 0 /\ getChunk[r] = 0
        BY <1>2 DEF Unplayed, Fetching, Dropped
      <4>. QED
        BY <1>2, <1>3, <3>1, <4>1
    <3>2. CASE q # r
      BY <1>1, <1>3, <1>5, <3>2 DEF ChunkIInv, ReadIsPlayed
    <3>. QED
      BY <3>1, <3>2
  <2>. QED
    BY <1>1, <2>1, <2>2 DEF ReadIsPlayed
<1>. QED
  BY <1>6, <1>7, <1>8, <1>9, <1>10, <1>11, <1>12, <1>13 DEF ChunkIInv

\* An aborted request leaves the scheduler; a request waiting on the wrong queue
\* may stay there, but nothing that is proved here counts the queues' strangers.
LEMMA FinishRequestsIInv ==
  ASSUME ChunkIInv, NEW r \in Requests, FinishRequests(r)
  PROVE  ChunkIInv'
<1>1. /\ UNCHANGED <<legacy, made, tasks, putChunk, sent, store, batch, played, prompt, computed>>
      /\ UNCHANGED <<pending, polling, cancelled, loaded, ended, getChunk, ready>>
      /\ r \in requests /\ requests' = requests \ {r}
      /\ status' = [status EXCEPT ![r] = "FINISHED_ABORTED"] /\ origin' = [origin EXCEPT ![r] = "none"]
      /\ \/ running' = Keep(running, {r}) /\ waiting' = waiting
         \/ running' = running /\ waiting' = Keep(waiting, {r})
  BY DEF FinishRequests, sender
<1>15. \A q : Dropped(q)' = Dropped(q)
  BY <1>1, DroppedStays
<1>2. /\ waiting \in Seq(Requests) /\ running \in Seq(Requests) /\ requests \subseteq Requests
      /\ NoDuplicates(waiting) /\ NoDuplicates(running) /\ ToSet(waiting) \cap ToSet(running) = {}
      /\ status \in [Requests -> {"new", "WAITING", "RUNNING", "PREEMPTED", Wfc, "FINISHED_STOPPED", "FINISHED_ABORTED"}]
      /\ origin \in [Requests -> {"none", "WAITING", "RUNNING"}]
  BY DEF ChunkIInv, ChunkTypeOK, QueuesAreDisjoint
<1>3. /\ Keep(running, {r}) \in Seq(Requests) /\ ToSet(Keep(running, {r})) \subseteq ToSet(running)
      /\ NoDuplicates(Keep(running, {r}))
  BY <1>2, ListKeep
<1>4. /\ Keep(waiting, {r}) \in Seq(Requests) /\ ToSet(Keep(waiting, {r})) \subseteq ToSet(waiting)
      /\ NoDuplicates(Keep(waiting, {r}))
  BY <1>2, ListKeep
<1>5. /\ waiting' \in Seq(Requests) /\ ToSet(waiting') \subseteq ToSet(waiting) /\ NoDuplicates(waiting')
      /\ running' \in Seq(Requests) /\ ToSet(running') \subseteq ToSet(running) /\ NoDuplicates(running')
  <2>1. CASE running' = Keep(running, {r}) /\ waiting' = waiting
    BY <1>2, <1>3, <2>1
  <2>2. CASE running' = running /\ waiting' = Keep(waiting, {r})
    BY <1>2, <1>4, <2>2
  <2>. QED
    BY <1>1, <2>1, <2>2
<1>6. /\ status' \in [Requests -> {"new", "WAITING", "RUNNING", "PREEMPTED", Wfc, "FINISHED_STOPPED", "FINISHED_ABORTED"}]
      /\ status'[r] = "FINISHED_ABORTED" /\ \A q \in Requests \ {r} : status'[q] = status[q]
  BY <1>1, <1>2
<1>7. ChunkTypeOK'
  <2>1. origin' \in [Requests -> {"none", "WAITING", "RUNNING"}]
    BY <1>1, <1>2
  <2>2. requests' \subseteq Requests
    BY <1>1, <1>2
  <2>. QED
    BY <1>1, <1>5, <1>6, <2>1, <2>2 DEF ChunkIInv, ChunkTypeOK, Chunks
<1>8. MadeInOrder' /\ TasksInOrder' /\ SentInOrder' /\ StoreIsStream'
  BY <1>1, EarlierStageKeeps
<1>9. PollingIsWhole' /\ BatchFits'
  BY <1>1 DEF ChunkIInv, PollingIsWhole, BatchFits, Chunks
<1>16. BatchIsPlayed'
  <2>1. ASSUME NEW q \in batch \cap requests'
        PROVE  q \in ToSet(running') /\ status'[q] # Wfc /\ q \notin ready /\ computed[q]
    <3>1. q \in batch \cap requests /\ q \in Requests \ {r}
      BY <1>1, <1>2
    <3>2. q \in ToSet(running) /\ status[q] # Wfc /\ q \notin ready /\ computed[q]
      BY <3>1 DEF ChunkIInv, BatchIsPlayed
    <3>3. q \in ToSet(running')
      <4>1. ToSet(Keep(running, {r})) = ToSet(running) \ {r}
        BY <1>2, ListKeep
      <4>. QED
        BY <1>1, <3>1, <3>2, <4>1
    <3>. QED
      BY <1>6, <3>1, <3>2, <3>3
  <2>. QED
    BY <1>1, <2>1 DEF BatchIsPlayed
<1>10. QueuesAreDisjoint'
  BY <1>2, <1>5 DEF QueuesAreDisjoint
<1>11. NewIsUntouched'
  <2>1. ASSUME NEW q \in Requests, status'[q] = "new"
        PROVE  /\ status[q] = "new" /\ q \notin requests'
               /\ q \notin ToSet(waiting') \cup ToSet(running')
    BY <1>1, <1>5, <1>6, <2>1 DEF ChunkIInv, NewIsUntouched
  <2>. QED
    BY <1>1, <2>1 DEF ChunkIInv, NewIsUntouched
<1>12. StoppedIsGone'
  BY <1>1, <1>2, <1>5, <1>6 DEF ChunkIInv, StoppedIsGone
<1>13. WaitingIsFetched'
  <2>1. \A q \in requests' : q \in requests /\ status'[q] = status[q]
    BY <1>1, <1>2, <1>6
  <2>. QED
    BY <1>1, <1>15, <2>1 DEF ChunkIInv, WaitingIsFetched, Fetching
<1>14. ReadIsPlayed'
  <2>1. \A q : Unplayed(q)' = Unplayed(q) /\ Fetching(q)' = Fetching(q)
    BY <1>1, <1>15 DEF Unplayed, Fetching
  <2>2. \A q \in requests' : q \in requests /\ status'[q] = status[q]
    BY <1>1, <1>2, <1>6
  <2>. QED
    BY <1>1, <2>1, <2>2 DEF ChunkIInv, ReadIsPlayed
<1>. QED
  BY <1>7, <1>8, <1>9, <1>16, <1>10, <1>11, <1>12, <1>13, <1>14 DEF ChunkIInv

\* What stops is cleaned up everywhere, and it was in the running queue.
LEMMA UpdateFromOutputIInv ==
  ASSUME ChunkIInv, UpdateFromOutput
  PROVE  ChunkIInv'
<1> DEFINE over == {r \in batch \cap requests : Stops(r)}
           gone == {r \in over : status[r] = Wfc}
           Statuses == {"new", "WAITING", "RUNNING", "PREEMPTED", Wfc, "FINISHED_STOPPED", "FINISHED_ABORTED"}
<1>1. /\ UNCHANGED <<legacy, made, tasks, putChunk, sent, store, played, prompt, computed, pending, polling>>
      /\ batch' = {} /\ requests' = requests \ over
      /\ status' = [r \in Requests |-> IF r \in over THEN "FINISHED_STOPPED" ELSE status[r]]
      /\ running' = Keep(running, over) /\ waiting' = Keep(waiting, gone)
      /\ ended' = ended \ over /\ ready' = ready \ over /\ loaded' = loaded \ over
      /\ cancelled' = cancelled \cup over
      /\ getChunk' = [r \in Requests |-> IF r \in over THEN 0 ELSE getChunk[r]]
      /\ origin' = [r \in Requests |-> IF r \in over THEN "none" ELSE origin[r]]
  BY DEF UpdateFromOutput, sender
<1>18. \A q : Dropped(q)' = Dropped(q)
  BY <1>1, DroppedStays
<1>2. /\ waiting \in Seq(Requests) /\ running \in Seq(Requests) /\ requests \subseteq Requests
      /\ NoDuplicates(waiting) /\ NoDuplicates(running) /\ ToSet(waiting) \cap ToSet(running) = {}
      /\ status \in [Requests -> Statuses] /\ getChunk \in [Requests -> 0..MaxChunks]
      /\ origin \in [Requests -> {"none", "WAITING", "RUNNING"}] /\ MaxChunks \in Nat
  BY ChunkAssumption DEF ChunkIInv, ChunkTypeOK, QueuesAreDisjoint
<1>3. over \subseteq requests /\ over \subseteq batch /\ over \subseteq ToSet(running) /\ over \subseteq ended
  BY DEF ChunkIInv, BatchIsPlayed, Stops
<1> HIDE DEF over, gone
<1>4. /\ running' \in Seq(Requests) /\ ToSet(running') = ToSet(running) \ over /\ NoDuplicates(running')
  BY <1>1, <1>2, ListKeep
<1>5. /\ waiting' \in Seq(Requests) /\ ToSet(waiting') \subseteq ToSet(waiting) /\ NoDuplicates(waiting')
  <2>1. /\ Keep(waiting, gone) \in Seq(Requests) /\ ToSet(Keep(waiting, gone)) = ToSet(waiting) \ gone
        /\ NoDuplicates(Keep(waiting, gone))
    BY <1>2, ListKeep
  <2>. QED
    BY <1>1, <2>1
<1>6. /\ status' \in [Requests -> Statuses]
      /\ \A r \in over : status'[r] = "FINISHED_STOPPED"
      /\ \A r \in Requests \ over : status'[r] = status[r]
  BY <1>1, <1>2, <1>3
<1>7. /\ getChunk' \in [Requests -> 0..MaxChunks] /\ \A r \in Requests \ over : getChunk'[r] = getChunk[r]
  BY <1>1, <1>2
<1>8. ChunkTypeOK'
  <2>1. origin' \in [Requests -> {"none", "WAITING", "RUNNING"}]
    BY <1>1, <1>2
  <2>2. /\ requests' \subseteq Requests /\ batch' \subseteq Requests /\ cancelled' \subseteq Requests
        /\ ended' \subseteq Requests /\ ready' \subseteq Requests /\ loaded' \subseteq Requests
    BY <1>1, <1>2, <1>3 DEF ChunkIInv, ChunkTypeOK
  <2>. QED
    BY <1>1, <1>4, <1>5, <1>6, <1>7, <2>1, <2>2 DEF ChunkIInv, ChunkTypeOK, Chunks
<1>9. MadeInOrder' /\ TasksInOrder' /\ SentInOrder' /\ StoreIsStream'
  BY <1>1, EarlierStageKeeps
<1>10. PollingIsWhole' /\ BatchIsPlayed'
  BY <1>1 DEF ChunkIInv, PollingIsWhole, BatchIsPlayed, Chunks
<1>11. BatchFits'
  BY <1>1, FS_EmptySet, ChunkAssumption DEF BatchFits
<1>12. QueuesAreDisjoint'
  BY <1>2, <1>4, <1>5 DEF QueuesAreDisjoint
<1>13. NewIsUntouched'
  <2>1. ASSUME NEW q \in Requests, status'[q] = "new"
        PROVE  /\ status[q] = "new" /\ q \notin over
               /\ q \notin requests' \cup cancelled' \cup loaded' \cup ended' \cup ready'
               /\ q \notin ToSet(waiting') \cup ToSet(running') \cup ToSet(pending)
               /\ polling.req # q /\ getChunk'[q] = 0 /\ played[q] = <<>> /\ prompt[q] = None
    <3>1. q \notin over /\ status[q] = "new"
      BY <1>6, <2>1
    <3>. QED
      BY <1>1, <1>4, <1>5, <1>7, <3>1 DEF ChunkIInv, NewIsUntouched
  <2>. QED
    BY <1>1, <2>1 DEF NewIsUntouched
<1>14. StoppedIsGone'
  <2>1. \A q \in requests' : status'[q] \in Active
    BY <1>1, <1>2, <1>6 DEF ChunkIInv, StoppedIsGone
  <2>2. ASSUME NEW q \in Requests, status'[q] = "FINISHED_STOPPED"
        PROVE  q \notin ToSet(waiting') \cup ToSet(running')
    <3>1. CASE q \in over
      BY <1>2, <1>3, <1>4, <1>5, <3>1
    <3>2. CASE q \notin over
      BY <1>4, <1>5, <1>6, <2>2, <3>2 DEF ChunkIInv, StoppedIsGone
    <3>. QED
      BY <3>1, <3>2
  <2>. QED
    BY <2>1, <2>2 DEF StoppedIsGone
<1>15. \A q \in requests' : /\ q \in requests /\ q \in Requests /\ q \notin over /\ q \notin batch'
                            /\ status'[q] = status[q] /\ getChunk'[q] = getChunk[q]
                            /\ (q \in loaded' <=> q \in loaded) /\ (q \in ready' <=> q \in ready)
                            /\ (q \in ended' <=> q \in ended) /\ (q \in cancelled' <=> q \in cancelled)
  BY <1>1, <1>2, <1>6, <1>7
<1>16. WaitingIsFetched'
  <2>1. cancelled' \cap requests' = {}
    BY <1>15 DEF ChunkIInv, WaitingIsFetched
  <2>2. ASSUME NEW q \in requests'
        PROVE  /\ \A i, j \in 1..Len(pending) : pending[i] = q /\ pending[j] = q => i = j
               /\ status'[q] = Wfc <=> q \in ToSet(pending) \cup loaded' \/ Fetching(q) \/ Dropped(q)
               /\ ~(q \in ToSet(pending) /\ q \in loaded') /\ ~(q \in ToSet(pending) \cup loaded' /\ Fetching(q))
               /\ Dropped(q) => q \notin ToSet(pending) \cup loaded' /\ ~Fetching(q)
    BY <1>15 DEF ChunkIInv, WaitingIsFetched
  <2>. QED
    BY <1>1, <1>18, <2>1, <2>2 DEF WaitingIsFetched, Fetching
<1>17. ReadIsPlayed'
  <2>1. \A q \in requests' : Unplayed(q)' = Unplayed(q) /\ Fetching(q)' = Fetching(q)
    BY <1>1, <1>15, <1>18 DEF Unplayed, Fetching
  <2>2. ASSUME NEW q \in requests', q \in ended PROVE Unplayed(q)
    <3>1. q \in batch => q \in batch \cap requests /\ ~Stops(q)
      BY <1>15 DEF over
    <3>2. CASE q \in batch
      BY <1>15, <2>2, <3>1, <3>2 DEF ChunkIInv, BatchIsPlayed, Stops
    <3>3. CASE q \notin batch
      BY <1>15, <2>2, <3>3 DEF ChunkIInv, ReadIsPlayed
    <3>. QED
      BY <3>2, <3>3
  <2>. QED
    BY <1>1, <1>15, <2>1, <2>2 DEF ChunkIInv, ReadIsPlayed
<1>. QED
  BY <1>8, <1>9, <1>10, <1>11, <1>12, <1>13, <1>14, <1>16, <1>17 DEF ChunkIInv
-----------------------------------------------------------------------------
(* Scheduling                                                              *)

Queued == ToSet(waiting) \cup ToSet(running)

\* What one pass over a queue leaves of it.
LEMMA PassOverQueue ==
  ASSUME NEW queue \in Seq(Requests), NoDuplicates(queue)
  PROVE  /\ Kept(queue) \in Seq(Requests) /\ NoDuplicates(Kept(queue))
         /\ ToSet(Kept(queue)) = {r \in ToSet(queue) : Stays(r)}
         /\ HeldBack(queue) \in Seq(Requests) /\ NoDuplicates(HeldBack(queue))
         /\ ToSet(HeldBack(queue)) = {r \in ToSet(queue) : ~Stays(r)}
         /\ Asking(queue) \in Seq(Requests) /\ NoDuplicates(Asking(queue))
         /\ ToSet(Asking(queue)) = {r \in ToSet(queue) : ~Stays(r) /\ status[r] # Wfc}
<1>1. ToSet(queue) \subseteq Requests
  BY DEF ToSet
<1>2. /\ Kept(queue) \in Seq(Requests) /\ NoDuplicates(Kept(queue))
      /\ ToSet(Kept(queue)) = ToSet(queue) \ {r \in Requests : ~Stays(r)}
  BY ListKeep DEF Kept
<1>3. /\ HeldBack(queue) \in Seq(Requests) /\ NoDuplicates(HeldBack(queue))
      /\ ToSet(HeldBack(queue)) = ToSet(queue) \ {r \in Requests : Stays(r)}
  BY ListKeep DEF HeldBack
<1>4. /\ Asking(queue) \in Seq(Requests) /\ NoDuplicates(Asking(queue))
      /\ ToSet(Asking(queue)) = ToSet(queue) \ {r \in Requests : Stays(r) \/ status[r] = Wfc}
  BY ListKeep DEF Asking
<1>. QED
  BY <1>1, <1>2, <1>3, <1>4

\* The running requests that stay are cut at max_num_seqs, and those before the
\* cut go on if the scheduler still has them.
LEMMA CutAtMaxSeqs ==
  ASSUME NEW kept \in Seq(Requests), NoDuplicates(kept)
  PROVE  /\ StillRunning(kept) \in Seq(Requests) /\ NoDuplicates(StillRunning(kept))
         /\ ToSet(StillRunning(kept)) \subseteq ToSet(kept) \ (Requests \ requests)
         /\ Len(StillRunning(kept)) <= MaxSeqs
         /\ Preempted(kept) \in Seq(Requests) /\ NoDuplicates(Preempted(kept))
         /\ ToSet(Preempted(kept)) \subseteq ToSet(kept) \ ToSet(StillRunning(kept))
<1> DEFINE n == Min({Surplus - 1, Len(kept)})
           a == SubSeq(kept, 1, n)
           b == SubSeq(kept, n + 1, Len(kept))
<1>1. MaxSeqs \in Nat /\ Len(kept) \in Nat /\ Surplus - 1 = MaxSeqs
  BY ChunkAssumption DEF Surplus
<1>2. n \in 0..Len(kept) /\ n <= MaxSeqs /\ (n = MaxSeqs \/ n = Len(kept))
  <2>1. {Surplus - 1, Len(kept)} \in SUBSET Nat /\ {Surplus - 1, Len(kept)} # {}
    BY <1>1
  <2>2. n \in {Surplus - 1, Len(kept)} /\ \A x \in {Surplus - 1, Len(kept)} : n <= x
    BY <2>1, LeastIsIn
  <2>. QED
    BY <1>1, <2>2
<1>3. StillRunning(kept) = Keep(a, Requests \ requests)
  BY DEF StillRunning, LiveAmong
<1> HIDE DEF n
<1>4. /\ a \in Seq(Requests) /\ b \in Seq(Requests) /\ Len(a) = n
      /\ ToSet(kept) = ToSet(a) \cup ToSet(b)
      /\ NoDuplicates(a) /\ NoDuplicates(b) /\ ToSet(a) \cap ToSet(b) = {}
  BY <1>2, ListSplit
<1>5. Preempted(kept) = b
  <2>1. CASE n = MaxSeqs
    BY <2>1 DEF Preempted, Surplus
  <2>2. CASE n # MaxSeqs
    <3>1. n = Len(kept) /\ Len(kept) < MaxSeqs
      BY <1>1, <1>2, <2>2
    <3>2. b = <<>>
      BY <1>1, <3>1
    <3>3. SubSeq(kept, MaxSeqs + 1, Len(kept)) = <<>>
      BY <1>1, <3>1
    <3>. QED
      BY <3>2, <3>3 DEF Preempted, Surplus
  <2>. QED
    BY <2>1, <2>2
<1> HIDE DEF a, b
<1>6. /\ Keep(a, Requests \ requests) \in Seq(Requests) /\ Len(Keep(a, Requests \ requests)) <= Len(a)
      /\ ToSet(Keep(a, Requests \ requests)) = ToSet(a) \ (Requests \ requests)
      /\ NoDuplicates(Keep(a, Requests \ requests))
  BY <1>4, ListKeep
<1>7. Len(Keep(a, Requests \ requests)) \in Nat
  BY <1>6, ListElement
<1>8. Len(Keep(a, Requests \ requests)) <= MaxSeqs
  BY <1>1, <1>2, <1>4, <1>6, <1>7
<1>. QED
  BY <1>4, <1>5, <1>3, <1>6, <1>8

\* The waiting requests that start fill the room there is and no more.
LEMMA StartInTheRoom ==
  ASSUME NEW candidates \in Seq(Requests), NoDuplicates(candidates), NEW room \in Nat
  PROVE  LET popped == Popped(candidates, room)
             started == Started(candidates, popped)
             rest == SubSeq(candidates, popped + 1, Len(candidates))
         IN  /\ started \in Seq(Requests) /\ NoDuplicates(started) /\ Len(started) <= room
             /\ rest \in Seq(Requests) /\ NoDuplicates(rest)
             /\ ToSet(started) \subseteq ToSet(candidates) \ (Requests \ requests)
             /\ ToSet(rest) \subseteq ToSet(candidates) \ ToSet(started)
<1> DEFINE popped == Popped(candidates, room)
           a == SubSeq(candidates, 1, popped)
           b == SubSeq(candidates, popped + 1, Len(candidates))
<1>1. popped = ShortestWith(candidates, Requests \ requests, room)
  BY DEF Popped, ShortestWith, LiveAmong
<1> HIDE DEF popped
<1>2. popped \in 0..Len(candidates) /\ Len(Keep(a, Requests \ requests)) <= room
  BY <1>1, ListFillRoom
<1>3. /\ a \in Seq(Requests) /\ b \in Seq(Requests)
      /\ ToSet(candidates) = ToSet(a) \cup ToSet(b)
      /\ NoDuplicates(a) /\ NoDuplicates(b) /\ ToSet(a) \cap ToSet(b) = {}
  BY <1>2, ListSplit
<1>4. Started(candidates, popped) = Keep(a, Requests \ requests)
  BY DEF Started, LiveAmong
<1> HIDE DEF a, b
<1>5. /\ Keep(a, Requests \ requests) \in Seq(Requests) /\ NoDuplicates(Keep(a, Requests \ requests))
      /\ ToSet(Keep(a, Requests \ requests)) = ToSet(a) \ (Requests \ requests)
  BY <1>3, ListKeep
<1>. QED
  BY <1>2, <1>3, <1>4, <1>5 DEF popped, b

\* A pass of schedule(): the batch now, the requests preempted, and those a chunk
\* is asked for, as sets.
Processed(now, preempted, asking) ==
  LET arrived == {r \in Queued : status[r] = Wfc /\ r \in loaded} IN
  /\ pending' = pending \o asking /\ cancelled' = cancelled \ ToSet(asking)
  /\ status' \in [Requests -> {"new", "WAITING", "RUNNING", "PREEMPTED", Wfc, "FINISHED_STOPPED", "FINISHED_ABORTED"}]
  /\ \A r \in preempted : status'[r] = "PREEMPTED"
  /\ \A r \in arrived \ preempted : status'[r] \in {"WAITING", "RUNNING"}
  /\ \A r \in ToSet(asking) : status'[r] = Wfc
  /\ \A r \in Requests \ (preempted \cup arrived \cup ToSet(asking)) : status'[r] = status[r]
  /\ loaded' = loaded \ arrived /\ ready' = (ready \cup arrived) \ now
  /\ origin' \in [Requests -> {"none", "WAITING", "RUNNING"}]
  /\ batch' = now
  /\ computed' = [r \in Requests |-> computed[r] \/ r \in now]
  /\ played' = [r \in Requests |-> IF r \in now THEN Append(played[r], prompt[r]) ELSE played[r]]

\* The effect of schedule(), given the pieces the queues are cut into.
Scheduled(kept, asking, still, candidates, popped) ==
  LET started == Started(candidates, popped)
      now == GoesOn(still) \cup ToSet(started)
      arrived == Arrived(waiting) \cup Arrived(running) IN
  /\ pending' = pending \o asking
  /\ cancelled' = cancelled \ ToSet(asking)
  /\ status' = ProcessedStatus(Preempted(kept), asking)
  /\ loaded' = loaded \ arrived
  /\ ready' = (ready \cup arrived) \ now
  /\ origin' = [r \in Requests |->
                  IF r \in ToSet(HeldBack(running)) THEN "RUNNING"
                  ELSE IF r \in ToSet(HeldBack(waiting)) THEN "WAITING" ELSE origin[r]]
  /\ running' = still \o started \o HeldBack(running)
  /\ waiting' = SubSeq(candidates, popped + 1, Len(candidates)) \o HeldBack(waiting)
  /\ batch' = now
  /\ computed' = [r \in Requests |-> computed[r] \/ r \in now]
  /\ played' = [r \in Requests |-> IF r \in now THEN Append(played[r], prompt[r]) ELSE played[r]]

\* The pieces are the ones that Schedule names.
LEMMA ScheduledInPieces ==
  ASSUME Schedule
  PROVE  LET kept == Kept(running)
             asking == Asking(waiting) \o Asking(running)
             still == StillRunning(kept)
             candidates == Preempted(kept) \o Kept(waiting)
             popped == Popped(candidates, MaxSeqs - Len(still))
         IN  Scheduled(kept, asking, still, candidates, popped)
<1>1. \E kept \in {Kept(running)}, asking \in {Asking(waiting) \o Asking(running)} :
      \E still \in {StillRunning(kept)}, candidates \in {Preempted(kept) \o Kept(waiting)} :
      \E popped \in {Popped(candidates, MaxSeqs - Len(still))} : Scheduled(kept, asking, still, candidates, popped)
  BY DEF Schedule, Scheduled
<1>. QED
  BY <1>1

\* What schedule() does, by sets of requests.
LEMMA ScheduleDoes ==
  ASSUME ChunkIInv, Schedule
  PROVE  \E now \in SUBSET requests, preempted \in SUBSET Requests, asking \in Seq(Requests) :
           /\ now \subseteq {r \in Queued : Stays(r)} /\ Cardinality(now) <= MaxSeqs
           /\ preempted \subseteq {r \in Queued : Stays(r)}
           /\ NoDuplicates(asking) /\ ToSet(asking) = {r \in Queued : ~Stays(r) /\ status[r] # Wfc}
           /\ Processed(now, preempted, asking)
           /\ waiting' \in Seq(Requests) /\ NoDuplicates(waiting')
           /\ running' \in Seq(Requests) /\ NoDuplicates(running')
           /\ ToSet(waiting') \cap ToSet(running') = {} /\ ToSet(waiting') \cup ToSet(running') \subseteq Queued
           /\ now \subseteq ToSet(running')
<1>1. /\ waiting \in Seq(Requests) /\ running \in Seq(Requests) /\ requests \subseteq Requests
      /\ NoDuplicates(waiting) /\ NoDuplicates(running) /\ ToSet(waiting) \cap ToSet(running) = {}
      /\ status \in [Requests -> {"new", "WAITING", "RUNNING", "PREEMPTED", Wfc, "FINISHED_STOPPED", "FINISHED_ABORTED"}]
      /\ origin \in [Requests -> {"none", "WAITING", "RUNNING"}] /\ MaxSeqs \in Nat
  BY ChunkAssumption DEF ChunkIInv, ChunkTypeOK, QueuesAreDisjoint
<1>2. /\ Kept(waiting) \in Seq(Requests) /\ NoDuplicates(Kept(waiting))
      /\ ToSet(Kept(waiting)) = {r \in ToSet(waiting) : Stays(r)}
      /\ HeldBack(waiting) \in Seq(Requests) /\ NoDuplicates(HeldBack(waiting))
      /\ ToSet(HeldBack(waiting)) = {r \in ToSet(waiting) : ~Stays(r)}
      /\ Asking(waiting) \in Seq(Requests) /\ NoDuplicates(Asking(waiting))
      /\ ToSet(Asking(waiting)) = {r \in ToSet(waiting) : ~Stays(r) /\ status[r] # Wfc}
  BY <1>1, PassOverQueue
<1>3. /\ Kept(running) \in Seq(Requests) /\ NoDuplicates(Kept(running))
      /\ ToSet(Kept(running)) = {r \in ToSet(running) : Stays(r)}
      /\ HeldBack(running) \in Seq(Requests) /\ NoDuplicates(HeldBack(running))
      /\ ToSet(HeldBack(running)) = {r \in ToSet(running) : ~Stays(r)}
      /\ Asking(running) \in Seq(Requests) /\ NoDuplicates(Asking(running))
      /\ ToSet(Asking(running)) = {r \in ToSet(running) : ~Stays(r) /\ status[r] # Wfc}
  BY <1>1, PassOverQueue
<1> DEFINE kept == Kept(running)
           asking == Asking(waiting) \o Asking(running)
           still == StillRunning(kept)
           preempted == Preempted(kept)
           candidates == preempted \o Kept(waiting)
           room == MaxSeqs - Len(still)
           popped == Popped(candidates, room)
           started == Started(candidates, popped)
           rest == SubSeq(candidates, popped + 1, Len(candidates))
           now == GoesOn(still) \cup ToSet(started)
           arrived == Arrived(waiting) \cup Arrived(running)
<1>4. /\ pending' = pending \o asking /\ cancelled' = cancelled \ ToSet(asking)
      /\ status' = ProcessedStatus(preempted, asking)
      /\ loaded' = loaded \ arrived /\ ready' = (ready \cup arrived) \ now
      /\ origin' = [r \in Requests |->
                      IF r \in ToSet(HeldBack(running)) THEN "RUNNING"
                      ELSE IF r \in ToSet(HeldBack(waiting)) THEN "WAITING" ELSE origin[r]]
      /\ running' = still \o started \o HeldBack(running)
      /\ waiting' = rest \o HeldBack(waiting)
      /\ batch' = now
      /\ computed' = [r \in Requests |-> computed[r] \/ r \in now]
      /\ played' = [r \in Requests |-> IF r \in now THEN Append(played[r], prompt[r]) ELSE played[r]]
  BY ScheduledInPieces DEF Scheduled
<1> HIDE DEF kept, asking, still, preempted, candidates, room, popped, started, rest, now, arrived
<1>5. /\ asking \in Seq(Requests) /\ NoDuplicates(asking)
      /\ ToSet(asking) = {r \in Queued : ~Stays(r) /\ status[r] # Wfc}
  <2>1. ToSet(Asking(waiting)) \cap ToSet(Asking(running)) = {}
    BY <1>1, <1>2, <1>3
  <2>2. /\ Asking(waiting) \o Asking(running) \in Seq(Requests) /\ NoDuplicates(Asking(waiting) \o Asking(running))
        /\ ToSet(Asking(waiting) \o Asking(running)) = ToSet(Asking(waiting)) \cup ToSet(Asking(running))
    BY <1>2, <1>3, <2>1, ListConcat
  <2>. QED
    BY <1>2, <1>3, <2>2 DEF asking, Queued
<1>6. kept \in Seq(Requests) /\ NoDuplicates(kept) /\ ToSet(kept) = {r \in ToSet(running) : Stays(r)}
  BY <1>3 DEF kept
<1>7. /\ still \in Seq(Requests) /\ NoDuplicates(still)
      /\ ToSet(still) \subseteq ToSet(kept) \ (Requests \ requests) /\ Len(still) <= MaxSeqs
      /\ preempted \in Seq(Requests) /\ NoDuplicates(preempted)
      /\ ToSet(preempted) \subseteq ToSet(kept) \ ToSet(still)
  BY <1>6, CutAtMaxSeqs DEF still, preempted
<1>8. /\ candidates \in Seq(Requests) /\ NoDuplicates(candidates)
      /\ ToSet(candidates) = ToSet(preempted) \cup ToSet(Kept(waiting))
  <2>1. ToSet(preempted) \cap ToSet(Kept(waiting)) = {}
    BY <1>1, <1>2, <1>6, <1>7
  <2>. QED
    BY <1>2, <1>7, <2>1, ListConcat DEF candidates
<1>9. room \in Nat /\ Len(still) \in Nat /\ Len(still) + room = MaxSeqs
  <2>1. Len(still) \in Nat
    BY <1>7, ListElement
  <2>. QED
    BY <1>1, <1>7, <2>1 DEF room
<1>10. /\ started \in Seq(Requests) /\ NoDuplicates(started) /\ Len(started) <= room
       /\ rest \in Seq(Requests) /\ NoDuplicates(rest)
       /\ ToSet(started) \subseteq ToSet(candidates) \ (Requests \ requests)
       /\ ToSet(rest) \subseteq ToSet(candidates) \ ToSet(started)
  BY <1>8, <1>9, StartInTheRoom DEF started, rest, popped
<1>11. now \subseteq ToSet(still) \cup ToSet(started)
  BY DEF now, GoesOn
<1>12. Cardinality(now) <= MaxSeqs
  <2>1. /\ IsFiniteSet(ToSet(still)) /\ Cardinality(ToSet(still)) <= Len(still)
        /\ IsFiniteSet(ToSet(started)) /\ Cardinality(ToSet(started)) <= Len(started) /\ Len(started) \in Nat
    BY <1>7, <1>10, ListSetSize, ListElement
  <2> DEFINE both == ToSet(still) \cup ToSet(started)
             common == ToSet(still) \cap ToSet(started)
  <2>2. IsFiniteSet(both) /\ Cardinality(both) = Cardinality(ToSet(still)) + Cardinality(ToSet(started)) - Cardinality(common)
    BY <2>1, FS_Union
  <2>3. IsFiniteSet(common)
    BY <2>1, FS_Subset
  <2>4. IsFiniteSet(now) /\ Cardinality(now) <= Cardinality(both)
    BY <1>11, <2>2, FS_Subset
  <2> HIDE DEF both, common
  <2>5. /\ Cardinality(now) \in Nat /\ Cardinality(both) \in Nat /\ Cardinality(common) \in Nat
        /\ Cardinality(ToSet(still)) \in Nat /\ Cardinality(ToSet(started)) \in Nat
    BY <2>1, <2>2, <2>3, <2>4, FS_CardinalityType
  <2>. QED
    BY <1>1, <1>9, <1>10, <2>1, <2>2, <2>4, <2>5
<1>13. now \in SUBSET requests /\ now \subseteq {r \in Queued : Stays(r)}
  <2>1. \A r \in ToSet(still) \cup ToSet(started) : r \in Requests /\ r \notin Requests \ requests
    BY <1>7, <1>10 DEF ToSet
  <2>. QED
    BY <1>2, <1>6, <1>7, <1>8, <1>10, <1>11, <2>1 DEF Queued
<1>14. ToSet(preempted) \in SUBSET Requests /\ ToSet(preempted) \subseteq {r \in Queued : Stays(r)}
  <2>1. ToSet(preempted) \subseteq Requests
    BY <1>7 DEF ToSet
  <2>. QED
    BY <1>6, <1>7, <2>1 DEF Queued
<1>15. /\ waiting' \in Seq(Requests) /\ NoDuplicates(waiting')
       /\ ToSet(waiting') = ToSet(rest) \cup ToSet(HeldBack(waiting))
  <2>1. ToSet(rest) \cap ToSet(HeldBack(waiting)) = {}
    BY <1>2, <1>6, <1>7, <1>8, <1>10
  <2>2. /\ rest \o HeldBack(waiting) \in Seq(Requests) /\ NoDuplicates(rest \o HeldBack(waiting))
        /\ ToSet(rest \o HeldBack(waiting)) = ToSet(rest) \cup ToSet(HeldBack(waiting))
    BY <1>2, <1>10, <2>1, ListConcat
  <2>. QED
    BY <1>4, <2>2
<1>16. /\ running' \in Seq(Requests) /\ NoDuplicates(running')
       /\ ToSet(running') = ToSet(still) \cup ToSet(started) \cup ToSet(HeldBack(running))
  <2> DEFINE both == still \o started
  <2>1. ToSet(still) \cap ToSet(started) = {}
    BY <1>1, <1>2, <1>6, <1>7, <1>8, <1>10
  <2>2. both \in Seq(Requests) /\ NoDuplicates(both) /\ ToSet(both) = ToSet(still) \cup ToSet(started)
    BY <1>7, <1>10, <2>1, ListConcat
  <2>3. ToSet(both) \cap ToSet(HeldBack(running)) = {}
    BY <1>2, <1>3, <1>6, <1>7, <1>8, <1>10, <2>2
  <2> HIDE DEF both
  <2>4. /\ both \o HeldBack(running) \in Seq(Requests) /\ NoDuplicates(both \o HeldBack(running))
        /\ ToSet(both \o HeldBack(running)) = ToSet(both) \cup ToSet(HeldBack(running))
    BY <1>3, <2>2, <2>3, ListConcat
  <2>. QED
    BY <1>4, <2>2, <2>4 DEF both
<1>17. /\ ToSet(waiting') \cap ToSet(running') = {} /\ ToSet(waiting') \cup ToSet(running') \subseteq Queued
       /\ now \subseteq ToSet(running')
  <2>1. ToSet(rest) \cap (ToSet(still) \cup ToSet(started)) = {}
    BY <1>1, <1>2, <1>6, <1>7, <1>8, <1>10
  <2>2. ToSet(rest) \cap ToSet(HeldBack(running)) = {} /\ ToSet(HeldBack(waiting)) \cap ToSet(HeldBack(running)) = {}
    BY <1>1, <1>2, <1>3, <1>6, <1>7, <1>8, <1>10
  <2>3. ToSet(HeldBack(waiting)) \cap (ToSet(still) \cup ToSet(started)) = {}
    BY <1>2, <1>6, <1>7, <1>8, <1>10
  <2>4. ToSet(rest) \cup ToSet(still) \cup ToSet(started) \subseteq Queued
    BY <1>2, <1>6, <1>7, <1>8, <1>10 DEF Queued
  <2>5. ToSet(HeldBack(waiting)) \cup ToSet(HeldBack(running)) \subseteq Queued
    BY <1>2, <1>3 DEF Queued
  <2>. QED
    BY <1>11, <1>15, <1>16, <2>1, <2>2, <2>3, <2>4, <2>5
<1>18. Processed(now, ToSet(preempted), asking)
  <2>1. arrived = {r \in Queued : status[r] = Wfc /\ r \in loaded}
    BY DEF arrived, Arrived, Queued
  <2>2. Queued \subseteq Requests
    BY <1>1 DEF Queued, ToSet
  <2>3. \A r \in ToSet(asking) : r \in Requests /\ r \notin ToSet(preempted) /\ r \notin arrived
    BY <1>5, <1>14, <2>1, <2>2
  <2>4. /\ status' = [r \in Requests |->
              IF r \in ToSet(preempted) THEN "PREEMPTED"
              ELSE IF r \in Arrived(waiting) THEN "WAITING"
              ELSE IF r \in Arrived(running) THEN "RUNNING"
              ELSE IF r \in ToSet(asking) THEN Wfc ELSE status[r]]
    BY <1>4 DEF ProcessedStatus
  <2>5. status' \in [Requests -> {"new", "WAITING", "RUNNING", "PREEMPTED", Wfc, "FINISHED_STOPPED", "FINISHED_ABORTED"}]
    BY <1>1, <2>4
  <2>6. \A r \in ToSet(preempted) : status'[r] = "PREEMPTED"
    BY <1>14, <2>4
  <2>7. \A r \in arrived \ ToSet(preempted) : status'[r] \in {"WAITING", "RUNNING"}
    BY <2>1, <2>2, <2>4 DEF arrived
  <2>8. \A r \in ToSet(asking) : status'[r] = Wfc
    BY <2>3, <2>4 DEF arrived
  <2>9. \A r \in Requests \ (ToSet(preempted) \cup arrived \cup ToSet(asking)) : status'[r] = status[r]
    BY <2>4 DEF arrived
  <2>10. origin' \in [Requests -> {"none", "WAITING", "RUNNING"}]
    BY <1>1, <1>4
  <2>. QED
    BY <1>4, <2>1, <2>5, <2>6, <2>7, <2>8, <2>9, <2>10 DEF Processed
<1>. QED
  BY <1>5, <1>12, <1>13, <1>14, <1>15, <1>16, <1>17, <1>18

\* While no batch is running, a request that stays on its queue has a chunk that
\* the model was not given yet, and nothing is being fetched for it.
LEMMA StayingHasChunk ==
  ASSUME ChunkIInv, batch = {}, NEW r \in requests, Stays(r)
  PROVE  /\ Unplayed(r) /\ r \in ready \cup loaded /\ (status[r] = Wfc => r \in loaded)
         /\ r \notin ToSet(pending) /\ ~Fetching(r) /\ ~Dropped(r)
         /\ Len(played[r]) \in Nat /\ getChunk[r] = Len(played[r]) + 1 /\ getChunk[r] \in 1..Len(sent[r])
         /\ prompt[r] = sent[r][getChunk[r]] /\ prompt[r] \in Chunks
<1>1. status[r] = Wfc => r \in loaded
  BY DEF Stays
<1>2. status[r] # Wfc => r \in ready \cup ended
  BY DEF Stays
<1>3. r \notin ToSet(pending) /\ ~Fetching(r) /\ ~Dropped(r)
  BY <1>1 DEF ChunkIInv, WaitingIsFetched
<1>4. r \in ready \cup loaded /\ Unplayed(r)
  <2>1. r \in ended => r \in ready \cup loaded
    BY <1>3 DEF ChunkIInv, ReadIsPlayed, Unplayed
  <2>. QED
    BY <1>1, <1>2, <2>1 DEF Unplayed
<1>5. r \in Requests /\ getChunk[r] \in Nat /\ played[r] \in Seq(Chunks) /\ Len(sent[r]) \in Nat
  <2>1. r \in Requests /\ getChunk[r] \in 0..MaxChunks /\ played[r] \in Seq(Chunks)
    BY DEF ChunkIInv, ChunkTypeOK
  <2>. QED
    BY <2>1, SenderTypes
<1>6. /\ Len(played[r]) \in Nat /\ getChunk[r] = Len(played[r]) + 1 /\ getChunk[r] \in 1..Len(sent[r])
      /\ prompt[r] = sent[r][getChunk[r]]
  <2>1. Len(played[r]) \in Nat
    BY <1>5, ListElement
  <2>2. /\ getChunk[r] = Len(played[r]) + 1 /\ getChunk[r] <= Len(sent[r])
        /\ prompt[r] = sent[r][getChunk[r]]
    BY <1>4 DEF ChunkIInv, ReadIsPlayed
  <2>. QED
    BY <1>5, <2>1, <2>2
<1>7. prompt[r] \in Chunks
  BY <1>5, <1>6, SenderTypes
<1>. QED
  BY <1>1, <1>3, <1>4, <1>6, <1>7

LEMMA ScheduleIInv ==
  ASSUME ChunkIInv, Schedule
  PROVE  ChunkIInv'
<1> DEFINE Statuses == {"new", "WAITING", "RUNNING", "PREEMPTED", Wfc, "FINISHED_STOPPED", "FINISHED_ABORTED"}
           arrived == {r \in Queued : status[r] = Wfc /\ r \in loaded}
<1>1. /\ UNCHANGED <<legacy, made, tasks, putChunk, sent, store, requests, prompt, polling, ended, getChunk>>
      /\ batch = {}
  BY DEF Schedule, sender
<1>20. \A q : Dropped(q)' = Dropped(q)
  BY <1>1, DroppedStays
<1>2. PICK now \in SUBSET requests, preempted \in SUBSET Requests, asking \in Seq(Requests) :
        /\ now \subseteq {r \in Queued : Stays(r)} /\ Cardinality(now) <= MaxSeqs
        /\ preempted \subseteq {r \in Queued : Stays(r)}
        /\ NoDuplicates(asking) /\ ToSet(asking) = {r \in Queued : ~Stays(r) /\ status[r] # Wfc}
        /\ Processed(now, preempted, asking)
        /\ waiting' \in Seq(Requests) /\ NoDuplicates(waiting')
        /\ running' \in Seq(Requests) /\ NoDuplicates(running')
        /\ ToSet(waiting') \cap ToSet(running') = {} /\ ToSet(waiting') \cup ToSet(running') \subseteq Queued
        /\ now \subseteq ToSet(running')
  BY ScheduleDoes
<1>3. /\ pending' = pending \o asking /\ cancelled' = cancelled \ ToSet(asking)
      /\ status' \in [Requests -> Statuses]
      /\ (\A r \in preempted : status'[r] = "PREEMPTED")
      /\ (\A r \in arrived \ preempted : status'[r] \in {"WAITING", "RUNNING"})
      /\ (\A r \in ToSet(asking) : status'[r] = Wfc)
      /\ (\A r \in Requests \ (preempted \cup arrived \cup ToSet(asking)) : status'[r] = status[r])
      /\ loaded' = loaded \ arrived /\ ready' = (ready \cup arrived) \ now
      /\ origin' \in [Requests -> {"none", "WAITING", "RUNNING"}]
      /\ batch' = now
      /\ computed' = [r \in Requests |-> computed[r] \/ r \in now]
      /\ played' = [r \in Requests |-> IF r \in now THEN Append(played[r], prompt[r]) ELSE played[r]]
  BY <1>2 DEF Processed
<1>4. /\ waiting \in Seq(Requests) /\ running \in Seq(Requests) /\ pending \in Seq(Requests)
      /\ requests \subseteq Requests /\ status \in [Requests -> Statuses]
      /\ loaded \subseteq Requests /\ ready \subseteq Requests
      /\ computed \in [Requests -> BOOLEAN] /\ played \in [Requests -> Seq(Chunks)]
      /\ Queued \subseteq Requests
  <2>1. waiting \in Seq(Requests) /\ running \in Seq(Requests)
    BY DEF ChunkIInv, ChunkTypeOK
  <2>2. Queued \subseteq Requests
    BY <2>1 DEF Queued, ToSet
  <2>. QED
    BY <2>1, <2>2 DEF ChunkIInv, ChunkTypeOK
<1>5. /\ pending' \in Seq(Requests) /\ ToSet(pending') = ToSet(pending) \cup ToSet(asking)
      /\ Len(pending') = Len(pending) + Len(asking) /\ Len(pending) \in Nat /\ Len(asking) \in Nat
      /\ (\A i \in 1..Len(pending) : pending'[i] = pending[i])
      /\ (\A i \in 1..Len(asking) : pending'[Len(pending) + i] = asking[i])
  BY <1>2, <1>3, <1>4, ListConcat, ListElement
<1>6. ASSUME NEW r \in now
      PROVE  /\ Unplayed(r) /\ r \in ready \cup loaded /\ (status[r] = Wfc => r \in loaded)
             /\ r \notin ToSet(pending) /\ ~Fetching(r) /\ ~Dropped(r) /\ r \in Queued /\ r \in requests
             /\ Len(played[r]) \in Nat /\ getChunk[r] = Len(played[r]) + 1 /\ getChunk[r] \in 1..Len(sent[r])
             /\ prompt[r] = sent[r][getChunk[r]] /\ prompt[r] \in Chunks
  <2>1. r \in requests /\ Stays(r) /\ r \in Queued
    BY <1>2
  <2>. QED
    BY <1>1, <2>1, StayingHasChunk
<1>7. \A r \in requests : r \in loaded => status[r] = Wfc /\ r \notin ToSet(pending) /\ ~Fetching(r)
  BY DEF ChunkIInv, WaitingIsFetched
<1>8. ASSUME NEW r \in requests, r \in preempted \cup arrived
      PROVE  /\ status'[r] # Wfc /\ r \notin loaded' /\ r \notin ToSet(pending') /\ ~Fetching(r) /\ ~Dropped(r)
             /\ status'[r] \in {"PREEMPTED", "WAITING", "RUNNING"} /\ r \in ready \cup loaded
  <2>1. Stays(r) /\ r \in Queued
    BY <1>2, <1>8 DEF Stays
  <2>2. /\ r \in ready \cup loaded /\ (status[r] = Wfc => r \in loaded)
        /\ r \notin ToSet(pending) /\ ~Fetching(r) /\ ~Dropped(r)
    BY <1>1, <2>1, StayingHasChunk
  <2>3. r \notin ToSet(asking)
    BY <1>2, <2>1
  <2>4. status'[r] \in {"PREEMPTED", "WAITING", "RUNNING"}
    BY <1>3, <1>8
  <2>5. r \notin loaded'
    BY <1>3, <1>7, <2>1
  <2>. QED
    BY <1>5, <2>2, <2>3, <2>4, <2>5 DEF Wfc
<1>9. ASSUME NEW r \in ToSet(asking)
      PROVE  /\ status'[r] = Wfc /\ status[r] # Wfc /\ r \in Queued /\ r \notin arrived
             /\ r \notin preempted /\ r \notin now /\ r \notin ready /\ r \notin ended
  <2>1. r \in Queued /\ ~Stays(r) /\ status[r] # Wfc
    BY <1>2
  <2>. QED
    BY <1>2, <1>3, <2>1 DEF Stays
<1>10. ChunkTypeOK'
  <2>1. played' \in [Requests -> Seq(Chunks)]
    <3>1. ASSUME NEW r \in Requests PROVE (IF r \in now THEN Append(played[r], prompt[r]) ELSE played[r]) \in Seq(Chunks)
      BY <1>4, <1>6
    <3>. QED
      BY <1>3, <3>1
  <2>2. computed' \in [Requests -> BOOLEAN]
    BY <1>3, <1>4
  <2>3. loaded' \subseteq Requests /\ ready' \subseteq Requests /\ cancelled' \subseteq Requests
    BY <1>3, <1>4 DEF ChunkIInv, ChunkTypeOK
  <2>4. batch' \subseteq Requests
    BY <1>2, <1>3, <1>4
  <2>. QED
    BY <1>1, <1>2, <1>3, <1>5, <2>1, <2>2, <2>3, <2>4 DEF ChunkIInv, ChunkTypeOK, Chunks
<1>11. MadeInOrder' /\ TasksInOrder' /\ SentInOrder' /\ StoreIsStream'
  BY <1>1, EarlierStageKeeps
<1>12. PollingIsWhole'
  BY <1>1 DEF ChunkIInv, PollingIsWhole, Chunks
<1>13. QueuesAreDisjoint'
  BY <1>2 DEF QueuesAreDisjoint
<1>14. BatchFits'
  BY <1>2, <1>3 DEF BatchFits
<1>15. NewIsUntouched'
  <2>1. ASSUME NEW q \in Requests, status'[q] = "new"
        PROVE  /\ q \notin requests \cup cancelled' \cup loaded' \cup ended \cup ready'
               /\ q \notin ToSet(waiting') \cup ToSet(running') \cup ToSet(pending')
               /\ polling.req # q /\ getChunk[q] = 0 /\ played'[q] = <<>> /\ prompt[q] = None
    <3>1. q \notin preempted \cup arrived \cup ToSet(asking)
      BY <1>3, <2>1 DEF Wfc
    <3>2. status[q] = "new"
      BY <1>3, <2>1, <3>1
    <3>3. /\ q \notin requests \cup cancelled \cup loaded \cup ended \cup ready
          /\ q \notin ToSet(waiting) \cup ToSet(running) \cup ToSet(pending)
          /\ polling.req # q /\ getChunk[q] = 0 /\ played[q] = <<>> /\ prompt[q] = None
      BY <3>2 DEF ChunkIInv, NewIsUntouched
    <3>4. q \notin Queued /\ q \notin now
      BY <3>3 DEF Queued
    <3>5. played'[q] = played[q]
      BY <1>3, <3>4
    <3>. QED
      BY <1>2, <1>3, <1>5, <3>1, <3>3, <3>4, <3>5
  <2>. QED
    BY <1>1, <2>1 DEF NewIsUntouched
<1>16. StoppedIsGone'
  <2>1. ASSUME NEW q \in requests PROVE status'[q] \in Active
    <3>1. CASE q \in preempted \cup arrived
      BY <1>8, <3>1 DEF Active
    <3>2. CASE q \in ToSet(asking)
      BY <1>9, <3>2 DEF Active
    <3>3. CASE q \notin preempted \cup arrived \cup ToSet(asking)
      BY <1>3, <1>4, <3>3 DEF ChunkIInv, StoppedIsGone
    <3>. QED
      BY <3>1, <3>2, <3>3
  <2>2. ASSUME NEW q \in Requests, status'[q] = "FINISHED_STOPPED"
        PROVE  q \notin ToSet(waiting') \cup ToSet(running')
    <3>1. q \notin preempted \cup arrived \cup ToSet(asking)
      BY <1>3, <2>2 DEF Wfc
    <3>2. status[q] = "FINISHED_STOPPED"
      BY <1>3, <2>2, <3>1
    <3>3. q \notin Queued
      BY <3>2 DEF ChunkIInv, StoppedIsGone, Queued
    <3>. QED
      BY <1>2, <3>3
  <2>. QED
    BY <1>1, <2>1, <2>2 DEF StoppedIsGone
<1>17. WaitingIsFetched'
  <2>1. cancelled' \cap requests' = {}
    BY <1>1, <1>3 DEF ChunkIInv, WaitingIsFetched
  <2>2. ASSUME NEW q \in requests
        PROVE  /\ \A i, j \in 1..Len(pending) : pending[i] = q /\ pending[j] = q => i = j
               /\ status[q] = Wfc <=> q \in ToSet(pending) \cup loaded \/ Fetching(q) \/ Dropped(q)
               /\ ~(q \in ToSet(pending) /\ q \in loaded) /\ ~(q \in ToSet(pending) \cup loaded /\ Fetching(q))
               /\ Dropped(q) => q \notin ToSet(pending) \cup loaded /\ ~Fetching(q)
    BY DEF ChunkIInv, WaitingIsFetched
  <2>3. ASSUME NEW q \in requests, NEW i \in 1..Len(pending'), NEW j \in 1..Len(pending'),
               pending'[i] = q, pending'[j] = q
        PROVE  i = j
    <3>1. ASSUME NEW k \in 1..Len(pending'), pending'[k] = q
          PROVE  \/ k \in 1..Len(pending) /\ pending[k] = q /\ q \in ToSet(pending)
                 \/ k - Len(pending) \in 1..Len(asking) /\ asking[k - Len(pending)] = q /\ q \in ToSet(asking)
      <4>1. CASE k <= Len(pending)
        <5>1. k \in 1..Len(pending)
          BY <1>5, <4>1
        <5>2. pending[k] = q
          BY <1>5, <3>1, <5>1
        <5>. QED
          BY <1>4, <5>1, <5>2 DEF ToSet
      <4>2. CASE k > Len(pending)
        <5>1. k - Len(pending) \in 1..Len(asking) /\ Len(pending) + (k - Len(pending)) = k
          BY <1>5, <4>2
        <5>2. pending'[Len(pending) + (k - Len(pending))] = asking[k - Len(pending)]
          BY <1>5, <5>1
        <5>3. asking[k - Len(pending)] = q
          BY <3>1, <5>1, <5>2
        <5>. QED
          BY <1>2, <5>1, <5>3 DEF ToSet
      <4>. QED
        BY <1>5, <4>1, <4>2
    <3>2. ~(q \in ToSet(pending) /\ q \in ToSet(asking))
      BY <1>9, <2>2
    <3>3. CASE q \in ToSet(pending)
      <4>1. i \in 1..Len(pending) /\ pending[i] = q /\ j \in 1..Len(pending) /\ pending[j] = q
        BY <2>3, <3>1, <3>2, <3>3
      <4>. QED
        BY <2>2, <4>1
    <3>4. CASE q \notin ToSet(pending)
      <4>1. /\ i - Len(pending) \in 1..Len(asking) /\ asking[i - Len(pending)] = q
            /\ j - Len(pending) \in 1..Len(asking) /\ asking[j - Len(pending)] = q
        BY <2>3, <3>1, <3>4
      <4>2. i - Len(pending) = j - Len(pending)
        BY <1>2, <4>1 DEF NoDuplicates
      <4>. QED
        BY <1>5, <4>2
    <3>. QED
      BY <3>3, <3>4
  <2>4. ASSUME NEW q \in requests
        PROVE  /\ status'[q] = Wfc <=> q \in ToSet(pending') \cup loaded' \/ Fetching(q) \/ Dropped(q)
               /\ ~(q \in ToSet(pending') /\ q \in loaded') /\ ~(q \in ToSet(pending') \cup loaded' /\ Fetching(q))
               /\ Dropped(q) => q \notin ToSet(pending') \cup loaded' /\ ~Fetching(q)
    <3>1. CASE q \in preempted \cup arrived
      BY <1>8, <3>1
    <3>2. CASE q \in ToSet(asking)
      BY <1>3, <1>5, <1>9, <2>2, <3>2
    <3>3. CASE q \notin preempted \cup arrived \cup ToSet(asking)
      <4>1. status'[q] = status[q] /\ (q \in ToSet(pending') <=> q \in ToSet(pending)) /\ (q \in loaded' <=> q \in loaded)
        BY <1>3, <1>4, <1>5, <3>3
      <4>. QED
        BY <2>2, <4>1
    <3>. QED
      BY <3>1, <3>2, <3>3
  <2>. QED
    BY <1>1, <1>20, <2>1, <2>3, <2>4 DEF WaitingIsFetched, Fetching
<1>18. ReadIsPlayed'
  <2>1. ASSUME NEW q \in requests
        PROVE  /\ getChunk[q] <= Len(sent[q]) /\ getChunk[q] = Len(played[q]) + (IF Unplayed(q) THEN 1 ELSE 0)
               /\ q \in ready => status[q] # Wfc
               /\ q \in ready \cup loaded => prompt[q] = sent[q][getChunk[q]]
               /\ polling.at = "fill" /\ Fetching(q) => polling.chunk = sent[q][getChunk[q]]
               /\ q \in ended => getChunk[q] > 0 /\ sent[q][getChunk[q]].last /\ Unplayed(q)
    BY <1>1 DEF ChunkIInv, ReadIsPlayed
  <2>2. \A q : Fetching(q)' = Fetching(q)
    BY <1>1 DEF Fetching
  <2>3. ASSUME NEW q \in now PROVE ~Unplayed(q)' /\ q \notin loaded' /\ q \notin ready'
    <3>1. q \notin ready' /\ ~Fetching(q)
      BY <1>3, <1>6
    <3>2. q \notin loaded'
      BY <1>3, <1>6, <1>7
    <3>. QED
      BY <1>6, <1>20, <2>2, <3>1, <3>2 DEF Unplayed
  <2>4. ASSUME NEW q \in requests, q \notin now PROVE Unplayed(q)' = Unplayed(q)
    <3>1. q \in ready' \cup loaded' <=> q \in ready \cup loaded
      BY <1>3, <2>4
    <3>. QED
      BY <1>1, <1>20, <2>2, <3>1 DEF Unplayed
  <2>5. ASSUME NEW q \in requests
        PROVE  getChunk[q] = Len(played'[q]) + (IF Unplayed(q)' THEN 1 ELSE 0)
    <3>1. CASE q \in now
      <4>1. played'[q] = Append(played[q], prompt[q]) /\ played[q] \in Seq(Chunks) /\ prompt[q] \in Chunks
        BY <1>3, <1>4, <1>6, <3>1
      <4>2. Len(played'[q]) = Len(played[q]) + 1
        BY <4>1
      <4>3. ~Unplayed(q)'
        BY <2>3, <3>1
      <4>4. Len(played[q]) \in Nat /\ getChunk[q] = Len(played[q]) + 1
        BY <1>6, <3>1
      <4>5. Len(played'[q]) \in Nat /\ getChunk[q] = Len(played'[q])
        BY <4>2, <4>4
      <4>. QED
        BY <4>3, <4>5
    <3>2. CASE q \notin now
      BY <1>3, <1>4, <2>1, <2>4, <3>2
    <3>. QED
      BY <3>1, <3>2
  <2>6. ASSUME NEW q \in requests, q \in ready' PROVE status'[q] # Wfc
    <3>1. CASE q \in preempted \cup arrived
      BY <1>8, <3>1
    <3>2. CASE q \in ToSet(asking)
      BY <1>3, <1>9, <2>6, <3>2
    <3>3. CASE q \notin preempted \cup arrived \cup ToSet(asking)
      BY <1>3, <1>4, <2>1, <2>6, <3>3
    <3>. QED
      BY <3>1, <3>2, <3>3
  <2>7. ASSUME NEW q \in requests, q \in ready' \cup loaded' PROVE prompt[q] = sent[q][getChunk[q]]
    BY <1>3, <2>1, <2>7
  <2>8. ASSUME NEW q \in requests, q \in ended
        PROVE  getChunk[q] > 0 /\ sent[q][getChunk[q]].last /\ (Unplayed(q)' \/ q \in batch')
    BY <1>3, <2>1, <2>4, <2>8
  <2>. QED
    BY <1>1, <2>1, <2>2, <2>5, <2>6, <2>7, <2>8 DEF ReadIsPlayed
<1>19. BatchIsPlayed'
  <2>1. ASSUME NEW q \in now
        PROVE  q \in ToSet(running') /\ status'[q] # Wfc /\ q \notin ready' /\ computed'[q]
    <3>1. q \in requests /\ q \in Requests /\ Stays(q) /\ q \in Queued /\ q \in ToSet(running')
      BY <1>2, <1>4
    <3>2. status'[q] # Wfc
      <4>1. CASE q \in preempted \cup arrived
        BY <1>8, <3>1, <4>1
      <4>2. CASE q \notin preempted \cup arrived
        <5>1. q \notin ToSet(asking)
          BY <1>2, <3>1
        <5>2. status[q] # Wfc
          BY <1>6, <3>1, <4>2
        <5>. QED
          BY <1>3, <3>1, <4>2, <5>1, <5>2
      <4>. QED
        BY <4>1, <4>2
    <3>. QED
      BY <1>3, <3>1, <3>2
  <2>. QED
    BY <1>3, <2>1 DEF BatchIsPlayed
<1>. QED
  BY <1>10, <1>11, <1>12, <1>13, <1>14, <1>15, <1>16, <1>17, <1>18, <1>19 DEF ChunkIInv
-----------------------------------------------------------------------------
(* The invariant                                                           *)

LEMMA InitIInv == Init => ChunkIInv
<1> SUFFICES ASSUME Init PROVE ChunkIInv
  OBVIOUS
<1>1. MaxChunks \in Nat /\ MaxSeqs \in Nat
  BY ChunkAssumption
<1>2. \A r \in Requests : /\ made[r] = <<>> /\ sent[r] = <<>> /\ played[r] = <<>> /\ status[r] = "new"
                          /\ putChunk[r] = 0 /\ getChunk[r] = 0
  BY DEF Init
<1>3. ToSet(waiting) = {} /\ ToSet(running) = {} /\ ToSet(pending) = {}
  BY DEF Init, ToSet
<1>4. ChunkTypeOK
  BY <1>1 DEF Init, ChunkTypeOK, Idle
<1>5. MadeInOrder /\ TasksInOrder /\ SentInOrder
  BY <1>1, <1>2 DEF Init, MadeInOrder, TasksInOrder, SentInOrder
<1>6. StoreIsStream
  BY <1>2 DEF Init, StoreIsStream, IsClosed
<1>7. PollingIsWhole
  BY DEF Init, PollingIsWhole, Idle
<1>8. QueuesAreDisjoint
  BY <1>3 DEF Init, QueuesAreDisjoint, NoDuplicates
<1>9. NewIsUntouched
  BY <1>2, <1>3, ChunkAssumption DEF Init, NewIsUntouched, Idle
<1>10. StoppedIsGone /\ WaitingIsFetched /\ ReadIsPlayed /\ BatchIsPlayed
  BY <1>2 DEF Init, StoppedIsGone, WaitingIsFetched, ReadIsPlayed, BatchIsPlayed
<1>11. BatchFits
  BY <1>1, FS_EmptySet DEF Init, BatchFits
<1>. QED
  BY <1>4, <1>5, <1>6, <1>7, <1>8, <1>9, <1>10, <1>11 DEF ChunkIInv

LEMMA StutterIInv ==
  ASSUME ChunkIInv, UNCHANGED vars
  PROVE  ChunkIInv'
<1>1. /\ UNCHANGED <<legacy, made, tasks, putChunk, sent, store, requests, waiting, running, status, batch, played>>
      /\ UNCHANGED <<prompt, computed, pending, polling, cancelled, loaded, ended, getChunk, ready, origin>>
  BY DEF vars, sender, engine, queues, adapter
<1>2. ChunkTypeOK'
  BY <1>1 DEF ChunkIInv, ChunkTypeOK, Chunks
<1>3. MadeInOrder' /\ TasksInOrder' /\ SentInOrder' /\ StoreIsStream'
  BY <1>1, EarlierStageKeeps
<1>4. \A r \in Requests : /\ Len(sent[r]) <= Len(sent'[r]) /\ Len(sent'[r]) \in Nat
                          /\ \A i \in 1..Len(sent[r]) : sent'[r][i] = sent[r][i]
  BY <1>1, SenderTypes
<1>5. /\ PollingIsWhole' /\ QueuesAreDisjoint' /\ NewIsUntouched' /\ StoppedIsGone'
      /\ WaitingIsFetched' /\ ReadIsPlayed' /\ BatchIsPlayed' /\ BatchFits'
  BY <1>1, <1>4, LaterStageKeeps
<1>. QED
  BY <1>2, <1>3, <1>5 DEF ChunkIInv

\* The inductive invariant holds in every state that the two stages, the save
\* thread, the connector and the recv thread reach.
THEOREM ChunkInvariant == Spec => []ChunkIInv
<1>1. ChunkIInv /\ [Next]_vars => ChunkIInv'
  <2> SUFFICES ASSUME ChunkIInv, [Next]_vars PROVE ChunkIInv'
    OBVIOUS
  <2>1. CASE \E r \in Requests : AddRequest(r)
    BY <2>1, AddRequestIInv
  <2>2. CASE \E r \in Requests : FinishRequests(r)
    BY <2>2, FinishRequestsIInv
  <2>3. CASE \E r \in Requests, c \in Chunks : SaveAsync(r, c)
    BY <2>3, SaveAsyncIInv
  <2>4. CASE SendSingleRequest
    BY <2>4, SendSingleRequestIInv
  <2>5. CASE TakePending
    BY <2>5, TakePendingIInv
  <2>6. CASE PollMiss
    BY <2>6, PollMissIInv
  <2>7. CASE PollHit
    BY <2>7, PollHitIInv
  <2>8. CASE FillPrompt
    BY <2>8, FillPromptIInv
  <2>9. CASE Schedule
    BY <2>9, ScheduleIInv
  <2>10. CASE UpdateFromOutput
    BY <2>10, UpdateFromOutputIInv
  <2>11. CASE UNCHANGED vars
    BY <2>11, StutterIInv
  <2>. QED
    BY <2>1, <2>2, <2>3, <2>4, <2>5, <2>6, <2>7, <2>8, <2>9, <2>10, <2>11 DEF Next
<1>. QED
  BY <1>1, InitIInv, PTL DEF Spec

\* The state of both adapters, of the connector and of the scheduler always has
\* its type (ChunkTypeOK), and a request of a batch is in the running queue and
\* was given its chunk, unless it was aborted while the batch executes.
THEOREM ChunkTypeCorrect == Spec => [](ChunkTypeOK /\ BatchIsPlayed)
<1>1. ChunkIInv => ChunkTypeOK /\ BatchIsPlayed
  BY DEF ChunkIInv
<1>. QED
  BY <1>1, ChunkInvariant, PTL

\* A request waits for a chunk exactly as long as the recv thread fetches one
\* for it, once: it is neither lost between the deque, the poll and the loaded
\* set, nor polled twice, and an empty chunk is the one way to drop out of all
\* three (WaitersAreServed).
THEOREM WaitersServed == Spec => []WaitersAreServed
<1>1. ChunkIInv => WaitersAreServed
  <2> SUFFICES ASSUME ChunkIInv, NEW r \in requests
               PROVE  Cardinality({i \in DOMAIN pending : pending[i] = r})
                        + (IF polling.req = r THEN 1 ELSE 0) + (IF r \in loaded THEN 1 ELSE 0)
                      = IF status[r] = Wfc /\ ~Dropped(r) THEN 1 ELSE 0
    BY DEF WaitersAreServed
  <2> DEFINE on == {i \in DOMAIN pending : pending[i] = r}
  <2>1. pending \in Seq(Requests) /\ DOMAIN pending = 1..Len(pending)
    BY ListElement DEF ChunkIInv, ChunkTypeOK
  <2>2. /\ \A i, j \in 1..Len(pending) : pending[i] = r /\ pending[j] = r => i = j
        /\ status[r] = Wfc <=> r \in ToSet(pending) \cup loaded \/ polling.req = r \/ Dropped(r)
        /\ ~(r \in ToSet(pending) /\ r \in loaded) /\ ~(r \in ToSet(pending) \cup loaded /\ polling.req = r)
        /\ Dropped(r) => r \notin ToSet(pending) \cup loaded /\ polling.req # r
    BY DEF ChunkIInv, WaitingIsFetched, Fetching
  <2>3. CASE r \in ToSet(pending)
    <3>1. PICK i \in DOMAIN pending : pending[i] = r
      BY <2>1, <2>3 DEF ToSet
    <3>2. on = {i}
      BY <2>1, <2>2, <3>1
    <3>3. Cardinality(on) = 1
      BY <3>2, FS_Singleton
    <3>. QED
      BY <2>2, <2>3, <3>3
  <2>4. CASE r \notin ToSet(pending)
    <3>1. on = {}
      BY <2>1, <2>4 DEF ToSet
    <3>2. Cardinality(on) = 0
      BY <3>1, FS_EmptySet
    <3>. QED
      BY <2>2, <2>4, <3>2
  <2>. QED
    BY <2>3, <2>4
<1>. QED
  BY <1>1, ChunkInvariant, PTL

\* However many requests were held back for a chunk while others started in their
\* place, a batch is never larger than max_num_seqs (BatchFits).
THEOREM BatchNeverTooLarge == Spec => []BatchFits
<1>1. ChunkIInv => BatchFits
  BY DEF ChunkIInv
<1>. QED
  BY <1>1, ChunkInvariant, PTL
-----------------------------------------------------------------------------
(* The stream                                                              *)

Stopped(r) == status[r] = "FINISHED_STOPPED"
StopsNobody == \A r \in Requests : Stopped(r)' <=> Stopped(r)

\* Only update_from_output stops a request.
LEMMA OnlyUpdateStops ==
  ASSUME ChunkIInv, [Next]_vars, ~UpdateFromOutput
  PROVE  StopsNobody
<1>0. status \in [Requests -> {"new", "WAITING", "RUNNING", "PREEMPTED", Wfc, "FINISHED_STOPPED", "FINISHED_ABORTED"}]
  BY DEF ChunkIInv, ChunkTypeOK
<1>1. CASE \E r \in Requests : AddRequest(r)
  BY <1>0, <1>1 DEF AddRequest, StopsNobody, Stopped
<1>2. CASE \E r \in Requests : FinishRequests(r)
  <2>1. PICK r \in Requests : FinishRequests(r)
    BY <1>2
  <2>2. r \in requests /\ status' = [status EXCEPT ![r] = "FINISHED_ABORTED"]
    BY <2>1 DEF FinishRequests
  <2>3. ~Stopped(r)
    BY <2>2 DEF ChunkIInv, StoppedIsGone, Active, Stopped, Wfc
  <2>. QED
    BY <1>0, <2>2, <2>3 DEF StopsNobody, Stopped
<1>3. CASE Schedule
  <2>1. PICK now \in SUBSET requests, preempted \in SUBSET Requests, asking \in Seq(Requests) :
          /\ preempted \subseteq {r \in Queued : Stays(r)}
          /\ ToSet(asking) = {r \in Queued : ~Stays(r) /\ status[r] # Wfc}
          /\ Processed(now, preempted, asking)
    BY <1>3, ScheduleDoes
  <2> DEFINE arrived == {r \in Queued : status[r] = Wfc /\ r \in loaded}
             touched == preempted \cup arrived \cup ToSet(asking)
  <2>2. /\ \A r \in Requests \ touched : status'[r] = status[r]
        /\ \A r \in touched : r \in Queued /\ status'[r] # "FINISHED_STOPPED"
    <3>1. \A r \in preempted : status'[r] = "PREEMPTED"
      BY <2>1 DEF Processed
    <3>2. \A r \in arrived \ preempted : status'[r] \in {"WAITING", "RUNNING"}
      BY <2>1 DEF Processed
    <3>3. \A r \in ToSet(asking) : status'[r] = Wfc
      BY <2>1 DEF Processed
    <3>4. \A r \in Requests \ touched : status'[r] = status[r]
      BY <2>1 DEF Processed
    <3>. QED
      BY <2>1, <3>1, <3>2, <3>3, <3>4 DEF Wfc
  <2>3. \A r \in Requests : r \in Queued => status[r] # "FINISHED_STOPPED"
    BY DEF ChunkIInv, StoppedIsGone, Queued
  <2> HIDE DEF touched
  <2>. QED
    BY <2>2, <2>3 DEF StopsNobody, Stopped
<1>4. CASE \/ \E r \in Requests, c \in Chunks : SaveAsync(r, c)
           \/ SendSingleRequest \/ TakePending \/ PollMiss \/ PollHit \/ FillPrompt \/ UNCHANGED vars
  <2>1. status' = status
    BY <1>4 DEF SaveAsync, SendSingleRequest, TakePending, PollMiss, PollHit, FillPrompt, vars, engine
  <2>. QED
    BY <2>1 DEF StopsNobody, Stopped
<1>. QED
  BY <1>1, <1>2, <1>3, <1>4 DEF Next

\* Steps at which the stream stands still.
LEMMA StreamStands ==
  ASSUME UNCHANGED <<sent, played>>, StopsNobody
  PROVE  UNCHANGED Stream!vars
<1>1. {r \in Requests : status'[r] = "FINISHED_STOPPED"} = {r \in Requests : status[r] = "FINISHED_STOPPED"}
  BY DEF StopsNobody, Stopped
<1>. QED
  BY <1>1 DEF Stream!vars

\* A chunk that is put into the connector is the next one of a stream that is not
\* closed; one whose put fails is not part of the stream.
LEMMA SendOfStream ==
  ASSUME ChunkIInv, SendSingleRequest, StopsNobody
  PROVE  [Stream!Next]_(Stream!vars)
<1>1. {r \in Requests : status'[r] = "FINISHED_STOPPED"} = {r \in Requests : status[r] = "FINISHED_STOPPED"}
  BY DEF StopsNobody, Stopped
<1>2. played' = played /\ tasks # <<>>
  BY DEF SendSingleRequest, engine
<1>3. CASE sent' = sent
  BY <1>2, <1>3, StreamStands
<1>4. CASE sent' = [sent EXCEPT ![Head(tasks).req] = Append(@, Head(tasks).chunk)]
  <2>1. tasks \in Seq(Task)
    BY SenderTypes
  <2>2. Len(tasks) \in Nat \ {0} /\ Head(tasks) = tasks[1]
    BY <1>2, <2>1, ListHeadTail
  <2>3. 1 \in 1..Len(tasks)
    BY <2>2
  <2>4. Head(tasks).req \in Requests /\ Head(tasks).chunk \in Chunks
    BY <2>2, <2>3, SenderTypes
  <2>5. ~IsClosed(Head(tasks).req)
    BY <2>2, <2>3, <2>4, ClosedIsDone
  <2>6. Stream!Send(Head(tasks).req, Head(tasks).chunk)
    BY <1>1, <1>2, <1>4, <2>4, <2>5 DEF Stream!Send, Stream!Closed, IsClosed
  <2>. QED
    BY <2>4, <2>6 DEF Stream!Next
<1>. QED
  BY <1>3, <1>4 DEF SendSingleRequest

\* A batch is given the next chunk of the stream of each of its requests.
LEMMA ScheduleOfStream ==
  ASSUME ChunkIInv, Schedule, StopsNobody
  PROVE  [Stream!Next]_(Stream!vars)
<1>1. {r \in Requests : status'[r] = "FINISHED_STOPPED"} = {r \in Requests : status[r] = "FINISHED_STOPPED"}
  BY DEF StopsNobody, Stopped
<1>2. sent' = sent /\ batch = {}
  BY DEF Schedule, sender
<1>3. PICK now \in SUBSET requests, preempted \in SUBSET Requests, asking \in Seq(Requests) :
        /\ now \subseteq {r \in Queued : Stays(r)}
        /\ Processed(now, preempted, asking)
  BY ScheduleDoes
<1>4. played' = [r \in Requests |-> IF r \in now THEN Append(played[r], prompt[r]) ELSE played[r]]
  BY <1>3 DEF Processed
<1>5. requests \subseteq Requests
  BY DEF ChunkIInv, ChunkTypeOK
<1>6. ASSUME NEW r \in now
      PROVE  /\ Len(played[r]) < Len(sent[r]) /\ prompt[r] = sent[r][Len(played[r]) + 1]
             /\ status[r] # "FINISHED_STOPPED"
  <2>1. r \in requests /\ Stays(r)
    BY <1>3
  <2>2. /\ Len(played[r]) \in Nat /\ getChunk[r] = Len(played[r]) + 1 /\ getChunk[r] \in 1..Len(sent[r])
        /\ prompt[r] = sent[r][getChunk[r]]
    BY <1>2, <2>1, StayingHasChunk
  <2>3. Len(sent[r]) \in Nat
    BY <1>5, <2>1, SenderTypes
  <2>4. status[r] # "FINISHED_STOPPED"
    BY <2>1 DEF ChunkIInv, StoppedIsGone, Active, Wfc
  <2>. QED
    BY <2>2, <2>3, <2>4
<1>7. played' = [r \in Requests |->
        IF r \in now THEN Append(played[r], sent[r][Len(played[r]) + 1]) ELSE played[r]]
  BY <1>4, <1>6
<1>8. Stream!Play(now)
  BY <1>1, <1>2, <1>6, <1>7 DEF Stream!Play
<1>. QED
  BY <1>3, <1>5, <1>8 DEF Stream!Next

\* What stops was given the last chunk of its stream.
LEMMA UpdateOfStream ==
  ASSUME ChunkIInv, UpdateFromOutput
  PROVE  [Stream!Next]_(Stream!vars)
<1> DEFINE over == {r \in batch \cap requests : Stops(r)}
<1>1. /\ UNCHANGED <<sent, played>>
      /\ status' = [r \in Requests |-> IF r \in over THEN "FINISHED_STOPPED" ELSE status[r]]
  BY DEF UpdateFromOutput, sender
<1>2. over \in SUBSET Requests
  BY DEF ChunkIInv, ChunkTypeOK
<1>3. ASSUME NEW r \in over PROVE Stream!Closed(r) /\ Len(played[r]) = Len(sent[r])
  <2>1. r \in batch /\ r \in requests /\ r \in ended /\ r \in Requests
    BY <1>2 DEF Stops
  <2>2. status[r] # Wfc /\ r \notin ready
    BY <2>1 DEF ChunkIInv, BatchIsPlayed
  <2>3. ~Unplayed(r)
    BY <2>1, <2>2 DEF ChunkIInv, WaitingIsFetched, Unplayed
  <2>4. /\ getChunk[r] <= Len(sent[r]) /\ getChunk[r] = Len(played[r]) + 0
        /\ getChunk[r] > 0 /\ sent[r][getChunk[r]].last
    BY <2>1, <2>3 DEF ChunkIInv, ReadIsPlayed
  <2>5. played[r] \in Seq(Chunks) /\ getChunk[r] \in Nat /\ Len(sent[r]) \in Nat
    BY <2>1, SenderTypes DEF ChunkIInv, ChunkTypeOK
  <2>6. Len(played[r]) \in Nat
    BY <2>5, ListElement
  <2>7. getChunk[r] \in 1..Len(sent[r]) /\ getChunk[r] = Len(played[r])
    BY <2>4, <2>5, <2>6
  <2>8. getChunk[r] = Len(sent[r])
    BY <2>1, <2>4, <2>7, ClosedIsDone
  <2>. QED
    BY <2>4, <2>7, <2>8 DEF Stream!Closed
<1> HIDE DEF over
<1>4. {r \in Requests : status'[r] = "FINISHED_STOPPED"} = {r \in Requests : status[r] = "FINISHED_STOPPED"} \cup over
  BY <1>1, <1>2
<1>5. PICK rs \in SUBSET Requests : rs = over
  BY <1>2
<1>6. Stream!End(rs)
  BY <1>1, <1>3, <1>4, <1>5 DEF Stream!End
<1>. QED
  BY <1>6 DEF Stream!Next

\* The transfer implements ChunkStream: whatever the threads, aborts and failed
\* puts do, the model is given the chunks that were sent, in order and each once,
\* and a request stops by itself only after its last one (StreamSpec).
THEOREM ImplementsStream == Spec => StreamSpec
<1>1. Init => Stream!Init
  BY DEF Init, Stream!Init
<1>2. ChunkIInv /\ [Next]_vars => [Stream!Next]_(Stream!vars)
  <2> SUFFICES ASSUME ChunkIInv, [Next]_vars PROVE [Stream!Next]_(Stream!vars)
    OBVIOUS
  <2>1. CASE UpdateFromOutput
    BY <2>1, UpdateOfStream
  <2>2. CASE ~UpdateFromOutput
    <3>1. StopsNobody
      BY <2>2, OnlyUpdateStops
    <3>2. CASE SendSingleRequest
      BY <3>1, <3>2, SendOfStream
    <3>3. CASE Schedule
      BY <3>1, <3>3, ScheduleOfStream
    <3>4. CASE ~SendSingleRequest /\ ~Schedule
      <4>1. UNCHANGED <<sent, played>>
        BY <2>2, <3>4 DEF Next, AddRequest, FinishRequests, SaveAsync, TakePending, PollMiss, PollHit,
                          FillPrompt, vars, sender, engine
      <4>. QED
        BY <3>1, <4>1, StreamStands
    <3>. QED
      BY <3>2, <3>3, <3>4
  <2>. QED
    BY <2>1, <2>2
<1>. QED
  BY <1>1, <1>2, ChunkInvariant, PTL DEF Spec, StreamSpec, Stream!Spec

Promise == INSTANCE ChunkStreamProofs WITH
  Requests <- Requests, Chunks <- Chunks, sent <- sent, played <- played,
  ended <- {r \in Requests : status[r] = "FINISHED_STOPPED"}

\* So a request that stopped by itself was given every chunk that was sent for it,
\* in order, and the last of them is the one marked as the last: what ChunkStream
\* promises (EndedIsComplete) holds of the two stages.
THEOREM StoppedIsComplete == Spec => []Promise!EndedIsComplete
<1>1. Stream!Init => Promise!Init
  BY DEF Stream!Init, Promise!Init
<1>2. [Stream!Next]_(Stream!vars) => [Promise!Next]_(Promise!vars)
  BY DEF Stream!Next, Stream!vars, Stream!Send, Stream!Closed, Stream!Play, Stream!End,
         Promise!Next, Promise!vars, Promise!Send, Promise!Closed, Promise!Play, Promise!End
<1>. QED
  BY <1>1, <1>2, ImplementsStream, Promise!EndedComplete, PTL
     DEF StreamSpec, Stream!Spec, Promise!Spec
=============================================================================
