-------------------------- MODULE KvTransferProofs --------------------------
(***************************************************************************)
(* Safety of the KV cache hand-over for any requests, blocks and block     *)
(* size, with and without async scheduling and for every trigger.          *)
(***************************************************************************)
EXTENDS KvTransfer, ContainersProofs

Unended == {r \in Requests : status[r] \notin Over}

\* A request that has not ended can compute one more token, and the scheduler
\* has it from the moment it was added.
UnendedHasRoom ==
  \A r \in Unended :
    /\ tokens[r] < MaxTokens
    /\ status[r] = "new" => outstanding[r] = 0 /\ r \notin triggered
    /\ status[r] # "new" => r \in requests

\* Only what has ended is held for its transfer or told to the runner as finished.
OnlyEndedIsFinished ==
  /\ finishedIds \cap Unended = {} /\ heldFree \cap Unended = {}
  /\ \A k \in 1..Len(inflight) : inflight[k].finished \cap Unended = {}

\* The batches on their way that r is in.
Flights(r) ==
  LET out(k) == IF k <= Len(inflight) /\ r \in IdsOf(inflight[k].batch) THEN 1 ELSE 0
      back(k) == IF k <= Len(outputs) /\ r \in outputs[k].reqs THEN 1 ELSE 0
  IN  out(1) + out(2) + back(1) + back(2)

\* At most two batches are on their way, and with async scheduling a
\* placeholder stands for each output that is still to come.
PlaceholdersMatchFlights ==
  /\ Flying <= Depth
  /\ \A r \in Unended : outstanding[r] = IF mode.async THEN Flights(r) ELSE 0

\* No block is in two tables, or twice in one, and a live request has blocks
\* for exactly what is computed.
TablesAreDisjoint ==
  /\ \A r \in Requests : NoDuplicates(table[r])
  /\ \A r, q \in Requests : r # q => ToSet(table[r]) \cap ToSet(table[q]) = {}
  /\ \A r \in Unended : Len(table[r]) = BlocksFor(computed[r])

\* So are the blocks of a batch, as of when it was scheduled.
Disjoint(batch) ==
  /\ \A x \in batch : NoDuplicates(x.blocks) /\ Len(x.blocks) = BlocksFor(x.to)
  /\ \A x, y \in batch : x.req = y.req \/ ToSet(x.blocks) \cap ToSet(y.blocks) # {} => x = y
BatchesAreDisjoint == \A k \in 1..Len(inflight) : Disjoint(inflight[k].batch)

\* What the blocks will hold, and whom the runner will know, once it has
\* executed the first k batches on their way.
MemoryAfter(k) ==
  IF k = 0 THEN content
  ELSE IF k = 1 THEN Written(content, inflight[1].batch)
  ELSE Written(Written(content, inflight[1].batch), inflight[2].batch)

KnownStep(known, o) == (known \ o.finished) \cup IdsOf(o.batch)
KnownAfter(k) ==
  IF k = 0 THEN cached
  ELSE IF k = 1 THEN KnownStep(cached, inflight[1])
  ELSE KnownStep(KnownStep(cached, inflight[1]), inflight[2])

Memory == MemoryAfter(Len(inflight))
Known == KnownAfter(Len(inflight))

\* The content c is the i-th block of r, and up to token n of it.
IsPart(c, r, i, n) == c # Nothing /\ c.req = r /\ c.nth = i /\ c.upTo >= Min({n, i * BlockSize})

\* Then every table refers to the cache of its request, and the runner knows
\* every request that has one.
TablesAreWritten ==
  /\ \A r \in Requests : \A i \in 1..Len(table[r]) : IsPart(Memory[table[r][i]], r, i, computed[r])
  /\ \A r \in Unended : table[r] # <<>> => r \in Known

\* A request is queued at most once, and when its transfer comes the blocks it
\* names still hold its cache.
QueuedOnce(marks) ==
  /\ \A m, o \in marks : m.req = o.req => m = o
  /\ \A m \in marks : m.blocks = <<>> => m.req \in bare

MarksAreWhole ==
  /\ QueuedOnce(needing) /\ \A m \in needing : IsWhole(m, Memory, Known)
  /\ \A k \in 1..Len(inflight) :
       /\ QueuedOnce(inflight[k].transfers)
       /\ \A m \in inflight[k].transfers : IsWhole(m, MemoryAfter(k - 1), KnownAfter(k - 1))

\* r was marked and its mark has not been extracted.
IsQueued(r) ==
  r \in IdsOf(needing) \/ \E k \in 1..Len(inflight) : r \in IdsOf(inflight[k].transfers)

\* A live request that triggered no transfer was not offered; one that did was,
\* and until it is acknowledged it is queued or active.
TriggeredIsOffered ==
  /\ \A r \in Unended \ triggered : Offers(r) = 0 /\ ~IsQueued(r)
  /\ \A r \in triggered : r \in bare \/ Offers(r) = 1
  /\ \A r \in Unended \cap triggered : r \in IdsOf(needing) \cup active \cup ready
  /\ scheduled => IdsOf(needing) \cap Unended = {}

\* An acknowledgement is of an extraction.
AcksAreExtractions ==
  /\ \A k \in 1..Len(outputs) : \A r \in outputs[k].acks : extracted[r] = 1 \/ r \in bare

KvIInv ==
  /\ KvTypeOK /\ UnendedHasRoom /\ OnlyEndedIsFinished /\ PlaceholdersMatchFlights
  /\ TablesAreDisjoint /\ BatchesAreDisjoint /\ TablesAreWritten /\ MarksAreWhole
  /\ ExtractedIsOwn /\ TriggeredIsOffered /\ OfferedOnce /\ AcksAreExtractions /\ ReadyIsExtracted
-----------------------------------------------------------------------------
(* Arithmetic of blocks                                                    *)

\* Rounding up to whole blocks.
LEMMA BlocksForType ==
  ASSUME NEW n \in Int
  PROVE  /\ BlocksFor(n) \in Int /\ BlocksFor(n) * BlockSize >= n
         /\ BlocksFor(n) * BlockSize < n + BlockSize
  BY KvAssumption, Z3 DEF BlocksFor

\* A product grows with its factor.
LEMMA ProductGrows ==
  ASSUME NEW i \in Int, NEW j \in Int, i >= j
  PROVE  i * BlockSize >= j * BlockSize
  BY KvAssumption, Z3

\* The block after those that n tokens need reaches beyond token n.
LEMMA NextBlockIsBeyond ==
  ASSUME NEW n \in Int, NEW i \in Int, i > BlocksFor(n)
  PROVE  i * BlockSize > n
<1>1. i >= BlocksFor(n) + 1
  BY BlocksForType
<1>2. i * BlockSize >= (BlocksFor(n) + 1) * BlockSize
  BY <1>1, ProductGrows, BlocksForType
<1>3. (BlocksFor(n) + 1) * BlockSize = BlocksFor(n) * BlockSize + BlockSize
  BY BlocksForType, KvAssumption, Z3
<1>. QED
  BY <1>2, <1>3, BlocksForType, KvAssumption

\* More tokens need no fewer blocks.
LEMMA BlocksForGrows ==
  ASSUME NEW n \in Int, NEW m \in Int, n <= m
  PROVE  BlocksFor(n) <= BlocksFor(m)
<1>1. SUFFICES ASSUME BlocksFor(n) >= BlocksFor(m) + 1 PROVE FALSE
  BY BlocksForType
<1>2. (BlocksFor(n) - 1) * BlockSize >= BlocksFor(m) * BlockSize
  BY <1>1, ProductGrows, BlocksForType
<1>3. (BlocksFor(n) - 1) * BlockSize = BlocksFor(n) * BlockSize - BlockSize
  BY BlocksForType, KvAssumption, Z3
<1>. QED
  BY <1>2, <1>3, BlocksForType, KvAssumption

\* No token needs no block, and no more blocks are needed than there are tokens.
LEMMA BlocksForBounds ==
  ASSUME NEW n \in Nat
  PROVE  BlocksFor(n) \in 0..n /\ (n = 0 => BlocksFor(n) = 0)
<1>1. BlocksFor(0) = 0
  <2>1. BlocksFor(0) >= 0
    <3>1. SUFFICES ASSUME BlocksFor(0) <= -1 PROVE FALSE
      BY BlocksForType
    <3>2. (-1) * BlockSize >= BlocksFor(0) * BlockSize
      BY <3>1, ProductGrows, BlocksForType
    <3>. QED
      BY <3>2, BlocksForType, KvAssumption
  <2>2. BlocksFor(0) <= 0
    <3>1. SUFFICES ASSUME BlocksFor(0) >= 1 PROVE FALSE
      BY BlocksForType
    <3>2. BlocksFor(0) * BlockSize >= 1 * BlockSize
      BY <3>1, ProductGrows, BlocksForType
    <3>. QED
      BY <3>2, BlocksForType, KvAssumption
  <2>. QED
    BY <2>1, <2>2, BlocksForType
<1>2. BlocksFor(n) >= 0
  BY <1>1, BlocksForGrows, BlocksForType
<1>3. BlocksFor(n) <= n
  <2>1. SUFFICES ASSUME BlocksFor(n) >= n + 1 PROVE FALSE
    BY BlocksForType
  <2>2. BlocksFor(n) * BlockSize >= (n + 1) * BlockSize
    BY <2>1, ProductGrows, BlocksForType
  <2>3. /\ n * BlockSize \in Int /\ (n + 1) * BlockSize \in Int
        /\ (n + 1) * BlockSize = n * BlockSize + BlockSize /\ n * BlockSize >= n
    BY KvAssumption, Z3
  <2>4. BlocksFor(n) * BlockSize \in Int /\ BlocksFor(n) * BlockSize < n + BlockSize
    BY BlocksForType, KvAssumption
  <2> DEFINE A == BlocksFor(n) * BlockSize  B == (n + 1) * BlockSize  C == n * BlockSize
  <2>5. A >= B /\ B = C + BlockSize /\ C >= n /\ A < n + BlockSize
        /\ A \in Int /\ B \in Int /\ C \in Int
    BY <2>2, <2>3, <2>4
  <2> HIDE DEF A, B, C
  <2>. QED
    BY <2>5, KvAssumption
<1>. QED
  BY <1>1, <1>2, <1>3, BlocksForType

\* The lesser of two numbers.
LEMMA MinOfTwo ==
  ASSUME NEW a \in Int, NEW b \in Int
  PROVE  Min({a, b}) = IF a <= b THEN a ELSE b
<1>1. CASE a <= b
  BY <1>1, Z3 DEF Min
<1>2. CASE ~(a <= b)
  BY <1>2, Z3 DEF Min
<1>. QED
  BY <1>1, <1>2
-----------------------------------------------------------------------------
(* Adding a request                                                        *)

LEMMA AddRequestIInv ==
  ASSUME KvIInv, NEW r \in Requests, AddRequest(r)
  PROVE  KvIInv'
<1>1. /\ status' \in [Requests -> {"new", "waiting", "running", "preempted"} \cup Over]
      /\ requests \subseteq requests' /\ requests' \subseteq Requests
      /\ status[r] = "new" /\ \A q \in Requests : status'[q] = IF q = r THEN "waiting" ELSE status[q]
  BY DEF AddRequest, KvIInv, KvTypeOK
<1>2. Unended' = Unended
  BY <1>1 DEF Unended, Over
<1>3. /\ UNCHANGED <<mode, tokens, computed, outstanding, table, needing, active, heldFree, pendingStop>>
      /\ UNCHANGED <<triggered, finishedIds, inflight, outputs, content, cached, extracted, spoiled, ready, bare>>
      /\ scheduled' = FALSE /\ requests' = requests \cup {r}
  BY DEF AddRequest, schedule, transfer, worker
<1>4. KvTypeOK'
  BY <1>1, <1>3 DEF KvTypeOK, KvIInv, Over, Marks, Parts
<1>5. UnendedHasRoom'
  BY <1>1, <1>2, <1>3 DEF UnendedHasRoom, Unended, KvIInv
<1>6. OnlyEndedIsFinished'
  BY <1>2, <1>3 DEF OnlyEndedIsFinished, KvIInv
<1>7. PlaceholdersMatchFlights'
  BY <1>2, <1>3 DEF PlaceholdersMatchFlights, Flights, Flying, Depth, KvIInv, IdsOf
<1>8. TablesAreDisjoint' /\ BatchesAreDisjoint'
  BY <1>2, <1>3 DEF TablesAreDisjoint, BatchesAreDisjoint, Disjoint, KvIInv
<1>9. Memory' = Memory /\ Known' = Known /\ \A k : MemoryAfter(k)' = MemoryAfter(k) /\ KnownAfter(k)' = KnownAfter(k)
  BY <1>3 DEF Memory, Known, MemoryAfter, KnownAfter
<1>10. TablesAreWritten' /\ MarksAreWhole'
  BY <1>2, <1>3, <1>9 DEF TablesAreWritten, MarksAreWhole, QueuedOnce, KvIInv
<1>11. \A q : Offers(q)' = Offers(q) /\ IsQueued(q)' = IsQueued(q) /\ IdsOf(needing)' = IdsOf(needing)
  BY <1>3 DEF Offers, IsQueued, IdsOf
<1>12. TriggeredIsOffered'
  BY <1>2, <1>3, <1>11 DEF TriggeredIsOffered, KvIInv
<1>13. OfferedOnce' /\ ReadyIsExtracted'
  BY <1>1, <1>3, <1>11 DEF OfferedOnce, ReadyIsExtracted, KvIInv
<1>14. ExtractedIsOwn' /\ AcksAreExtractions'
  BY <1>3 DEF ExtractedIsOwn, AcksAreExtractions, KvIInv
<1>. QED
  BY <1>4, <1>5, <1>6, <1>7, <1>8, <1>10, <1>12, <1>13, <1>14 DEF KvIInv
-----------------------------------------------------------------------------
(* What the forward pass writes, and how often a cache is offered          *)

\* A block of the batch beyond the tokens computed before holds its part of the
\* cache afterwards; any other block keeps what it held.
LEMMA WrittenIs ==
  ASSUME NEW old, NEW batch \in SUBSET Parts, Disjoint(batch), NEW b \in Blocks
  PROVE  /\ \A x \in batch : \A i \in 1..Len(x.blocks) :
              x.blocks[i] = b /\ i * BlockSize > x.from =>
                Written(old, batch)[b] = [req |-> x.req, nth |-> i, upTo |-> Min({x.to, i * BlockSize})]
         /\ (\A x \in batch : \A i \in 1..Len(x.blocks) : x.blocks[i] = b => ~(i * BlockSize > x.from)) =>
              Written(old, batch)[b] = old[b]
<1>1. \A x \in batch : x.blocks \in Seq(Blocks) /\ DOMAIN x.blocks = 1..Len(x.blocks)
  BY DEF Parts
<1>2. ASSUME NEW x \in batch, NEW i \in 1..Len(x.blocks), x.blocks[i] = b, i * BlockSize > x.from
      PROVE  Written(old, batch)[b] = [req |-> x.req, nth |-> i, upTo |-> Min({x.to, i * BlockSize})]
  <2> DEFINE y == CHOOSE z \in batch : b \in ToSet(z.blocks)
             k == CHOOSE j \in DOMAIN y.blocks : y.blocks[j] = b
  <2>1. b \in ToSet(x.blocks)
    BY <1>1, <1>2 DEF ToSet
  <2>2. y \in batch /\ b \in ToSet(y.blocks)
    BY <2>1
  <2>3. y = x
    BY <2>1, <2>2 DEF Disjoint
  <2>4. k \in 1..Len(x.blocks) /\ x.blocks[k] = b
    BY <1>1, <1>2, <2>3
  <2>5. k = i
    BY <1>2, <2>4 DEF Disjoint, NoDuplicates
  <2>6. Written(old, batch)[b] = [req |-> y.req, nth |-> k, upTo |-> Min({y.to, k * BlockSize})]
    BY <1>1, <1>2 DEF Written
  <2>. QED
    BY <2>3, <2>5, <2>6
<1>3. ASSUME \A x \in batch : \A i \in 1..Len(x.blocks) : x.blocks[i] = b => ~(i * BlockSize > x.from)
      PROVE  Written(old, batch)[b] = old[b]
  BY <1>1, <1>3 DEF Written
<1>. QED
  BY <1>2, <1>3

\* A block holds nothing or a part of a cache.
Contents == {Nothing} \cup [req : Requests, nth : 1..MaxTokens, upTo : 1..MaxTokens]

LEMMA WrittenType ==
  ASSUME NEW old \in [Blocks -> Contents], NEW batch \in SUBSET Parts, Disjoint(batch)
  PROVE  Written(old, batch) \in [Blocks -> Contents]
<1>1. ASSUME NEW b \in Blocks PROVE Written(old, batch)[b] \in Contents
  <2>1. CASE \A x \in batch : \A i \in 1..Len(x.blocks) : x.blocks[i] = b => ~(i * BlockSize > x.from)
    BY <2>1, WrittenIs
  <2>2. ASSUME NEW x \in batch, NEW i \in 1..Len(x.blocks), x.blocks[i] = b, i * BlockSize > x.from
        PROVE  Written(old, batch)[b] \in Contents
    <3>1. /\ x.req \in Requests /\ x.to \in 1..MaxTokens /\ Len(x.blocks) = BlocksFor(x.to)
          /\ MaxTokens \in Nat /\ x.blocks \in Seq(Blocks)
      BY KvAssumption DEF Parts, Disjoint
    <3>2. BlocksFor(x.to) \in 0..x.to
      BY <3>1, BlocksForBounds
    <3>3. i \in 1..MaxTokens
      BY <3>1, <3>2
    <3>4. i * BlockSize >= 1 * BlockSize /\ 1 * BlockSize >= 1 /\ i * BlockSize \in Int
      BY <3>3, ProductGrows, KvAssumption
    <3>5. Min({x.to, i * BlockSize}) \in 1..MaxTokens
      BY <3>1, <3>4, MinOfTwo, KvAssumption
    <3>6. Written(old, batch)[b] = [req |-> x.req, nth |-> i, upTo |-> Min({x.to, i * BlockSize})]
      BY <2>2, WrittenIs
    <3>. QED
      BY <3>1, <3>3, <3>5, <3>6 DEF Contents
  <2>. QED
    BY <2>1, <2>2
<1>2. Written(old, batch) = [b \in Blocks |-> Written(old, batch)[b]]
  BY DEF Written
<1>. QED
  BY <1>1, <1>2

\* A set of at most two positions, counted.
LEMMA CountOfTwo ==
  ASSUME NEW S \in SUBSET {1, 2}
  PROVE  Cardinality(S) = (IF 1 \in S THEN 1 ELSE 0) + (IF 2 \in S THEN 1 ELSE 0)
<1>1. S = {} \/ S = {1} \/ S = {2} \/ S = {1} \cup {2}
  OBVIOUS
<1>2. Cardinality({}) = 0 /\ Cardinality({1}) = 1 /\ Cardinality({2}) = 1
  BY FS_EmptySet, FS_Singleton
<1>3. Cardinality({1} \cup {2}) = 2
  BY <1>2, FS_AddElement, FS_Singleton
<1>4. CASE S = {}
  BY <1>2, <1>4
<1>5. CASE S = {1}
  BY <1>2, <1>5
<1>6. CASE S = {2}
  BY <1>2, <1>6
<1>7. CASE S = {1} \cup {2}
  <2>1. Cardinality(S) = 2 /\ 1 \in S /\ 2 \in S
    BY <1>3, <1>7
  <2>. QED
    BY <2>1
<1>. QED
  BY <1>1, <1>4, <1>5, <1>6, <1>7

\* One of the marks sends the cache of r.
Sends(marks, r) == \E m \in marks : m.req = r /\ m.blocks # <<>>
SendsAt(s, r, k) == IF k <= Len(s) /\ Sends(s[k].transfers, r) THEN 1 ELSE 0
Place(r, k) == SendsAt(inflight, r, k)
Due(r) == IF Sends(needing, r) THEN 1 ELSE 0

LEMMA PlacesCounted ==
  ASSUME NEW T, NEW s \in Seq(T), Len(s) \in 0..2, NEW r
  PROVE  Cardinality({i \in DOMAIN s : Sends(s[i].transfers, r)}) = SendsAt(s, r, 1) + SendsAt(s, r, 2)
<1> DEFINE P == {i \in DOMAIN s : Sends(s[i].transfers, r)}
<1>1. DOMAIN s = 1..Len(s) /\ Len(s) \in Nat
  OBVIOUS
<1>2. P \in SUBSET {1, 2} /\ (1 \in P <=> SendsAt(s, r, 1) = 1) /\ (2 \in P <=> SendsAt(s, r, 2) = 1)
  BY <1>1 DEF SendsAt
<1>. QED
  BY <1>2, CountOfTwo DEF SendsAt

\* A request that is queued once is extracted at most once with its batch.
LEMMA SendsOnce ==
  ASSUME NEW marks, QueuedOnce(marks), NEW r
  PROVE  Cardinality({m \in marks : m.req = r /\ m.blocks # <<>>}) = IF Sends(marks, r) THEN 1 ELSE 0
<1> DEFINE M == {m \in marks : m.req = r /\ m.blocks # <<>>}
<1>1. CASE Sends(marks, r)
  <2>1. PICK m \in marks : m.req = r /\ m.blocks # <<>>
    BY <1>1 DEF Sends
  <2>2. M = {m}
    BY <2>1 DEF QueuedOnce
  <2>. QED
    BY <1>1, <2>2, FS_Singleton
<1>2. CASE ~Sends(marks, r)
  BY <1>2, FS_EmptySet DEF Sends
<1>. QED
  BY <1>1, <1>2
-----------------------------------------------------------------------------
(* The model runner                                                        *)

\* Execute as it changes each variable.
LEMMA ExecuteDoes ==
  ASSUME KvIInv, Execute
  PROVE  /\ Len(inflight) \in 1..2 /\ Len(outputs) \in 0..1 /\ Len(inflight) + Len(outputs) <= 2
         /\ inflight[1].batch \subseteq Parts /\ inflight[1].transfers \subseteq Marks
         /\ inflight[1].finished \subseteq Requests
         /\ inflight' \in Seq([batch : SUBSET Parts, transfers : SUBSET Marks, finished : SUBSET Requests])
         /\ Len(inflight') = Len(inflight) - 1
         /\ \A k \in 1..Len(inflight') : inflight'[k] = inflight[k + 1]
         /\ outputs' \in Seq([reqs : SUBSET Requests, acks : SUBSET Requests])
         /\ Len(outputs') = Len(outputs) + 1 /\ \A k \in 1..Len(outputs) : outputs'[k] = outputs[k]
         /\ outputs'[Len(outputs')].reqs = IdsOf(inflight[1].batch)
         /\ outputs'[Len(outputs')].acks = IdsOf(inflight[1].transfers)
         /\ content' = Written(content, inflight[1].batch) /\ cached' = KnownStep(cached, inflight[1])
         /\ \A r \in Requests : extracted'[r] = extracted[r] + Place(r, 1)
         /\ extracted' \in [Requests -> Nat] /\ spoiled' = {}
         /\ UNCHANGED <<mode, status, requests, tokens, computed, outstanding, table, needing, active>>
         /\ UNCHANGED <<heldFree, pendingStop, triggered, finishedIds, scheduled, ready, bare>>
<1> DEFINE Outs == [batch : SUBSET Parts, transfers : SUBSET Marks, finished : SUBSET Requests]
           Backs == [reqs : SUBSET Requests, acks : SUBSET Requests]
           o == inflight[1]
<1>1. inflight \in Seq(Outs) /\ outputs \in Seq(Backs) /\ inflight # <<>>
  BY DEF KvIInv, KvTypeOK, Execute
<1>18. Len(inflight) + Len(outputs) <= 2
  BY DEF KvIInv, PlaceholdersMatchFlights, Flying, Depth
<1>2. Len(inflight) \in 1..2 /\ Len(outputs) \in 0..1
  <2>2. Len(inflight) \in Nat /\ Len(inflight) # 0 /\ Len(outputs) \in Nat
    BY <1>1
  <2> DEFINE a == Len(inflight)  b == Len(outputs)
  <2>3. a \in Nat /\ b \in Nat /\ a # 0 /\ a + b <= 2
    BY <1>18, <2>2
  <2> HIDE DEF a, b
  <2>4. a \in 1..2 /\ b \in 0..1
    BY <2>3
  <2>. QED
    BY <2>4 DEF a, b
<1> HIDE DEF Outs, Backs
<1>3. o \in Outs /\ Head(inflight) = o
  BY <1>1, ListHeadTail
<1>4. /\ inflight' \in Seq(Outs) /\ Len(inflight') = Len(inflight) - 1
      /\ \A k \in 1..Len(inflight') : inflight'[k] = inflight[k + 1]
  BY <1>1, ListHeadTail DEF Execute
<1>5. [reqs |-> IdsOf(o.batch), acks |-> IdsOf(o.transfers)] \in Backs
  BY <1>3 DEF IdsOf, Parts, Marks, Outs, Backs
<1>6. outputs' = Append(outputs, [reqs |-> IdsOf(o.batch), acks |-> IdsOf(o.transfers)])
  BY <1>3 DEF Execute, Answer, AcksOf
<1>7. /\ outputs' \in Seq(Backs) /\ Len(outputs') = Len(outputs) + 1
      /\ \A k \in 1..Len(outputs) : outputs'[k] = outputs[k]
      /\ outputs'[Len(outputs')] = [reqs |-> IdsOf(o.batch), acks |-> IdsOf(o.transfers)]
  BY <1>1, <1>2, <1>5, <1>6
<1>8. content' = Written(content, o.batch) /\ cached' = KnownStep(cached, o)
  BY <1>3 DEF Execute, Forward, KnownStep
<1>9. ASSUME NEW r \in Requests
      PROVE  Cardinality({m \in o.transfers : m.req = r /\ m.blocks # <<>>}) = Place(r, 1)
  <2>1. QueuedOnce(o.transfers)
    BY <1>2 DEF KvIInv, MarksAreWhole
  <2>. QED
    BY <1>2, <2>1, SendsOnce DEF Place, SendsAt
<1>10. extracted' = [r \in Requests |-> extracted[r] + Place(r, 1)]
  BY <1>3, <1>9 DEF Execute, Extract
<1>11. extracted \in [Requests -> Nat] /\ \A r : Place(r, 1) \in 0..1
  BY DEF KvIInv, KvTypeOK, Place, SendsAt
<1>12. \A m \in o.transfers : IsWhole(m, content, cached)
  BY <1>2 DEF KvIInv, MarksAreWhole, MemoryAfter, KnownAfter
<1>13. spoiled' = {}
  BY <1>3, <1>12 DEF Execute, Extract, IdsOf, KvIInv, ExtractedIsOwn
<1>14. /\ UNCHANGED <<mode, status, requests, tokens, computed, outstanding, table, needing, active>>
       /\ UNCHANGED <<heldFree, pendingStop, triggered, finishedIds, scheduled, ready, bare>>
  BY DEF Execute, schedule, transfer
<1>15. o.batch \subseteq Parts /\ o.transfers \subseteq Marks /\ o.finished \subseteq Requests
  BY <1>3 DEF Outs
<1>16. \A r \in Requests : extracted'[r] = extracted[r] + Place(r, 1)
  BY <1>10
<1>17. extracted' \in [Requests -> Nat]
  BY <1>10, <1>11
<1>. QED
  BY <1>2, <1>4, <1>7, <1>8, <1>13, <1>14, <1>15, <1>16, <1>17, <1>18 DEF Outs, Backs

LEMMA ExecuteIInv ==
  ASSUME KvIInv, Execute
  PROVE  KvIInv'
<1> DEFINE o == inflight[1]
<1>1. /\ Len(inflight) \in 1..2 /\ Len(outputs) \in 0..1 /\ Len(inflight) + Len(outputs) <= 2
      /\ Len(inflight') = Len(inflight) - 1
      /\ \A k \in 1..Len(inflight') : inflight'[k] = inflight[k + 1]
      /\ Len(outputs') = Len(outputs) + 1 /\ \A k \in 1..Len(outputs) : outputs'[k] = outputs[k]
      /\ outputs'[Len(outputs')].reqs = IdsOf(o.batch) /\ outputs'[Len(outputs')].acks = IdsOf(o.transfers)
  BY ExecuteDoes
<1>2. /\ content' = Written(content, o.batch) /\ cached' = KnownStep(cached, o)
      /\ \A r \in Requests : extracted'[r] = extracted[r] + Place(r, 1)
      /\ extracted' \in [Requests -> Nat] /\ spoiled' = {}
  BY ExecuteDoes
<1>3. /\ UNCHANGED <<mode, status, requests, tokens, computed, outstanding, table, needing, active>>
      /\ UNCHANGED <<heldFree, pendingStop, triggered, finishedIds, scheduled, ready, bare>>
  BY ExecuteDoes
<1>4. Unended' = Unended
  BY <1>3 DEF Unended
<1>5. Disjoint(o.batch)
  BY <1>1 DEF KvIInv, BatchesAreDisjoint
<1>6. KvTypeOK'
  <2>1. content' \in [Blocks -> Contents]
    <3>1. content \in [Blocks -> Contents] /\ o.batch \in SUBSET Parts
      BY ExecuteDoes DEF KvIInv, KvTypeOK, Contents
    <3>. QED
      BY <1>2, <1>5, <3>1, WrittenType
  <2>2. cached' \subseteq Requests
    <3>1. cached \subseteq Requests /\ o.batch \subseteq Parts
      BY ExecuteDoes DEF KvIInv, KvTypeOK
    <3>. QED
      BY <1>2, <3>1 DEF KnownStep, IdsOf, Parts
  <2>3. /\ inflight' \in Seq([batch : SUBSET Parts, transfers : SUBSET Marks, finished : SUBSET Requests])
        /\ outputs' \in Seq([reqs : SUBSET Requests, acks : SUBSET Requests])
    BY ExecuteDoes
  <2>. QED
    BY <1>2, <1>3, <2>1, <2>2, <2>3 DEF KvIInv, KvTypeOK, Contents, Over, Marks, Parts
<1>7. UnendedHasRoom'
  BY <1>3, <1>4 DEF UnendedHasRoom, KvIInv
<1>8. OnlyEndedIsFinished'
  BY <1>1, <1>3, <1>4 DEF OnlyEndedIsFinished, KvIInv
<1>9. PlaceholdersMatchFlights'
  <2>1. Flying' <= Depth'
    BY <1>1, <1>3 DEF Flying, Depth, KvIInv, PlaceholdersMatchFlights
  <2>2. ASSUME NEW r PROVE Flights(r)' = Flights(r)
    <3>1. CASE Len(inflight) = 1 /\ Len(outputs) = 0
      BY <1>1, <3>1 DEF Flights
    <3>2. CASE Len(inflight) = 1 /\ Len(outputs) = 1
      BY <1>1, <3>2 DEF Flights
    <3>3. CASE Len(inflight) = 2 /\ Len(outputs) = 0
      BY <1>1, <3>3 DEF Flights
    <3>. QED
      BY <1>1, <3>1, <3>2, <3>3
  <2>. QED
    BY <1>3, <1>4, <2>1, <2>2 DEF PlaceholdersMatchFlights, KvIInv
<1>10. TablesAreDisjoint' /\ BatchesAreDisjoint'
  <2>1. TablesAreDisjoint'
    BY <1>3, <1>4 DEF TablesAreDisjoint, KvIInv
  <2>2. ASSUME NEW k \in 1..Len(inflight') PROVE Disjoint(inflight[k].batch)'
    <3>1. k + 1 \in 1..Len(inflight) /\ inflight'[k] = inflight[k + 1]
      BY <1>1
    <3>. QED
      BY <3>1 DEF BatchesAreDisjoint, Disjoint, KvIInv
  <2>3. BatchesAreDisjoint'
    BY <2>2 DEF BatchesAreDisjoint
  <2>. QED
    BY <2>1, <2>3
<1>11. \A k \in 0..Len(inflight') : MemoryAfter(k)' = MemoryAfter(k + 1) /\ KnownAfter(k)' = KnownAfter(k + 1)
  <2>1. CASE Len(inflight) = 1
    BY <1>1, <1>2, <2>1 DEF MemoryAfter, KnownAfter
  <2>2. CASE Len(inflight) = 2
    <3>1. inflight'[1] = inflight[2] /\ 0..Len(inflight') = {0, 1}
      BY <1>1, <2>2
    <3>2. MemoryAfter(0)' = MemoryAfter(1) /\ KnownAfter(0)' = KnownAfter(1)
      BY <1>2 DEF MemoryAfter, KnownAfter
    <3>3. MemoryAfter(1)' = MemoryAfter(2) /\ KnownAfter(1)' = KnownAfter(2)
      BY <1>2, <3>1 DEF MemoryAfter, KnownAfter, Written, KnownStep
    <3>. QED
      BY <3>1, <3>2, <3>3
  <2>. QED
    BY <1>1, <2>1, <2>2
<1>12. Memory' = Memory /\ Known' = Known
  BY <1>1, <1>11 DEF Memory, Known
<1>13. TablesAreWritten'
  BY <1>3, <1>4, <1>12 DEF TablesAreWritten, KvIInv
<1>14. MarksAreWhole'
  <2>1. QueuedOnce(needing)' /\ \A m \in needing' : IsWhole(m, Memory', Known')
    BY <1>3, <1>12 DEF MarksAreWhole, QueuedOnce, KvIInv
  <2>2. ASSUME NEW k \in 1..Len(inflight')
        PROVE  /\ QueuedOnce(inflight[k].transfers)'
               /\ \A m \in inflight'[k].transfers : IsWhole(m, MemoryAfter(k - 1)', KnownAfter(k - 1)')
    <3>1. k \in Int /\ k + 1 \in 1..Len(inflight) /\ k - 1 \in 0..Len(inflight')
      BY <1>1
    <3>4. inflight'[k] = inflight[k + 1] /\ (k + 1) - 1 = k /\ (k - 1) + 1 = k
      BY <1>1, <3>1
    <3>2. MemoryAfter(k - 1)' = MemoryAfter(k) /\ KnownAfter(k - 1)' = KnownAfter(k)
      BY <1>11, <3>1, <3>4
    <3>3. /\ QueuedOnce(inflight[k + 1].transfers)
          /\ \A m \in inflight[k + 1].transfers : IsWhole(m, MemoryAfter(k), KnownAfter(k))
      BY <3>1, <3>4 DEF MarksAreWhole, KvIInv
    <3>. QED
      BY <1>3, <3>2, <3>3, <3>4 DEF QueuedOnce
  <2>. QED
    BY <2>1, <2>2 DEF MarksAreWhole
<1>15. \A r \in Requests :
         /\ Offers(r)' = Offers(r) /\ Offers(r) \in Nat
         /\ extracted[r] <= extracted'[r] /\ extracted'[r] <= Offers(r)
  <2>1. TAKE r \in Requests
  <2>2. /\ Offers(r) = extracted[r] + (Place(r, 1) + Place(r, 2)) + Due(r)
        /\ Offers(r)' = extracted'[r] + (Place(r, 1)' + Place(r, 2)') + Due(r)'
    <3> DEFINE Outs == [batch : SUBSET Parts, transfers : SUBSET Marks, finished : SUBSET Requests]
    <3>4. Len(inflight) \in 0..2 /\ Len(inflight') \in 0..2
      BY <1>1
    <3>5. inflight \in Seq(Outs)
      BY DEF KvIInv, KvTypeOK
    <3>6. inflight' \in Seq(Outs)
      BY ExecuteDoes
    <3> HIDE DEF Outs
    <3>2. Cardinality({i \in DOMAIN inflight : Sends(inflight[i].transfers, r)}) = Place(r, 1) + Place(r, 2)
      BY <3>4, <3>5, <3>6, PlacesCounted DEF Place
    <3>3. Cardinality({i \in DOMAIN inflight' : Sends(inflight'[i].transfers, r)}) = Place(r, 1)' + Place(r, 2)'
      BY <3>4, <3>5, <3>6, PlacesCounted DEF Place
    <3>. QED
      BY <3>2, <3>3 DEF Offers, Sends, Due
  <2>3. Place(r, 1)' = Place(r, 2) /\ Place(r, 2)' = 0 /\ Due(r)' = Due(r)
    <3>1. CASE Len(inflight) = 1
      BY <1>1, <1>3, <3>1 DEF Place, SendsAt, Due, Sends
    <3>2. CASE Len(inflight) = 2
      BY <1>1, <1>3, <3>2 DEF Place, SendsAt, Due, Sends
    <3>. QED
      BY <1>1, <3>1, <3>2
  <2>4. Place(r, 1) \in 0..1 /\ Place(r, 2) \in 0..1 /\ Due(r) \in 0..1 /\ extracted[r] \in Nat
    BY DEF Place, SendsAt, Due, KvIInv, KvTypeOK
  <2>. QED
    BY <1>2, <2>2, <2>3, <2>4
<1>16. \A r : IsQueued(r)' => IsQueued(r)
  BY <1>1, <1>3 DEF IsQueued, IdsOf
<1>17. TriggeredIsOffered'
  <2>1. triggered \subseteq Requests
    BY DEF KvIInv, KvTypeOK
  <2>. QED
    BY <1>3, <1>4, <1>15, <1>16, <2>1 DEF TriggeredIsOffered, KvIInv, Unended, IdsOf
<1>18. OfferedOnce'
  BY <1>3, <1>15 DEF OfferedOnce, KvIInv
<1>19. \A r \in Requests : extracted[r] = 1 => extracted'[r] = 1
  BY <1>2, <1>15 DEF OfferedOnce, KvIInv, KvTypeOK
<1>20. AcksAreExtractions'
  <2>1. ASSUME NEW k \in 1..Len(outputs'), NEW r \in outputs'[k].acks
        PROVE  extracted'[r] = 1 \/ r \in bare
    <3>1. r \in Requests
      <4> DEFINE Backs == [reqs : SUBSET Requests, acks : SUBSET Requests]
      <4>1. outputs' \in Seq(Backs)
        BY ExecuteDoes
      <4> HIDE DEF Backs
      <4>2. outputs'[k] \in Backs
        BY <4>1
      <4>. QED
        BY <4>2 DEF Backs
    <3>2. CASE k <= Len(outputs)
      BY <1>1, <1>19, <3>1, <3>2 DEF AcksAreExtractions, KvIInv
    <3>3. CASE k = Len(outputs')
      <4>1. PICK m \in o.transfers : m.req = r
        BY <1>1, <3>3 DEF IdsOf
      <4>2. CASE m.blocks = <<>>
        BY <1>1, <4>1, <4>2 DEF KvIInv, MarksAreWhole, QueuedOnce
      <4>3. CASE m.blocks # <<>>
        <5>1. Place(r, 1) = 1
          BY <1>1, <4>1, <4>3 DEF Place, SendsAt, Sends
        <5>. QED
          BY <1>2, <1>15, <3>1, <5>1 DEF OfferedOnce, KvIInv, KvTypeOK
      <4>. QED
        BY <4>2, <4>3
    <3>. QED
      BY <1>1, <3>2, <3>3
  <2>. QED
    BY <1>3, <2>1 DEF AcksAreExtractions
<1>21. ReadyIsExtracted'
  BY <1>3, <1>19 DEF ReadyIsExtracted, KvIInv
<1>22. ExtractedIsOwn'
  BY <1>2 DEF ExtractedIsOwn
<1>. QED
  BY <1>6, <1>7, <1>8, <1>9, <1>10, <1>13, <1>14, <1>17, <1>18, <1>20, <1>21, <1>22 DEF KvIInv
-----------------------------------------------------------------------------
(* Marking, and what ends                                                  *)

\* The memory stays well formed as the batches on their way are executed.
LEMMA MemoryType ==
  ASSUME KvIInv
  PROVE  Len(inflight) \in 0..2 /\ \A k \in 0..Len(inflight) : MemoryAfter(k) \in [Blocks -> Contents]
<1> DEFINE Outs == [batch : SUBSET Parts, transfers : SUBSET Marks, finished : SUBSET Requests]
<1>1. inflight \in Seq(Outs) /\ Len(inflight) \in Nat
  BY DEF KvIInv, KvTypeOK
<1>2. Len(inflight) \in 0..2
  <2> DEFINE a == Len(inflight)  b == Len(outputs)
  <2>1. a \in Nat /\ b \in Nat /\ Depth \in {1, 2}
    BY <1>1 DEF KvIInv, KvTypeOK, Depth
  <2>2. a + b <= Depth
    BY DEF KvIInv, PlaceholdersMatchFlights, Flying
  <2> HIDE DEF a, b
  <2>3. a \in 0..2
    BY <2>1, <2>2
  <2>. QED
    BY <2>3 DEF a
<1> HIDE DEF Outs
<1>3. ASSUME NEW k \in 1..Len(inflight)
      PROVE  inflight[k].batch \in SUBSET Parts /\ Disjoint(inflight[k].batch)
  <2>1. inflight[k] \in Outs
    BY <1>1
  <2>. QED
    BY <2>1 DEF Outs, KvIInv, BatchesAreDisjoint
<1>4. content \in [Blocks -> Contents]
  BY DEF KvIInv, KvTypeOK, Contents
<1>5. Len(inflight) >= 1 => Written(content, inflight[1].batch) \in [Blocks -> Contents]
  BY <1>2, <1>3, <1>4, WrittenType
<1>6. Len(inflight) >= 2 =>
        Written(Written(content, inflight[1].batch), inflight[2].batch) \in [Blocks -> Contents]
  BY <1>2, <1>3, <1>5, WrittenType
<1>. QED
  BY <1>2, <1>4, <1>5, <1>6 DEF MemoryAfter

\* A mark made now of at most what is computed is whole when it is sent.
LEMMA MarkIsWhole ==
  ASSUME KvIInv, NEW r \in Unended, NEW n \in Int, n <= computed[r]
  PROVE  Mark(r, n) \in Marks /\ Mark(r, n).req = r /\ IsWhole(Mark(r, n), Memory, Known)
<1> DEFINE t == table[r]
           k == Min({BlocksFor(n), Len(t)})
           s == SubSeq(t, 1, k)
<1>1. /\ r \in Requests /\ t \in Seq(Blocks) /\ Len(t) \in Nat /\ Len(t) = BlocksFor(computed[r])
      /\ computed[r] \in Int
  BY DEF KvIInv, KvTypeOK, TablesAreDisjoint, Unended
<1>2. BlocksFor(n) \in Int /\ BlocksFor(n) <= Len(t)
  BY <1>1, BlocksForGrows, BlocksForType
<1>3. k = BlocksFor(n)
  BY <1>1, <1>2, MinOfTwo
<1>4. Mark(r, n) = [req |-> r, len |-> n, blocks |-> s]
  BY DEF Mark
<1> HIDE DEF k, s
<1>5. CASE k < 1
  <2>1. s = <<>>
    BY <1>2, <1>3, <1>5, SubSeqEmpty DEF s
  <2>2. s \in Seq(Blocks)
    BY <2>1
  <2>. QED
    BY <1>1, <1>4, <2>1, <2>2 DEF Marks, IsWhole
<1>6. CASE k >= 1
  <2>1. s \in Seq(Blocks) /\ Len(s) = k /\ \A i \in 1..k : s[i] = t[i]
    BY <1>1, <1>2, <1>3, <1>6, ListSplit DEF s
  <2>2. t # <<>>
    BY <1>1, <1>2, <1>3, <1>6
  <2>3. r \in Known
    BY <2>2 DEF KvIInv, TablesAreWritten
  <2>4. ASSUME NEW i \in 1..k
        PROVE  LET c == Memory[s[i]] IN
               c # Nothing /\ c.req = r /\ c.nth = i /\ c.upTo >= Min({n, i * BlockSize})
    <3>1. i \in 1..Len(t) /\ s[i] = t[i] /\ i \in Int
      BY <1>1, <1>2, <1>3, <2>1
    <3>2. IsPart(Memory[t[i]], r, i, computed[r])
      BY <1>1, <3>1 DEF KvIInv, TablesAreWritten
    <3>3. i * BlockSize \in Int
      BY <3>1, KvAssumption
    <3>4. Min({computed[r], i * BlockSize}) >= Min({n, i * BlockSize})
      BY <1>1, <3>3, MinOfTwo
    <3>5. Min({computed[r], i * BlockSize}) \in Int /\ Min({n, i * BlockSize}) \in Int
      BY <1>1, <3>3, MinOfTwo
    <3>6. Memory[t[i]].upTo \in Int
      <4>1. Memory \in [Blocks -> Contents]
        BY MemoryType DEF Memory
      <4>2. t[i] \in Blocks
        BY <1>1, <3>1
      <4>3. MaxTokens \in Nat
        BY KvAssumption
      <4>. QED
        BY <3>2, <4>1, <4>2, <4>3 DEF Contents, IsPart
    <3>. QED
      BY <3>1, <3>2, <3>4, <3>5, <3>6 DEF IsPart
  <2>5. DOMAIN s = 1..k
    BY <2>1
  <2>6. Mark(r, n) \in Marks /\ Mark(r, n).req = r
    BY <1>1, <1>4, <2>1 DEF Marks
  <2>7. Mark(r, n).req = r /\ Mark(r, n).len = n /\ Mark(r, n).blocks = s
    BY <1>4
  <2>8. IsWhole(Mark(r, n), Memory, Known)
    BY <1>3, <2>1, <2>3, <2>4, <2>5, <2>7 DEF IsWhole
  <2>. QED
    BY <2>6, <2>8
<1>. QED
  BY <1>2, <1>3, <1>5, <1>6

\* Requests that were not marked yet are marked: they are queued once, and their
\* blocks will be what is sent unless they have none.
LEMMA MarkAllDoes ==
  ASSUME KvIInv, NEW S \in SUBSET (Unended \ triggered), NEW n \in [S -> Int],
         \A r \in S : n[r] <= computed[r], MarkAll({Mark(r, n[r]) : r \in S})
  PROVE  /\ needing' \subseteq Marks /\ bare' \subseteq Requests /\ bare \subseteq bare'
         /\ QueuedOnce(needing)' /\ \A m \in needing' : IsWhole(m, Memory, Known)
         /\ IdsOf(needing') = IdsOf(needing) \cup S
         /\ \A q : q \notin S => (Sends(needing', q) <=> Sends(needing, q))
         /\ \A q \in S : Sends(needing', q) \/ q \in bare'
<1> DEFINE new == {Mark(r, n[r]) : r \in S}
<1>1. /\ \A r \in S : Mark(r, n[r]) \in Marks /\ Mark(r, n[r]).req = r /\ IsWhole(Mark(r, n[r]), Memory, Known)
      /\ S \subseteq Requests
  BY MarkIsWhole DEF Unended
<1>2. \A r \in S : r \notin IdsOf(needing)
  BY DEF KvIInv, TriggeredIsOffered, IsQueued
<1>3. needing' = needing \cup new
  BY <1>1, <1>2 DEF MarkAll
<1>4. bare' = bare \cup {m.req : m \in {x \in new : x.blocks = <<>>}}
  BY DEF MarkAll
<1>5. needing \subseteq Marks /\ bare \subseteq Requests
  BY DEF KvIInv, KvTypeOK
<1> HIDE DEF new
<1>6. /\ new \subseteq Marks /\ \A m \in new : m.req \in S /\ IsWhole(m, Memory, Known)
      /\ \A m, o \in new : m.req = o.req => m = o
      /\ \A r \in S : \E m \in new : m.req = r
  BY <1>1 DEF new
<1>7. needing' \subseteq Marks /\ bare' \subseteq Requests /\ bare \subseteq bare'
  BY <1>1, <1>3, <1>4, <1>5, <1>6
<1>8. \A m \in new : m.blocks = <<>> => m.req \in bare'
  BY <1>4
<1>9. QueuedOnce(needing)'
  <2>1. QueuedOnce(needing)
    BY DEF KvIInv, MarksAreWhole
  <2>. QED
    BY <1>2, <1>3, <1>6, <1>7, <1>8, <2>1 DEF QueuedOnce, IdsOf
<1>10. \A m \in needing' : IsWhole(m, Memory, Known)
  BY <1>3, <1>6 DEF KvIInv, MarksAreWhole
<1>11. IdsOf(needing') = IdsOf(needing) \cup S
  BY <1>3, <1>6 DEF IdsOf
<1>12. \A q : q \notin S => (Sends(needing', q) <=> Sends(needing, q))
  BY <1>3, <1>6 DEF Sends
<1>13. \A q \in S : Sends(needing', q) \/ q \in bare'
  BY <1>3, <1>6, <1>8 DEF Sends
<1>. QED
  BY <1>7, <1>9, <1>10, <1>11, <1>12, <1>13

\* The conjuncts that ending and marking requests disturbs in the same way,
\* whether an output or an abort ends them.
EndingKept ==
  /\ OnlyEndedIsFinished /\ TablesAreDisjoint /\ BatchesAreDisjoint /\ TablesAreWritten
  /\ MarksAreWhole /\ TriggeredIsOffered /\ OfferedOnce

LEMMA EndingKeeps ==
  ASSUME KvIInv, NEW over \in SUBSET Unended, NEW early \in SUBSET (Unended \ (over \cup triggered)),
         NEW n \in [early \cup (over \ triggered) -> Int],
         \A r \in early \cup (over \ triggered) : n[r] <= computed[r],
         MarkAll({Mark(r, n[r]) : r \in early \cup (over \ triggered)}),
         NEW gone \in SUBSET (over \cup heldFree), Release(gone),
         \A q \in Requests : IF q \in over THEN status'[q] \in Over ELSE status'[q] = status[q],
         heldFree' \subseteq heldFree \cup over, finishedIds' = finishedIds \cup over,
         triggered' \subseteq triggered \cup early, (triggered \cup early) \cap Unended' \subseteq triggered',
         ready \subseteq ready', active \cap triggered \cap Unended' \subseteq active' \cup ready',
         scheduled' => scheduled /\ early = {},
         UNCHANGED <<mode, computed, inflight, content, cached, extracted>>
  PROVE  EndingKept'
<1> DEFINE S == early \cup (over \ triggered)
<1>1. Unended' = Unended \ over
  BY DEF Unended, Over
<1>2. OnlyEndedIsFinished'
  BY <1>1 DEF OnlyEndedIsFinished, KvIInv
<1>3. \A q \in Requests : table'[q] = IF q \in gone THEN <<>> ELSE table[q]
  BY DEF Release
<1>4. gone \cap Unended' = {}
  BY <1>1 DEF KvIInv, OnlyEndedIsFinished
<1>5. Unended \subseteq Requests /\ Unended' \subseteq Unended
  BY <1>1 DEF Unended
<1>6. TablesAreDisjoint'
  <2>1. NoDuplicates(<<>>) /\ ToSet(<<>>) = {}
    BY DEF NoDuplicates, ToSet
  <2>. QED
    BY <1>3, <1>4, <1>5, <2>1 DEF TablesAreDisjoint, KvIInv
<1>7. BatchesAreDisjoint'
  BY DEF BatchesAreDisjoint, Disjoint, KvIInv
<1>8. /\ Memory' = Memory /\ Known' = Known
      /\ \A k : MemoryAfter(k)' = MemoryAfter(k) /\ KnownAfter(k)' = KnownAfter(k)
  BY DEF Memory, Known, MemoryAfter, KnownAfter
<1>9. TablesAreWritten'
  <2>1. ASSUME NEW r \in Requests, NEW i \in 1..Len(table'[r])
        PROVE  IsPart(Memory[table[r][i]], r, i, computed[r])'
    <3>1. CASE r \in gone
      BY <1>3, <3>1
    <3>2. CASE r \notin gone
      <4>1. table'[r] = table[r] /\ computed'[r] = computed[r]
        BY <1>3, <3>2
      <4>2. IsPart(Memory[table[r][i]], r, i, computed[r])
        BY <4>1 DEF TablesAreWritten, KvIInv
      <4>. QED
        BY <1>8, <4>1, <4>2 DEF IsPart
    <3>. QED
      BY <3>1, <3>2
  <2>2. \A r \in Unended' : table'[r] # <<>> => r \in Known'
    BY <1>3, <1>5, <1>8 DEF TablesAreWritten, KvIInv
  <2>. QED
    BY <2>1, <2>2 DEF TablesAreWritten
<1>10. S \in SUBSET (Unended \ triggered) /\ n \in [S -> Int]
  OBVIOUS
<1>11. /\ bare \subseteq bare' /\ QueuedOnce(needing)'
       /\ \A m \in needing' : IsWhole(m, Memory, Known)
       /\ IdsOf(needing') = IdsOf(needing) \cup S
       /\ \A q : q \notin S => (Sends(needing', q) <=> Sends(needing, q))
       /\ \A q \in S : Sends(needing', q) \/ q \in bare'
  BY <1>10, MarkAllDoes
<1> HIDE DEF S
<1>12. MarksAreWhole'
  BY <1>8, <1>11 DEF MarksAreWhole, QueuedOnce, KvIInv
<1>13. \A q \in Requests \ S : Offers(q)' = Offers(q) /\ (IsQueued(q)' <=> IsQueued(q))
  BY <1>11 DEF Offers, Sends, IsQueued, IdsOf
<1>14. \A q \in S : Offers(q)' \in {0, 1} /\ (q \in bare' \/ Offers(q)' = 1)
  <2>1. ASSUME NEW q \in S PROVE Offers(q)' \in {0, 1} /\ (q \in bare' \/ Offers(q)' = 1)
    <3>1. Offers(q) = 0 /\ q \notin IdsOf(needing) /\ q \in Requests
      BY <1>5, <1>10 DEF TriggeredIsOffered, KvIInv, IsQueued
    <3>2. ~Sends(needing, q)
      BY <3>1 DEF Sends, IdsOf
    <3>3. Due(q) = 0 /\ Due(q)' = IF Sends(needing', q) THEN 1 ELSE 0
      BY <3>2 DEF Due
    <3> DEFINE P == Cardinality({i \in DOMAIN inflight : Sends(inflight[i].transfers, q)})
    <3>4. Offers(q) = extracted[q] + P + Due(q) /\ Offers(q)' = extracted[q] + P + Due(q)'
      BY DEF Offers, Sends, Due
    <3>5. P \in Nat /\ extracted[q] \in Nat
      <4> DEFINE Outs == [batch : SUBSET Parts, transfers : SUBSET Marks, finished : SUBSET Requests]
      <4>1. inflight \in Seq(Outs)
        BY DEF KvIInv, KvTypeOK
      <4>2. Len(inflight) \in 0..2
        BY MemoryType
      <4> HIDE DEF Outs
      <4>3. P = SendsAt(inflight, q, 1) + SendsAt(inflight, q, 2)
        BY <4>1, <4>2, PlacesCounted
      <4>4. extracted[q] \in Nat
        BY <3>1 DEF KvIInv, KvTypeOK
      <4> HIDE DEF P
      <4>. QED
        BY <4>3, <4>4 DEF SendsAt
    <3> HIDE DEF P
    <3> DEFINE e == extracted[q]  d == Due(q)'
    <3>7. e + P = 0 /\ Offers(q)' = e + P + d /\ d \in {0, 1}
      BY <3>1, <3>3, <3>4, <3>5
    <3> HIDE DEF e, d
    <3>6. Offers(q)' = Due(q)'
      BY <3>7 DEF d
    <3>. QED
      BY <1>11, <3>3, <3>6
  <2>. QED
    BY <2>1
<1>15. triggered \subseteq Requests /\ S \subseteq Requests
  BY <1>5, <1>10 DEF KvIInv, KvTypeOK
<1>16. TriggeredIsOffered'
  <2>1. ASSUME NEW q \in Unended' \ triggered' PROVE Offers(q)' = 0 /\ ~IsQueued(q)'
    <3>1. q \in Unended /\ q \notin over /\ q \notin triggered /\ q \notin early
      BY <1>1
    <3>2. q \notin S /\ q \in Requests
      BY <1>5, <3>1 DEF S
    <3>. QED
      BY <1>13, <3>1, <3>2 DEF TriggeredIsOffered, KvIInv
  <2>2. ASSUME NEW q \in triggered' PROVE q \in bare' \/ Offers(q)' = 1
    <3>1. CASE q \in S
      BY <1>14, <3>1
    <3>2. CASE q \notin S
      <4>1. q \in triggered /\ q \in Requests
        BY <1>15, <3>2 DEF S
      <4>. QED
        BY <1>11, <1>13, <3>2, <4>1 DEF TriggeredIsOffered, KvIInv
    <3>. QED
      BY <3>1, <3>2
  <2>3. ASSUME NEW q \in Unended' \cap triggered' PROVE q \in IdsOf(needing') \cup active' \cup ready'
    <3>1. CASE q \in early
      BY <1>11, <3>1 DEF S
    <3>2. CASE q \notin early
      BY <1>5, <1>11, <3>2 DEF TriggeredIsOffered, KvIInv
    <3>. QED
      BY <3>1, <3>2
  <2>4. scheduled' => IdsOf(needing') \cap Unended' = {}
    <3>1. S \cap Unended' \subseteq early
      BY <1>1 DEF S
    <3>. QED
      BY <1>1, <1>11, <3>1 DEF TriggeredIsOffered, KvIInv
  <2>. QED
    BY <2>1, <2>2, <2>3, <2>4 DEF TriggeredIsOffered, IdsOf
<1>17. OfferedOnce'
  <2>1. ASSUME NEW q \in Requests
        PROVE  /\ Offers(q)' <= 1
               /\ status'[q] \in {"stopped", "cut"} /\ q \notin bare' => Offers(q)' = 1
    <3>1. CASE q \in S
      BY <1>14, <3>1
    <3>2. CASE q \notin S
      <4>1. Offers(q)' = Offers(q) /\ Offers(q) <= 1
        BY <1>13, <3>2 DEF OfferedOnce, KvIInv
      <4>2. CASE q \in over
        <5>1. q \in triggered
          BY <3>2, <4>2 DEF S
        <5>. QED
          BY <1>11, <4>1, <5>1 DEF TriggeredIsOffered, KvIInv
      <4>3. CASE q \notin over
        BY <1>11, <4>1, <4>3 DEF OfferedOnce, KvIInv
      <4>. QED
        BY <4>1, <4>2, <4>3
    <3>. QED
      BY <3>1, <3>2
  <2>. QED
    BY <2>1 DEF OfferedOnce
<1>. QED
  BY <1>2, <1>6, <1>7, <1>9, <1>12, <1>16, <1>17 DEF EndingKept

LEMMA AbortIInv ==
  ASSUME KvIInv, NEW r \in Requests, Abort(r)
  PROVE  KvIInv'
<1> DEFINE over == {r}
           gone == IF Holds(r, active) THEN {} ELSE {r}
           S == {} \cup (over \ triggered)
           n == [q \in S |-> computed[r] - outstanding[r]]
<1>1. /\ r \in Unended /\ r \in requests /\ status' = [status EXCEPT ![r] = "aborted"]
      /\ finishedIds' = finishedIds \cup {r} /\ Release(gone)
      /\ heldFree' = IF Holds(r, active) THEN heldFree \cup {r} ELSE heldFree
  BY DEF Abort, Live, Unended, Over
<1>19. scheduled' \in BOOLEAN /\ (scheduled' => scheduled)
  <2>1. scheduled' = scheduled \/ scheduled' = FALSE
    BY Zenon DEF Abort
  <2>2. scheduled \in BOOLEAN
    BY DEF KvIInv, KvTypeOK
  <2>3. CASE scheduled' = scheduled
    BY <2>2, <2>3
  <2>4. CASE scheduled' = FALSE
    BY <2>4
  <2>. QED
    BY <2>1, <2>3, <2>4
<1>2. /\ UNCHANGED <<mode, tokens, computed, outstanding, active, pendingStop, triggered, inflight, outputs>>
      /\ UNCHANGED <<content, cached, extracted, spoiled, ready>>
  BY DEF Abort, schedule, worker
<1>3. /\ status \in [Requests -> {"new", "waiting", "running", "preempted"} \cup Over]
      /\ computed \in [Requests -> 0..MaxTokens] /\ outstanding \in [Requests -> 0..2]
  BY DEF KvIInv, KvTypeOK
<1>18. computed[r] \in Int /\ outstanding[r] \in Nat
  BY <1>3
<1>4. n \in [S -> Int] /\ \A q \in S : n[q] <= computed[q]
  BY <1>18
<1>5. MarkAll({Mark(q, n[q]) : q \in S})
  <2>1. CASE Owes(r)
    <3>1. {Mark(q, n[q]) : q \in S} = {Mark(r, computed[r] - outstanding[r])}
      BY <2>1 DEF Owes
    <3>. QED
      BY <2>1, <3>1 DEF Abort
  <2>2. CASE ~Owes(r)
    <3>1. {Mark(q, n[q]) : q \in S} = {}
      BY <2>2 DEF Owes
    <3>. QED
      BY <2>2, <3>1 DEF Abort
  <2>. QED
    BY <2>1, <2>2
<1>6. \A q \in Requests : IF q \in over THEN status'[q] \in Over ELSE status'[q] = status[q]
  BY <1>1, <1>3 DEF Over
<1>7. gone \in SUBSET (over \cup heldFree) /\ heldFree' \subseteq heldFree \cup over
  BY <1>1
<1>8. Unended' = Unended \ {r}
  BY <1>6 DEF Unended, Over
<1>9. S \in SUBSET (Unended \ triggered)
  BY <1>1
<1> HIDE DEF n
<1>10. needing' \subseteq Marks /\ bare' \subseteq Requests /\ bare \subseteq bare'
  <2> HIDE DEF S
  <2>. QED
    BY <1>4, <1>5, <1>9, MarkAllDoes
<1>11. EndingKept'
  <2>1. over \in SUBSET Unended /\ {} \in SUBSET (Unended \ (over \cup triggered))
    BY <1>1
  <2>2. /\ finishedIds' = finishedIds \cup over
        /\ triggered' \subseteq triggered \cup {} /\ (triggered \cup {}) \cap Unended' \subseteq triggered'
        /\ ready \subseteq ready' /\ active \cap triggered \cap Unended' \subseteq active' \cup ready'
        /\ (scheduled' => scheduled)
        /\ UNCHANGED <<mode, computed, inflight, content, cached, extracted>>
    BY <1>1, <1>2, <1>19
  <2>3. /\ n \in [{} \cup (over \ triggered) -> Int] /\ \A q \in {} \cup (over \ triggered) : n[q] <= computed[q]
        /\ MarkAll({Mark(q, n[q]) : q \in {} \cup (over \ triggered)})
    BY <1>4, <1>5
  <2>4. Release(gone) /\ heldFree' \subseteq heldFree \cup over /\ gone \in SUBSET (over \cup heldFree)
    BY <1>1, <1>7
  <2> HIDE DEF over, gone
  <2>. QED
    BY <1>6, <2>1, <2>2, <2>3, <2>4, EndingKeeps
<1>12. KvTypeOK'
  <2>1. status' \in [Requests -> {"new", "waiting", "running", "preempted"} \cup Over]
    BY <1>1, <1>3 DEF Over
  <2>2. /\ table' \in [Requests -> Seq(Blocks)] /\ requests' = requests \ gone
        /\ \A q \in Requests : table'[q] = IF q \in gone THEN <<>> ELSE table[q]
    BY <1>1 DEF Release, KvIInv, KvTypeOK
  <2>3. heldFree' \cap gone = {} /\ heldFree' \subseteq heldFree \cup {r} /\ heldFree' \subseteq Requests
    BY <1>1 DEF KvIInv, KvTypeOK, OnlyEndedIsFinished
  <2>4. \A q \in Requests : q \in heldFree' \/ table'[q] # <<>> => q \in requests'
    BY <1>1, <2>2, <2>3 DEF KvIInv, KvTypeOK
  <2>5. requests' \subseteq Requests /\ finishedIds' \subseteq Requests
    BY <1>1, <2>2 DEF KvIInv, KvTypeOK
  <2>. QED
    BY <1>1, <1>2, <1>10, <1>19, <2>1, <2>2, <2>3, <2>4, <2>5 DEF KvIInv, KvTypeOK, Over, Marks, Parts
<1>13. UnendedHasRoom'
  <2>1. \A q \in Unended' : q \in requests => q \in requests'
    BY <1>1, <1>8 DEF Release
  <2>. QED
    BY <1>2, <1>6, <1>8, <2>1 DEF UnendedHasRoom, KvIInv, Unended
<1>14. PlaceholdersMatchFlights'
  BY <1>2, <1>8 DEF PlaceholdersMatchFlights, Flights, Flying, Depth, KvIInv, IdsOf
<1>15. AcksAreExtractions'
  BY <1>2, <1>10 DEF AcksAreExtractions, KvIInv
<1>16. ReadyIsExtracted'
  BY <1>1, <1>2, <1>3, <1>6, <1>10 DEF ReadyIsExtracted, KvIInv
<1>17. ExtractedIsOwn'
  BY <1>2 DEF ExtractedIsOwn, KvIInv
<1>. QED
  BY <1>11, <1>12, <1>13, <1>14, <1>15, <1>16, <1>17 DEF KvIInv, EndingKept
-----------------------------------------------------------------------------
(* The scheduler takes an output                                           *)

\* What an output names, and how the placeholders it answers are counted.
LEMMA OutputIs ==
  ASSUME KvIInv, outputs # <<>>
  PROVE  /\ Len(outputs) \in 1..2 /\ Len(inflight) \in 0..1 /\ Len(inflight) + Len(outputs) <= 2
         /\ Head(outputs) = outputs[1] /\ outputs[1].reqs \subseteq Requests /\ outputs[1].acks \subseteq Requests
         /\ Tail(outputs) \in Seq([reqs : SUBSET Requests, acks : SUBSET Requests])
         /\ Len(Tail(outputs)) = Len(outputs) - 1
         /\ \A k \in 1..Len(Tail(outputs)) : k + 1 \in 1..Len(outputs) /\ Tail(outputs)[k] = outputs[k + 1]
         /\ \A r \in Unended : r \in outputs[1].reqs /\ mode.async => outstanding[r] >= 1 /\ r \in Live
         /\ Live \subseteq Unended
<1> DEFINE Backs == [reqs : SUBSET Requests, acks : SUBSET Requests]
           a == Len(inflight)  b == Len(outputs)
<1>1. outputs \in Seq(Backs) /\ outputs # <<>>
  BY DEF KvIInv, KvTypeOK
<1>2. a \in Nat /\ b \in Nat /\ b # 0 /\ Depth \in {1, 2}
  BY <1>1 DEF KvIInv, KvTypeOK, Depth
<1>3. a + b <= Depth
  BY DEF KvIInv, PlaceholdersMatchFlights, Flying
<1> HIDE DEF Backs
<1>4. a \in 0..1 /\ b \in 1..2 /\ a + b <= 2
  <2> HIDE DEF a, b
  <2>. QED
    BY <1>2, <1>3
<1>5. /\ Head(outputs) = outputs[1] /\ Head(outputs) \in Backs /\ Tail(outputs) \in Seq(Backs)
      /\ Len(Tail(outputs)) = Len(outputs) - 1
      /\ \A k \in 1..Len(Tail(outputs)) : k + 1 \in 1..Len(outputs) /\ Tail(outputs)[k] = outputs[k + 1]
  BY <1>1, ListHeadTail
<1>6. outputs[1].reqs \subseteq Requests /\ outputs[1].acks \subseteq Requests
  BY <1>5 DEF Backs
<1>7. ASSUME NEW r \in Unended, r \in outputs[1].reqs, mode.async
      PROVE  outstanding[r] >= 1 /\ r \in Live
  <2>1. outstanding[r] = Flights(r) /\ r \in Requests
    BY <1>7 DEF KvIInv, PlaceholdersMatchFlights, Unended
  <2>2. Flights(r) >= 1
    BY <1>4, <1>7 DEF Flights
  <2>3. status[r] # "new" /\ r \in requests
    BY <2>1, <2>2 DEF KvIInv, UnendedHasRoom
  <2>4. status[r] \in {"new", "waiting", "running", "preempted"} \cup Over /\ status[r] \notin Over
    BY <2>1 DEF KvIInv, KvTypeOK, Unended
  <2>. QED
    BY <2>1, <2>2, <2>3, <2>4 DEF Live
<1>8. Live \subseteq Unended
  BY DEF Live, Unended, Over, KvIInv, KvTypeOK
<1>. QED
  BY <1>4, <1>5, <1>6, <1>7, <1>8 DEF Backs

LEMMA UpdateFromOutputIInv ==
  ASSUME KvIInv, UpdateFromOutput
  PROVE  KvIInv'
<1> DEFINE o == Head(outputs)
           acks == o.acks
           live == o.reqs \cap Live
           act == active \ acks
           left == [r \in Requests |-> outstanding[r] - (IF r \in live /\ mode.async THEN 1 ELSE 0)]
           confirmed(r) == computed[r] - left[r]
<1>1. outputs # <<>> /\ o = outputs[1]
  BY OutputIs DEF UpdateFromOutput
<1>2. PICK ends \in SUBSET live, special \in SUBSET live :
       LET stopped == {r \in live : r \in ends \/ tokens[r] + 1 = MaxTokens}
           cut == {r \in live \ stopped : Cut(r, act)}
           sentEarly == {r \in live \ stopped : Triggers(r, special, confirmed(r))}
           over == stopped \cup cut
           held == {r \in over : Holds(r, act)}
           freed == acks \cap (heldFree \cup held)
           gone == (over \ held) \cup freed IN
       /\ status' = [r \in Requests |-> IF r \in stopped THEN "stopped"
                                        ELSE IF r \in cut THEN "cut" ELSE status[r]]
       /\ MarkAll({Mark(r, confirmed(r)) : r \in sentEarly \cup {x \in over : Owes(x)}})
       /\ heldFree' = (heldFree \cup held) \ freed
       /\ pendingStop' = (pendingStop \cup (IF mode.stopAfter THEN sentEarly ELSE {})) \ (cut \cup gone)
       /\ triggered' = (triggered \cup sentEarly) \ gone
       /\ active' = act \ gone
       /\ finishedIds' = finishedIds \cup over
       /\ Release(gone)
  BY DEF UpdateFromOutput
<1> DEFINE stopped == {r \in live : r \in ends \/ tokens[r] + 1 = MaxTokens}
           cut == {r \in live \ stopped : Cut(r, act)}
           early == {r \in live \ stopped : Triggers(r, special, confirmed(r))}
           over == stopped \cup cut
           held == {r \in over : Holds(r, act)}
           freed == acks \cap (heldFree \cup held)
           gone == (over \ held) \cup freed
           S == early \cup (over \ triggered)
           n == [r \in S |-> computed[r] - left[r]]
<1>3. /\ status' = [r \in Requests |-> IF r \in stopped THEN "stopped" ELSE IF r \in cut THEN "cut" ELSE status[r]]
      /\ heldFree' = (heldFree \cup held) \ freed
      /\ pendingStop' = (pendingStop \cup (IF mode.stopAfter THEN early ELSE {})) \ (cut \cup gone)
      /\ triggered' = (triggered \cup early) \ gone
      /\ active' = act \ gone /\ finishedIds' = finishedIds \cup over /\ Release(gone)
  BY <1>2
<1>4. MarkAll({Mark(r, confirmed(r)) : r \in early \cup {x \in over : Owes(x)}})
  BY <1>2
<1>5. /\ scheduled \/ ~HasRequests
      /\ scheduled' = FALSE /\ outputs' = Tail(outputs) /\ outstanding' = left
      /\ tokens' = [r \in Requests |-> tokens[r] + (IF r \in live THEN 1 ELSE 0)]
      /\ ready' = ready \cup (acks \cap Live)
      /\ UNCHANGED <<mode, computed, inflight, content, cached, extracted, spoiled>>
  BY <1>1 DEF UpdateFromOutput, worker
<1>6. /\ Live \subseteq Unended /\ acks \subseteq Requests /\ Unended \subseteq Requests
      /\ \A r \in Unended : r \in o.reqs /\ mode.async => outstanding[r] >= 1 /\ r \in Live
  BY <1>1, OutputIs DEF Unended
<1>7. /\ live \subseteq Live /\ over \subseteq live /\ early \subseteq live \ over /\ early \cap triggered = {}
      /\ held \subseteq over /\ gone \subseteq over \cup heldFree /\ freed \subseteq gone
  BY DEF Triggers, Cut
<1>8. /\ \A r \in stopped : r \in live
      /\ \A r \in cut : r \in live /\ r \in triggered /\ r \notin act
      /\ \A r \in live \ over : tokens[r] + 1 # MaxTokens
  BY DEF Cut
<1>9. {x \in over : Owes(x)} = over \ triggered
  BY DEF Owes
<1>10. over \in SUBSET Unended /\ early \in SUBSET (Unended \ (over \cup triggered))
  BY <1>6, <1>7
<1>11. S \in SUBSET (Unended \ triggered)
  BY <1>10
<1>12. /\ status \in [Requests -> {"new", "waiting", "running", "preempted"} \cup Over]
       /\ computed \in [Requests -> 0..MaxTokens] /\ outstanding \in [Requests -> 0..2]
       /\ tokens \in [Requests -> Prompt..MaxTokens] /\ MaxTokens \in Nat
  BY KvAssumption DEF KvIInv, KvTypeOK
<1>13. \A q \in Requests : IF q \in over THEN status'[q] \in Over ELSE status'[q] = status[q]
  BY <1>3 DEF Over
<1>14. Unended' = Unended \ over
  BY <1>13 DEF Unended, Over
<1>15. \A r \in Requests : left[r] = IF r \in live /\ mode.async THEN outstanding[r] - 1 ELSE outstanding[r]
  BY <1>12
<1>16. left \in [Requests -> 0..2]
  BY <1>6, <1>7, <1>12
<1> HIDE DEF stopped, cut, early, over, held, freed, gone, left, live, act, acks
<1>17. /\ n \in [S -> Int] /\ \A r \in S : n[r] <= computed[r]
       /\ {Mark(r, n[r]) : r \in S} = {Mark(r, confirmed(r)) : r \in S}
  <2>1. \A r \in S : r \in Requests /\ computed[r] \in Int /\ left[r] \in Nat
    BY <1>6, <1>11, <1>12, <1>16
  <2>2. \A r \in S : n[r] = computed[r] - left[r]
    OBVIOUS
  <2>3. \A r \in S : n[r] \in Int /\ n[r] <= computed[r]
    BY <2>1, <2>2
  <2>4. DOMAIN n = S /\ n = [r \in S |-> n[r]]
    OBVIOUS
  <2>5. {Mark(r, n[r]) : r \in S} = {Mark(r, confirmed(r)) : r \in S}
    BY <2>2
  <2> HIDE DEF n
  <2>. QED
    BY <2>3, <2>4, <2>5
<1>18. MarkAll({Mark(r, n[r]) : r \in S})
  BY <1>4, <1>9, <1>17
<1> HIDE DEF n
<1>19. needing' \subseteq Marks /\ bare' \subseteq Requests /\ bare \subseteq bare'
  <2> HIDE DEF S
  <2>. QED
    BY <1>11, <1>17, <1>18, MarkAllDoes
<1>20. EndingKept'
  <2>1. heldFree' \subseteq heldFree \cup over /\ gone \in SUBSET (over \cup heldFree)
    BY <1>3, <1>7
  <2>2. heldFree \cap Unended = {}
    BY DEF KvIInv, OnlyEndedIsFinished
  <2>3. triggered' \subseteq triggered \cup early /\ (triggered \cup early) \cap Unended' \subseteq triggered'
    BY <1>3, <1>7, <1>14, <2>2
  <2>4. \A r \in Unended : r \in triggered => r \in Live
    <3>1. \A r \in Unended : r \in triggered => status[r] # "new" /\ r \in requests
      BY DEF KvIInv, UnendedHasRoom
    <3>. QED
      BY <1>12, <3>1 DEF Live, Unended, Over
  <2>5. active \cap triggered \cap Unended' \subseteq active' \cup ready'
    BY <1>3, <1>5, <1>7, <1>14, <2>2, <2>4 DEF act
  <2>6. /\ n \in [early \cup (over \ triggered) -> Int]
        /\ \A r \in early \cup (over \ triggered) : n[r] <= computed[r]
        /\ MarkAll({Mark(r, n[r]) : r \in early \cup (over \ triggered)})
    BY <1>17, <1>18
  <2>7. /\ finishedIds' = finishedIds \cup over /\ Release(gone) /\ ready \subseteq ready' /\ ~scheduled'
        /\ UNCHANGED <<mode, computed, inflight, content, cached, extracted>>
    BY <1>3, <1>5
  <2>. QED
    BY <1>10, <1>13, <2>1, <2>3, <2>5, <2>6, <2>7, EndingKeeps
<1>21. KvTypeOK'
  <2>1. status' \in [Requests -> {"new", "waiting", "running", "preempted"} \cup Over]
    BY <1>3, <1>12 DEF Over
  <2>2. /\ table' \in [Requests -> Seq(Blocks)] /\ requests' = requests \ gone
        /\ \A q \in Requests : table'[q] = IF q \in gone THEN <<>> ELSE table[q]
    BY <1>3 DEF Release, KvIInv, KvTypeOK
  <2>3. heldFree' \cap gone = {} /\ heldFree' \subseteq heldFree \cup over
    <3>1. heldFree \cap over = {}
      BY <1>10 DEF KvIInv, OnlyEndedIsFinished
    <3>2. gone = (over \ held) \cup freed
      BY DEF gone
    <3>. QED
      BY <1>3, <1>7, <3>1, <3>2
  <2>4. \A q \in Requests : q \in heldFree' \/ table'[q] # <<>> => q \in requests'
    <3>1. over \subseteq requests
      BY <1>7 DEF Live
    <3>. QED
      BY <2>2, <2>3, <3>1 DEF KvIInv, KvTypeOK
  <2>5. /\ requests' \subseteq Requests /\ finishedIds' \subseteq Requests /\ heldFree' \subseteq Requests
        /\ pendingStop' \subseteq Requests /\ triggered' \subseteq Requests /\ active' \subseteq Requests
        /\ ready' \subseteq Requests
    <3>1. over \subseteq Requests /\ early \subseteq Requests /\ act \subseteq active
      BY <1>6, <1>10 DEF act
    <3>2. /\ requests \subseteq Requests /\ finishedIds \subseteq Requests /\ heldFree \subseteq Requests
          /\ pendingStop \subseteq Requests /\ triggered \subseteq Requests /\ active \subseteq Requests
          /\ ready \subseteq Requests
      BY DEF KvIInv, KvTypeOK
    <3>3. acks \cap Live \subseteq Requests
      BY <1>6
    <3>4. pendingStop' \subseteq pendingStop \cup early
      BY <1>3
    <3>. QED
      BY <1>3, <1>5, <2>2, <2>3, <3>1, <3>2, <3>3, <3>4
  <2>6. outstanding' \in [Requests -> 0..2]
    BY <1>5, <1>16
  <2>7. tokens' \in [Requests -> Prompt..MaxTokens]
    <3>1. \A r \in Requests : r \in live => tokens[r] < MaxTokens
      BY <1>6, <1>7 DEF KvIInv, UnendedHasRoom
    <3>2. Prompt \in Int
      BY DEF Prompt
    <3>. QED
      BY <1>5, <1>12, <3>1, <3>2
  <2>8. outputs' \in Seq([reqs : SUBSET Requests, acks : SUBSET Requests])
    BY <1>1, <1>5, OutputIs
  <2>. QED
    BY <1>5, <1>19, <2>1, <2>2, <2>5, <2>4, <2>6, <2>7, <2>8 DEF KvIInv, KvTypeOK, Over, Marks, Parts
<1>22. UnendedHasRoom'
  <2>1. ASSUME NEW q \in Unended'
        PROVE  /\ tokens'[q] < MaxTokens
               /\ status'[q] = "new" => outstanding'[q] = 0 /\ q \notin triggered'
               /\ status'[q] # "new" => q \in requests'
    <3>1. q \in Unended /\ q \notin over /\ q \in Requests /\ status'[q] = status[q]
      BY <1>6, <1>13, <1>14
    <3>2. /\ tokens[q] < MaxTokens /\ tokens[q] \in Int
          /\ status[q] = "new" => outstanding[q] = 0 /\ q \notin triggered
          /\ status[q] # "new" => q \in requests
      BY <1>12, <3>1 DEF KvIInv, UnendedHasRoom
    <3>3. tokens'[q] < MaxTokens
      BY <1>5, <1>7, <1>8, <1>12, <3>1, <3>2
    <3>4. status[q] = "new" => q \notin live
      BY <1>7 DEF Live
    <3>5. q \notin gone /\ requests' = requests \ gone
      BY <1>3, <1>7, <3>1 DEF Release, KvIInv, OnlyEndedIsFinished
    <3>6. status[q] = "new" => outstanding'[q] = 0 /\ q \notin triggered'
      BY <1>3, <1>5, <1>7, <1>15, <3>1, <3>2, <3>4
    <3>. QED
      BY <3>1, <3>2, <3>3, <3>5, <3>6
  <2>. QED
    BY <2>1 DEF UnendedHasRoom
<1>23. PlaceholdersMatchFlights'
  <2>1. /\ Len(outputs) \in 1..2 /\ Len(inflight) \in 0..1 /\ Len(inflight) + Len(outputs) <= 2
        /\ Len(outputs') = Len(outputs) - 1
        /\ \A k \in 1..Len(outputs') : k + 1 \in 1..Len(outputs) /\ outputs'[k] = outputs[k + 1]
    BY <1>1, <1>5, OutputIs
  <2>2. Flying' <= Depth'
    BY <1>5, <2>1 DEF Flying, Depth, KvIInv, PlaceholdersMatchFlights
  <2>3. ASSUME NEW r PROVE Flights(r)' = Flights(r) - (IF r \in o.reqs THEN 1 ELSE 0)
    <3>1. CASE Len(outputs) = 1
      BY <1>1, <1>5, <2>1, <3>1 DEF Flights
    <3>2. CASE Len(outputs) = 2
      BY <1>1, <1>5, <2>1, <3>2 DEF Flights
    <3>. QED
      BY <2>1, <3>1, <3>2
  <2>4. ASSUME NEW r \in Unended' PROVE outstanding'[r] = IF mode'.async THEN Flights(r)' ELSE 0
    <3>1. r \in Unended /\ r \in Requests
      BY <1>6, <1>14
    <3>2. outstanding[r] = IF mode.async THEN Flights(r) ELSE 0
      BY <3>1 DEF KvIInv, PlaceholdersMatchFlights
    <3>3. mode.async => (r \in live <=> r \in o.reqs)
      BY <1>6, <3>1 DEF live
    <3>4. outstanding'[r] = IF r \in live /\ mode.async THEN outstanding[r] - 1 ELSE outstanding[r]
      BY <1>5, <1>15, <3>1
    <3>5. Flights(r) \in Int
      BY DEF Flights
    <3>6. Flights(r)' = Flights(r) - (IF r \in o.reqs THEN 1 ELSE 0) /\ mode' = mode
      BY <1>5, <2>3
    <3>7. CASE mode.async
      BY <3>2, <3>3, <3>4, <3>5, <3>6, <3>7
    <3>8. CASE ~mode.async
      BY <3>2, <3>4, <3>6, <3>8
    <3>. QED
      BY <3>7, <3>8
  <2>. QED
    BY <2>2, <2>4 DEF PlaceholdersMatchFlights
<1>24. AcksAreExtractions'
  <2>1. \A k \in 1..Len(outputs') : k + 1 \in 1..Len(outputs) /\ outputs'[k] = outputs[k + 1]
    BY <1>1, <1>5, OutputIs
  <2>2. extracted' = extracted
    BY <1>5
  <2>. QED
    BY <1>19, <2>1, <2>2 DEF AcksAreExtractions, KvIInv
<1>25. ReadyIsExtracted'
  <2>1. ASSUME NEW q \in Requests, q \in ready' PROVE extracted'[q] = 1 \/ q \in bare'
    <3>1. CASE q \in ready
      BY <1>5, <1>19, <3>1 DEF ReadyIsExtracted, KvIInv
    <3>2. CASE q \in acks
      <4>1. 1 \in 1..Len(outputs) /\ q \in outputs[1].acks
        BY <1>1, <3>2, OutputIs DEF acks
      <4>. QED
        BY <1>5, <1>19, <4>1 DEF AcksAreExtractions, KvIInv
    <3>. QED
      BY <1>5, <2>1, <3>1, <3>2
  <2>2. ASSUME NEW q \in Requests, status'[q] = "cut" PROVE q \in ready'
    <3>1. CASE q \in cut
      <4>1. q \in Live /\ q \in triggered /\ q \notin act
        BY <1>7, <1>8, <3>1
      <4>2. q \in Unended /\ q \notin IdsOf(needing)
        BY <1>5, <1>6, <4>1 DEF HasRequests, KvIInv, TriggeredIsOffered
      <4>3. q \in active \cup ready
        BY <4>1, <4>2 DEF KvIInv, TriggeredIsOffered
      <4>. QED
        BY <1>5, <4>1, <4>3 DEF act
    <3>2. CASE q \notin cut
      BY <1>3, <1>5, <2>2, <3>2 DEF ReadyIsExtracted, KvIInv
    <3>. QED
      BY <3>1, <3>2
  <2>. QED
    BY <2>1, <2>2 DEF ReadyIsExtracted
<1>26. ExtractedIsOwn'
  BY <1>5 DEF ExtractedIsOwn, KvIInv
<1>. QED
  BY <1>20, <1>21, <1>22, <1>23, <1>24, <1>25, <1>26 DEF KvIInv, EndingKept
-----------------------------------------------------------------------------
(* Scheduling                                                              *)

\* The requests of now, each computed up to token to on the blocks has, while
\* those of out are preempted: what they have is added to, for exactly what will
\* be computed, and no block goes to two requests.
Plan(now, out, has, to) ==
  /\ now \subseteq Live /\ out \subseteq Live /\ now \cap out = {}
  /\ has \in [now -> Seq(Blocks)] /\ to \in [now -> 1..MaxTokens]
  /\ \A r \in now :
       /\ NoDuplicates(has[r]) /\ Len(has[r]) = BlocksFor(to[r]) /\ Len(table[r]) <= Len(has[r])
       /\ \A i \in 1..Len(table[r]) : has[r][i] = table[r][i]
  /\ \A r, q \in now : r # q => ToSet(has[r]) \cap ToSet(has[q]) = {}
  /\ \A r \in now : \A q \in Requests \ (now \cup out) : ToSet(has[r]) \cap ToSet(table[q]) = {}

PartOf(r, has, to) == [req |-> r, from |-> computed[r], to |-> to[r], blocks |-> has[r]]
BatchOf(now, has, to) == {PartOf(r, has, to) : r \in now}

Carry(now, out, has, to) ==
  /\ status' = [r \in Requests |-> IF r \in out THEN "preempted" ELSE IF r \in now THEN "running" ELSE status[r]]
  /\ table' = [r \in Requests |-> IF r \in out THEN <<>> ELSE IF r \in now THEN has[r] ELSE table[r]]
  /\ computed' = [r \in Requests |-> IF r \in out THEN 0 ELSE IF r \in now THEN to[r] ELSE computed[r]]
  /\ outstanding' = [r \in Requests |-> outstanding[r] + (IF r \in now /\ mode.async THEN 1 ELSE 0)]
  /\ inflight' = Append(inflight, [batch |-> BatchOf(now, has, to),
                                   transfers |-> needing, finished |-> finishedIds])

LEMMA ScheduleIs ==
  ASSUME KvIInv, Schedule
  PROVE  \E now, out, has, to : Plan(now, out, has, to) /\ Carry(now, out, has, to)
<1>1. PICK choice \in BaseSchedules :
       LET now == (Runnable \ choice.out) \cup choice.in IN
       \E given \in Allocations(now, FreeWithout(choice.out)) :
         LET has == [r \in now |-> table[r] \o SetToSeq(given[r])]
             to == [r \in now |-> computed[r] + NewTokens(r)] IN
         /\ status' = [r \in Requests |-> IF r \in choice.out THEN "preempted"
                                          ELSE IF r \in now THEN "running" ELSE status[r]]
         /\ table' = [r \in Requests |-> IF r \in choice.out THEN <<>>
                                         ELSE IF r \in now THEN has[r] ELSE table[r]]
         /\ computed' = [r \in Requests |-> IF r \in choice.out THEN 0
                                            ELSE IF r \in now THEN to[r] ELSE computed[r]]
         /\ outstanding' = [r \in Requests |-> outstanding[r] + (IF r \in now /\ mode.async THEN 1 ELSE 0)]
         /\ inflight' = Append(inflight,
              [batch |-> {[req |-> r, from |-> computed[r], to |-> to[r], blocks |-> has[r]] : r \in now},
               transfers |-> needing, finished |-> finishedIds])
  BY DEF Schedule
<1> DEFINE out == choice.out
           now == (Runnable \ out) \cup choice.in
           free == FreeWithout(out)
<1>2. PICK given \in Allocations(now, free) :
         LET has == [r \in now |-> table[r] \o SetToSeq(given[r])]
             to == [r \in now |-> computed[r] + NewTokens(r)] IN
         /\ status' = [r \in Requests |-> IF r \in out THEN "preempted"
                                          ELSE IF r \in now THEN "running" ELSE status[r]]
         /\ table' = [r \in Requests |-> IF r \in out THEN <<>>
                                         ELSE IF r \in now THEN has[r] ELSE table[r]]
         /\ computed' = [r \in Requests |-> IF r \in out THEN 0
                                            ELSE IF r \in now THEN to[r] ELSE computed[r]]
         /\ outstanding' = [r \in Requests |-> outstanding[r] + (IF r \in now /\ mode.async THEN 1 ELSE 0)]
         /\ inflight' = Append(inflight,
              [batch |-> {[req |-> r, from |-> computed[r], to |-> to[r], blocks |-> has[r]] : r \in now},
               transfers |-> needing, finished |-> finishedIds])
  BY <1>1
<1> DEFINE has == [r \in now |-> table[r] \o SetToSeq(given[r])]
           to == [r \in now |-> computed[r] + NewTokens(r)]
<1>3. Carry(now, out, has, to)
  BY <1>2 DEF Carry, PartOf, BatchOf
<1>4. /\ out \subseteq Live /\ choice.in \subseteq Startable /\ (out = {} \/ choice.in = {})
  <2>1. \/ \E rs \in SUBSET Startable : choice = [out |-> {}, in |-> rs]
        \/ \E rs \in SUBSET {r \in Live : status[r] = "running"} : choice = [out |-> rs, in |-> {}]
    BY DEF BaseSchedules
  <2>. QED
    BY <2>1
<1>5. now \subseteq Live /\ now \cap out = {} /\ now \subseteq Runnable \cup Startable
  BY <1>4 DEF Runnable, Startable
<1>6. /\ given \in [now -> SUBSET free] /\ \A r \in now : Cardinality(given[r]) = NewBlocks(r)
      /\ \A r, q \in now : r # q => given[r] \cap given[q] = {}
  BY DEF Allocations
<1>7. free \subseteq Blocks /\ \A q \in Requests \ out : free \cap ToSet(table[q]) = {}
  BY DEF FreeWithout
<1>8. /\ Live \subseteq Unended /\ Unended \subseteq Requests
      /\ computed \in [Requests -> 0..MaxTokens] /\ outstanding \in [Requests -> 0..2]
      /\ tokens \in [Requests -> Prompt..MaxTokens] /\ table \in [Requests -> Seq(Blocks)]
  BY DEF Live, Unended, Over, KvIInv, KvTypeOK
<1> HIDE DEF now, out, free
<1>9. ASSUME NEW r \in now
      PROVE  /\ to[r] = tokens[r] + outstanding[r] /\ to[r] \in 1..MaxTokens
             /\ NewBlocks(r) = BlocksFor(to[r]) - Len(table[r])
  <2>1. /\ r \in Requests /\ r \in Unended /\ tokens[r] \in Int /\ tokens[r] >= 1 /\ outstanding[r] \in Nat
        /\ computed[r] \in Int /\ MaxTokens \in Nat
    BY <1>5, <1>8, KvAssumption DEF Prompt
  <2>2. tokens[r] + outstanding[r] < MaxTokens
    <3>1. CASE r \in Runnable
      BY <3>1 DEF Runnable
    <3>2. CASE r \in Startable
      BY <2>1, <3>2 DEF Startable, KvIInv, UnendedHasRoom
    <3>. QED
      BY <1>5, <3>1, <3>2
  <2>3. to[r] = computed[r] + NewTokens(r)
    OBVIOUS
  <2>4. computed[r] + NewTokens(r) = tokens[r] + outstanding[r]
    BY <2>1 DEF NewTokens
  <2>. QED
    BY <2>1, <2>2, <2>3, <2>4 DEF NewBlocks
<1> DEFINE g(r) == SetToSeq(given[r])
<1>10. ASSUME NEW r \in now
       PROVE  /\ g(r) \in Seq(Blocks) /\ ToSet(g(r)) = given[r] /\ NoDuplicates(g(r))
              /\ Len(g(r)) = NewBlocks(r) /\ NewBlocks(r) \in Nat /\ given[r] \subseteq free
  <2>1. given[r] \subseteq free /\ given[r] \subseteq Blocks
    BY <1>6, <1>7
  <2>2. IsFiniteSet(given[r])
    BY <2>1, FS_Subset, KvAssumption
  <2>3. Cardinality(given[r]) = NewBlocks(r) /\ Cardinality(given[r]) \in Nat
    BY <1>6, <2>2, FS_CardinalityType
  <2>4. /\ g(r) \in Seq(given[r]) /\ Len(g(r)) = Cardinality(given[r])
        /\ ToSet(g(r)) = given[r] /\ NoDuplicates(g(r))
    BY <2>2, ListOfSet
  <2>5. g(r) \in Seq(Blocks)
    <3> HIDE DEF g
    <3>. QED
      BY <2>1, <2>4
  <2>. QED
    BY <2>1, <2>3, <2>4, <2>5
<1>11. \A r \in now : has[r] = table[r] \o g(r)
  OBVIOUS
<1> HIDE DEF g, has, to
<1>12. ASSUME NEW r \in now
       PROVE  /\ has[r] \in Seq(Blocks) /\ Len(has[r]) = BlocksFor(to[r]) /\ Len(table[r]) <= Len(has[r])
              /\ \A i \in 1..Len(table[r]) : has[r][i] = table[r][i]
              /\ ToSet(has[r]) = ToSet(table[r]) \cup given[r] /\ NoDuplicates(has[r])
  <2>1. table[r] \in Seq(Blocks) /\ g(r) \in Seq(Blocks) /\ r \in Requests /\ r \notin out
    BY <1>5, <1>8, <1>10
  <2>2. ToSet(table[r]) \cap ToSet(g(r)) = {} /\ NoDuplicates(table[r]) /\ NoDuplicates(g(r))
    BY <1>7, <1>10, <2>1 DEF KvIInv, TablesAreDisjoint
  <2>3. /\ table[r] \o g(r) \in Seq(Blocks) /\ Len(table[r] \o g(r)) = Len(table[r]) + Len(g(r))
        /\ \A i \in 1..Len(table[r]) : (table[r] \o g(r))[i] = table[r][i]
        /\ ToSet(table[r] \o g(r)) = ToSet(table[r]) \cup ToSet(g(r)) /\ NoDuplicates(table[r] \o g(r))
    BY <2>1, <2>2, ListConcat
  <2>4. Len(table[r]) \in Nat /\ BlocksFor(to[r]) \in Int
    BY <1>9, <2>1, BlocksForType
  <2>5. Len(has[r]) = BlocksFor(to[r]) /\ Len(table[r]) <= Len(has[r])
    <3> DEFINE a == Len(table[r])  b == NewBlocks(r)  c == BlocksFor(to[r])  d == Len(has[r])
    <3>1. a \in Nat /\ b \in Nat /\ c \in Int /\ b = c - a /\ d = a + b
      BY <1>9, <1>10, <1>11, <2>3, <2>4
    <3> HIDE DEF a, b, c, d
    <3>2. d = c /\ a <= d
      BY <3>1
    <3>. QED
      BY <3>2 DEF a, c, d
  <2>. QED
    BY <1>10, <1>11, <2>3, <2>5
<1>13. \A r, q \in now : r # q => ToSet(has[r]) \cap ToSet(has[q]) = {}
  <2>1. \A r, q \in now : r # q =>
          /\ ToSet(table[r]) \cap ToSet(table[q]) = {} /\ given[r] \cap given[q] = {}
          /\ given[r] \cap ToSet(table[q]) = {} /\ given[q] \cap ToSet(table[r]) = {}
    BY <1>5, <1>6, <1>7, <1>8, <1>10 DEF KvIInv, TablesAreDisjoint
  <2>2. ASSUME NEW r \in now, NEW q \in now, r # q PROVE ToSet(has[r]) \cap ToSet(has[q]) = {}
    <3>1. ToSet(has[r]) = ToSet(table[r]) \cup given[r] /\ ToSet(has[q]) = ToSet(table[q]) \cup given[q]
      BY <1>12
    <3>. QED
      BY <2>1, <2>2, <3>1
  <2>. QED
    BY <2>2
<1>14. \A r \in now : \A q \in Requests \ (now \cup out) : ToSet(has[r]) \cap ToSet(table[q]) = {}
  <2>1. \A r \in now : \A q \in Requests \ (now \cup out) :
          ToSet(table[r]) \cap ToSet(table[q]) = {} /\ given[r] \cap ToSet(table[q]) = {}
    BY <1>5, <1>7, <1>8, <1>10 DEF KvIInv, TablesAreDisjoint
  <2>. QED
    BY <1>12, <2>1
<1>15. has \in [now -> Seq(Blocks)] /\ to \in [now -> 1..MaxTokens]
  <2>1. DOMAIN has = now /\ has = [r \in now |-> has[r]] /\ DOMAIN to = now /\ to = [r \in now |-> to[r]]
    BY DEF has, to
  <2>. QED
    BY <1>9, <1>12, <2>1
<1>16. Plan(now, out, has, to)
  BY <1>4, <1>5, <1>12, <1>13, <1>14, <1>15 DEF Plan
<1>. QED
  BY <1>3, <1>16

\* The batch of a plan names each request once, and no block for two.
LEMMA PlanIsDisjoint ==
  ASSUME KvIInv, NEW now, NEW out, NEW has, NEW to, Plan(now, out, has, to)
  PROVE  /\ BatchOf(now, has, to) \subseteq Parts /\ Disjoint(BatchOf(now, has, to))
         /\ IdsOf(BatchOf(now, has, to)) = now
<1> DEFINE batch == BatchOf(now, has, to)
<1>1. now \subseteq Requests /\ computed \in [Requests -> 0..MaxTokens]
  BY DEF Plan, Live, KvIInv, KvTypeOK
<1>2. batch = {PartOf(r, has, to) : r \in now} /\ \A x \in batch : \E r \in now : x = PartOf(r, has, to)
  BY DEF BatchOf
<1>3. \A r \in now : /\ PartOf(r, has, to).req = r /\ PartOf(r, has, to).blocks = has[r]
                     /\ PartOf(r, has, to).to = to[r] /\ PartOf(r, has, to).from = computed[r]
  BY DEF PartOf
<1>4. batch \subseteq Parts
  <2>1. ASSUME NEW r \in now PROVE PartOf(r, has, to) \in Parts
    <3>1. r \in Requests /\ computed[r] \in 0..MaxTokens /\ to[r] \in 1..MaxTokens /\ has[r] \in Seq(Blocks)
      BY <1>1 DEF Plan
    <3>. QED
      BY <3>1 DEF PartOf, Parts
  <2>. QED
    BY <1>2, <2>1
<1>5. IdsOf(batch) = now
  BY <1>2, <1>3 DEF IdsOf
<1> HIDE DEF batch
<1>6. ASSUME NEW x \in batch PROVE NoDuplicates(x.blocks) /\ Len(x.blocks) = BlocksFor(x.to)
  BY <1>2, <1>3 DEF Plan
<1>7. ASSUME NEW x \in batch, NEW y \in batch, x.req = y.req \/ ToSet(x.blocks) \cap ToSet(y.blocks) # {}
      PROVE  x = y
  <2>1. PICK r \in now : x = PartOf(r, has, to)
    BY <1>2
  <2>2. PICK q \in now : y = PartOf(q, has, to)
    BY <1>2
  <2>3. CASE r = q
    BY <2>1, <2>2, <2>3
  <2>4. CASE r # q
    <3>1. ToSet(has[r]) \cap ToSet(has[q]) = {}
      BY <2>4 DEF Plan
    <3>. QED
      BY <1>3, <1>7, <2>1, <2>2, <2>4, <3>1
  <2>. QED
    BY <2>3, <2>4
<1>8. Disjoint(batch)
  BY <1>6, <1>7 DEF Disjoint
<1>. QED
  BY <1>4, <1>5, <1>8 DEF batch

\* Once a planned batch is written, every table still refers to the cache of its
\* request, up to what is then computed.
LEMMA PlanIsWritten ==
  ASSUME KvIInv, NEW now, NEW out, NEW has, NEW to, Plan(now, out, has, to),
         NEW later, later = Written(Memory, BatchOf(now, has, to))
  PROVE  /\ \A r \in now : \A i \in 1..Len(has[r]) : IsPart(later[has[r][i]], r, i, to[r])
         /\ \A r \in Requests \ (now \cup out) :
              \A i \in 1..Len(table[r]) : IsPart(later[table[r][i]], r, i, computed[r])
<1> DEFINE batch == BatchOf(now, has, to)
<1>1. batch \in SUBSET Parts /\ Disjoint(batch)
  BY PlanIsDisjoint
<1>2. \A r \in now : /\ PartOf(r, has, to).req = r /\ PartOf(r, has, to).blocks = has[r]
                     /\ PartOf(r, has, to).to = to[r] /\ PartOf(r, has, to).from = computed[r]
                     /\ PartOf(r, has, to) \in batch
  BY DEF PartOf, BatchOf
<1>3. \A x \in batch : \E r \in now : x = PartOf(r, has, to)
  BY DEF BatchOf
<1>4. later = Written(Memory, batch)
  OBVIOUS
<1> HIDE DEF batch
<1>5. /\ now \subseteq Requests /\ Live \subseteq Unended /\ table \in [Requests -> Seq(Blocks)]
      /\ computed \in [Requests -> 0..MaxTokens] /\ now \subseteq Unended
  BY DEF Plan, Live, Unended, Over, KvIInv, KvTypeOK
<1>8. Memory \in [Blocks -> Contents] /\ MaxTokens \in Nat
  BY MemoryType, KvAssumption DEF Memory
<1>6. ASSUME NEW r \in now, NEW i \in 1..Len(has[r])
      PROVE  IsPart(later[has[r][i]], r, i, to[r])
  <2> DEFINE b == has[r][i]
             x == PartOf(r, has, to)
  <2>1. /\ has[r] \in Seq(Blocks) /\ b \in Blocks /\ i \in Nat \ {0} /\ to[r] \in Nat /\ to[r] >= 1
        /\ computed[r] \in Nat /\ i * BlockSize \in Nat
    BY <1>5, KvAssumption DEF Plan
  <2>2. CASE i * BlockSize > computed[r]
    <3>1. later[b] = [req |-> r, nth |-> i, upTo |-> Min({to[r], i * BlockSize})]
      BY <1>1, <1>2, <1>4, <2>1, <2>2, WrittenIs
    <3> DEFINE m == Min({to[r], i * BlockSize})
               c == later[b]
    <3>5. m \in Nat
      <4>1. to[r] \in Int /\ i * BlockSize \in Int
        BY <2>1
      <4>. QED
        BY <2>1, <4>1, MinOfTwo
    <3>6. c = [req |-> r, nth |-> i, upTo |-> m]
      BY <3>1
    <3> HIDE DEF m, c
    <3>2. m \in Nat /\ c = [req |-> r, nth |-> i, upTo |-> m] /\ r \in Requests
      BY <1>5, <3>5, <3>6
    <3>3. c # Nothing
      <4>1. c \in [req : Requests, nth : Nat, upTo : Nat]
        BY <2>1, <3>2
      <4>. QED
        BY <4>1, KvAssumption
    <3>4. c # Nothing /\ c.req = r /\ c.nth = i /\ c.upTo >= m
      BY <3>2, <3>3
    <3>. QED
      BY <3>4 DEF IsPart, c, m
  <2>3. CASE ~(i * BlockSize > computed[r])
    <3>1. i <= BlocksFor(computed[r])
      <4>1. BlocksFor(computed[r]) \in Int /\ computed[r] \in Int /\ i \in Int
        BY <2>1, BlocksForType
      <4>2. i > BlocksFor(computed[r]) => i * BlockSize > computed[r]
        BY <4>1, NextBlockIsBeyond
      <4>. QED
        BY <2>3, <4>1, <4>2
    <3>2. Len(table[r]) = BlocksFor(computed[r]) /\ r \in Requests
      BY <1>5 DEF KvIInv, TablesAreDisjoint
    <3>3. i \in 1..Len(table[r])
      BY <2>1, <3>1, <3>2, BlocksForType
    <3>4. b = table[r][i] /\ IsPart(Memory[b], r, i, computed[r])
      BY <3>2, <3>3 DEF Plan, KvIInv, TablesAreWritten
    <3>5. ASSUME NEW y \in batch, NEW j \in 1..Len(y.blocks), y.blocks[j] = b
          PROVE  ~(j * BlockSize > y.from)
      <4>1. PICK q \in now : y = PartOf(q, has, to)
        BY <1>3
      <4>2. has[q] \in Seq(Blocks) /\ j \in 1..Len(has[q]) /\ has[q][j] = b
        BY <1>2, <3>5, <4>1 DEF Plan
      <4>3. b \in ToSet(has[q]) /\ b \in ToSet(has[r])
        BY <2>1, <4>2 DEF ToSet
      <4>4. q = r
        BY <4>3 DEF Plan
      <4>5. j = i
        BY <4>2, <4>4 DEF Plan, NoDuplicates
      <4>. QED
        BY <1>2, <2>3, <4>1, <4>4, <4>5
    <3>6. later[b] = Memory[b]
      BY <1>1, <1>4, <2>1, <3>5, WrittenIs
    <3>7. /\ Min({to[r], i * BlockSize}) <= i * BlockSize /\ Min({computed[r], i * BlockSize}) = i * BlockSize
          /\ Min({to[r], i * BlockSize}) \in Int
      BY <2>1, <2>3, MinOfTwo
    <3>8. Memory[b].upTo \in Int
      BY <1>8, <2>1, <3>4 DEF Contents, IsPart
    <3>. QED
      BY <2>1, <3>4, <3>6, <3>7, <3>8 DEF IsPart
  <2>. QED
    BY <2>2, <2>3
<1>7. ASSUME NEW r \in Requests \ (now \cup out), NEW i \in 1..Len(table[r])
      PROVE  IsPart(later[table[r][i]], r, i, computed[r])
  <2> DEFINE b == table[r][i]
  <2>1. table[r] \in Seq(Blocks) /\ b \in Blocks /\ b \in ToSet(table[r])
    BY <1>5 DEF ToSet
  <2>2. ASSUME NEW y \in batch, NEW j \in 1..Len(y.blocks), y.blocks[j] = b
        PROVE  FALSE
    <3>1. PICK q \in now : y = PartOf(q, has, to)
      BY <1>3
    <3>2. has[q] \in Seq(Blocks) /\ j \in 1..Len(has[q]) /\ has[q][j] = b
      BY <1>2, <2>2, <3>1 DEF Plan
    <3>3. b \in ToSet(has[q])
      BY <3>2 DEF ToSet
    <3>. QED
      BY <2>1, <3>3 DEF Plan
  <2>3. later[b] = Memory[b]
    BY <1>1, <1>4, <2>1, <2>2, WrittenIs
  <2>. QED
    BY <2>3 DEF KvIInv, TablesAreWritten
<1>. QED
  BY <1>6, <1>7

\* Schedule as it changes each variable.
LEMMA ScheduleDoes ==
  ASSUME KvIInv, Schedule, NEW now, NEW out, NEW has, NEW to, Plan(now, out, has, to), Carry(now, out, has, to)
  PROVE  /\ Len(inflight) \in 0..1 /\ Len(outputs) \in 0..1 /\ Len(inflight) + Len(outputs) < Depth
         /\ inflight' \in Seq([batch : SUBSET Parts, transfers : SUBSET Marks, finished : SUBSET Requests])
         /\ Len(inflight') = Len(inflight) + 1 /\ \A k \in 1..Len(inflight) : inflight'[k] = inflight[k]
         /\ inflight'[Len(inflight')].batch = BatchOf(now, has, to)
         /\ inflight'[Len(inflight')].transfers = needing /\ inflight'[Len(inflight')].finished = finishedIds
         /\ active' = active \cup IdsOf(needing) /\ needing' = {} /\ finishedIds' = {} /\ scheduled' = TRUE
         /\ UNCHANGED <<mode, requests, tokens, heldFree, pendingStop, triggered, outputs>>
         /\ UNCHANGED <<content, cached, extracted, spoiled, ready, bare>>
<1> DEFINE Outs == [batch : SUBSET Parts, transfers : SUBSET Marks, finished : SUBSET Requests]
           o == [batch |-> BatchOf(now, has, to), transfers |-> needing, finished |-> finishedIds]
           a == Len(inflight)  b == Len(outputs)
<1>1. inflight \in Seq(Outs) /\ inflight' = Append(inflight, o)
  BY DEF KvIInv, KvTypeOK, Carry
<1>2. o \in Outs
  <2>1. BatchOf(now, has, to) \subseteq Parts
    BY PlanIsDisjoint
  <2>. QED
    BY <2>1 DEF KvIInv, KvTypeOK
<1>3. a \in Nat /\ b \in Nat /\ a + b < Depth /\ Depth \in {1, 2}
  <2>1. a \in Nat /\ b \in Nat
    BY <1>1 DEF KvIInv, KvTypeOK
  <2>2. a + b < Depth
    BY DEF Schedule, Flying
  <2>3. Depth \in {1, 2}
    BY DEF Depth
  <2>. QED
    BY <2>1, <2>2, <2>3
<1>4. a \in 0..1 /\ b \in 0..1
  <2> HIDE DEF a, b
  <2>. QED
    BY <1>3
<1> HIDE DEF Outs
<1>5. /\ inflight' \in Seq(Outs) /\ Len(inflight') = Len(inflight) + 1
      /\ \A k \in 1..Len(inflight) : inflight'[k] = inflight[k]
      /\ inflight'[Len(inflight')] = o
  BY <1>1, <1>2
<1>6. /\ active' = active \cup IdsOf(needing) /\ needing' = {} /\ finishedIds' = {} /\ scheduled' = TRUE
      /\ UNCHANGED <<mode, requests, tokens, heldFree, pendingStop, triggered, outputs>>
      /\ UNCHANGED <<content, cached, extracted, spoiled, ready, bare>>
  BY DEF Schedule, worker
<1>. QED
  BY <1>3, <1>4, <1>5, <1>6 DEF Outs

LEMMA ScheduleIInv ==
  ASSUME KvIInv, Schedule
  PROVE  KvIInv'
<1>1. PICK now, out, has, to : Plan(now, out, has, to) /\ Carry(now, out, has, to)
  BY ScheduleIs
<1> DEFINE batch == BatchOf(now, has, to)
<1>2. /\ Len(inflight) \in 0..1 /\ Len(outputs) \in 0..1 /\ Len(inflight) + Len(outputs) < Depth
      /\ Len(inflight') = Len(inflight) + 1 /\ \A k \in 1..Len(inflight) : inflight'[k] = inflight[k]
      /\ inflight'[Len(inflight')].batch = batch
      /\ inflight'[Len(inflight')].transfers = needing /\ inflight'[Len(inflight')].finished = finishedIds
  BY <1>1, ScheduleDoes
<1>3. /\ active' = active \cup IdsOf(needing) /\ needing' = {} /\ finishedIds' = {} /\ scheduled' = TRUE
      /\ UNCHANGED <<mode, requests, tokens, heldFree, pendingStop, triggered, outputs>>
      /\ UNCHANGED <<content, cached, extracted, spoiled, ready, bare>>
  BY <1>1, ScheduleDoes
<1>4. batch \in SUBSET Parts /\ Disjoint(batch) /\ IdsOf(batch) = now
  BY <1>1, PlanIsDisjoint
<1>5. /\ \A r \in Requests : status'[r] = IF r \in out THEN "preempted" ELSE IF r \in now THEN "running" ELSE status[r]
      /\ \A r \in Requests : table'[r] = IF r \in out THEN <<>> ELSE IF r \in now THEN has[r] ELSE table[r]
      /\ \A r \in Requests : computed'[r] = IF r \in out THEN 0 ELSE IF r \in now THEN to[r] ELSE computed[r]
      /\ \A r \in Requests : outstanding'[r] = outstanding[r] + (IF r \in now /\ mode.async THEN 1 ELSE 0)
  BY <1>1 DEF Carry
<1>10. /\ status' = [r \in Requests |-> status'[r]] /\ table' = [r \in Requests |-> table'[r]]
       /\ computed' = [r \in Requests |-> computed'[r]] /\ outstanding' = [r \in Requests |-> outstanding'[r]]
  <2>1. /\ DOMAIN status' = Requests /\ DOMAIN table' = Requests
        /\ DOMAIN computed' = Requests /\ DOMAIN outstanding' = Requests
    BY <1>1 DEF Carry
  <2>. QED
    BY <1>1, <2>1, <1>5 DEF Carry
<1>6. /\ now \subseteq Live /\ out \subseteq Live /\ now \cap out = {} /\ Live \subseteq Unended /\ Live \subseteq requests
      /\ Unended \subseteq Requests /\ \A r \in Live : status[r] # "new"
  <2>1. now \subseteq Live /\ out \subseteq Live /\ now \cap out = {}
    BY <1>1 DEF Plan
  <2>2. Live \subseteq Unended /\ Live \subseteq requests /\ \A r \in Live : status[r] # "new"
    BY DEF Live, Unended, Over, KvIInv, KvTypeOK
  <2>. QED
    BY <2>1, <2>2 DEF Unended
<1>7. Unended' = Unended
  BY <1>5, <1>6 DEF Unended, Over
<1>8. \A k \in 1..Len(inflight') : k \in 1..Len(inflight) \/ k = Len(inflight')
  BY <1>2
<1> HIDE DEF batch
<1>9. ASSUME NEW r \in Requests
      PROVE  /\ Flights(r)' = Flights(r) + (IF r \in now THEN 1 ELSE 0) /\ Flights(r) \in 0..1
  <2>1. \A k : k <= Len(outputs') /\ r \in outputs'[k].reqs <=> k <= Len(outputs) /\ r \in outputs[k].reqs
    BY <1>3
  <2>2. CASE Len(inflight) = 0
    <3>1. Len(inflight') = 1 /\ inflight'[1].batch = batch
      BY <1>2, <2>2
    <3>. QED
      BY <1>2, <1>4, <2>1, <2>2, <3>1 DEF Flights
  <2>3. CASE Len(inflight) = 1
    <3>1. Len(inflight') = 2 /\ inflight'[2].batch = batch /\ inflight'[1] = inflight[1]
      BY <1>2, <2>3
    <3>2. Len(outputs) = 0
      <4> DEFINE b == Len(outputs)
      <4>1. b \in 0..1 /\ 1 + b < 2
        BY <1>2, <2>3 DEF Depth
      <4> HIDE DEF b
      <4>2. b = 0
        BY <4>1
      <4>. QED
        BY <4>2 DEF b
    <3>. QED
      BY <1>4, <2>1, <2>3, <3>1, <3>2 DEF Flights
  <2>. QED
    BY <1>2, <2>2, <2>3
<1>11. ASSUME NEW r \in Unended PROVE outstanding[r] = IF mode.async THEN Flights(r) ELSE 0
  BY DEF KvIInv, PlaceholdersMatchFlights
<1>12. KvTypeOK'
  <2>1. /\ status' \in [Requests -> {"new", "waiting", "running", "preempted"} \cup Over]
        /\ \A r \in Requests : computed'[r] \in 0..MaxTokens /\ table'[r] \in Seq(Blocks)
    <3>1. \A r \in now : to[r] \in 0..MaxTokens /\ has[r] \in Seq(Blocks)
      BY <1>1 DEF Plan
    <3>2. \A r \in Requests : computed[r] \in 0..MaxTokens /\ table[r] \in Seq(Blocks)
      BY DEF KvIInv, KvTypeOK
    <3>3. \A r \in Requests : status'[r] \in {"new", "waiting", "running", "preempted"} \cup Over
      BY <1>5 DEF KvIInv, KvTypeOK
    <3>4. status' \in [Requests -> {"new", "waiting", "running", "preempted"} \cup Over]
      BY <1>10, <3>3
    <3>5. 0 \in 0..MaxTokens /\ <<>> \in Seq(Blocks)
      BY KvAssumption
    <3>6. ASSUME NEW r \in Requests PROVE computed'[r] \in 0..MaxTokens /\ table'[r] \in Seq(Blocks)
      <4>1. CASE r \in out
        BY <1>5, <3>5, <4>1
      <4>2. CASE r \in now /\ r \notin out
        BY <1>5, <3>1, <4>2
      <4>3. CASE r \notin now /\ r \notin out
        BY <1>5, <3>2, <4>3
      <4>. QED
        BY <4>1, <4>2, <4>3
    <3>. QED
      BY <3>4, <3>6
  <2>2. \A r \in Requests : outstanding'[r] \in 0..2
    <3>1. ASSUME NEW r \in now PROVE outstanding'[r] \in 0..2
      BY <1>5, <1>6, <1>9, <1>11
    <3>2. ASSUME NEW r \in Requests \ now PROVE outstanding'[r] \in 0..2
      <4>1. outstanding[r] \in 0..2
        BY DEF KvIInv, KvTypeOK
      <4>. QED
        BY <1>5, <4>1
    <3>. QED
      BY <3>1, <3>2
  <2>3. computed' \in [Requests -> 0..MaxTokens] /\ table' \in [Requests -> Seq(Blocks)] /\ outstanding' \in [Requests -> 0..2]
    BY <1>10, <2>1, <2>2
  <2>4. /\ needing \subseteq Marks /\ active \subseteq Requests /\ requests \subseteq Requests
        /\ tokens \in [Requests -> Prompt..MaxTokens]
        /\ mode \in Modes /\ heldFree \subseteq Requests /\ pendingStop \subseteq Requests
        /\ triggered \subseteq Requests /\ finishedIds \subseteq Requests /\ cached \subseteq Requests
        /\ spoiled \subseteq Requests /\ ready \subseteq Requests /\ bare \subseteq Requests
        /\ outputs \in Seq([reqs : SUBSET Requests, acks : SUBSET Requests])
        /\ content \in [Blocks -> {Nothing} \cup [req : Requests, nth : 1..MaxTokens, upTo : 1..MaxTokens]]
        /\ extracted \in [Requests -> Nat]
        /\ \A r \in Requests : r \in heldFree \/ table[r] # <<>> => r \in requests
    BY DEF KvIInv, KvTypeOK
  <2>5. active' \subseteq Requests
    BY <1>3, <2>4 DEF IdsOf, Marks
  <2>6. inflight' \in Seq([batch : SUBSET Parts, transfers : SUBSET Marks, finished : SUBSET Requests])
    BY <1>1, ScheduleDoes
  <2>7. \A r \in Requests : r \in heldFree \/ table'[r] # <<>> => r \in requests
    BY <1>5, <1>6, <2>4
  <2> DEFINE Flight == Seq([batch : SUBSET Parts, transfers : SUBSET Marks, finished : SUBSET Requests])
  <2>8. inflight' \in Flight
    BY <2>6
  <2> HIDE DEF Flight
  <2>9. /\ mode' \in Modes /\ tokens' \in [Requests -> Prompt..MaxTokens] /\ requests' \subseteq Requests
        /\ heldFree' \subseteq Requests /\ pendingStop' \subseteq Requests /\ triggered' \subseteq Requests
        /\ finishedIds' \subseteq Requests /\ cached' \subseteq Requests /\ spoiled' \subseteq Requests
        /\ ready' \subseteq Requests /\ bare' \subseteq Requests /\ needing' \subseteq Marks /\ scheduled' \in BOOLEAN
        /\ outputs' \in Seq([reqs : SUBSET Requests, acks : SUBSET Requests])
        /\ content' \in [Blocks -> {Nothing} \cup [req : Requests, nth : 1..MaxTokens, upTo : 1..MaxTokens]]
        /\ extracted' \in [Requests -> Nat]
        /\ \A r \in Requests : r \in heldFree' \/ table'[r] # <<>> => r \in requests'
    BY <1>3, <2>4, <2>7
  <2>. QED
    BY <2>1, <2>3, <2>5, <2>8, <2>9 DEF KvTypeOK, Flight
<1>13. UnendedHasRoom' /\ OnlyEndedIsFinished'
  <2>1. UnendedHasRoom'
    BY <1>3, <1>5, <1>6, <1>7 DEF UnendedHasRoom, Unended, KvIInv
  <2>2. ASSUME NEW k \in 1..Len(inflight') PROVE inflight'[k].finished \cap Unended = {}
    BY <1>2, <1>8 DEF OnlyEndedIsFinished, KvIInv
  <2>3. finishedIds' \cap Unended = {} /\ heldFree' \cap Unended = {}
    BY <1>3 DEF OnlyEndedIsFinished, KvIInv
  <2>. QED
    BY <1>7, <2>1, <2>2, <2>3 DEF OnlyEndedIsFinished
<1>14. PlaceholdersMatchFlights'
  <2>1. Flying' <= Depth'
    <3> DEFINE a == Len(inflight)  b == Len(outputs)  c == Len(inflight')
    <3>1. a \in 0..1 /\ b \in 0..1 /\ a + b < Depth /\ c = a + 1 /\ Depth \in Nat
      BY <1>2 DEF Depth
    <3> HIDE DEF a, b, c
    <3>2. c + b <= Depth
      BY <3>1
    <3>. QED
      BY <1>3, <3>2 DEF Flying, Depth, b, c
  <2>2. ASSUME NEW r \in Unended PROVE outstanding'[r] = IF mode.async THEN Flights(r)' ELSE 0
    BY <1>5, <1>6, <1>9, <1>11
  <2>. QED
    BY <1>3, <1>7, <2>1, <2>2 DEF PlaceholdersMatchFlights
<1>15. TablesAreDisjoint'
  <2>1. /\ \A r \in Requests : NoDuplicates(table[r])
        /\ \A r, q \in Requests : r # q => ToSet(table[r]) \cap ToSet(table[q]) = {}
        /\ \A r \in Unended : Len(table[r]) = BlocksFor(computed[r])
    BY DEF KvIInv, TablesAreDisjoint
  <2>2. /\ \A r \in now : NoDuplicates(has[r]) /\ Len(has[r]) = BlocksFor(to[r])
        /\ \A r, q \in now : r # q => ToSet(has[r]) \cap ToSet(has[q]) = {}
        /\ \A r \in now : \A q \in Requests \ (now \cup out) : ToSet(has[r]) \cap ToSet(table[q]) = {}
    BY <1>1 DEF Plan
  <2>3. NoDuplicates(<<>>) /\ ToSet(<<>>) = {} /\ Len(<<>>) = 0 /\ BlocksFor(0) = 0
    BY BlocksForBounds DEF NoDuplicates, ToSet
  <2>4. ASSUME NEW r \in Requests
        PROVE  NoDuplicates(table'[r]) /\ (r \in Unended => Len(table'[r]) = BlocksFor(computed'[r]))
    <3>1. CASE r \in out
      BY <1>5, <2>3, <3>1
    <3>2. CASE r \in now /\ r \notin out
      BY <1>5, <2>2, <3>2
    <3>3. CASE r \notin now /\ r \notin out
      BY <1>5, <2>1, <3>3
    <3>. QED
      BY <3>1, <3>2, <3>3
  <2>5. ASSUME NEW r \in Requests, NEW q \in Requests, r # q
        PROVE  ToSet(table'[r]) \cap ToSet(table'[q]) = {}
    <3>1. CASE r \in out \/ q \in out
      BY <1>5, <2>3, <3>1
    <3>2. CASE r \in now /\ r \notin out /\ q \in now /\ q \notin out
      BY <1>5, <2>2, <2>5, <3>2
    <3>3. CASE r \in now /\ r \notin out /\ q \notin now \cup out
      BY <1>5, <2>2, <3>3
    <3>4. CASE r \notin now \cup out /\ q \in now /\ q \notin out
      BY <1>5, <2>2, <3>4
    <3>5. CASE r \notin now \cup out /\ q \notin now \cup out
      BY <1>5, <2>1, <2>5, <3>5
    <3>. QED
      BY <3>1, <3>2, <3>3, <3>4, <3>5
  <2>. QED
    <3>1. \A r \in Requests : NoDuplicates(table'[r])
      BY <2>4
    <3>2. \A r \in Unended : Len(table'[r]) = BlocksFor(computed'[r])
      BY <1>6, <2>4
    <3>3. \A r, q \in Requests : r # q => ToSet(table'[r]) \cap ToSet(table'[q]) = {}
      BY <2>5
    <3>. QED
      BY <1>7, <3>1, <3>2, <3>3 DEF TablesAreDisjoint
<1>16. BatchesAreDisjoint'
  <2>1. ASSUME NEW k \in 1..Len(inflight') PROVE Disjoint(inflight'[k].batch)
    BY <1>2, <1>4, <1>8 DEF KvIInv, BatchesAreDisjoint
  <2>. QED
    BY <2>1 DEF BatchesAreDisjoint, Disjoint
<1>17. /\ Memory' = Written(Memory, batch)
       /\ Known' = (Known \ finishedIds) \cup now
       /\ \A k \in 0..Len(inflight) : MemoryAfter(k)' = MemoryAfter(k) /\ KnownAfter(k)' = KnownAfter(k)
       /\ MemoryAfter(Len(inflight)) = Memory /\ KnownAfter(Len(inflight)) = Known
       /\ Len(inflight) = Len(inflight') - 1
  <2>1. CASE Len(inflight) = 0
    <3>1. Len(inflight') = 1 /\ inflight'[1].batch = batch /\ inflight'[1].finished = finishedIds
      BY <1>2, <2>1
    <3>2. /\ MemoryAfter(0)' = MemoryAfter(0) /\ KnownAfter(0)' = KnownAfter(0)
          /\ Memory = content /\ Known = cached
      BY <1>3, <2>1 DEF MemoryAfter, KnownAfter, Memory, Known
    <3>3. Memory' = Written(content, batch) /\ Known' = (cached \ finishedIds) \cup now
      BY <1>3, <1>4, <3>1 DEF MemoryAfter, KnownAfter, Memory, Known, KnownStep, Written
    <3>. QED
      BY <2>1, <3>1, <3>2, <3>3 DEF Memory, Known
  <2>2. CASE Len(inflight) = 1
    <3>1. /\ Len(inflight') = 2 /\ inflight'[2].batch = batch /\ inflight'[2].finished = finishedIds
          /\ inflight'[1] = inflight[1]
      BY <1>2, <2>2
    <3>2. /\ MemoryAfter(0)' = MemoryAfter(0) /\ KnownAfter(0)' = KnownAfter(0)
          /\ MemoryAfter(1)' = MemoryAfter(1) /\ KnownAfter(1)' = KnownAfter(1)
          /\ Memory = Written(content, inflight[1].batch) /\ Known = KnownStep(cached, inflight[1])
      BY <1>3, <2>2, <3>1 DEF MemoryAfter, KnownAfter, Memory, Known, KnownStep, Written, IdsOf
    <3>3. /\ Memory' = Written(Written(content, inflight[1].batch), batch)
          /\ Known' = (KnownStep(cached, inflight[1]) \ finishedIds) \cup now
      BY <1>3, <1>4, <3>1 DEF MemoryAfter, KnownAfter, Memory, Known, KnownStep, Written, IdsOf
    <3>. QED
      BY <2>2, <3>1, <3>2, <3>3 DEF Memory, Known
  <2>. QED
    BY <1>2, <2>1, <2>2
<1>18. TablesAreWritten'
  <2>1. /\ \A r \in now : \A i \in 1..Len(has[r]) : IsPart(Memory'[has[r][i]], r, i, to[r])
        /\ \A r \in Requests \ (now \cup out) :
             \A i \in 1..Len(table[r]) : IsPart(Memory'[table[r][i]], r, i, computed[r])
    <3> DEFINE later == Memory'
    <3>1. later = Written(Memory, BatchOf(now, has, to))
      BY <1>17 DEF batch
    <3> HIDE DEF later
    <3>2. /\ \A r \in now : \A i \in 1..Len(has[r]) : IsPart(later[has[r][i]], r, i, to[r])
          /\ \A r \in Requests \ (now \cup out) :
               \A i \in 1..Len(table[r]) : IsPart(later[table[r][i]], r, i, computed[r])
      BY <1>1, <3>1, PlanIsWritten
    <3>. QED
      BY <3>2 DEF later
  <2>2. ASSUME NEW r \in Requests, NEW i \in 1..Len(table'[r])
        PROVE  IsPart(Memory'[table'[r][i]], r, i, computed'[r])
    <3>1. r \notin out
      <4>1. Len(<<>>) = 0
        OBVIOUS
      <4>. QED
        BY <1>5, <2>2, <4>1
    <3>2. CASE r \in now
      BY <1>5, <2>1, <2>2, <3>1, <3>2
    <3>3. CASE r \notin now
      BY <1>5, <2>1, <2>2, <3>1, <3>3
    <3>. QED
      BY <3>2, <3>3
  <2>3. ASSUME NEW r \in Unended, table'[r] # <<>> PROVE r \in Known'
    <3>1. r \notin finishedIds
      BY <2>3 DEF KvIInv, OnlyEndedIsFinished
    <3>2. r \in now \/ table[r] # <<>>
      BY <1>5, <1>6, <2>3
    <3>3. r \in now \/ r \in Known
      BY <3>2 DEF KvIInv, TablesAreWritten
    <3>. QED
      BY <1>17, <3>1, <3>3
  <2>. QED
    BY <1>7, <2>2, <2>3 DEF TablesAreWritten
<1>19. MarksAreWhole'
  <2>1. QueuedOnce({})
    BY DEF QueuedOnce
  <2>2. needing' = {} /\ bare' = bare
    BY <1>3
  <2>3. ASSUME NEW k \in 1..Len(inflight')
        PROVE  /\ QueuedOnce(inflight'[k].transfers)
               /\ \A m \in inflight'[k].transfers : IsWhole(m, MemoryAfter(k - 1)', KnownAfter(k - 1)')
    <3>1. CASE k \in 1..Len(inflight)
      <4>1. k - 1 \in 0..Len(inflight) /\ inflight'[k] = inflight[k]
        BY <1>2, <3>1
      <4>2. MemoryAfter(k - 1)' = MemoryAfter(k - 1) /\ KnownAfter(k - 1)' = KnownAfter(k - 1)
        BY <1>17, <4>1
      <4>. QED
        BY <3>1, <4>1, <4>2 DEF KvIInv, MarksAreWhole
    <3>2. CASE k = Len(inflight')
      <4>1. k - 1 = Len(inflight) /\ Len(inflight) \in 0..Len(inflight)
        BY <1>2, <1>17, <3>2
      <4>2. MemoryAfter(k - 1)' = Memory /\ KnownAfter(k - 1)' = Known
        BY <1>17, <4>1
      <4>3. inflight'[k].transfers = needing
        BY <1>2, <3>2
      <4>. QED
        BY <4>2, <4>3 DEF KvIInv, MarksAreWhole
    <3>. QED
      BY <1>8, <3>1, <3>2
  <2>4. QueuedOnce(needing)' /\ \A k \in 1..Len(inflight') : QueuedOnce(inflight[k].transfers)'
    BY <2>1, <2>2, <2>3 DEF QueuedOnce
  <2>. QED
    BY <2>2, <2>3, <2>4 DEF MarksAreWhole
<1>20. ASSUME NEW r \in Requests PROVE Offers(r)' = Offers(r) /\ (IsQueued(r)' <=> IsQueued(r))
  <2>1. ~Sends({}, r)
    BY DEF Sends
  <2>2. /\ extracted' = extracted /\ Due(r)' = 0
        /\ SendsAt(inflight', r, 1) + SendsAt(inflight', r, 2) = SendsAt(inflight, r, 1) + SendsAt(inflight, r, 2) + Due(r)
    <3>1. extracted' = extracted /\ Due(r)' = 0
      BY <1>3, <2>1 DEF Due, Sends
    <3>2. CASE Len(inflight) = 0
      <4>1. Len(inflight') = 1 /\ inflight'[1].transfers = needing
        BY <1>2, <3>2
      <4>. QED
        BY <3>1, <3>2, <4>1 DEF SendsAt, Due
    <3>3. CASE Len(inflight) = 1
      <4>1. Len(inflight') = 2 /\ inflight'[2].transfers = needing /\ inflight'[1] = inflight[1]
        BY <1>2, <3>3
      <4>. QED
        BY <3>1, <3>3, <4>1 DEF SendsAt, Due
    <3>. QED
      BY <1>2, <3>1, <3>2, <3>3
  <2> DEFINE T == [batch : SUBSET Parts, transfers : SUBSET Marks, finished : SUBSET Requests]
             count(s) == Cardinality({i \in DOMAIN s : Sends(s[i].transfers, r)})
  <2>3. inflight \in Seq(T) /\ Len(inflight) \in 0..2
    BY <1>2 DEF KvIInv, KvTypeOK
  <2>4. inflight' \in Seq(T) /\ Len(inflight') \in 0..2
    <3>1. inflight' \in Seq(T)
      BY <1>1, ScheduleDoes
    <3>2. Len(inflight') \in 0..2
      BY <1>2
    <3>. QED
      BY <3>1, <3>2
  <2> HIDE DEF T
  <2>5. count(inflight) = SendsAt(inflight, r, 1) + SendsAt(inflight, r, 2)
    BY <2>3, PlacesCounted
  <2>6. count(inflight') = SendsAt(inflight', r, 1) + SendsAt(inflight', r, 2)
    BY <2>4, PlacesCounted
  <2>7. Offers(r) = extracted[r] + count(inflight) + Due(r)
    BY DEF Offers, Due, Sends
  <2>8. Offers(r)' = extracted'[r] + count(inflight') + Due(r)'
    BY DEF Offers, Due, Sends
  <2>9. /\ extracted[r] \in Nat /\ SendsAt(inflight, r, 1) \in Nat /\ SendsAt(inflight, r, 2) \in Nat /\ Due(r) \in Nat
        /\ SendsAt(inflight', r, 1) \in Nat /\ SendsAt(inflight', r, 2) \in Nat
    BY DEF KvIInv, KvTypeOK, SendsAt, Due
  <2> HIDE DEF count
  <2>10. Offers(r)' = Offers(r)
    BY <2>2, <2>5, <2>6, <2>7, <2>8, <2>9
  <2>11. IsQueued(r)' <=> IsQueued(r)
    <3>1. IsQueued(r)' <=> \E k \in 1..Len(inflight') : r \in IdsOf(inflight'[k].transfers)
      BY <1>3 DEF IsQueued, IdsOf
    <3>2. IsQueued(r) <=> r \in IdsOf(needing) \/ \E k \in 1..Len(inflight) : r \in IdsOf(inflight[k].transfers)
      BY DEF IsQueued
    <3>3. Len(inflight') \in 1..Len(inflight') /\ \A k \in 1..Len(inflight) : k \in 1..Len(inflight')
      BY <1>2
    <3>. QED
      BY <1>2, <1>8, <3>1, <3>2, <3>3
  <2>. QED
    BY <2>10, <2>11
<1>21. TriggeredIsOffered'
  <2>1. \A r \in Unended \ triggered : Offers(r)' = 0 /\ ~IsQueued(r)'
    BY <1>6, <1>20 DEF KvIInv, TriggeredIsOffered
  <2>2. \A r \in triggered : r \in bare \/ Offers(r)' = 1
    BY <1>20 DEF KvIInv, KvTypeOK, TriggeredIsOffered
  <2>3. \A r \in Unended \cap triggered : r \in active' \cup ready
    BY <1>3 DEF KvIInv, TriggeredIsOffered
  <2>4. IdsOf(needing') = {}
    BY <1>3 DEF IdsOf
  <2>. QED
    BY <1>3, <1>7, <2>1, <2>2, <2>3, <2>4 DEF TriggeredIsOffered, IdsOf
<1>22. OfferedOnce' /\ ReadyIsExtracted'
  <2>1. \A r \in Requests : status'[r] \in {"stopped", "cut"} => status[r] = status'[r]
    BY <1>5
  <2>. QED
    BY <1>3, <1>20, <2>1 DEF KvIInv, OfferedOnce, ReadyIsExtracted
<1>23. ExtractedIsOwn' /\ AcksAreExtractions'
  BY <1>3 DEF KvIInv, ExtractedIsOwn, AcksAreExtractions
<1>. QED
  BY <1>12, <1>13, <1>14, <1>15, <1>16, <1>18, <1>19, <1>21, <1>22, <1>23 DEF KvIInv
-----------------------------------------------------------------------------
(* The specification                                                       *)

LEMMA InitIInv ==
  ASSUME Init
  PROVE  KvIInv
<1>1. /\ Len(<<>>) = 0 /\ DOMAIN <<>> = {} /\ NoDuplicates(<<>>) /\ ToSet(<<>>) = {} /\ BlocksFor(0) = 0
      /\ MaxTokens \in Nat /\ 1 < MaxTokens /\ Prompt = 1
  BY BlocksForBounds, KvAssumption DEF NoDuplicates, ToSet, Prompt
<1>2. KvTypeOK
  <2>1. /\ mode \in Modes
        /\ status \in [Requests -> {"new", "waiting", "running", "preempted"} \cup Over]
        /\ tokens \in [Requests -> Prompt..MaxTokens] /\ computed \in [Requests -> 0..MaxTokens]
        /\ outstanding \in [Requests -> 0..2] /\ scheduled \in BOOLEAN /\ extracted \in [Requests -> Nat]
    <3>1. mode \in Modes /\ status = [r \in Requests |-> "new"] /\ scheduled = FALSE
      BY DEF Init
    <3>2. tokens = [r \in Requests |-> 1] /\ computed = [r \in Requests |-> 0]
      BY <1>1 DEF Init
    <3>3. outstanding = [r \in Requests |-> 0] /\ extracted = [r \in Requests |-> 0]
      BY DEF Init
    <3>4. 1 \in Prompt..MaxTokens /\ 0 \in 0..MaxTokens /\ 0 \in 0..2
      BY <1>1
    <3>. QED
      BY <3>1, <3>2, <3>3, <3>4
  <2>2. table \in [Requests -> Seq(Blocks)] /\ \A r \in Requests : table[r] = <<>>
    BY DEF Init
  <2>3. /\ inflight \in Seq([batch : SUBSET Parts, transfers : SUBSET Marks, finished : SUBSET Requests])
        /\ outputs \in Seq([reqs : SUBSET Requests, acks : SUBSET Requests])
    BY DEF Init
  <2>4. content \in [Blocks -> {Nothing} \cup [req : Requests, nth : 1..MaxTokens, upTo : 1..MaxTokens]]
    BY DEF Init
  <2>5. /\ requests = {} /\ needing = {} /\ active = {} /\ heldFree = {} /\ pendingStop = {} /\ triggered = {}
        /\ finishedIds = {} /\ cached = {} /\ spoiled = {} /\ ready = {} /\ bare = {}
    BY DEF Init
  <2>. QED
    BY <2>1, <2>2, <2>3, <2>4, <2>5 DEF KvTypeOK
<1>3. UnendedHasRoom /\ OnlyEndedIsFinished
  BY <1>1 DEF Init, UnendedHasRoom, OnlyEndedIsFinished, Unended
<1>4. PlaceholdersMatchFlights
  <2>1. \A r : Flights(r) = 0
    BY <1>1 DEF Init, Flights
  <2>2. Flying <= Depth
    BY <1>1 DEF Init, Flying, Depth
  <2>. QED
    BY <2>1, <2>2 DEF Init, PlaceholdersMatchFlights, Unended
<1>5. TablesAreDisjoint /\ BatchesAreDisjoint
  BY <1>1 DEF Init, TablesAreDisjoint, BatchesAreDisjoint, Unended
<1>6. TablesAreWritten /\ MarksAreWhole
  BY <1>1 DEF Init, TablesAreWritten, MarksAreWhole, QueuedOnce, Unended
<1>7. ASSUME NEW r \in Requests PROVE Offers(r) = 0 /\ ~IsQueued(r)
  <2>1. {i \in DOMAIN inflight : \E m \in inflight[i].transfers : m.req = r /\ m.blocks # <<>>} = {}
    BY <1>1 DEF Init
  <2>2. Offers(r) = 0
    BY <2>1, FS_EmptySet DEF Init, Offers
  <2>3. ~IsQueued(r)
    BY <1>1 DEF Init, IsQueued, IdsOf
  <2>. QED
    BY <2>2, <2>3
<1>8. TriggeredIsOffered /\ OfferedOnce
  BY <1>7 DEF Init, TriggeredIsOffered, OfferedOnce, Unended
<1>9. ExtractedIsOwn /\ AcksAreExtractions /\ ReadyIsExtracted
  BY <1>1 DEF Init, ExtractedIsOwn, AcksAreExtractions, ReadyIsExtracted
<1>. QED
  BY <1>2, <1>3, <1>4, <1>5, <1>6, <1>8, <1>9 DEF KvIInv

LEMMA StutterIInv ==
  ASSUME KvIInv, UNCHANGED vars
  PROVE  KvIInv'
<1>1. /\ UNCHANGED <<mode, status, requests, tokens, computed, outstanding, table, needing, active, heldFree>>
      /\ UNCHANGED <<pendingStop, triggered, finishedIds, scheduled, inflight, outputs, content, cached>>
      /\ UNCHANGED <<extracted, spoiled, ready, bare>>
  BY DEF vars, schedule, transfer, worker
<1>2. Unended' = Unended
  BY <1>1 DEF Unended
<1>3. KvTypeOK'
  BY <1>1 DEF KvTypeOK, KvIInv, Over, Marks, Parts
<1>4. UnendedHasRoom' /\ OnlyEndedIsFinished'
  BY <1>1, <1>2 DEF UnendedHasRoom, OnlyEndedIsFinished, KvIInv
<1>5. PlaceholdersMatchFlights'
  BY <1>1, <1>2 DEF PlaceholdersMatchFlights, Flights, Flying, Depth, KvIInv, IdsOf
<1>6. TablesAreDisjoint' /\ BatchesAreDisjoint'
  BY <1>1, <1>2 DEF TablesAreDisjoint, BatchesAreDisjoint, Disjoint, KvIInv
<1>7. Memory' = Memory /\ Known' = Known /\ \A k : MemoryAfter(k)' = MemoryAfter(k) /\ KnownAfter(k)' = KnownAfter(k)
  BY <1>1 DEF Memory, Known, MemoryAfter, KnownAfter
<1>8. TablesAreWritten' /\ MarksAreWhole'
  BY <1>1, <1>2, <1>7 DEF TablesAreWritten, MarksAreWhole, QueuedOnce, KvIInv
<1>9. \A q : Offers(q)' = Offers(q) /\ IsQueued(q)' = IsQueued(q) /\ IdsOf(needing)' = IdsOf(needing)
  BY <1>1 DEF Offers, IsQueued, IdsOf
<1>10. TriggeredIsOffered' /\ OfferedOnce'
  BY <1>1, <1>2, <1>9 DEF TriggeredIsOffered, OfferedOnce, KvIInv
<1>11. ExtractedIsOwn' /\ AcksAreExtractions' /\ ReadyIsExtracted'
  BY <1>1 DEF ExtractedIsOwn, AcksAreExtractions, ReadyIsExtracted, KvIInv
<1>. QED
  BY <1>3, <1>4, <1>5, <1>6, <1>8, <1>10, <1>11 DEF KvIInv

\* The inductive invariant holds of the engine core and its runner, for any
\* requests, any blocks that suffice for one request, and each configuration:
\* one or two batches in flight, stops that wait for the transfer, each trigger.
THEOREM KvInvariant == Spec => []KvIInv
<1>1. Init => KvIInv
  BY InitIInv
<1>2. KvIInv /\ [Next]_vars => KvIInv'
  <2>1. SUFFICES ASSUME KvIInv, [Next]_vars PROVE KvIInv'
    OBVIOUS
  <2>2. ASSUME NEW r \in Requests, AddRequest(r) PROVE KvIInv'
    BY <2>1, <2>2, AddRequestIInv
  <2>3. ASSUME NEW r \in Requests, Abort(r) PROVE KvIInv'
    BY <2>1, <2>3, AbortIInv
  <2>4. CASE Schedule
    BY <2>1, <2>4, ScheduleIInv
  <2>5. CASE Execute
    BY <2>1, <2>5, ExecuteIInv
  <2>6. CASE UpdateFromOutput
    BY <2>1, <2>6, UpdateFromOutputIInv
  <2>7. CASE UNCHANGED vars
    BY <2>1, <2>7, StutterIInv
  <2>. QED
    BY <2>1, <2>2, <2>3, <2>4, <2>5, <2>6, <2>7 DEF Next
<1>. QED
  BY <1>1, <1>2, PTL DEF Spec

\* Scheduler, queues, block tables, batches and the content of the blocks keep
\* their types, and whatever has blocks or is held for its transfer is a request
\* the scheduler still has.
THEOREM KvTypeCorrect == Spec => []KvTypeOK
<1>1. KvIInv => KvTypeOK
  BY DEF KvIInv
<1>. QED
  BY <1>1, KvInvariant, PTL

\* The model runner never sends the cache of another request, or a cache that is
\* not whole: although _mark_request_for_kv_transfer records the blocks a step or
\* more before execute_model extracts them, and preemption and the end of the
\* request may meanwhile give them to another, they hold its cache until then.
THEOREM ExtractsTheOwnCache == Spec => []ExtractedIsOwn
<1>1. KvIInv => ExtractedIsOwn
  BY DEF KvIInv
<1>. QED
  BY <1>1, KvInvariant, PTL

\* A cache is sent at most once, whether sent early by the trigger or owed at the
\* end, and a request that ended by itself was sent or is queued, unless it had
\* no blocks when it was marked.
THEOREM CacheIsOfferedOnce == Spec => []OfferedOnce
<1>1. KvIInv => OfferedOnce
  BY DEF KvIInv
<1>. QED
  BY <1>1, KvInvariant, PTL

\* kv_ready is announced only of a cache that was extracted, and a request whose
\* stop waited for the extraction announced it before it was stopped.
THEOREM ReadyAfterExtraction == Spec => []ReadyIsExtracted
<1>1. KvIInv => ReadyIsExtracted
  BY DEF KvIInv
<1>. QED
  BY <1>1, KvInvariant, PTL
=============================================================================
