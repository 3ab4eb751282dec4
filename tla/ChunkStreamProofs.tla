-------------------------- MODULE ChunkStreamProofs --------------------------
(***************************************************************************)
(* What a stream of chunks that behaves as ChunkStream says is worth to    *)
(* the model that plays it, for any requests and any chunks.  It holds of  *)
(* ChunkTransfer as well, which implements it (ChunkTransferProofs).       *)
(***************************************************************************)
EXTENDS ChunkStream, TLAPS

\* Sequences of chunks, the set of requests that ended.
StreamTypeOK ==
  /\ sent \in [Requests -> Seq(Chunks)]
  /\ played \in [Requests -> Seq(Chunks)]
  /\ ended \subseteq Requests

\* What was played is a prefix of what was sent.
PlayedIsPrefix ==
  \A r \in Requests :
    /\ Len(played[r]) <= Len(sent[r])
    /\ \A i \in 1..Len(played[r]) : played[r][i] = sent[r][i]

\* A stream has no chunk after its last one.
LastIsLast ==
  \A r \in Requests : \A i \in 1..Len(sent[r]) : sent[r][i].last => i = Len(sent[r])

\* A request that has ended was played all it will ever be sent.
EndedIsPlayed ==
  \A r \in ended : Closed(r) /\ Len(played[r]) = Len(sent[r])

\* A request that has ended was played every chunk that was sent for it, in
\* order, and the last one is marked as the last: nothing is missing at the end
\* of a request, repeated or swapped.
EndedIsComplete ==
  \A r \in ended :
    /\ played[r] = sent[r]
    /\ \A i \in 1..Len(sent[r]) : sent[r][i].last <=> i = Len(sent[r])

StreamIInv == StreamTypeOK /\ PlayedIsPrefix /\ LastIsLast /\ EndedIsPlayed

\* A stream begins with nothing sent, played or ended.
LEMMA InitHolds == Init => StreamIInv
BY DEF Init, StreamIInv, StreamTypeOK, PlayedIsPrefix, LastIsLast, EndedIsPlayed

\* A chunk is only sent for a stream that is not closed, so no request that
\* has ended gets another one.
LEMMA SendKeeps ==
  ASSUME StreamIInv, NEW r \in Requests, NEW c \in Chunks, Send(r, c)
  PROVE  StreamIInv'
<1> USE DEF StreamIInv, StreamTypeOK
<1>1. /\ sent[r] \in Seq(Chunks) /\ sent'[r] = Append(sent[r], c)
      /\ \A q \in Requests \ {r} : sent'[q] = sent[q]
  BY DEF Send
<1>2. /\ Len(sent'[r]) = Len(sent[r]) + 1 /\ sent'[r][Len(sent[r]) + 1] = c
      /\ \A i \in 1..Len(sent[r]) : sent'[r][i] = sent[r][i]
  BY <1>1
<1>3. StreamTypeOK'
  BY DEF Send
<1>4. PlayedIsPrefix'
  <2> SUFFICES ASSUME NEW q \in Requests
               PROVE  /\ Len(played[q]) <= Len(sent'[q])
                      /\ \A i \in 1..Len(played[q]) : played[q][i] = sent'[q][i]
    BY DEF Send, PlayedIsPrefix
  <2>1. /\ Len(played[q]) \in Nat /\ Len(sent[q]) \in Nat /\ Len(played[q]) <= Len(sent[q])
        /\ \A i \in 1..Len(played[q]) : played[q][i] = sent[q][i]
    BY DEF PlayedIsPrefix
  <2>2. CASE q = r
    BY <2>1, <2>2, <1>2
  <2>3. CASE q # r
    BY <2>1, <2>3, <1>1
  <2> QED
    BY <2>2, <2>3
<1>5. LastIsLast'
  <2> SUFFICES ASSUME NEW q \in Requests, NEW i \in 1..Len(sent'[q]), sent'[q][i].last
               PROVE  i = Len(sent'[q])
    BY DEF LastIsLast
  <2>1. CASE q = r
    BY <2>1, <1>1, <1>2 DEF Send, Closed
  <2>2. CASE q # r
    BY <2>2, <1>1 DEF LastIsLast
  <2> QED
    BY <2>1, <2>2
<1>6. EndedIsPlayed'
  BY <1>1 DEF Send, EndedIsPlayed, Closed
<1> QED
  BY <1>3, <1>4, <1>5, <1>6

\* Playing the next chunk of some requests keeps their prefixes.
LEMMA PlayKeeps ==
  ASSUME StreamIInv, NEW rs \in SUBSET Requests, Play(rs)
  PROVE  StreamIInv'
<1> USE DEF StreamIInv, StreamTypeOK
<1>1. ASSUME NEW r \in rs
      PROVE  /\ Len(played[r]) \in Nat /\ Len(sent[r]) \in Nat /\ Len(played[r]) < Len(sent[r])
             /\ played[r] \in Seq(Chunks) /\ sent[r][Len(played[r]) + 1] \in Chunks
             /\ played'[r] = Append(played[r], sent[r][Len(played[r]) + 1])
  BY DEF Play
<1>2. \A r \in Requests \ rs : played'[r] = played[r]
  BY DEF Play
<1>3. StreamTypeOK'
  <2>1. ASSUME NEW r \in Requests
        PROVE  played'[r] \in Seq(Chunks)
    <3>1. CASE r \in rs
      <4>1. /\ played[r] \in Seq(Chunks) /\ sent[r][Len(played[r]) + 1] \in Chunks
            /\ played'[r] = Append(played[r], sent[r][Len(played[r]) + 1])
        BY <3>1, <1>1
      <4> QED
        BY <4>1
    <3>2. CASE r \notin rs
      BY <3>2, <1>2
    <3> QED
      BY <3>1, <3>2
  <2> QED
    BY <2>1 DEF Play
<1>4. PlayedIsPrefix'
  <2> SUFFICES ASSUME NEW r \in Requests
               PROVE  /\ Len(played'[r]) <= Len(sent[r])
                      /\ \A i \in 1..Len(played'[r]) : played'[r][i] = sent[r][i]
    BY DEF Play, PlayedIsPrefix
  <2>1. CASE r \in rs
    <3>1. /\ Len(played'[r]) = Len(played[r]) + 1
          /\ played'[r][Len(played[r]) + 1] = sent[r][Len(played[r]) + 1]
          /\ \A i \in 1..Len(played[r]) : played'[r][i] = played[r][i]
      <4>1. /\ played[r] \in Seq(Chunks) /\ sent[r][Len(played[r]) + 1] \in Chunks
            /\ played'[r] = Append(played[r], sent[r][Len(played[r]) + 1])
        BY <2>1, <1>1
      <4> QED
        BY <4>1
    <3> QED
      BY <3>1, <2>1, <1>1 DEF PlayedIsPrefix
  <2>2. CASE r \notin rs
    BY <2>2, <1>2 DEF PlayedIsPrefix
  <2> QED
    BY <2>1, <2>2
<1>5. LastIsLast'
  BY DEF Play, LastIsLast
<1>6. EndedIsPlayed'
  BY <1>2 DEF Play, EndedIsPlayed, Closed
<1> QED
  BY <1>3, <1>4, <1>5, <1>6

\* Only requests whose closed stream was played end.
LEMMA EndKeeps ==
  ASSUME StreamIInv, NEW rs \in SUBSET Requests, End(rs)
  PROVE  StreamIInv'
BY DEF End, StreamIInv, StreamTypeOK, PlayedIsPrefix, LastIsLast, EndedIsPlayed, Closed

\* The four facts together are kept by every step of a stream: sending, playing
\* a batch and ending.
THEOREM StreamInvariance == Spec => []StreamIInv
<1>1. StreamIInv /\ [Next]_vars => StreamIInv'
  <2> SUFFICES ASSUME StreamIInv, [Next]_vars
               PROVE  StreamIInv'
    OBVIOUS
  <2>1. CASE \E r \in Requests, c \in Chunks : Send(r, c)
    BY <2>1, SendKeeps
  <2>2. CASE \E rs \in SUBSET Requests : Play(rs)
    BY <2>2, PlayKeeps
  <2>3. CASE \E rs \in SUBSET Requests : End(rs)
    BY <2>3, EndKeeps
  <2>4. CASE UNCHANGED vars
    BY <2>4 DEF vars, StreamIInv, StreamTypeOK, PlayedIsPrefix, LastIsLast, EndedIsPlayed, Closed
  <2> QED
    BY <2>1, <2>2, <2>3, <2>4 DEF Next
<1> QED
  BY <1>1, InitHolds, PTL DEF Spec

\* A request that ended by itself was played the whole stream (EndedIsComplete).
THEOREM EndedComplete == Spec => []EndedIsComplete
<1>1. StreamIInv => EndedIsComplete
  <2> SUFFICES ASSUME StreamIInv, NEW r \in ended
               PROVE  /\ played[r] = sent[r]
                      /\ \A i \in 1..Len(sent[r]) : sent[r][i].last <=> i = Len(sent[r])
    BY DEF EndedIsComplete
  <2>1. /\ played[r] \in Seq(Chunks) /\ sent[r] \in Seq(Chunks) /\ r \in Requests
        /\ Len(played[r]) = Len(sent[r]) /\ Closed(r)
    BY DEF StreamIInv, StreamTypeOK, EndedIsPlayed
  <2>2. played[r] = sent[r]
    BY <2>1 DEF StreamIInv, PlayedIsPrefix
  <2>3. PICK k \in 1..Len(sent[r]) : sent[r][k].last
    BY <2>1 DEF Closed
  <2>4. \A i \in 1..Len(sent[r]) : sent[r][i].last => i = Len(sent[r])
    BY <2>1 DEF StreamIInv, LastIsLast
  <2> QED
    BY <2>2, <2>3, <2>4
<1> QED
  BY <1>1, StreamInvariance, PTL
=============================================================================
