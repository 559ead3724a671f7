------------------------ MODULE RamulatorBridgeProofs ------------------------
(***************************************************************************)
(* Proofs about gem5's memory object, for every set of addresses, map of   *)
(* addresses to channels, queue size and number of packets. IInv of        *)
(* RamulatorBridge is the inductive invariant of its flags and counters;   *)
(* DequesInv is what the refinement of the memory port needs besides.      *)
(***************************************************************************)
EXTENDS RamulatorBridge, TLAPS, FiniteSetTheorems, SequenceTheorems

(* A sequence of packet numbers stays one when packets are accepted. *)
LEMMA SeqWiden ==
    ASSUME NEW m \in Nat, NEW n \in Nat, m <= n, NEW s \in Seq(1 .. m)
    PROVE  s \in Seq(1 .. n)
  OBVIOUS

(* What accessAndRespond changes, and that it keeps the types: one answer  *)
(* is queued and its event scheduled unless the peer owes a retry, or      *)
(* neither changes.                                                        *)
LEMMA AccessFacts ==
    ASSUME TypeOK, NEW v \in Seq(Nat), NEW i \in 1 .. Len(v),
           NEW p \in [kind : Kinds, addr : Addrs], NEW del \in Seq(Nat),
           Len(pkts) <= Len(v), AccessAndRespond(i, p, del, v)
    PROVE  /\ cell' \in [Addrs -> Nat]
           /\ val' \in Seq(Nat) /\ Len(val') = Len(v)
           /\ resp_queue' \in Seq(1 .. Len(v)) /\ pending_del' \in Seq(Nat)
           /\ respEvent' \in BOOLEAN
           /\ \/ resp_queue' = resp_queue /\ respEvent' = respEvent
              \/ /\ Len(resp_queue') = Len(resp_queue) + 1
                 /\ respEvent' = (respEvent \/ ~resp_stall)
<1>1. i \in Nat /\ p.addr \in Addrs /\ Len(v) \in Nat /\ Len(pkts) \in Nat
  BY DEF TypeOK
<1>2. cell' \in [Addrs -> Nat]
  <2>1. /\ cell \in [Addrs -> Nat] /\ [cell EXCEPT ![p.addr] = i] \in [Addrs -> Nat]
    BY <1>1 DEF TypeOK
  <2> QED
    BY <2>1 DEF AccessAndRespond
<1>3. val' \in Seq(Nat) /\ Len(val') = Len(v)
  <2>1. cell[p.addr] \in Nat
    BY <1>1 DEF TypeOK
  <2> QED
    BY <2>1, ExceptSeq DEF AccessAndRespond
<1>4. resp_queue \in Seq(1 .. Len(v))
  BY <1>1, SeqWiden DEF TypeOK, Ids
<1>5. resp_queue' \in Seq(1 .. Len(v)) /\ pending_del' \in Seq(Nat)
  <2>1. Append(resp_queue, i) \in Seq(1 .. Len(v)) /\ Append(del, i) \in Seq(Nat)
    BY <1>1, <1>4
  <2> QED
    BY <1>4, <2>1 DEF AccessAndRespond
<1>6. respEvent' \in BOOLEAN
  BY DEF AccessAndRespond, TypeOK
<1>7. \/ resp_queue' = resp_queue /\ respEvent' = respEvent
      \/ /\ Len(resp_queue') = Len(resp_queue) + 1
         /\ respEvent' = (respEvent \/ ~resp_stall)
  <2>1. Len(Append(resp_queue, i)) = Len(resp_queue) + 1
    BY <1>4
  <2> QED
    BY <2>1 DEF AccessAndRespond
<1> QED
  BY <1>2, <1>3, <1>5, <1>6, <1>7

(* What a peer may send. *)
LEMMA RequestsAre ==
    ASSUME Requests
    PROVE  \/ RecvSnooped
           \/ \E a \in Addrs : RecvRead(a) \/ RefuseRead(a) \/ RefuseWrite(a)
           \/ \E p \in [kind : {"other", "evict"}, addr : Addrs] : RecvOther(p)
           \/ \E p \in [kind : {"write", "writeback"}, addr : Addrs] : RecvWrite(p)
<1>1. /\ \A p \in Writes : p \in [kind : {"write", "writeback"}, addr : Addrs]
      /\ \A p \in Writes : p.addr \in Addrs
      /\ \A p \in Others : p \in [kind : {"other", "evict"}, addr : Addrs]
  BY BridgeAssumption
<1> QED
  BY <1>1, Zenon DEF Requests

(* The sets of requests inside the DRAM simulator are finite. *)
LEMMA FiniteFacts ==
    ASSUME TypeOK
    PROVE  /\ Len(pkts) \in Nat
           /\ IsFiniteSet(rdq \cup pend) /\ IsFiniteSet(wrq \cup wact)
           /\ \A a : IsFiniteSet(InFlight(a))
<1>1. Len(pkts) \in Nat
  BY DEF TypeOK
<1>2. IsFiniteSet(Ids)
  BY <1>1, FS_Interval DEF Ids
<1>3. rdq \cup pend \in SUBSET Ids /\ wrq \cup wact \in SUBSET Ids
      /\ \A a : InFlight(a) \in SUBSET Ids
  BY DEF TypeOK, InFlight
<1> QED
  BY <1>1, <1>2, <1>3, FS_Subset

(* A read that completes finds a packet waiting for its address: reads.find *)
(* and the deque's front in readComplete are never those of an empty deque. *)
LEMMA WaitingPacket ==
    ASSUME TypeOK, CountersMatch, NEW i \in pend
    PROVE  /\ pkts[i] \in [kind : Kinds, addr : Addrs]
           /\ reads[pkts[i].addr] # <<>>
           /\ Head(reads[pkts[i].addr]) \in Ids
           /\ Tail(reads[pkts[i].addr]) \in Seq(Ids)
           /\ Len(Tail(reads[pkts[i].addr])) = Len(reads[pkts[i].addr]) - 1
<1> DEFINE a == pkts[i].addr
<1>1. pkts[i] \in [kind : Kinds, addr : Addrs] /\ a \in Addrs
  <2>1. i \in 1 .. Len(pkts) /\ pkts \in Seq([kind : Kinds, addr : Addrs])
    BY DEF TypeOK, Ids
  <2>2. pkts[i] \in [kind : Kinds, addr : Addrs]
    BY <2>1, ElementOfSeq
  <2> QED
    BY <2>2
<1>2. i \in InFlight(a)
  BY DEF InFlight
<1>3. Cardinality(InFlight(a)) # 0
  BY <1>2, FiniteFacts, FS_EmptySet
<1>4. reads[a] \in Seq(Ids) /\ Len(reads[a]) # 0
  BY <1>1, <1>3 DEF TypeOK, CountersMatch
<1>5. reads[a] # <<>>
  BY <1>4
<1> QED
  BY <1>1, <1>4, <1>5, HeadTailProperties

-----------------------------------------------------------------------------
(* A packet is accepted: the numbers grow by one, old packets stay. *)
LEMMA AcceptFacts ==
    ASSUME TypeOK, NEW p \in [kind : Kinds, addr : Addrs],
           pkts' = Append(pkts, p)
    PROVE  /\ pkts' \in Seq([kind : Kinds, addr : Addrs])
           /\ Len(pkts) \in Nat /\ Len(pkts') = Len(pkts) + 1
           /\ Ids' = 1 .. Len(pkts) + 1 /\ Ids \subseteq Ids'
           /\ Len(pkts) + 1 \in Ids' \ Ids
           /\ Len(Append(val, 0)) = Len(pkts) + 1 /\ Append(val, 0) \in Seq(Nat)
           /\ \A i \in Ids : pkts'[i] = pkts[i]
           /\ pkts'[Len(pkts) + 1] = p
           /\ \A s \in Seq(Ids) : s \in Seq(Ids')
<1>1. /\ pkts \in Seq([kind : Kinds, addr : Addrs]) /\ Len(pkts) \in Nat
      /\ val \in Seq(Nat) /\ Len(val) = Len(pkts)
  BY DEF TypeOK
<1>2. /\ pkts' \in Seq([kind : Kinds, addr : Addrs])
      /\ Len(pkts') = Len(pkts) + 1 /\ pkts'[Len(pkts) + 1] = p
      /\ \A i \in 1 .. Len(pkts) : pkts'[i] = pkts[i]
  BY <1>1, AppendProperties
<1>3. Ids' = 1 .. Len(pkts) + 1
  BY <1>2 DEF Ids
<1>4. Ids \subseteq Ids' /\ Len(pkts) + 1 \in Ids' \ Ids
  BY <1>1, <1>3 DEF Ids
<1>5. Len(Append(val, 0)) = Len(pkts) + 1 /\ Append(val, 0) \in Seq(Nat)
  BY <1>1
<1>6. \A s \in Seq(Ids) : s \in Seq(Ids')
  BY <1>1, <1>3, SeqWiden DEF Ids
<1> QED
  BY <1>1, <1>2, <1>3, <1>4, <1>5, <1>6 DEF Ids

(* The types of what accessAndRespond touches for a packet just accepted. *)
LEMMA AcceptedTypes ==
    ASSUME TypeOK, NEW p \in [kind : Kinds, addr : Addrs],
           pkts' = Append(pkts, p),
           AccessAndRespond(Len(pkts) + 1, p, <<>>, Append(val, 0))
    PROVE  /\ pkts' \in Seq([kind : Kinds, addr : Addrs])
           /\ cell' \in [Addrs -> Nat]
           /\ val' \in Seq(Nat) /\ Len(val') = Len(pkts')
           /\ resp_queue' \in Seq(Ids') /\ pending_del' \in Seq(Nat)
           /\ respEvent' \in BOOLEAN
           /\ Ids \subseteq Ids' /\ reads \in [Addrs -> Seq(Ids')]
<1>1. /\ Append(val, 0) \in Seq(Nat) /\ Len(Append(val, 0)) = Len(pkts) + 1
      /\ Len(pkts') = Len(pkts) + 1 /\ Ids' = 1 .. Len(pkts) + 1
      /\ Len(pkts) \in Nat
  BY AcceptFacts
<1>2. Len(pkts) + 1 \in 1 .. Len(Append(val, 0)) /\ Len(pkts) <= Len(Append(val, 0))
      /\ <<>> \in Seq(Nat)
  BY <1>1
<1>3. /\ cell' \in [Addrs -> Nat]
      /\ val' \in Seq(Nat) /\ Len(val') = Len(Append(val, 0))
      /\ resp_queue' \in Seq(1 .. Len(Append(val, 0))) /\ pending_del' \in Seq(Nat)
      /\ respEvent' \in BOOLEAN
  BY <1>1, <1>2, AccessFacts
<1>4. reads \in [Addrs -> Seq(Ids')]
  BY AcceptFacts DEF TypeOK
<1> QED
  BY <1>1, <1>3, <1>4, AcceptFacts

(* Every handler keeps the types. *)
LEMMA TypeStep == ASSUME IInv, [Next]_vars PROVE TypeOK'
<1> USE DEF IInv
<1>1. CASE RecvSnooped
  BY <1>1 DEF RecvSnooped, TypeOK, Ids, stalls, counters, memory, drain
<1>2. ASSUME NEW a \in Addrs, RecvRead(a) PROVE TypeOK'
  <2>1. [kind |-> "read", addr |-> a] \in [kind : Kinds, addr : Addrs]
    BY DEF Kinds
  <2>2. pkts' = Append(pkts, [kind |-> "read", addr |-> a])
    BY <1>2 DEF RecvRead
  <2>3. reads' \in [Addrs -> Seq(Ids')]
    <3>1. \A b \in Addrs : reads[b] \in Seq(Ids')
      BY <2>1, <2>2, AcceptFacts DEF TypeOK
    <3>2. Append(reads[a], Len(pkts) + 1) \in Seq(Ids')
      BY <2>1, <2>2, <3>1, AcceptFacts
    <3> QED
      BY <1>2, <3>1, <3>2 DEF RecvRead, TypeOK
  <2>4. /\ (rdq \cup pend)' \subseteq Ids' /\ (wrq \cup wact)' \subseteq Ids'
        /\ resp_queue' \in Seq(Ids')
    BY <1>2, <2>1, <2>2, AcceptFacts DEF RecvRead, TypeOK
  <2>5. val' \in Seq(Nat) /\ Len(val') = Len(pkts')
    BY <1>2, <2>1, <2>2, AcceptFacts DEF RecvRead
  <2> QED
    BY <1>2, <2>1, <2>2, <2>3, <2>4, <2>5, AcceptFacts
    DEF RecvRead, TypeOK, stalls, drain
<1>3. ASSUME NEW a \in Addrs, RefuseRead(a) PROVE TypeOK'
  BY <1>3 DEF RefuseRead, TypeOK, Ids, counters, memory, drain
<1>4. ASSUME NEW a \in Addrs, RefuseWrite(a) PROVE TypeOK'
  BY <1>4 DEF RefuseWrite, TypeOK, Ids, counters, memory, drain
<1>5. ASSUME NEW p \in [kind : {"other", "evict"}, addr : Addrs], RecvOther(p)
      PROVE TypeOK'
  <2>1. p \in [kind : Kinds, addr : Addrs]
    BY DEF Kinds
  <2>2. pkts' = Append(pkts, p) /\ AccessAndRespond(Len(pkts) + 1, p, <<>>, Append(val, 0))
    BY <1>5 DEF RecvOther
  <2> QED
    BY <1>5, <2>1, <2>2, AcceptedTypes DEF RecvOther, TypeOK, stalls, counters, memory, drain
<1>6. ASSUME NEW p \in [kind : {"write", "writeback"}, addr : Addrs], RecvWrite(p)
      PROVE TypeOK'
  <2>1. p \in [kind : Kinds, addr : Addrs]
    BY DEF Kinds
  <2>2. pkts' = Append(pkts, p) /\ AccessAndRespond(Len(pkts) + 1, p, <<>>, Append(val, 0))
    BY <1>6 DEF RecvWrite
  <2>3. (rdq \cup pend)' \subseteq Ids' /\ (wrq \cup wact)' \subseteq Ids'
    BY <1>6, <2>1, <2>2, AcceptFacts DEF RecvWrite, TypeOK
  <2>4. wr_requestsInFlight' \in Nat
    BY <1>6 DEF RecvWrite, TypeOK
  <2>5. /\ pkts' \in Seq([kind : Kinds, addr : Addrs])
        /\ cell' \in [Addrs -> Nat]
        /\ val' \in Seq(Nat) /\ Len(val') = Len(pkts')
        /\ resp_queue' \in Seq(Ids') /\ pending_del' \in Seq(Nat)
        /\ respEvent' \in BOOLEAN /\ reads \in [Addrs -> Seq(Ids')]
    BY <2>1, <2>2, AcceptedTypes
  <2> QED
    BY <1>6, <2>3, <2>4, <2>5 DEF RecvWrite, TypeOK, stalls, drain
<1>7. CASE TickStart
  BY <1>7 DEF TickStart, TypeOK, Ids, stalls, counters, memory, drain
<1>8. CASE TickRead
  BY <1>8 DEF TickRead, TypeOK, Ids, counters, answering, memory, drain
<1>9. CASE TickWrite
  BY <1>9 DEF TickWrite, TypeOK, Ids, counters, answering, memory, drain
<1>10. CASE RetryDone
  BY <1>10 DEF RetryDone, TypeOK, Ids, stalls, counters, answering, memory, drain
<1>11. CASE SendRespEvent
  BY <1>11 DEF SendRespEvent, SendResponse, TypeOK, Ids, stalls, counters, memory, drain
<1>12. CASE RecvRetry
  BY <1>12 DEF RecvRetry, SendResponse, TypeOK, Ids, stalls, counters, memory, drain
<1>13. CASE ResponseSent
  <2>1. Tail(resp_queue) \in Seq(Ids)
    BY <1>13, HeadTailProperties DEF ResponseSent, TypeOK, PlacesInv
  <2> QED
    BY <1>13, <2>1 DEF ResponseSent, SignalDrain, TypeOK, Ids, stalls, counters, memory
<1>14. CASE Drain
  BY <1>14 DEF Drain, TypeOK, Ids, stalls, counters, answering, memory
<1>15. CASE Resume
  BY <1>15 DEF Resume, TypeOK, Ids, stalls, counters, answering, memory
<1>16. ASSUME NEW i \in rdq, ReadIssued(i) PROVE TypeOK'
  BY <1>16 DEF ReadIssued, TypeOK, Ids, stalls, counters, answering, drain
<1>17. ASSUME NEW i \in pend, ReadComplete(i) PROVE TypeOK'
  <2> DEFINE a == pkts[i].addr
             k == Head(reads[a])
  <2>1. /\ a \in Addrs /\ k \in Ids /\ Tail(reads[a]) \in Seq(Ids)
        /\ reads[a] # <<>>
    BY WaitingPacket
  <2>2. pkts[k] \in [kind : Kinds, addr : Addrs]
    <3>1. k \in 1 .. Len(pkts) /\ pkts \in Seq([kind : Kinds, addr : Addrs])
      BY <2>1 DEF TypeOK, Ids
    <3> QED
      BY <3>1, ElementOfSeq
  <2>3. AccessAndRespond(k, pkts[k], pending_del, val)
    BY <1>17 DEF ReadComplete
  <2>4. k \in 1 .. Len(val) /\ val \in Seq(Nat) /\ Len(pkts) = Len(val)
        /\ pending_del \in Seq(Nat) /\ Len(pkts) \in Nat
    BY <2>1 DEF TypeOK, Ids
  <2>5. rd_requestsInFlight - 1 \in Nat
    <3>1. Cardinality(rdq \cup pend) \in Nat /\ Cardinality(rdq \cup pend) # 0
      BY FiniteFacts, FS_EmptySet, FS_CardinalityType
    <3> QED
      BY <3>1 DEF CountersMatch
  <2>6. reads' \in [Addrs -> Seq(Ids)]
    BY <1>17, <2>1 DEF ReadComplete, TypeOK
  <2> HIDE DEF a, k
  <2>7. /\ cell' \in [Addrs -> Nat]
        /\ val' \in Seq(Nat) /\ Len(val') = Len(val)
        /\ resp_queue' \in Seq(1 .. Len(val)) /\ pending_del' \in Seq(Nat)
        /\ respEvent' \in BOOLEAN
    BY <2>2, <2>3, <2>4, AccessFacts
  <2> QED
    BY <1>17, <2>4, <2>5, <2>6, <2>7 DEF ReadComplete, TypeOK, Ids, stalls, drain
<1>18. ASSUME NEW i \in wrq \cup wact, WriteComplete(i) PROVE TypeOK'
  <2>1. wr_requestsInFlight - 1 \in Nat
    <3>1. Cardinality(wrq \cup wact) \in Nat /\ Cardinality(wrq \cup wact) # 0
      BY FiniteFacts, FS_EmptySet, FS_CardinalityType
    <3> QED
      BY <3>1 DEF CountersMatch
  <2> QED
    BY <1>18, <2>1 DEF WriteComplete, SignalDrain, TypeOK, Ids, stalls, answering
<1>19. ASSUME NEW i \in wrq, WriteIssued(i) PROVE TypeOK'
  BY <1>19 DEF WriteIssued, TypeOK, Ids, stalls, counters, answering, drain
<1>20. CASE UNCHANGED vars
  BY <1>20 DEF TypeOK, Ids, vars, stalls, counters, answering, drain, memory
<1> QED
  BY <1>1, <1>2, <1>3, <1>4, <1>5, <1>6, <1>7, <1>8, <1>9, <1>10, <1>11,
     <1>12, <1>13, <1>14, <1>15, <1>16, <1>17, <1>18, <1>19, <1>20, RequestsAre
  DEF Next, Tick, Responses
-----------------------------------------------------------------------------
(* An answer is queued behind those that wait. *)
LEMMA AnswerAppended ==
    ASSUME TypeOK, NEW i \in Nat
    PROVE  Append(resp_queue, i) # <<>>
<1>1. resp_queue \in Seq(Nat)
  BY DEF TypeOK, Ids
<1> QED
  BY <1>1, AppendProperties

(* A read is queued or pending, never both, and a response on its way stays *)
(* at the head of the queue until the call returns.                         *)
LEMMA PlacesStep == ASSUME IInv, [Next]_vars PROVE PlacesInv'
<1> USE DEF IInv, PlacesInv
<1>1. CASE RecvSnooped
  BY <1>1 DEF RecvSnooped, memory
<1>2. ASSUME NEW a \in Addrs, RecvRead(a) PROVE PlacesInv'
  <2>1. Len(pkts) \in Nat /\ Len(pkts) + 1 \notin pend
    BY DEF TypeOK, Ids
  <2> QED
    BY <1>2, <2>1 DEF RecvRead
<1>3. ASSUME NEW a \in Addrs, RefuseRead(a) \/ RefuseWrite(a) PROVE PlacesInv'
  BY <1>3 DEF RefuseRead, RefuseWrite, memory
<1>4. ASSUME NEW p \in [kind : {"other", "evict"}, addr : Addrs], RecvOther(p)
      PROVE PlacesInv'
  BY <1>4, AnswerAppended DEF RecvOther, AccessAndRespond, memory
<1>5. ASSUME NEW p \in [kind : {"write", "writeback"}, addr : Addrs], RecvWrite(p)
      PROVE PlacesInv'
  BY <1>5, AnswerAppended DEF RecvWrite, AccessAndRespond
<1>6. CASE Tick
  BY <1>6 DEF Tick, TickStart, TickRead, TickWrite, RetryDone, answering, memory
<1>7. CASE SendRespEvent \/ RecvRetry
  <2>1. pc = "idle" /\ (respEvent \/ resp_stall)
    BY <1>7 DEF SendRespEvent, RecvRetry
  <2>2. Len(resp_queue) > 0
    BY <2>1 DEF ResponseScheduled
  <2>3. resp_queue # <<>>
    BY <2>2
  <2> QED
    BY <1>7, <2>3 DEF SendRespEvent, RecvRetry, SendResponse, memory
<1>8. CASE ResponseSent
  BY <1>8 DEF ResponseSent, memory
<1>9. CASE Drain \/ Resume
  BY <1>9 DEF Drain, Resume, answering, memory
<1>10. ASSUME NEW i, ReadIssued(i) \/ WriteIssued(i) PROVE PlacesInv'
  BY <1>10 DEF ReadIssued, WriteIssued, answering
<1>11. ASSUME NEW i \in pend, ReadComplete(i) PROVE PlacesInv'
  BY <1>11 DEF ReadComplete
<1>12. ASSUME NEW i \in wrq \cup wact, WriteComplete(i) PROVE PlacesInv'
  BY <1>12 DEF WriteComplete, answering
<1>13. CASE UNCHANGED vars
  BY <1>13 DEF vars, answering, memory
<1> QED
  BY <1>1, <1>2, <1>3, <1>4, <1>5, <1>6, <1>7, <1>8, <1>9, <1>10, <1>11,
     <1>12, <1>13, RequestsAre DEF Next, Responses

(* A stall flag is raised with a refusal and lowered with the retry. *)
LEMMA StallsStep == ASSUME IInv, [Next]_vars PROVE StallsMatchPeer'
<1> USE DEF IInv, StallsMatchPeer
<1>1. CASE RecvSnooped
  BY <1>1 DEF RecvSnooped, stalls
<1>2. ASSUME NEW a \in Addrs, RecvRead(a) PROVE StallsMatchPeer'
  BY <1>2 DEF RecvRead, stalls
<1>3. ASSUME NEW a \in Addrs, RefuseRead(a) PROVE StallsMatchPeer'
  BY <1>3 DEF RefuseRead, CanReceive, TypeOK
<1>4. ASSUME NEW a \in Addrs, RefuseWrite(a) PROVE StallsMatchPeer'
  BY <1>4 DEF RefuseWrite, CanReceive, TypeOK
<1>5. ASSUME NEW p \in [kind : {"write", "writeback"}, addr : Addrs], RecvWrite(p)
      PROVE StallsMatchPeer'
  BY <1>5 DEF RecvWrite, stalls
<1>13. ASSUME NEW p \in [kind : {"other", "evict"}, addr : Addrs], RecvOther(p)
       PROVE StallsMatchPeer'
  BY <1>13 DEF RecvOther, stalls
<1>6. CASE TickStart \/ RetryDone
  BY <1>6 DEF TickStart, RetryDone, stalls
<1>7. CASE TickRead
  BY <1>7 DEF TickRead, TypeOK
<1>8. CASE TickWrite
  BY <1>8 DEF TickWrite, TypeOK
<1>9. CASE Responses
  BY <1>9 DEF Responses, SendRespEvent, RecvRetry, SendResponse, ResponseSent, stalls
<1>10. CASE Drain \/ Resume
  BY <1>10 DEF Drain, Resume, stalls
<1>11. ASSUME NEW i, \/ ReadIssued(i) \/ WriteIssued(i)
                     \/ ReadComplete(i) \/ WriteComplete(i)
       PROVE StallsMatchPeer'
  BY <1>11 DEF ReadIssued, WriteIssued, ReadComplete, WriteComplete, stalls
<1>12. CASE UNCHANGED vars
  BY <1>12 DEF vars, stalls
<1> QED
  BY <1>1, <1>2, <1>3, <1>4, <1>5, <1>6, <1>7, <1>8, <1>9, <1>10, <1>11,
     <1>12, <1>13, RequestsAre DEF Next, Tick

(* Queuing an answer keeps the wakeup, also in the middle of a send. *)
LEMMA AccessScheduled ==
    ASSUME IInv, NEW v \in Seq(Nat), NEW i \in 1 .. Len(v),
           NEW p \in [kind : Kinds, addr : Addrs], NEW del \in Seq(Nat),
           Len(pkts) <= Len(v), AccessAndRespond(i, p, del, v),
           UNCHANGED <<pc, resp_stall>>
    PROVE  ResponseScheduled'
<1>1. Len(resp_queue) \in Nat /\ resp_stall \in BOOLEAN /\ respEvent \in BOOLEAN
  BY DEF IInv, TypeOK
<1>2. CASE resp_queue' = resp_queue /\ respEvent' = respEvent
  BY <1>2 DEF IInv, ResponseScheduled
<1>3. CASE /\ Len(resp_queue') = Len(resp_queue) + 1
           /\ respEvent' = (respEvent \/ ~resp_stall)
  <2>1. pc = "sent" => Len(resp_queue) > 0
    BY <1>1 DEF IInv, TypeOK, PlacesInv
  <2>2. (IF pc = "sent" THEN Len(resp_queue) - 1 ELSE Len(resp_queue))' > 0
    BY <1>1, <1>3, <2>1
  <2>3. (respEvent => ~resp_stall) /\ (resp_stall => pc # "sent")
    BY DEF IInv, ResponseScheduled
  <2>4. /\ respEvent' => ~resp_stall'
        /\ resp_stall' => pc' # "sent"
        /\ pc' # "sent" => respEvent' \/ resp_stall'
    BY <1>3, <2>3
  <2> QED
    BY <2>2, <2>4 DEF ResponseScheduled
<1> QED
  BY <1>2, <1>3, AccessFacts DEF IInv

(* Answers that wait have an event or a retry to wait for. *)
LEMMA ScheduledStep == ASSUME IInv, [Next]_vars PROVE ResponseScheduled'
<1> USE DEF IInv, ResponseScheduled
<1>0. /\ Len(resp_queue) \in Nat /\ resp_stall \in BOOLEAN /\ respEvent \in BOOLEAN
      /\ pc = "sent" => Len(resp_queue) > 0
      /\ val \in Seq(Nat) /\ Len(val) = Len(pkts) /\ Len(pkts) \in Nat
  BY DEF TypeOK, PlacesInv
<1>1. CASE RecvSnooped
  BY <1>1 DEF RecvSnooped
<1>2. ASSUME NEW a \in Addrs, RecvRead(a) \/ RefuseRead(a) \/ RefuseWrite(a)
      PROVE ResponseScheduled'
  BY <1>2 DEF RecvRead, RefuseRead, RefuseWrite
<1>3. ASSUME NEW p \in [kind : Kinds, addr : Addrs], UNCHANGED <<pc, resp_stall>>,
             AccessAndRespond(Len(pkts) + 1, p, <<>>, Append(val, 0))
      PROVE ResponseScheduled'
  <2>1. /\ Append(val, 0) \in Seq(Nat) /\ Len(Append(val, 0)) = Len(pkts) + 1
        /\ <<>> \in Seq(Nat)
    BY <1>0
  <2>2. Len(pkts) + 1 \in 1 .. Len(Append(val, 0)) /\ Len(pkts) <= Len(Append(val, 0))
    BY <1>0, <2>1
  <2> QED
    BY <1>3, <2>1, <2>2, AccessScheduled
<1>4. ASSUME NEW p \in [kind : {"other", "evict"}, addr : Addrs], RecvOther(p)
      PROVE ResponseScheduled'
  <2>1. p \in [kind : Kinds, addr : Addrs]
    BY DEF Kinds
  <2> QED
    BY <1>3, <1>4, <2>1 DEF RecvOther
<1>5. ASSUME NEW p \in [kind : {"write", "writeback"}, addr : Addrs], RecvWrite(p)
      PROVE ResponseScheduled'
  <2>1. p \in [kind : Kinds, addr : Addrs]
    BY DEF Kinds
  <2> QED
    BY <1>3, <1>5, <2>1 DEF RecvWrite
<1>6. CASE Tick
  BY <1>0, <1>6 DEF Tick, TickStart, TickRead, TickWrite, RetryDone, answering
<1>7. CASE SendRespEvent
  BY <1>0, <1>7 DEF SendRespEvent, SendResponse
<1>8. CASE RecvRetry
  BY <1>0, <1>8 DEF RecvRetry, SendResponse
<1>9. CASE ResponseSent
  <2>1. Len(Tail(resp_queue)) = Len(resp_queue) - 1
    BY <1>9, HeadTailProperties DEF ResponseSent, TypeOK, PlacesInv
  <2>2. ~resp_stall' /\ pc' # "sent" /\ Len(resp_queue') = Len(resp_queue) - 1
    BY <1>9, <2>1 DEF ResponseSent
  <2>3. respEvent' <=> Len(resp_queue) > 1
    <3>1. pc = "sent" /\ respEvent' = (respEvent \/ Len(resp_queue) > 1)
      BY <1>9 DEF ResponseSent
    <3>2. respEvent => Len(resp_queue) - 1 > 0
      BY <3>1
    <3>3. Len(resp_queue) - 1 > 0 <=> Len(resp_queue) > 1
      BY <1>0
    <3> HIDE DEF ResponseScheduled, IInv
    <3> QED
      BY <3>1, <3>2, <3>3, Zenon
  <2> QED
    BY <1>0, <2>2, <2>3
<1>10. CASE Drain \/ Resume
  BY <1>10 DEF Drain, Resume, answering
<1>11. ASSUME NEW i, ReadIssued(i) \/ WriteIssued(i) PROVE ResponseScheduled'
  BY <1>11 DEF ReadIssued, WriteIssued, answering
<1>12. ASSUME NEW i \in pend, ReadComplete(i) PROVE ResponseScheduled'
  <2> DEFINE k == Head(reads[pkts[i].addr])
  <2>1. k \in 1 .. Len(pkts)
    BY WaitingPacket DEF Ids
  <2>2. pkts[k] \in [kind : Kinds, addr : Addrs]
    BY <2>1, ElementOfSeq DEF TypeOK
  <2>3. AccessAndRespond(k, pkts[k], pending_del, val) /\ UNCHANGED <<pc, resp_stall>>
    BY <1>12 DEF ReadComplete
  <2>4. pending_del \in Seq(Nat)
    BY DEF TypeOK
  <2> HIDE DEF k
  <2> QED
    BY <1>0, <2>1, <2>2, <2>3, <2>4, AccessScheduled
<1>13. ASSUME NEW i \in wrq \cup wact, WriteComplete(i) PROVE ResponseScheduled'
  BY <1>13 DEF WriteComplete, answering
<1>14. CASE UNCHANGED vars
  BY <1>14 DEF vars, answering
<1> QED
  BY <1>1, <1>2, <1>4, <1>5, <1>6, <1>7, <1>8, <1>9, <1>10, <1>11, <1>12,
     <1>13, <1>14, RequestsAre DEF Next, Responses
-----------------------------------------------------------------------------
(* Adding a read of address a, or taking one out, changes the number of     *)
(* reads in flight of that address by one and of no other.                  *)
LEMMA ReadTaken ==
    ASSUME IInv, NEW i \in pend, ReadComplete(i), NEW b \in Addrs
    PROVE  Len(reads'[b]) = Cardinality(InFlight(b)')
<1> DEFINE a == pkts[i].addr
<1>1. InFlight(b)' = InFlight(b) \ {i} /\ (i \in InFlight(b) <=> b = a)
  BY DEF IInv, PlacesInv, ReadComplete, InFlight
<1>2. Cardinality(InFlight(b) \ {i}) = IF b = a THEN Cardinality(InFlight(b)) - 1
                                       ELSE Cardinality(InFlight(b))
  BY <1>1, FiniteFacts, FS_RemoveElement DEF IInv
<1>3. Len(reads'[b]) = IF b = a THEN Len(reads[b]) - 1 ELSE Len(reads[b])
  BY WaitingPacket DEF IInv, ReadComplete, TypeOK
<1> QED
  BY <1>1, <1>2, <1>3 DEF IInv, CountersMatch

(* Accepting a packet that is not a read leaves the reads in flight alone. *)
LEMMA OtherAccepted ==
    ASSUME TypeOK, NEW p \in [kind : Kinds, addr : Addrs],
           pkts' = Append(pkts, p), UNCHANGED <<rdq, pend>>
    PROVE  \A b : InFlight(b)' = InFlight(b)
<1>1. \A i \in rdq \cup pend : pkts'[i] = pkts[i]
  BY AcceptFacts DEF TypeOK
<1> QED
  BY <1>1 DEF InFlight

(* The counters follow the DRAM simulator. *)
LEMMA CountersStep == ASSUME IInv, [Next]_vars PROVE CountersMatch'
<1> USE DEF IInv, CountersMatch
<1>1. CASE RecvSnooped
  BY <1>1 DEF RecvSnooped, counters, memory, InFlight
<1>2. ASSUME NEW a \in Addrs, RecvRead(a) PROVE CountersMatch'
  <2> DEFINE i == Len(pkts) + 1
             p == [kind |-> "read", addr |-> a]
  <2>1. p \in [kind : Kinds, addr : Addrs] /\ pkts' = Append(pkts, p)
    BY <1>2 DEF RecvRead, Kinds
  <2>2. i \notin rdq \cup pend /\ pkts'[i].addr = a
        /\ \A j \in rdq \cup pend : pkts'[j] = pkts[j]
    <3>1. /\ i \in Ids' \ Ids /\ pkts'[i] = p
          /\ \A j \in Ids : pkts'[j] = pkts[j]
      BY <2>1, AcceptFacts
    <3>2. pkts'[i].addr = a
      BY <3>1
    <3> QED
      BY <3>1, <3>2 DEF TypeOK
  <2>3. (rdq \cup pend)' = (rdq \cup pend) \cup {i}
    BY <1>2 DEF RecvRead
  <2>4. rd_requestsInFlight' = Cardinality((rdq \cup pend)')
    BY <1>2, <2>2, <2>3, FiniteFacts, FS_AddElement DEF RecvRead
  <2>5. ASSUME NEW b \in Addrs PROVE Len(reads'[b]) = Cardinality(InFlight(b)')
    <3>1. InFlight(b)' = IF b = a THEN InFlight(b) \cup {i} ELSE InFlight(b)
      BY <2>2, <2>3 DEF InFlight
    <3>2. i \notin InFlight(b)
      BY <2>2 DEF InFlight
    <3>3. Cardinality(InFlight(b) \cup {i}) = Cardinality(InFlight(b)) + 1
      BY <3>2, FiniteFacts, FS_AddElement
    <3>4. reads[b] \in Seq(Nat) /\ i \in Nat
      BY DEF TypeOK, Ids
    <3>5. Len(reads'[b]) = IF b = a THEN Len(reads[b]) + 1 ELSE Len(reads[b])
      BY <1>2, <3>4, AppendProperties DEF RecvRead, TypeOK
    <3> QED
      BY <3>1, <3>3, <3>5
  <2>6. wr_requestsInFlight' = Cardinality((wrq \cup wact)')
    BY <1>2 DEF RecvRead
  <2> QED
    BY <2>4, <2>5, <2>6
<1>3. ASSUME NEW a \in Addrs, RefuseRead(a) \/ RefuseWrite(a) PROVE CountersMatch'
  BY <1>3 DEF RefuseRead, RefuseWrite, counters, memory, InFlight
<1>4. ASSUME NEW p \in [kind : {"other", "evict"}, addr : Addrs], RecvOther(p)
      PROVE CountersMatch'
  <2>1. p \in [kind : Kinds, addr : Addrs] /\ pkts' = Append(pkts, p)
        /\ UNCHANGED <<counters, memory, reads>>
    BY <1>4 DEF RecvOther, Kinds
  <2>2. \A b : InFlight(b)' = InFlight(b)
    BY <2>1, OtherAccepted DEF memory
  <2> QED
    BY <2>1, <2>2 DEF counters, memory
<1>5. ASSUME NEW p \in [kind : {"write", "writeback"}, addr : Addrs], RecvWrite(p)
      PROVE CountersMatch'
  <2>1. p \in [kind : Kinds, addr : Addrs] /\ pkts' = Append(pkts, p)
        /\ UNCHANGED <<rdq, pend, reads, rd_requestsInFlight>>
    BY <1>5 DEF RecvWrite, Kinds
  <2>2. \A b : InFlight(b)' = InFlight(b)
    BY <2>1, OtherAccepted
  <2>3. /\ Len(pkts) + 1 \notin wrq \cup wact
        /\ (wrq \cup wact)' = (wrq \cup wact) \cup {Len(pkts) + 1}
    <3>1. Len(pkts) + 1 \notin wrq \cup wact
      BY DEF TypeOK, Ids
    <3>2. wrq' = wrq \cup {Len(pkts) + 1} /\ wact' = wact
      BY <1>5 DEF RecvWrite
    <3>3. (wrq \cup wact)' = (wrq \cup wact) \cup {Len(pkts) + 1}
      BY <3>2, Zenon
    <3> QED
      BY <3>1, <3>3
  <2>4. wr_requestsInFlight' = Cardinality((wrq \cup wact)')
    <3> DEFINE W == wrq \cup wact
               i == Len(pkts) + 1
    <3>1. wr_requestsInFlight' = Cardinality(W) + 1
      BY <1>5 DEF RecvWrite
    <3>2. IsFiniteSet(W)
      BY FiniteFacts
    <3>3. i \notin W /\ (wrq \cup wact)' = W \cup {i}
      BY <2>3
    <3> HIDE DEF W, i
    <3>4. Cardinality(W \cup {i}) = Cardinality(W) + 1
      BY <3>2, <3>3, FS_AddElement
    <3> QED
      BY <3>1, <3>3, <3>4
  <2> QED
    BY <2>1, <2>2, <2>4
<1>6. CASE Tick
  BY <1>6 DEF Tick, TickStart, TickRead, TickWrite, RetryDone, counters, memory, InFlight
<1>7. CASE Responses
  BY <1>7 DEF Responses, SendRespEvent, RecvRetry, SendResponse, ResponseSent,
              counters, memory, InFlight
<1>8. CASE Drain \/ Resume
  BY <1>8 DEF Drain, Resume, counters, memory, InFlight
<1>9. ASSUME NEW i \in rdq, ReadIssued(i) PROVE CountersMatch'
  <2>1. (rdq \cup pend)' = rdq \cup pend /\ UNCHANGED <<wrq, wact, reads, pkts, counters>>
    BY <1>9 DEF ReadIssued
  <2> QED
    BY <2>1 DEF InFlight, counters
<1>10. ASSUME NEW i \in pend, ReadComplete(i) PROVE CountersMatch'
  <2>1. (rdq \cup pend)' = (rdq \cup pend) \ {i}
    BY <1>10 DEF ReadComplete, PlacesInv
  <2>2. rd_requestsInFlight' = Cardinality((rdq \cup pend)')
    BY <1>10, <2>1, FiniteFacts, FS_RemoveElement DEF ReadComplete
  <2>3. wr_requestsInFlight' = Cardinality((wrq \cup wact)')
    BY <1>10 DEF ReadComplete
  <2> QED
    BY <1>10, <2>2, <2>3, ReadTaken
<1>11. ASSUME NEW i \in wrq \cup wact, WriteComplete(i) PROVE CountersMatch'
  <2>1. (wrq \cup wact)' = (wrq \cup wact) \ {i}
    BY <1>11 DEF WriteComplete
  <2>2. wr_requestsInFlight' = Cardinality((wrq \cup wact)')
    BY <1>11, <2>1, FiniteFacts, FS_RemoveElement DEF WriteComplete
  <2> QED
    BY <1>11, <2>2 DEF WriteComplete, InFlight
<1>12. ASSUME NEW i \in wrq, WriteIssued(i) PROVE CountersMatch'
  <2>1. (wrq \cup wact)' = wrq \cup wact /\ UNCHANGED <<rdq, pend, reads, pkts, counters>>
    BY <1>12 DEF WriteIssued
  <2> QED
    BY <2>1 DEF InFlight, counters
<1>13. CASE UNCHANGED vars
  BY <1>13 DEF vars, counters, memory, InFlight
<1> QED
  BY <1>1, <1>2, <1>3, <1>4, <1>5, <1>6, <1>7, <1>8, <1>9, <1>10, <1>11,
     <1>12, <1>13, RequestsAre DEF Next

-----------------------------------------------------------------------------
(* The inductive invariant holds in every reachable state. *)
THEOREM InductiveInvariant == Spec => []IInv
<1>1. Init => IInv
  <2> SUFFICES ASSUME Init PROVE IInv
    OBVIOUS
  <2>1. TypeOK
    <3>1. <<>> \in Seq(Ids) /\ <<>> \in Seq(Nat)
          /\ <<>> \in Seq([kind : Kinds, addr : Addrs]) /\ Len(<<>>) = 0
      BY EmptySeq
    <3> QED
      BY <3>1 DEF Init, TypeOK
  <2>2. PlacesInv /\ StallsMatchPeer /\ ResponseScheduled
    BY DEF Init, PlacesInv, StallsMatchPeer, ResponseScheduled
  <2>3. \A a : InFlight(a) = {}
    BY DEF Init, InFlight
  <2>4. CountersMatch
    BY <2>3, FS_EmptySet DEF Init, CountersMatch
  <2> QED
    BY <2>1, <2>2, <2>4 DEF IInv
<1>2. IInv /\ [Next]_vars => IInv'
  BY TypeStep, PlacesStep, StallsStep, CountersStep, ScheduledStep DEF IInv
<1> QED
  BY <1>1, <1>2, PTL DEF Spec

(* All state keeps its type: the unsigned counters rd_requestsInFlight and  *)
(* wr_requestsInFlight are never decremented at zero, and the deque of an   *)
(* address is never popped while empty.                                     *)
THEOREM TypeCorrect == Spec => []TypeOK
<1>1. IInv => TypeOK
  BY DEF IInv
<1> QED
  BY <1>1, InductiveInvariant, PTL

(* The crossbar waits for a retry exactly while one stall flag is raised:   *)
(* the assertions of recvTimingReq and of the crossbar hold, through nested *)
(* requests and retries, and no refused requestor is forgotten.             *)
THEOREM StallsAgree == Spec => []StallsMatchPeer
<1>1. IInv => StallsMatchPeer
  BY DEF IInv
<1> QED
  BY <1>1, InductiveInvariant, PTL

(* The counters by which retries and draining are decided count the         *)
(* requests inside the DRAM simulator, for every number of channels.        *)
THEOREM CountersAgree == Spec => []CountersMatch
<1>1. IInv => CountersMatch
  BY DEF IInv
<1> QED
  BY <1>1, InductiveInvariant, PTL

(* No wakeup is lost: an answer that waits has send_resp_event scheduled or *)
(* the peer owes a retry, and sendResponse's assertions hold.               *)
THEOREM NoLostWakeup == Spec => []ResponseScheduled
<1>1. IInv => ResponseScheduled
  BY DEF IInv
<1> QED
  BY <1>1, InductiveInvariant, PTL

-----------------------------------------------------------------------------
(* The answers that are on their way for the packets of q, when v holds the *)
(* values read.                                                             *)
AnswersFor(q, v) == [j \in 1 .. Len(q) |-> [id |-> q[j], val |-> v[q[j]]]]

(* The numbers of the packets whose data the DRAM simulator still owes. *)
Owed == UNION {ToSet(reads[a]) : a \in Addrs}

(* The members of a sequence are its elements. *)
LEMMA MemberOf ==
    ASSUME NEW S, NEW s \in Seq(S), NEW x
    PROVE  x \in ToSet(s) <=> \E j \in 1 .. Len(s) : s[j] = x
<1>1. DOMAIN s = 1 .. Len(s)
  OBVIOUS
<1> QED
  BY <1>1 DEF ToSet

(* The members of a sequence after an element is put behind it, and after   *)
(* its head is taken.                                                       *)
LEMMA MembersAppend ==
    ASSUME NEW S, NEW s \in Seq(S), NEW e \in S
    PROVE  ToSet(Append(s, e)) = ToSet(s) \cup {e}
<1>1. /\ Append(s, e) \in Seq(S) /\ Len(Append(s, e)) = Len(s) + 1
      /\ \A i \in 1 .. Len(s) : Append(s, e)[i] = s[i]
      /\ Append(s, e)[Len(s) + 1] = e /\ Len(s) \in Nat
  BY AppendProperties, LenProperties
<1>2. ASSUME NEW x PROVE x \in ToSet(Append(s, e)) <=> x \in ToSet(s) \cup {e}
  <2>1. x \in ToSet(Append(s, e)) <=> \E j \in 1 .. Len(s) + 1 : Append(s, e)[j] = x
    <3> DEFINE t == Append(s, e)
    <3>1. t \in Seq(S) /\ Len(t) = Len(s) + 1
      BY <1>1
    <3> HIDE DEF t
    <3>2. x \in ToSet(t) <=> \E j \in 1 .. Len(s) + 1 : t[j] = x
      BY <3>1, MemberOf
    <3> QED
      BY <3>2 DEF t
  <2>2. x \in ToSet(s) <=> \E j \in 1 .. Len(s) : s[j] = x
    BY MemberOf
  <2>3. \A j : j \in 1 .. Len(s) + 1 <=> j \in 1 .. Len(s) \/ j = Len(s) + 1
    BY <1>1
  <2> QED
    BY <1>1, <2>1, <2>2, <2>3
<1> QED
  BY <1>2

(* The members are the head and those of the tail. *)
LEMMA MembersTail ==
    ASSUME NEW S, NEW s \in Seq(S), s # <<>>
    PROVE  /\ ToSet(Tail(s)) \subseteq ToSet(s) /\ Head(s) \in ToSet(s)
           /\ ToSet(s) = ToSet(Tail(s)) \cup {Head(s)}
<1>1. /\ Tail(s) \in Seq(S) /\ Len(Tail(s)) = Len(s) - 1 /\ Head(s) = s[1]
      /\ \A i \in 1 .. Len(Tail(s)) : Tail(s)[i] = s[i + 1]
      /\ Len(s) \in Nat \ {0}
  BY HeadTailProperties, EmptySeq
<1>2. ASSUME NEW x PROVE x \in ToSet(s) <=> x \in ToSet(Tail(s)) \cup {Head(s)}
  <2>1. x \in ToSet(Tail(s)) <=> \E j \in 1 .. Len(s) - 1 : Tail(s)[j] = x
    <3> DEFINE t == Tail(s)
    <3>1. t \in Seq(S) /\ Len(t) = Len(s) - 1
      BY <1>1
    <3> HIDE DEF t
    <3>2. x \in ToSet(t) <=> \E j \in 1 .. Len(s) - 1 : t[j] = x
      BY <3>1, MemberOf
    <3> QED
      BY <3>2 DEF t
  <2>2. x \in ToSet(s) <=> \E j \in 1 .. Len(s) : s[j] = x
    BY MemberOf
  <2>3. \A j \in 1 .. Len(s) - 1 : j + 1 \in 1 .. Len(s) /\ Tail(s)[j] = s[j + 1]
    BY <1>1
  <2>4. \A j \in 1 .. Len(s) : j = 1 \/ (j - 1 \in 1 .. Len(s) - 1 /\ Tail(s)[j - 1] = s[j])
    BY <1>1
  <2>5. 1 \in 1 .. Len(s)
    BY <1>1
  <2> QED
    BY <1>1, <2>1, <2>2, <2>3, <2>4, <2>5
<1> QED
  BY <1>2

(* The answers for a queue, one by one. *)
LEMMA AnswersAre ==
    ASSUME NEW n \in Nat, NEW v \in Seq(Nat), Len(v) >= n, NEW q \in Seq(1 .. n)
    PROVE  /\ AnswersFor(q, v) \in Seq([id : Nat, val : Nat])
           /\ Len(AnswersFor(q, v)) = Len(q)
           /\ \A j \in 1 .. Len(q) : AnswersFor(q, v)[j] = [id |-> q[j], val |-> v[q[j]]]
<1>1. \A j \in 1 .. Len(q) : q[j] \in 1 .. n
  BY ElementOfSeq
<1>2. \A j \in 1 .. Len(q) : q[j] \in Nat /\ v[q[j]] \in Nat
  <2>1. Len(v) \in Nat /\ \A k \in 1 .. Len(v) : v[k] \in Nat
    BY LenProperties, ElementOfSeq
  <2> QED
    BY <1>1, <2>1
<1>3. \A j \in 1 .. Len(q) : [id |-> q[j], val |-> v[q[j]]] \in [id : Nat, val : Nat]
  <2>1. \A x, y \in Nat : [id |-> x, val |-> y] \in [id : Nat, val : Nat]
    OBVIOUS
  <2> QED
    BY <1>2, <2>1, Zenon
<1>4. Len(q) \in Nat
  BY LenProperties
<1> DEFINE R == [id : Nat, val : Nat]
           f == AnswersFor(q, v)
<1>5. f \in [1 .. Len(q) -> R] /\ \A j \in 1 .. Len(q) : f[j] = [id |-> q[j], val |-> v[q[j]]]
  BY <1>3 DEF AnswersFor
<1> HIDE DEF R, f
<1>6. f \in Seq(R)
  <2> DEFINE k == Len(q)
  <2>1. f \in [1 .. k -> R] /\ k \in Nat
    BY <1>4, <1>5
  <2> HIDE DEF k
  <2>2. f \in UNION {[1 .. m -> R] : m \in Nat}
    BY <2>1
  <2>3. Seq(R) = UNION {[1 .. m -> R] : m \in Nat}
    BY SeqDef
  <2> QED
    BY <2>2, <2>3
<1>7. Len(f) = Len(q)
  <2>1. Len(f) \in Nat /\ 1 .. Len(f) = 1 .. Len(q)
    BY <1>5, <1>6, LenProperties
  <2> QED
    BY <1>4, <2>1
<1> QED
  BY <1>5, <1>6, <1>7 DEF R, f

(* A packet joins the queue: its answer joins the answers. *)
LEMMA AnswersAppend ==
    ASSUME NEW m \in Nat, NEW n \in Nat, m <= n, NEW v \in Seq(Nat), NEW w \in Seq(Nat),
           Len(v) >= m, Len(w) >= n, NEW q \in Seq(1 .. m), NEW i \in 1 .. n,
           \A j \in 1 .. Len(q) : w[q[j]] = v[q[j]]
    PROVE  AnswersFor(Append(q, i), w) = Append(AnswersFor(q, v), [id |-> i, val |-> w[i]])
<1> DEFINE R == [id : Nat, val : Nat]
           e == [id |-> i, val |-> w[i]]
           s == AnswersFor(Append(q, i), w)
           t == AnswersFor(q, v)
<1>1. q \in Seq(1 .. n) /\ Len(q) \in Nat
  BY SeqWiden, LenProperties
<1>2. /\ Append(q, i) \in Seq(1 .. n) /\ Len(Append(q, i)) = Len(q) + 1
      /\ \A j \in 1 .. Len(q) : Append(q, i)[j] = q[j]
      /\ Append(q, i)[Len(q) + 1] = i
  BY <1>1, AppendProperties
<1>3. e \in R
  <2>1. i \in Nat /\ i \in 1 .. Len(w) /\ Len(w) \in Nat
    BY LenProperties
  <2>2. w[i] \in Nat
    BY <2>1, ElementOfSeq
  <2> QED
    BY <2>1, <2>2
<1>4. /\ s \in Seq(R) /\ Len(s) = Len(q) + 1
      /\ \A j \in 1 .. Len(q) + 1 : s[j] = [id |-> Append(q, i)[j], val |-> w[Append(q, i)[j]]]
  <2> DEFINE qi == Append(q, i)
  <2>1. qi \in Seq(1 .. n) /\ Len(qi) = Len(q) + 1
    BY <1>2
  <2> HIDE DEF qi
  <2>2. /\ AnswersFor(qi, w) \in Seq(R) /\ Len(AnswersFor(qi, w)) = Len(q) + 1
        /\ \A j \in 1 .. Len(q) + 1 : AnswersFor(qi, w)[j] = [id |-> qi[j], val |-> w[qi[j]]]
    BY <2>1, AnswersAre
  <2> QED
    BY <2>2 DEF qi
<1>5. /\ t \in Seq(R) /\ Len(t) = Len(q)
      /\ \A j \in 1 .. Len(q) : t[j] = [id |-> q[j], val |-> v[q[j]]]
  BY AnswersAre
<1> HIDE DEF R, s, t, e
<1>6. /\ Append(t, e) \in Seq(R) /\ Len(Append(t, e)) = Len(q) + 1
      /\ \A j \in 1 .. Len(q) : Append(t, e)[j] = t[j]
      /\ Append(t, e)[Len(q) + 1] = e
  BY <1>3, <1>5, AppendProperties
<1>7. \A j \in 1 .. Len(q) : j \in 1 .. Len(q) + 1 /\ s[j] = Append(t, e)[j]
  <2> SUFFICES ASSUME NEW j \in 1 .. Len(q)
               PROVE  j \in 1 .. Len(q) + 1 /\ s[j] = Append(t, e)[j]
    OBVIOUS
  <2>1. j \in 1 .. Len(q) + 1
    BY <1>1
  <2>2. Append(q, i)[j] = q[j] /\ w[q[j]] = v[q[j]]
    BY <1>2
  <2>3. s[j] = [id |-> q[j], val |-> v[q[j]]]
    BY <1>4, <2>1, <2>2
  <2>4. Append(t, e)[j] = [id |-> q[j], val |-> v[q[j]]]
    BY <1>5, <1>6
  <2> QED
    BY <2>1, <2>3, <2>4
<1>8. s[Len(q) + 1] = Append(t, e)[Len(q) + 1]
  <2>1. Len(q) + 1 \in 1 .. Len(q) + 1
    BY <1>1
  <2>2. s[Len(q) + 1] = [id |-> i, val |-> w[i]]
    BY <1>2, <1>4, <2>1
  <2> QED
    BY <1>6, <2>2 DEF e
<1>9. \A j \in 1 .. Len(q) + 1 : j \in 1 .. Len(q) \/ j = Len(q) + 1
  BY <1>1
<1>10. s = Append(t, e)
  BY <1>4, <1>6, <1>7, <1>8, <1>9, SeqEqual
<1> QED
  BY <1>10 DEF s, t, e

(* The head of the queue is handed over: its answer leaves the answers. *)
LEMMA AnswersTail ==
    ASSUME NEW n \in Nat, NEW v \in Seq(Nat), Len(v) >= n, NEW q \in Seq(1 .. n), q # <<>>
    PROVE  AnswersFor(q, v) # <<>> /\ AnswersFor(Tail(q), v) = Tail(AnswersFor(q, v))
<1> DEFINE R == [id : Nat, val : Nat]
           s == AnswersFor(Tail(q), v)
           t == AnswersFor(q, v)
<1>1. Len(q) \in Nat \ {0}
  BY EmptySeq
<1>2. /\ Tail(q) \in Seq(1 .. n) /\ Len(Tail(q)) = Len(q) - 1
      /\ \A j \in 1 .. Len(q) - 1 : Tail(q)[j] = q[j + 1]
  BY HeadTailProperties
<1>3. /\ s \in Seq(R) /\ Len(s) = Len(q) - 1
      /\ \A j \in 1 .. Len(q) - 1 : s[j] = [id |-> Tail(q)[j], val |-> v[Tail(q)[j]]]
  BY <1>2, AnswersAre
<1>4. /\ t \in Seq(R) /\ Len(t) = Len(q)
      /\ \A j \in 1 .. Len(q) : t[j] = [id |-> q[j], val |-> v[q[j]]]
  BY AnswersAre
<1> HIDE DEF R, s, t
<1>5. t # <<>>
  BY <1>1, <1>4, EmptySeq
<1>6. /\ Tail(t) \in Seq(R) /\ Len(Tail(t)) = Len(q) - 1
      /\ \A j \in 1 .. Len(q) - 1 : Tail(t)[j] = t[j + 1]
  BY <1>4, <1>5, HeadTailProperties
<1>7. \A j \in 1 .. Len(q) - 1 : j + 1 \in 1 .. Len(q)
  BY <1>1
<1>8. \A j \in 1 .. Len(q) - 1 : s[j] = Tail(t)[j]
  <2> SUFFICES ASSUME NEW j \in 1 .. Len(q) - 1 PROVE s[j] = Tail(t)[j]
    OBVIOUS
  <2>1. s[j] = [id |-> q[j + 1], val |-> v[q[j + 1]]]
    BY <1>2, <1>3
  <2>2. Tail(t)[j] = [id |-> q[j + 1], val |-> v[q[j + 1]]]
    BY <1>4, <1>6, <1>7
  <2> QED
    BY <2>1, <2>2
<1>9. s = Tail(t)
  BY <1>3, <1>6, <1>8, SeqEqual
<1> QED
  BY <1>5, <1>9 DEF s, t

-----------------------------------------------------------------------------
(* A step of the memory object as the memory port sees it: a packet that is *)
(* not a read is accepted and takes effect; the head of the queue is handed *)
(* to the peer; the call that handed it over returns; or nothing happens    *)
(* but the release of packets kept for deletion.                            *)
Performed(p) ==
    /\ pkts' = Append(pkts, p)
    /\ AccessAndRespond(Len(pkts) + 1, p, <<>>, Append(val, 0))
    /\ UNCHANGED <<pc, reads>>

HandedOver ==
    /\ pc # "sent" /\ pc' = "sent" /\ resp_queue # <<>>
    /\ UNCHANGED <<pkts, reads, resp_queue, val, cell, pending_del>>

Popped ==
    /\ pc = "sent" /\ pc' # "sent" /\ resp_queue' = Tail(resp_queue)
    /\ UNCHANGED <<pkts, reads, val, cell, pending_del>>

Quiet ==
    /\ pc' = "sent" <=> pc = "sent"
    /\ pending_del' \in {pending_del, <<>>, <<0>>}
    /\ UNCHANGED <<pkts, reads, resp_queue, val, cell>>

(* Every step is one of these, a read that is accepted, or one completed. *)
LEMMA StepIs ==
    ASSUME IInv, [Next]_vars
    PROVE  \/ \E a \in Addrs : RecvRead(a)
           \/ \E p \in [kind : Kinds \ {"read"}, addr : Addrs] : Performed(p)
           \/ \E i \in pend : ReadComplete(i)
           \/ HandedOver \/ Popped \/ Quiet
<1>1. CASE RecvSnooped
  <2>1. Quiet
    BY <1>1 DEF RecvSnooped, Quiet
  <2> QED
    BY <2>1
<1>2. ASSUME NEW a \in Addrs, RefuseRead(a) \/ RefuseWrite(a) PROVE Quiet
  BY <1>2 DEF RefuseRead, RefuseWrite, Quiet
<1>3. ASSUME NEW p \in [kind : {"other", "evict"}, addr : Addrs], RecvOther(p)
      PROVE  \E q \in [kind : Kinds \ {"read"}, addr : Addrs] : Performed(q)
  <2>1. p \in [kind : Kinds \ {"read"}, addr : Addrs]
    BY DEF Kinds
  <2>2. Performed(p)
    BY <1>3 DEF RecvOther, Performed
  <2> QED
    BY <2>1, <2>2
<1>4. ASSUME NEW p \in [kind : {"write", "writeback"}, addr : Addrs], RecvWrite(p)
      PROVE  \E q \in [kind : Kinds \ {"read"}, addr : Addrs] : Performed(q)
  <2>1. p \in [kind : Kinds \ {"read"}, addr : Addrs]
    BY DEF Kinds
  <2>2. Performed(p)
    BY <1>4 DEF RecvWrite, Performed
  <2> QED
    BY <2>1, <2>2
<1>5. CASE Tick
  <2>1. Quiet
    BY <1>5 DEF Tick, TickStart, TickRead, TickWrite, RetryDone, answering, Quiet
  <2> QED
    BY <2>1
<1>6. CASE SendRespEvent \/ RecvRetry
  <2>1. pc = "idle" /\ (respEvent \/ resp_stall)
    BY <1>6 DEF SendRespEvent, RecvRetry
  <2>2. Len(resp_queue) > 0
    BY <2>1 DEF IInv, ResponseScheduled
  <2>3. resp_queue # <<>>
    BY <2>2
  <2>4. HandedOver \/ Quiet
    BY <1>6, <2>1, <2>3 DEF SendRespEvent, RecvRetry, SendResponse, HandedOver, Quiet
  <2> QED
    BY <2>4
<1>7. CASE ResponseSent
  <2>1. Popped
    BY <1>7 DEF ResponseSent, Popped
  <2> QED
    BY <2>1
<1>8. CASE Drain \/ Resume
  <2>1. Quiet
    BY <1>8 DEF Drain, Resume, answering, Quiet
  <2> QED
    BY <2>1
<1>9. ASSUME NEW i, ReadIssued(i) \/ WriteIssued(i) \/ WriteComplete(i) PROVE Quiet
  BY <1>9 DEF ReadIssued, WriteIssued, WriteComplete, answering, Quiet
<1>10. CASE UNCHANGED vars
  <2>1. Quiet
    BY <1>10 DEF vars, answering, Quiet
  <2> QED
    BY <2>1
<1> QED
  BY <1>1, <1>2, <1>3, <1>4, <1>5, <1>6, <1>7, <1>8, <1>9, <1>10,
     RequestsAre
  DEF Next, Responses

(* What is known of the deques and of the queue of answers. *)
LEMMA DequeTypes ==
    ASSUME TypeOK, NEW a \in Addrs
    PROVE  /\ Len(pkts) \in Nat /\ reads[a] \in Seq(1 .. Len(pkts))
           /\ resp_queue \in Seq(1 .. Len(pkts)) /\ Len(reads[a]) \in Nat
           /\ ToSet(reads[a]) \subseteq 1 .. Len(pkts)
           /\ ToSet(resp_queue) \subseteq 1 .. Len(pkts)
<1>1. /\ Len(pkts) \in Nat /\ reads[a] \in Seq(1 .. Len(pkts))
      /\ resp_queue \in Seq(1 .. Len(pkts)) /\ Len(reads[a]) \in Nat
  BY DEF TypeOK, Ids
<1>2. \A x \in ToSet(reads[a]) : x \in 1 .. Len(pkts)
  BY <1>1, MemberOf, ElementOfSeq
<1>3. \A x \in ToSet(resp_queue) : x \in 1 .. Len(pkts)
  BY <1>1, MemberOf, ElementOfSeq
<1> QED
  BY <1>1, <1>2, <1>3

(* The packet that readComplete answers is the oldest read of its address,  *)
(* not answered yet and not kept for deletion.                              *)
LEMMA CompletedRead ==
    ASSUME IInv, DequesInv, DeletedUnused, NEW i \in pend, ReadComplete(i)
    PROVE  \E a \in Addrs, k \in 1 .. Len(pkts) :
              /\ reads[a] # <<>> /\ k = Head(reads[a]) /\ k \in ToSet(reads[a])
              /\ reads' = [reads EXCEPT ![a] = Tail(@)]
              /\ pkts[k] = [kind |-> "read", addr |-> a]
              /\ k \notin ToSet(resp_queue) /\ k \notin ToSet(pending_del)
              /\ resp_queue' = Append(resp_queue, k)
              /\ AccessAndRespond(k, pkts[k], pending_del, val)
              /\ UNCHANGED <<pc, pkts, cell, pending_del>>
<1> DEFINE a == pkts[i].addr
           k == Head(reads[a])
<1>1. a \in Addrs /\ reads[a] # <<>> /\ k \in 1 .. Len(pkts)
  BY WaitingPacket DEF IInv, Ids
<1>2. reads' = [reads EXCEPT ![a] = Tail(@)]
      /\ AccessAndRespond(k, pkts[k], pending_del, val) /\ UNCHANGED <<pc, pkts>>
  BY DEF ReadComplete
<1> HIDE DEF a, k
<1>3. reads[a] \in Seq(1 .. Len(pkts)) /\ k = Head(reads[a])
  BY <1>1, DequeTypes DEF IInv, k
<1>4. k \in ToSet(reads[a]) /\ k = reads[a][1] /\ 1 \in 1 .. Len(reads[a])
  <2>1. Len(reads[a]) \in Nat \ {0}
    BY <1>1, <1>3, EmptySeq
  <2>2. k \in ToSet(reads[a])
    BY <1>1, <1>3, MembersTail
  <2> QED
    BY <1>3, <2>1, <2>2
<1>5. pkts[k] = [kind |-> "read", addr |-> a] /\ k \notin ToSet(resp_queue)
  BY <1>1, <1>4 DEF DequesInv
<1>6. k \notin ToSet(pending_del)
  BY <1>1, <1>4 DEF DeletedUnused
<1>7. /\ resp_queue' = Append(resp_queue, k)
      /\ UNCHANGED <<cell, pending_del>>
  <2>1. pkts[k].kind = "read" /\ pkts[k].addr = a
    BY <1>5
  <2> QED
    BY <1>2, <2>1 DEF AccessAndRespond, NeedsResponse
<1> QED
  BY <1>1, <1>2, <1>3, <1>4, <1>5, <1>6, <1>7

-----------------------------------------------------------------------------
(* A packet kept for deletion is in no queue after any step. *)
LEMMA DeletedStep ==
    ASSUME IInv, DequesInv, DeletedUnused, [Next]_vars
    PROVE  DeletedUnused'
<1>0. TypeOK /\ Len(pkts) \in Nat
  BY DEF IInv, TypeOK
<1>1. CASE \E a \in Addrs : RecvRead(a)
  <2>1. pending_del' = <<>>
    BY <1>1 DEF RecvRead
  <2>2. ToSet(<<>>) = {}
    BY DEF ToSet
  <2> QED
    BY <2>1, <2>2 DEF DeletedUnused
<1>2. ASSUME NEW p \in [kind : Kinds \ {"read"}, addr : Addrs], Performed(p)
      PROVE  DeletedUnused'
  <2>1. AccessAndRespond(Len(pkts) + 1, p, <<>>, Append(val, 0)) /\ reads' = reads
    BY <1>2 DEF Performed
  <2>2. CASE NeedsResponse(p)
    <3>1. pending_del' = <<>>
      BY <2>1, <2>2 DEF AccessAndRespond
    <3>2. ToSet(<<>>) = {}
      BY DEF ToSet
    <3> QED
      BY <3>1, <3>2 DEF DeletedUnused
  <2>3. CASE ~NeedsResponse(p)
    <3>1. pending_del' = Append(<<>>, Len(pkts) + 1) /\ resp_queue' = resp_queue
      BY <2>1, <2>3 DEF AccessAndRespond
    <3>2. ToSet(pending_del') = {Len(pkts) + 1}
      <4> DEFINE n == Len(pkts) + 1
                 s == <<>>
      <4>1. ToSet(s) = {} /\ s \in Seq(Nat) /\ n \in Nat
        BY <1>0 DEF ToSet
      <4>2. pending_del' = Append(s, n)
        BY <3>1
      <4> HIDE DEF n, s
      <4>3. ToSet(Append(s, n)) = ToSet(s) \cup {n}
        BY <4>1, MembersAppend
      <4>4. ToSet(pending_del') = {n}
        BY <4>1, <4>2, <4>3
      <4> QED
        BY <4>4 DEF n
    <3>3. Len(pkts) + 1 \notin 1 .. Len(pkts)
      BY <1>0
    <3>4. ToSet(resp_queue) \subseteq 1 .. Len(pkts)
      <4>1. resp_queue \in Seq(1 .. Len(pkts))
        BY <1>0 DEF TypeOK, Ids
      <4> QED
        BY <4>1, MemberOf, ElementOfSeq
    <3>5. \A a \in Addrs : ToSet(reads[a]) \subseteq 1 .. Len(pkts)
      BY <1>0, DequeTypes
    <3> QED
      BY <2>1, <3>1, <3>2, <3>3, <3>4, <3>5 DEF DeletedUnused
  <2> QED
    BY <2>2, <2>3
<1>3. ASSUME NEW i \in pend, ReadComplete(i) PROVE DeletedUnused'
  <2>1. PICK a \in Addrs, k \in 1 .. Len(pkts) :
              /\ reads[a] # <<>> /\ k = Head(reads[a]) /\ k \in ToSet(reads[a])
              /\ reads' = [reads EXCEPT ![a] = Tail(@)]
              /\ k \notin ToSet(pending_del)
              /\ resp_queue' = Append(resp_queue, k)
              /\ pending_del' = pending_del
    BY <1>3, CompletedRead
  <2>2. ToSet(resp_queue') = ToSet(resp_queue) \cup {k}
    <3>1. resp_queue \in Seq(1 .. Len(pkts))
      BY <1>0, DequeTypes
    <3> QED
      BY <2>1, <3>1, MembersAppend
  <2>3. \A b \in Addrs : ToSet(reads'[b]) \subseteq ToSet(reads[b])
    <3>1. ToSet(Tail(reads[a])) \subseteq ToSet(reads[a])
      BY <1>0, <2>1, DequeTypes, MembersTail
    <3> QED
      BY <1>0, <2>1, <3>1 DEF TypeOK
  <2> QED
    BY <2>1, <2>2, <2>3 DEF DeletedUnused
<1>4. CASE HandedOver
  BY <1>4 DEF HandedOver, DeletedUnused
<1>5. CASE Popped
  <2>1. resp_queue \in Seq(Ids) /\ resp_queue # <<>>
    BY <1>0, <1>5 DEF Popped, TypeOK, IInv, PlacesInv
  <2>2. ToSet(resp_queue') \subseteq ToSet(resp_queue)
    BY <1>5, <2>1, MembersTail DEF Popped
  <2> QED
    BY <1>5, <2>2 DEF Popped, DeletedUnused
<1>6. CASE Quiet
  <2>1. CASE pending_del' = pending_del
    BY <1>6, <2>1 DEF Quiet, DeletedUnused
  <2>2. CASE pending_del' \in {<<>>, <<0>>}
    <3>1. ToSet(pending_del') \subseteq {0}
      BY <2>2 DEF ToSet
    <3>2. 0 \notin 1 .. Len(pkts)
      BY <1>0
    <3>3. ToSet(resp_queue) \subseteq 1 .. Len(pkts)
      <4>1. resp_queue \in Seq(1 .. Len(pkts))
        BY <1>0 DEF TypeOK, Ids
      <4> QED
        BY <4>1, MemberOf, ElementOfSeq
    <3>4. \A a \in Addrs : ToSet(reads[a]) \subseteq 1 .. Len(pkts)
      BY <1>0, DequeTypes
    <3> QED
      BY <1>6, <3>1, <3>2, <3>3, <3>4 DEF Quiet, DeletedUnused
  <2> QED
    BY <1>6, <2>1, <2>2 DEF Quiet
<1> QED
  BY <1>1, <1>2, <1>3, <1>4, <1>5, <1>6, StepIs

(* The deque of an address keeps its reads in order and unanswered. *)
LEMMA DequesStep ==
    ASSUME IInv, DequesInv, DeletedUnused, [Next]_vars
    PROVE  DequesInv'
<1>0. TypeOK /\ Len(pkts) \in Nat
  BY DEF IInv, TypeOK
<1>1. ASSUME NEW a \in Addrs, RecvRead(a) PROVE DequesInv'
  <2> DEFINE n == Len(pkts) + 1
             p == [kind |-> "read", addr |-> a]
  <2>1. pkts' = Append(pkts, p) /\ reads' = [reads EXCEPT ![a] = Append(@, n)]
        /\ resp_queue' = resp_queue
    BY <1>1 DEF RecvRead
  <2>2. p \in [kind : Kinds, addr : Addrs]
    BY DEF Kinds
  <2>3. n \in Nat /\ pkts'[n] = p /\ \A i \in 1 .. Len(pkts) : pkts'[i] = pkts[i] /\ i < n
    BY <1>0, <2>1, <2>2, AcceptFacts DEF Ids
  <2> HIDE DEF n, p
  <2> SUFFICES ASSUME NEW b \in Addrs
               PROVE  /\ \A i \in 1 .. Len(reads'[b]) :
                           pkts'[reads'[b][i]] = [kind |-> "read", addr |-> b]
                      /\ \A i, j \in 1 .. Len(reads'[b]) : i < j => reads'[b][i] < reads'[b][j]
                      /\ ToSet(reads'[b]) \cap ToSet(resp_queue') = {}
    BY DEF DequesInv
  <2>4. /\ reads[b] \in Seq(1 .. Len(pkts)) /\ Len(reads[b]) \in Nat
        /\ \A i \in 1 .. Len(reads[b]) : reads[b][i] \in 1 .. Len(pkts)
    BY <1>0, DequeTypes, ElementOfSeq
  <2>5. /\ \A i \in 1 .. Len(reads[b]) :
              pkts'[reads[b][i]] = [kind |-> "read", addr |-> b] /\ reads[b][i] < n
        /\ \A i, j \in 1 .. Len(reads[b]) : i < j => reads[b][i] < reads[b][j]
        /\ ToSet(reads[b]) \cap ToSet(resp_queue) = {}
    BY <2>3, <2>4 DEF DequesInv
  <2>6. CASE b # a
    <3>1. reads'[b] = reads[b]
      BY <1>0, <2>1, <2>6 DEF TypeOK
    <3> QED
      BY <2>1, <2>5, <3>1
  <2>7. CASE b = a
    <3> DEFINE r == reads[b]
               s == reads'[b]
    <3>1. s = Append(r, n)
      BY <1>0, <2>1, <2>7 DEF TypeOK
    <3>2. r \in Seq(Nat)
      BY <2>4
    <3>3. /\ s \in Seq(Nat) /\ Len(s) = Len(r) + 1
          /\ \A i \in 1 .. Len(r) : s[i] = r[i]
          /\ s[Len(r) + 1] = n
      BY <2>3, <3>1, <3>2, AppendProperties
    <3>4. \A i \in 1 .. Len(s) : i \in 1 .. Len(r) \/ i = Len(r) + 1
      BY <2>4, <3>3
    <3>5. \A i \in 1 .. Len(s) : pkts'[s[i]] = [kind |-> "read", addr |-> b]
      <4> SUFFICES ASSUME NEW i \in 1 .. Len(s)
                   PROVE  pkts'[s[i]] = [kind |-> "read", addr |-> b]
        OBVIOUS
      <4>1. pkts'[n] = [kind |-> "read", addr |-> b]
        BY <2>3, <2>7 DEF p
      <4>2. CASE i \in 1 .. Len(r)
        BY <2>5, <3>3, <4>2
      <4>3. CASE i = Len(r) + 1
        BY <3>3, <4>1, <4>3
      <4> QED
        BY <3>4, <4>2, <4>3
    <3>6. ASSUME NEW i \in 1 .. Len(s), NEW j \in 1 .. Len(s), i < j PROVE s[i] < s[j]
      <4>1. i \in 1 .. Len(r)
        BY <2>4, <3>3, <3>6
      <4>2. CASE j \in 1 .. Len(r)
        BY <2>5, <3>3, <3>6, <4>1, <4>2
      <4>3. CASE j = Len(r) + 1
        BY <2>5, <3>3, <4>1, <4>3
      <4> QED
        BY <3>4, <4>2, <4>3
    <3>7. ToSet(s) \cap ToSet(resp_queue) = {}
      <4>1. ToSet(s) = ToSet(r) \cup {n}
        BY <2>3, <3>1, <3>2, MembersAppend
      <4>2. ToSet(resp_queue) \subseteq 1 .. Len(pkts)
        BY <1>0, DequeTypes
      <4>3. n \notin 1 .. Len(pkts)
        BY <1>0 DEF n
      <4> QED
        BY <2>5, <4>1, <4>2, <4>3
    <3> HIDE DEF r, s
    <3>8. /\ \A i \in 1 .. Len(s) : pkts'[s[i]] = [kind |-> "read", addr |-> b]
          /\ \A i, j \in 1 .. Len(s) : i < j => s[i] < s[j]
          /\ ToSet(s) \cap ToSet(resp_queue') = {}
      BY <2>1, <3>5, <3>6, <3>7
    <3> QED
      BY <3>8 DEF s
  <2> QED
    BY <2>6, <2>7
<1>2. ASSUME NEW p \in [kind : Kinds \ {"read"}, addr : Addrs], Performed(p)
      PROVE  DequesInv'
  <2>1. /\ p \in [kind : Kinds, addr : Addrs] /\ pkts' = Append(pkts, p) /\ reads' = reads
        /\ AccessAndRespond(Len(pkts) + 1, p, <<>>, Append(val, 0))
    BY <1>2 DEF Performed
  <2>2. \A i \in 1 .. Len(pkts) : pkts'[i] = pkts[i]
    BY <1>0, <2>1, AcceptFacts DEF Ids
  <2>3. ASSUME NEW b \in Addrs
        PROVE  /\ \A i \in 1 .. Len(reads[b]) : reads[b][i] \in 1 .. Len(pkts)
               /\ ToSet(reads[b]) \cap ToSet(resp_queue') = {}
    <3>1. /\ resp_queue \in Seq(1 .. Len(pkts)) /\ ToSet(reads[b]) \subseteq 1 .. Len(pkts)
          /\ reads[b] \in Seq(1 .. Len(pkts))
      BY <1>0, <2>3, DequeTypes
    <3>2. resp_queue' \in {resp_queue, Append(resp_queue, Len(pkts) + 1)}
      BY <2>1 DEF AccessAndRespond
    <3>3. resp_queue \in Seq(Nat) /\ Len(pkts) + 1 \in Nat
      BY <1>0, <3>1
    <3>4. ToSet(resp_queue') \subseteq ToSet(resp_queue) \cup {Len(pkts) + 1}
      <4> DEFINE n == Len(pkts) + 1
      <4>1. n \in Nat /\ resp_queue' \in {resp_queue, Append(resp_queue, n)}
        BY <3>2, <3>3
      <4> HIDE DEF n
      <4>2. ToSet(Append(resp_queue, n)) = ToSet(resp_queue) \cup {n}
        BY <3>3, <4>1, MembersAppend
      <4>3. ToSet(resp_queue') \subseteq ToSet(resp_queue) \cup {n}
        BY <4>1, <4>2
      <4> QED
        BY <4>3 DEF n
    <3>5. Len(pkts) + 1 \notin 1 .. Len(pkts)
      BY <1>0
    <3>6. \A i \in 1 .. Len(reads[b]) : reads[b][i] \in 1 .. Len(pkts)
      BY <3>1, ElementOfSeq
    <3>7. ToSet(reads[b]) \cap ToSet(resp_queue) = {}
      BY <2>3 DEF DequesInv
    <3>8. ToSet(reads[b]) \cap ToSet(resp_queue') = {}
      BY <3>1, <3>4, <3>5, <3>7
    <3> QED
      BY <3>6, <3>8
  <2> QED
    BY <2>1, <2>2, <2>3 DEF DequesInv
<1>3. ASSUME NEW i \in pend, ReadComplete(i) PROVE DequesInv'
  <2>1. PICK a \in Addrs, k \in 1 .. Len(pkts) :
              /\ reads[a] # <<>> /\ k = Head(reads[a]) /\ k \in ToSet(reads[a])
              /\ reads' = [reads EXCEPT ![a] = Tail(@)]
              /\ pkts[k] = [kind |-> "read", addr |-> a]
              /\ resp_queue' = Append(resp_queue, k)
              /\ pkts' = pkts
    BY <1>3, CompletedRead
  <2>2. ToSet(resp_queue') = ToSet(resp_queue) \cup {k}
    <3>1. resp_queue \in Seq(1 .. Len(pkts))
      BY <1>0, DequeTypes
    <3> QED
      BY <2>1, <3>1, MembersAppend
  <2> SUFFICES ASSUME NEW b \in Addrs
               PROVE  /\ \A m \in 1 .. Len(reads'[b]) :
                           pkts[reads'[b][m]] = [kind |-> "read", addr |-> b]
                      /\ \A m, j \in 1 .. Len(reads'[b]) : m < j => reads'[b][m] < reads'[b][j]
                      /\ ToSet(reads'[b]) \cap ToSet(resp_queue') = {}
    BY <2>1 DEF DequesInv
  <2> DEFINE r == reads[b]
             s == reads'[b]
  <2>4. r \in Seq(1 .. Len(pkts)) /\ Len(r) \in Nat
    BY <1>0, DequeTypes
  <2>5. /\ \A m \in 1 .. Len(r) : pkts[r[m]] = [kind |-> "read", addr |-> b]
        /\ \A m, j \in 1 .. Len(r) : m < j => r[m] < r[j]
        /\ ToSet(r) \cap ToSet(resp_queue) = {}
    BY DEF DequesInv
  <2>6. CASE b # a
    <3>1. s = r
      BY <1>0, <2>1, <2>6 DEF TypeOK
    <3>2. k \notin ToSet(r)
      <4>1. SUFFICES ASSUME NEW m \in 1 .. Len(r), r[m] = k PROVE FALSE
        BY <2>4, MemberOf
      <4>2. [kind |-> "read", addr |-> a] = [kind |-> "read", addr |-> b]
        BY <2>1, <2>5, <4>1
      <4>3. a = b
        BY <4>2
      <4> QED
        BY <2>6, <4>3
    <3> QED
      BY <2>2, <2>5, <3>1, <3>2
  <2>7. CASE b = a
    <3>1. s = Tail(r) /\ r # <<>> /\ k = Head(r)
      BY <1>0, <2>1, <2>7 DEF TypeOK
    <3>2. /\ s \in Seq(1 .. Len(pkts)) /\ Len(s) = Len(r) - 1 /\ Len(r) \in Nat \ {0}
          /\ \A m \in 1 .. Len(s) : s[m] = r[m + 1]
      BY <2>4, <3>1, HeadTailProperties, EmptySeq
    <3>3. \A m \in 1 .. Len(s) : m + 1 \in 1 .. Len(r) /\ m + 1 > 1
      BY <3>2
    <3> HIDE DEF r, s
    <3>4. ASSUME NEW m \in 1 .. Len(s)
          PROVE  pkts[s[m]] = [kind |-> "read", addr |-> b]
      <4>1. s[m] = r[m + 1] /\ m + 1 \in 1 .. Len(r)
        BY <3>2, <3>3
      <4> QED
        BY <2>5, <4>1, Zenon
    <3>5. ASSUME NEW m \in 1 .. Len(s), NEW j \in 1 .. Len(s), m < j
          PROVE  s[m] < s[j]
      <4>1. /\ s[m] = r[m + 1] /\ m + 1 \in 1 .. Len(r)
            /\ s[j] = r[j + 1] /\ j + 1 \in 1 .. Len(r)
        BY <3>2, <3>3
      <4>2. m + 1 < j + 1
        BY <3>2, <3>5
      <4> QED
        BY <2>5, <4>1, <4>2, Zenon
    <3>6. k \notin ToSet(s)
      <4>1. SUFFICES ASSUME NEW m \in 1 .. Len(s), s[m] = k PROVE FALSE
        BY <3>2, MemberOf
      <4>2. r[1] < r[m + 1]
        <5>1. 1 \in 1 .. Len(r) /\ m + 1 \in 1 .. Len(r) /\ 1 < m + 1
          BY <3>2, <3>3
        <5> QED
          BY <2>5, <5>1, Zenon
      <4>3. k \in Nat /\ k = r[1] /\ k = r[m + 1]
        BY <2>4, <3>1, <3>2, <4>1
      <4> QED
        BY <4>2, <4>3
    <3>7. ToSet(s) \subseteq ToSet(r)
      BY <2>4, <3>1, MembersTail
    <3> QED
      BY <2>2, <2>5, <3>4, <3>5, <3>6, <3>7 DEF r, s
  <2> QED
    BY <2>6, <2>7
<1>4. CASE HandedOver \/ Quiet
  BY <1>4 DEF HandedOver, Quiet, DequesInv
<1>5. CASE Popped
  <2>1. resp_queue \in Seq(Ids) /\ resp_queue # <<>>
    BY <1>0, <1>5 DEF Popped, TypeOK, IInv, PlacesInv
  <2>2. ToSet(resp_queue') \subseteq ToSet(resp_queue) /\ reads' = reads /\ pkts' = pkts
    BY <1>5, <2>1, MembersTail DEF Popped
  <2> QED
    BY <2>2 DEF DequesInv
<1> QED
  BY <1>1, <1>2, <1>3, <1>4, <1>5, StepIs

(* The deques, the answers and the packets kept for deletion stay apart in  *)
(* every reachable state, and a deque stays in order.                       *)
THEOREM DequesInvariant == Spec => [](IInv /\ DequesInv /\ DeletedUnused)
<1>1. Init => DequesInv /\ DeletedUnused
  <2> SUFFICES ASSUME Init PROVE DequesInv /\ DeletedUnused
    OBVIOUS
  <2>1. ToSet(<<>>) = {}
    BY DEF ToSet
  <2>2. Len(<<>>) = 0
    OBVIOUS
  <2> QED
    BY <2>1, <2>2 DEF Init, DequesInv, DeletedUnused
<1>2. IInv /\ DequesInv /\ DeletedUnused /\ [Next]_vars => (DequesInv /\ DeletedUnused)'
  BY DequesStep, DeletedStep
<1> QED
  BY <1>1, <1>2, InductiveInvariant, PTL DEF Spec

(* What recvTimingReq keeps for deletion is answered or waited for by       *)
(* nobody: pendingDelete never holds a packet that a deque of readComplete  *)
(* or the queue of sendResponse still refers to.                            *)
THEOREM DeletedPacketsUnused == Spec => []DeletedUnused
  BY DequesInvariant, PTL

-----------------------------------------------------------------------------
(* What has not been handed to the peer is part of the queue. *)
LEMMA UndeliveredIs ==
    ASSUME IInv
    PROVE  /\ Undelivered \in Seq(1 .. Len(pkts)) /\ Len(pkts) \in Nat
           /\ \A j \in 1 .. Len(Undelivered) : Undelivered[j] \in ToSet(resp_queue)
           /\ val \in Seq(Nat) /\ Len(val) = Len(pkts)
<1>1. /\ resp_queue \in Seq(1 .. Len(pkts)) /\ Len(pkts) \in Nat
      /\ val \in Seq(Nat) /\ Len(val) = Len(pkts)
  BY DEF IInv, TypeOK, Ids
<1>2. CASE pc = "sent"
  <2>1. Undelivered = Tail(resp_queue) /\ resp_queue # <<>>
    BY <1>2 DEF Undelivered, IInv, PlacesInv
  <2>2. Tail(resp_queue) \in Seq(1 .. Len(pkts))
    BY <1>1, <2>1, HeadTailProperties
  <2>3. ToSet(Tail(resp_queue)) \subseteq ToSet(resp_queue)
    BY <1>1, <2>1, MembersTail
  <2>4. \A j \in 1 .. Len(Undelivered) : Undelivered[j] \in ToSet(Undelivered)
    BY <2>1, <2>2, MemberOf
  <2> QED
    BY <1>1, <2>1, <2>2, <2>3, <2>4
<1>3. CASE pc # "sent"
  <2>1. Undelivered = resp_queue
    BY <1>3 DEF Undelivered
  <2>2. \A j \in 1 .. Len(resp_queue) : resp_queue[j] \in ToSet(resp_queue)
    BY <1>1, MemberOf
  <2> QED
    BY <1>1, <2>1, <2>2
<1> QED
  BY <1>2, <1>3

(* Numbers of the packets so far are numbers of the packets then. *)
LEMMA LongerRange ==
    ASSUME NEW x \in Nat, NEW y \in Nat, x <= y
    PROVE  1 .. x \subseteq 1 .. y
  OBVIOUS

(* A packet that joins the queue joins what is undelivered, also while the  *)
(* head is being handed over.                                               *)
LEMMA UndeliveredAppend ==
    ASSUME IInv, NEW n \in Nat, resp_queue' = Append(resp_queue, n), pc' = pc
    PROVE  Undelivered' = Append(Undelivered, n)
<1>1. resp_queue \in Seq(Nat) /\ (pc = "sent" => resp_queue # <<>>)
  BY DEF IInv, TypeOK, Ids, PlacesInv
<1>2. resp_queue # <<>> => Tail(Append(resp_queue, n)) = Append(Tail(resp_queue), n)
  BY <1>1, HeadTailAppend
<1> QED
  BY <1>1, <1>2 DEF Undelivered

(* The steps that the memory port does not see. *)
LEMMA PortStutter ==
    ASSUME pkts' = pkts, reads' = reads, val' = val, cell' = cell,
           Undelivered' = Undelivered
    PROVE  UNCHANGED Port!vars
  BY DEF Port!vars

(* The effect of a packet, as the memory port states it. *)
LEMMA PortEffect ==
    ASSUME IInv, NEW m \in Nat, m >= Len(pkts), NEW n \in 1 .. m,
           NEW p \in [kind : Kinds, addr : Addrs],
           NEW v \in Seq(Nat), Len(v) = m, NEW del \in Seq(Nat), pc' = pc,
           AccessAndRespond(n, p, del, v),
           \A j \in 1 .. Len(Undelivered) : Undelivered[j] # n /\ v[Undelivered[j]] = val[Undelivered[j]],
           p.kind # "read" => v[n] = 0
    PROVE  Port!Effect(n, p)
<1> DEFINE u == Undelivered
           as == AnswersFor(Undelivered, val)
           e == [id |-> n, val |-> IF p.kind = "read" THEN cell[p.addr] ELSE 0]
<1>1. /\ u \in Seq(1 .. Len(pkts)) /\ Len(pkts) \in Nat /\ val \in Seq(Nat)
      /\ Len(val) = Len(pkts) /\ \A j \in 1 .. Len(u) : u[j] \in 1 .. Len(pkts)
  BY UndeliveredIs, ElementOfSeq
<1>2. /\ val' \in Seq(Nat) /\ Len(val') = m
      /\ \A j \in 1 .. m : val'[j] = IF p.kind = "read" /\ j = n THEN cell[p.addr] ELSE v[j]
  <2>1. val' = IF p.kind = "read" THEN [v EXCEPT ![n] = cell[p.addr]] ELSE v
    BY DEF AccessAndRespond
  <2>2. cell[p.addr] \in Nat
    BY DEF IInv, TypeOK
  <2> QED
    BY <2>1, <2>2, ExceptSeq
<1>3. val'[n] = IF p.kind = "read" THEN cell[p.addr] ELSE 0
  BY <1>2
<1>4. \A j \in 1 .. Len(u) : u[j] \in 1 .. m /\ val'[u[j]] = val[u[j]]
  <2> SUFFICES ASSUME NEW j \in 1 .. Len(u)
               PROVE  u[j] \in 1 .. m /\ val'[u[j]] = val[u[j]]
    OBVIOUS
  <2>1. u[j] \in 1 .. m /\ u[j] # n /\ v[u[j]] = val[u[j]]
    <3>1. u[j] \in 1 .. Len(pkts)
      BY <1>1
    <3>2. u[j] # n /\ v[u[j]] = val[u[j]]
      OBVIOUS
    <3>3. 1 .. Len(pkts) \subseteq 1 .. m
      BY <1>1, LongerRange
    <3> QED
      BY <3>1, <3>2, <3>3, Zenon
  <2> HIDE DEF u
  <2>2. val'[u[j]] = v[u[j]]
    BY <1>2, <2>1
  <2> QED
    BY <2>1, <2>2
<1>5. AnswersFor(Undelivered, val)' = IF p.kind \in {"writeback", "evict"} THEN as
                                       ELSE Append(as, e)
  <2>1. CASE p.kind \in {"writeback", "evict"}
    <3>1. resp_queue' = resp_queue
      BY <2>1 DEF AccessAndRespond, NeedsResponse
    <3>2. Undelivered' = u
      BY <3>1 DEF Undelivered
    <3>3. [j \in 1 .. Len(u) |-> [id |-> u[j], val |-> val'[u[j]]]]
            = [j \in 1 .. Len(u) |-> [id |-> u[j], val |-> val[u[j]]]]
      BY <1>4
    <3> QED
      BY <2>1, <3>2, <3>3 DEF AnswersFor
  <2>2. CASE p.kind \notin {"writeback", "evict"}
    <3>1. resp_queue' = Append(resp_queue, n) /\ n \in Nat
      BY <2>2 DEF AccessAndRespond, NeedsResponse
    <3>2. Undelivered' = Append(u, n)
      BY <3>1, UndeliveredAppend
    <3>3. AnswersFor(Append(u, n), val') = Append(AnswersFor(u, val), [id |-> n, val |-> val'[n]])
      <4> DEFINE k == Len(pkts)
                 w == val'
      <4>1. /\ k \in Nat /\ k <= m /\ w \in Seq(Nat) /\ Len(val) >= k /\ Len(w) >= m
            /\ u \in Seq(1 .. k) /\ \A j \in 1 .. Len(u) : w[u[j]] = val[u[j]]
        BY <1>1, <1>2, <1>4
      <4> HIDE DEF u, k, w
      <4>2. AnswersFor(Append(u, n), w) = Append(AnswersFor(u, val), [id |-> n, val |-> w[n]])
        BY <1>1, <4>1, AnswersAppend
      <4> QED
        BY <4>2 DEF w
    <3>4. AnswersFor(Undelivered, val)' = AnswersFor(Append(u, n), val')
      BY <3>2 DEF AnswersFor
    <3>5. e = [id |-> n, val |-> val'[n]]
      BY <1>3
    <3> HIDE DEF e, u
    <3> QED
      BY <2>2, <3>3, <3>4, <3>5 DEF u
  <2> QED
    BY <2>1, <2>2
<1>6. cell' = IF p.kind \in {"write", "writeback"} THEN [cell EXCEPT ![p.addr] = n] ELSE cell
  BY DEF AccessAndRespond
<1> QED
  BY <1>5, <1>6 DEF Port!Effect, AnswersFor

(* A read that is accepted waits. *)
LEMMA ReadAccepted ==
    ASSUME IInv, DequesInv, NEW a \in Addrs, RecvRead(a)
    PROVE  Port!Accept([kind |-> "read", addr |-> a])
<1> DEFINE n == Len(pkts) + 1
<1>1. /\ pkts' = Append(pkts, [kind |-> "read", addr |-> a])
      /\ reads' = [reads EXCEPT ![a] = Append(@, n)]
      /\ val' = Append(val, 0)
      /\ UNCHANGED <<pc, resp_queue, cell>>
  BY DEF RecvRead
<1>2. TypeOK /\ n \in Nat
  BY DEF IInv, TypeOK
<1>3. Owed' = Owed \cup {n}
  <2>1. \A b \in Addrs : ToSet(reads'[b]) = IF b = a THEN ToSet(reads[b]) \cup {n} ELSE ToSet(reads[b])
    <3> HIDE DEF n
    <3>1. reads[a] \in Seq(Nat)
      BY <1>2 DEF TypeOK, Ids
    <3>2. ToSet(Append(reads[a], n)) = ToSet(reads[a]) \cup {n}
      BY <1>2, <3>1, MembersAppend
    <3>3. \A b \in Addrs : reads'[b] = IF b = a THEN Append(reads[a], n) ELSE reads[b]
      BY <1>1, <1>2 DEF TypeOK
    <3> QED
      BY <3>2, <3>3
  <2>2. ASSUME NEW x PROVE x \in Owed' <=> x \in Owed \cup {n}
    <3>1. x \in Owed' <=> \E b \in Addrs : x \in ToSet(reads'[b])
      BY DEF Owed
    <3>2. x \in Owed <=> \E b \in Addrs : x \in ToSet(reads[b])
      BY DEF Owed
    <3> HIDE DEF n
    <3> QED
      BY <2>1, <3>1, <3>2
  <2> QED
    BY <2>2
<1>4. Undelivered' = Undelivered
  BY <1>1 DEF Undelivered
<1>5. AnswersFor(Undelivered, val)' = AnswersFor(Undelivered, val)
  <2> DEFINE u == Undelivered
             w == val'
  <2>1. \A j \in 1 .. Len(u) : u[j] \in 1 .. Len(val) /\ val \in Seq(Nat)
    BY UndeliveredIs, ElementOfSeq
  <2>2. \A j \in 1 .. Len(u) : w[u[j]] = val[u[j]]
    BY <1>1, <2>1, AppendProperties
  <2>3. AnswersFor(Undelivered, val)' = [j \in 1 .. Len(u) |-> [id |-> u[j], val |-> w[u[j]]]]
    BY <1>4 DEF AnswersFor
  <2> HIDE DEF u, w
  <2>4. [j \in 1 .. Len(u) |-> [id |-> u[j], val |-> w[u[j]]]]
          = [j \in 1 .. Len(u) |-> [id |-> u[j], val |-> val[u[j]]]]
    BY <2>2
  <2> QED
    BY <2>3, <2>4 DEF u, AnswersFor
<1> QED
  BY <1>1, <1>3, <1>5 DEF Port!Accept, Owed, AnswersFor

(* A write, a writeback or another packet takes effect as it is accepted. *)
LEMMA PacketPerformed ==
    ASSUME IInv, NEW p \in [kind : Kinds \ {"read"}, addr : Addrs], Performed(p)
    PROVE  Port!AcceptAndPerform(p)
<1> DEFINE n == Len(pkts) + 1
           v == Append(val, 0)
           del == <<>>
<1>1. /\ pkts' = Append(pkts, p) /\ AccessAndRespond(n, p, del, v)
      /\ UNCHANGED <<pc, reads>>
  BY DEF Performed
<1>2. /\ n \in Nat /\ n >= Len(pkts) /\ n \in 1 .. n /\ del \in Seq(Nat)
      /\ p \in [kind : Kinds, addr : Addrs] /\ p.kind # "read"
  BY DEF IInv, TypeOK
<1>3. /\ v \in Seq(Nat) /\ Len(v) = n /\ v[n] = 0
      /\ \A j \in 1 .. Len(pkts) : v[j] = val[j]
  <2>1. val \in Seq(Nat) /\ Len(val) = Len(pkts)
    BY UndeliveredIs
  <2> QED
    BY <2>1, AppendProperties
<1>4. \A j \in 1 .. Len(Undelivered) :
         Undelivered[j] # n /\ v[Undelivered[j]] = val[Undelivered[j]]
  <2>1. \A j \in 1 .. Len(Undelivered) : Undelivered[j] \in 1 .. Len(pkts)
    BY UndeliveredIs, ElementOfSeq
  <2>2. n \notin 1 .. Len(pkts)
    BY UndeliveredIs
  <2> HIDE DEF n, v
  <2> QED
    BY <1>3, <2>1, <2>2
<1>5. Port!Effect(n, p)
  <2> HIDE DEF n, v, del
  <2> QED
    BY <1>1, <1>2, <1>3, <1>4, PortEffect
<1> QED
  BY <1>1, <1>5 DEF Port!AcceptAndPerform

(* A read takes effect when it completes: it is the oldest of its address. *)
LEMMA ReadPerformed ==
    ASSUME IInv, DequesInv, DeletedUnused, NEW i \in pend, ReadComplete(i)
    PROVE  \E k \in Owed : Port!Perform(k)
<1>1. PICK a \in Addrs, k \in 1 .. Len(pkts) :
              /\ reads[a] # <<>> /\ k = Head(reads[a]) /\ k \in ToSet(reads[a])
              /\ reads' = [reads EXCEPT ![a] = Tail(@)]
              /\ pkts[k] = [kind |-> "read", addr |-> a]
              /\ k \notin ToSet(resp_queue)
              /\ resp_queue' = Append(resp_queue, k)
              /\ AccessAndRespond(k, pkts[k], pending_del, val)
              /\ UNCHANGED <<pc, pkts>>
  BY CompletedRead
<1>2. /\ TypeOK /\ reads[a] \in Seq(1 .. Len(pkts)) /\ Len(reads[a]) \in Nat \ {0}
      /\ k \in Nat /\ k = reads[a][1]
  <2>1. TypeOK
    BY DEF IInv
  <2>2. reads[a] \in Seq(1 .. Len(pkts))
    BY <2>1, DequeTypes
  <2> QED
    BY <1>1, <2>1, <2>2, EmptySeq
<1>3. ASSUME NEW x \in Owed
      PROVE  \E b \in Addrs : \E j \in 1 .. Len(reads[b]) :
                x = reads[b][j] /\ pkts[x] = [kind |-> "read", addr |-> b]
  <2>1. PICK b \in Addrs : x \in ToSet(reads[b])
    BY <1>3 DEF Owed
  <2>2. reads[b] \in Seq(1 .. Len(pkts))
    BY <1>2, DequeTypes
  <2>3. PICK j \in 1 .. Len(reads[b]) : x = reads[b][j]
    BY <2>1, <2>2, MemberOf
  <2> QED
    BY <2>3 DEF DequesInv
<1>4. ASSUME NEW x \in Owed, pkts[x].addr = pkts[k].addr PROVE k <= x
  <2>1. PICK b \in Addrs : \E j \in 1 .. Len(reads[b]) :
                x = reads[b][j] /\ pkts[x] = [kind |-> "read", addr |-> b]
    BY <1>3
  <2>2. PICK j \in 1 .. Len(reads[b]) :
                x = reads[b][j] /\ pkts[x] = [kind |-> "read", addr |-> b]
    BY <2>1
  <2>3. b = a
    BY <1>1, <1>4, <2>2
  <2>4. j = 1 \/ 1 < j
    BY <1>2, <2>2
  <2>5. 1 \in 1 .. Len(reads[a]) /\ j \in 1 .. Len(reads[a])
    BY <1>2, <2>3
  <2>6. 1 < j => reads[a][1] < reads[a][j]
    BY <2>5 DEF DequesInv
  <2>7. x \in Nat
    BY <1>2, <2>2, <2>3, <2>5, ElementOfSeq
  <2> QED
    BY <1>2, <2>2, <2>3, <2>4, <2>6, <2>7
<1>5. k \in Owed
  BY <1>1 DEF Owed
<1>6. Owed' = Owed \ {k}
  <2>1. ToSet(reads[a]) = ToSet(Tail(reads[a])) \cup {k} /\ Tail(reads[a]) \in Seq(1 .. Len(pkts))
    <3> DEFINE s == reads[a]
    <3>1. s \in Seq(1 .. Len(pkts)) /\ s # <<>> /\ k = Head(s)
      BY <1>1, <1>2
    <3> HIDE DEF s
    <3>2. ToSet(s) = ToSet(Tail(s)) \cup {Head(s)} /\ Tail(s) \in Seq(1 .. Len(pkts))
      BY <3>1, MembersTail, HeadTailProperties
    <3> QED
      BY <3>1, <3>2 DEF s
  <2>2. \A b \in Addrs : reads'[b] = IF b = a THEN Tail(reads[a]) ELSE reads[b]
    BY <1>1, <1>2 DEF TypeOK
  <2>3. k \notin ToSet(Tail(reads[a]))
    <3> DEFINE t == Tail(reads[a])
    <3>1. /\ t \in Seq(1 .. Len(pkts)) /\ Len(t) = Len(reads[a]) - 1
          /\ \A m \in 1 .. Len(t) : t[m] = reads[a][m + 1]
      BY <1>1, <1>2, HeadTailProperties
    <3>2. SUFFICES ASSUME NEW m \in 1 .. Len(t), t[m] = k PROVE FALSE
      <4> HIDE DEF t
      <4> QED
        BY <3>1, MemberOf DEF t
    <3>3. 1 \in 1 .. Len(reads[a]) /\ m + 1 \in 1 .. Len(reads[a]) /\ 1 < m + 1
      BY <1>2, <3>1
    <3>4. reads[a][1] < reads[a][m + 1]
      BY <3>3 DEF DequesInv
    <3> QED
      BY <1>2, <3>1, <3>2, <3>4
  <2>4. \A b \in Addrs : b # a => k \notin ToSet(reads[b])
    <3> SUFFICES ASSUME NEW b \in Addrs, b # a, k \in ToSet(reads[b]) PROVE FALSE
      OBVIOUS
    <3>1. reads[b] \in Seq(1 .. Len(pkts))
      BY <1>2, DequeTypes
    <3>2. PICK j \in 1 .. Len(reads[b]) : k = reads[b][j]
      BY <3>1, MemberOf
    <3>3. pkts[k] = [kind |-> "read", addr |-> b]
      BY <3>2 DEF DequesInv
    <3> QED
      BY <1>1, <3>3
  <2>5. ASSUME NEW x PROVE x \in Owed' <=> x \in Owed \ {k}
    <3>1. x \in Owed' <=> \E b \in Addrs : x \in ToSet(reads'[b])
      BY DEF Owed
    <3>2. x \in Owed <=> \E b \in Addrs : x \in ToSet(reads[b])
      BY DEF Owed
    <3>3. \A b \in Addrs : x \in ToSet(reads'[b]) <=> x \in ToSet(reads[b]) /\ x # k
      BY <2>1, <2>2, <2>3, <2>4
    <3> QED
      BY <3>1, <3>2, <3>3
  <2> QED
    BY <2>5
<1>7. Port!Effect(k, pkts[k])
  <2> DEFINE m == Len(pkts)
             p == [kind |-> "read", addr |-> a]
             v == val
             del == pending_del
  <2>1. /\ p \in [kind : Kinds, addr : Addrs] /\ p.kind = "read" /\ pkts[k] = p
        /\ m \in Nat /\ m >= Len(pkts) /\ k \in 1 .. m /\ v \in Seq(Nat) /\ Len(v) = m
        /\ del \in Seq(Nat)
    BY <1>1, <1>2 DEF TypeOK, Kinds
  <2>2. AccessAndRespond(k, p, del, v) /\ pc' = pc
    BY <1>1
  <2>3. \A j \in 1 .. Len(Undelivered) :
           Undelivered[j] # k /\ v[Undelivered[j]] = val[Undelivered[j]]
    BY <1>1, UndeliveredIs
  <2> HIDE DEF m, p, v, del
  <2>4. p.kind # "read" => v[k] = 0
    BY <2>1
  <2>5. Port!Effect(k, p)
    BY <2>1, <2>2, <2>3, <2>4, PortEffect
  <2> QED
    BY <2>1, <2>5 DEF Port!Effect
<1>8. Port!Perform(k)
  BY <1>1, <1>4, <1>6, <1>7 DEF Port!Perform, Owed
<1> QED
  BY <1>5, <1>8

(* Every step of the memory object is a step of the memory port or one that *)
(* it does not see.                                                         *)
LEMMA PortStep ==
    ASSUME IInv, DequesInv, DeletedUnused, [Next]_vars
    PROVE  [Port!Next]_(Port!vars)
<1>1. ASSUME NEW a \in Addrs, RecvRead(a) PROVE Port!Next
  <2> DEFINE p == [kind |-> "read", addr |-> a]
  <2>1. Port!Accept(p)
    BY <1>1, ReadAccepted
  <2>2. p \in [kind : Port!Kinds, addr : Addrs]
    BY DEF Port!Kinds
  <2> QED
    BY <2>1, <2>2 DEF Port!Next
<1>2. ASSUME NEW p \in [kind : Kinds \ {"read"}, addr : Addrs], Performed(p)
      PROVE  Port!Next
  <2>1. Port!AcceptAndPerform(p)
    BY <1>2, PacketPerformed
  <2>2. p \in [kind : Port!Kinds, addr : Addrs]
    BY DEF Port!Kinds, Kinds
  <2> QED
    BY <2>1, <2>2 DEF Port!Next
<1>3. ASSUME NEW i \in pend, ReadComplete(i) PROVE Port!Next
  <2>1. PICK k \in Owed : Port!Perform(k)
    BY <1>3, ReadPerformed
  <2> QED
    BY <2>1 DEF Port!Next, Owed
<1>4. CASE HandedOver
  <2>1. /\ Undelivered = resp_queue /\ Undelivered' = Tail(resp_queue) /\ resp_queue # <<>>
        /\ UNCHANGED <<pkts, reads, val, cell>>
    BY <1>4 DEF HandedOver, Undelivered
  <2>2. /\ Undelivered \in Seq(1 .. Len(pkts)) /\ Len(pkts) \in Nat /\ val \in Seq(Nat)
        /\ Len(val) >= Len(pkts)
    BY UndeliveredIs
  <2>3. /\ AnswersFor(Undelivered, val) # <<>>
        /\ AnswersFor(Tail(Undelivered), val) = Tail(AnswersFor(Undelivered, val))
    <3> DEFINE n == Len(pkts)
               q == Undelivered
    <3>1. q \in Seq(1 .. n) /\ n \in Nat /\ val \in Seq(Nat) /\ Len(val) >= n /\ q # <<>>
      BY <2>1, <2>2
    <3> HIDE DEF n, q
    <3>2. AnswersFor(q, val) # <<>> /\ AnswersFor(Tail(q), val) = Tail(AnswersFor(q, val))
      BY <3>1, AnswersTail
    <3> QED
      BY <3>2 DEF q
  <2>4. AnswersFor(Undelivered, val)' = AnswersFor(Tail(Undelivered), val)
    BY <2>1 DEF AnswersFor
  <2>5. Port!Answer
    BY <2>1, <2>3, <2>4 DEF Port!Answer, AnswersFor
  <2> QED
    BY <2>5 DEF Port!Next
<1>5. CASE Popped
  <2>1. Undelivered' = Undelivered
    BY <1>5 DEF Popped, Undelivered
  <2>2. UNCHANGED Port!vars
    BY <1>5, <2>1, PortStutter DEF Popped
  <2> QED
    BY <2>2
<1>6. CASE Quiet
  <2>1. Undelivered' = Undelivered
    BY <1>6 DEF Quiet, Undelivered
  <2>2. UNCHANGED Port!vars
    BY <1>6, <2>1, PortStutter DEF Quiet
  <2> QED
    BY <2>2
<1> QED
  BY <1>1, <1>2, <1>3, <1>4, <1>5, <1>6, StepIs

(* The memory object implements the memory port: each packet recvTimingReq  *)
(* accepts takes effect once and is answered once, with the value the       *)
(* memory holds at that instant; reads of one address take effect in the    *)
(* order of their acceptance, in whatever order the DRAM simulator          *)
(* completes them; and answers leave in the order of the effects.           *)
THEOREM PortRefinement == Spec => ImplementsPort
<1>1. Init => Port!Init
  <2> SUFFICES ASSUME Init PROVE Port!Init
    OBVIOUS
  <2>1. Undelivered = <<>> /\ Len(<<>>) = 0 /\ ToSet(<<>>) = {}
    BY DEF Init, Undelivered, ToSet
  <2>2. UNION {ToSet(reads[a]) : a \in Addrs} = {}
    BY <2>1 DEF Init
  <2>3. AnswersFor(Undelivered, val) = <<>>
    BY <2>1 DEF AnswersFor
  <2> QED
    BY <2>2, <2>3 DEF Init, Port!Init, AnswersFor
<1>2. IInv /\ DequesInv /\ DeletedUnused /\ [Next]_vars => [Port!Next]_(Port!vars)
  BY PortStep
<1> QED
  BY <1>1, <1>2, DequesInvariant, PTL DEF Spec, ImplementsPort, Port!Spec
=============================================================================
