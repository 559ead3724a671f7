--------------------------- MODULE RamulatorBridge ---------------------------
(***************************************************************************)
(* gem5's memory object Ramulator (gem5-x-nmc/src/mem/ramulator.cc): a     *)
(* slave port towards the crossbar, the DRAM simulator behind it, and the  *)
(* call into NMCcores for every packet that is answered.                   *)
(*                                                                         *)
(* gem5 is one thread, but the handlers nest: tick() calls sendRetryReq(), *)
(* and sendResponse() calls sendTimingResp(), and either call may come     *)
(* back as recvTimingReq() before it returns. pc says which call is on the *)
(* stack; while it is not "idle" no other event runs.                      *)
(*                                                                         *)
(* The DRAM simulator appears as its interface: send() refuses when the    *)
(* queue of the channel is full, tick() calls back for requests that       *)
(* completed. The crossbar is the peer: it sends nothing after a refusal   *)
(* until it gets a retry, and asserts that it waits for one then.          *)
(***************************************************************************)
EXTENDS Integers, Sequences, FiniteSets, SequencesExt

CONSTANTS
    Addrs,      \* addresses
    ChannelOf,  \* the channel of an address
    Writes,     \* the writes and writebacks that requestors send
    Others,     \* the packets they send that are neither read nor write
    QMax,       \* readq.max = writeq.max
    MaxPkts     \* bound: packets accepted

ASSUME BridgeAssumption ==
    /\ QMax \in Nat \ {0} /\ MaxPkts \in Nat
    /\ ChannelOf \in [Addrs -> Nat]
    /\ Writes \subseteq [kind : {"write", "writeback"}, addr : Addrs]
    /\ Others \subseteq [kind : {"other", "evict"}, addr : Addrs]

VARIABLES
    pc,                   \* the call on the stack
    rd_req_stall, wr_req_stall, resp_stall,
    rd_requestsInFlight, wr_requestsInFlight,
    reads,                \* accepted reads of an address, oldest first
    resp_queue,           \* packets to be answered
    respEvent,            \* send_resp_event.scheduled()
    pending_del,          \* packets to be deleted at the next request
    drain_manager,        \* whether somebody waits for signalDrainDone()
    drainState,           \* what the drain manager knows of this object
    rdq, wrq,             \* requests in the queues of the DRAM simulator
    pend, wact,           \* reads and writes that have left their queue
    peer,                 \* the crossbar layer: "ready" or "blocked"
    cell,                 \* contents of the memory: the last writer
    pkts,                 \* history: packets accepted
    val                   \* history: the value read by each of them

stalls == <<rd_req_stall, wr_req_stall>>
counters == <<rd_requestsInFlight, wr_requestsInFlight>>
memory == <<rdq, wrq, pend, wact>>
answering == <<resp_queue, respEvent, pending_del, cell, val>>
drain == <<drain_manager, drainState>>
vars == <<pc, stalls, resp_stall, counters, reads, answering, drain, memory,
          peer, pkts>>

Kinds == {"read", "write", "writeback", "other", "evict"}

(* Nobody waits for the writebacks of caches, nor for some packets that    *)
(* are neither reads nor writes (CleanEvict).                              *)
NeedsResponse(p) == p.kind \notin {"writeback", "evict"}

Init ==
    /\ pc = "idle"
    /\ rd_req_stall = FALSE /\ wr_req_stall = FALSE /\ resp_stall = FALSE
    /\ rd_requestsInFlight = 0 /\ wr_requestsInFlight = 0
    /\ reads = [a \in Addrs |-> <<>>]
    /\ resp_queue = <<>> /\ respEvent = FALSE /\ pending_del = <<>>
    /\ drain_manager = FALSE /\ drainState = "running"
    /\ rdq = {} /\ wrq = {} /\ pend = {} /\ wact = {} /\ peer = "ready"
    /\ cell = [a \in Addrs |-> 0] /\ pkts = <<>> /\ val = <<>>

NumOutstanding(rd, wr, q) == rd + wr + Len(q)

-----------------------------------------------------------------------------
(* Mutants of AccessAndRespond: the event is scheduled while the peer has  *)
(* refused a response; an answered packet is also put up for deletion.     *)
AccessAndRespondUnchecked(i, p, del, v) ==
    /\ cell' = IF p.kind \in {"write", "writeback"}
               THEN [cell EXCEPT ![p.addr] = i] ELSE cell
    /\ val' = IF p.kind = "read" THEN [v EXCEPT ![i] = cell[p.addr]] ELSE v
    /\ IF NeedsResponse(p)
       THEN /\ resp_queue' = Append(resp_queue, i)
            /\ respEvent' = TRUE /\ pending_del' = del
       ELSE /\ pending_del' = Append(del, i)
            /\ UNCHANGED <<resp_queue, respEvent>>

AccessAndRespondDelete(i, p, del, v) ==
    /\ cell' = IF p.kind \in {"write", "writeback"}
               THEN [cell EXCEPT ![p.addr] = i] ELSE cell
    /\ val' = IF p.kind = "read" THEN [v EXCEPT ![i] = cell[p.addr]] ELSE v
    /\ pending_del' = Append(del, i)
    /\ IF NeedsResponse(p)
       THEN /\ resp_queue' = Append(resp_queue, i)
            /\ respEvent' = (respEvent \/ ~resp_stall)
       ELSE UNCHANGED <<resp_queue, respEvent>>

(* accessAndRespond for packet i, whose record is p. del is pending_del    *)
(* and v the values read as the caller leaves them. A packet that is       *)
(* answered is shown to the near-memory cores first (nmc->packetInfo,      *)
(* which is CoSim's part).                                                 *)
AccessAndRespond(i, p, del, v) ==
    /\ cell' = IF p.kind \in {"write", "writeback"}
               THEN [cell EXCEPT ![p.addr] = i] ELSE cell
    /\ val' = IF p.kind = "read" THEN [v EXCEPT ![i] = cell[p.addr]] ELSE v
    /\ IF NeedsResponse(p)
       THEN /\ resp_queue' = Append(resp_queue, i)
            /\ respEvent' = (respEvent \/ ~resp_stall)
            /\ pending_del' = del
       ELSE /\ pending_del' = Append(del, i)
            /\ UNCHANGED <<resp_queue, respEvent>>

(* The peer may call recvTimingReq: between events, and from inside        *)
(* sendRetryReq and sendTimingResp.                                        *)
CanReceive ==
    /\ peer = "ready" /\ pc \in {"idle", "rdretry", "wrretry", "sent"}
    /\ Len(pkts) < MaxPkts

Full(q, a) ==
    Cardinality({i \in q : ChannelOf[pkts[i].addr] = ChannelOf[a]}) = QMax

(* recvTimingReq *)

RecvSnooped ==        \* a cache answers; the packet is deleted later
    /\ CanReceive
    /\ pending_del' = <<0>>
    /\ UNCHANGED <<pc, stalls, resp_stall, counters, reads, resp_queue,
                   respEvent, cell, val, drain, memory, peer, pkts>>

RecvRead(a) ==
    LET i == Len(pkts) + 1
    IN  /\ CanReceive /\ ~Full(rdq, a)
        /\ rdq' = rdq \cup {i}
        /\ reads' = [reads EXCEPT ![a] = Append(@, i)]
        /\ rd_requestsInFlight' = rd_requestsInFlight + 1
        /\ pkts' = Append(pkts, [kind |-> "read", addr |-> a])
        /\ val' = Append(val, 0) /\ pending_del' = <<>>
        /\ UNCHANGED <<pc, stalls, resp_stall, wr_requestsInFlight,
                       resp_queue, respEvent, cell, drain,
                       wrq, pend, wact, peer>>

RefuseRead(a) ==
    /\ CanReceive /\ Full(rdq, a)
    /\ rd_req_stall' = TRUE /\ peer' = "blocked" /\ pending_del' = <<>>
    /\ UNCHANGED <<pc, wr_req_stall, resp_stall, counters, reads, resp_queue,
                   respEvent, cell, val, drain, memory, pkts>>

(* Mutant: a write nobody waits for is not counted. *)
RecvWriteUncounted(p) ==
    LET i == Len(pkts) + 1
    IN  /\ CanReceive /\ ~Full(wrq, p.addr)
        /\ wrq' = wrq \cup {i}
        /\ AccessAndRespond(i, p, <<>>, Append(val, 0))
        /\ wr_requestsInFlight' = wr_requestsInFlight
                                   + (IF NeedsResponse(p) THEN 1 ELSE 0)
        /\ pkts' = Append(pkts, p)
        /\ UNCHANGED <<pc, stalls, resp_stall, rd_requestsInFlight, reads,
                       drain, rdq, pend, wact, peer>>

RecvWrite(p) ==
    LET i == Len(pkts) + 1
    IN  /\ CanReceive /\ ~Full(wrq, p.addr)
        /\ wrq' = wrq \cup {i}
        /\ AccessAndRespond(i, p, <<>>, Append(val, 0))
        /\ wr_requestsInFlight' = wr_requestsInFlight + 1
        /\ pkts' = Append(pkts, p)
        /\ UNCHANGED <<pc, stalls, resp_stall, rd_requestsInFlight, reads,
                       drain, rdq, pend, wact, peer>>

RefuseWrite(a) ==
    /\ CanReceive /\ Full(wrq, a)
    /\ wr_req_stall' = TRUE /\ peer' = "blocked" /\ pending_del' = <<>>
    /\ UNCHANGED <<pc, rd_req_stall, resp_stall, counters, reads, resp_queue,
                   respEvent, cell, val, drain, memory, pkts>>

RecvOther(p) ==
    /\ CanReceive
    /\ AccessAndRespond(Len(pkts) + 1, p, <<>>, Append(val, 0))
    /\ pkts' = Append(pkts, p)
    /\ UNCHANGED <<pc, stalls, resp_stall, counters, reads, drain,
                   memory, peer>>

-----------------------------------------------------------------------------
(* tick(), first part: wrapper->tick() and the callbacks it makes.         *)

TickStart ==
    /\ pc = "idle" /\ pc' = "tick"
    /\ UNCHANGED <<stalls, resp_stall, counters, reads, resp_queue, respEvent,
                   pending_del, cell, val, drain, memory, peer, pkts>>

(* A request leaves its queue: for the queue of activated requests, or, a  *)
(* read, for the wait for its data.                                        *)
ReadIssued(i) ==
    /\ pc = "tick" /\ rdq' = rdq \ {i} /\ pend' = pend \cup {i}
    /\ UNCHANGED <<pc, stalls, resp_stall, counters, reads, answering, drain,
                   wrq, wact, peer, pkts>>

WriteIssued(i) ==
    /\ pc = "tick" /\ wrq' = wrq \ {i} /\ wact' = wact \cup {i}
    /\ UNCHANGED <<pc, stalls, resp_stall, counters, reads, answering, drain,
                   rdq, pend, peer, pkts>>

(* Mutants of ReadComplete: the wrong counter is decremented; the newest   *)
(* packet of the address is answered.                                      *)
ReadCompleteWrongCounter(i) ==
    LET a == pkts[i].addr
        k == Head(reads[a])
    IN  /\ pc = "tick" /\ pend' = pend \ {i}
        /\ reads' = [reads EXCEPT ![a] = Tail(@)]
        /\ wr_requestsInFlight' = wr_requestsInFlight - 1
        /\ AccessAndRespond(k, pkts[k], pending_del, val)
        /\ UNCHANGED <<pc, stalls, resp_stall, rd_requestsInFlight, drain,
                       rdq, wrq, wact, peer, pkts>>

ReadCompleteNewest(i) ==
    LET a == pkts[i].addr
        k == Last(reads[a])
    IN  /\ pc = "tick" /\ pend' = pend \ {i}
        /\ reads' = [reads EXCEPT ![a] = Front(@)]
        /\ rd_requestsInFlight' = rd_requestsInFlight - 1
        /\ AccessAndRespond(k, pkts[k], pending_del, val)
        /\ UNCHANGED <<pc, stalls, resp_stall, wr_requestsInFlight, drain,
                       rdq, wrq, wact, peer, pkts>>

(* readComplete: the oldest packet of the address is answered. *)
ReadComplete(i) ==
    LET a == pkts[i].addr
        k == Head(reads[a])
    IN  /\ pc = "tick" /\ pend' = pend \ {i}
        /\ reads' = [reads EXCEPT ![a] = Tail(@)]
        /\ rd_requestsInFlight' = rd_requestsInFlight - 1
        /\ AccessAndRespond(k, pkts[k], pending_del, val)
        /\ UNCHANGED <<pc, stalls, resp_stall, wr_requestsInFlight, drain,
                       rdq, wrq, wact, peer, pkts>>

(* signalDrainDone() if somebody waits for it. *)
SignalDrain(rd, wr, q) ==
    LET done == drain_manager /\ NumOutstanding(rd, wr, q) = 0
    IN  /\ drainState' = IF done THEN "drained" ELSE drainState
        /\ drain_manager' = (drain_manager /\ ~done)

WriteComplete(i) ==
    /\ pc = "tick" /\ wrq' = wrq \ {i} /\ wact' = wact \ {i}
    /\ wr_requestsInFlight' = wr_requestsInFlight - 1
    /\ SignalDrain(rd_requestsInFlight, wr_requestsInFlight', resp_queue)
    /\ UNCHANGED <<pc, stalls, resp_stall, rd_requestsInFlight, reads,
                   answering, rdq, pend, peer, pkts>>

(* Mutants of the retries: the read flag is not cleared; the write test is *)
(* off by one.                                                             *)
TickReadKeepFlag ==
    /\ pc = "tick"
    /\ IF rd_req_stall /\ rd_requestsInFlight < QMax
       THEN peer' = "ready" /\ pc' = "rdretry"
       ELSE pc' = "wrcheck" /\ UNCHANGED peer
    /\ UNCHANGED <<stalls, resp_stall, counters, reads, answering,
                   drain, memory, pkts>>

TickWriteOffByOne ==
    /\ pc = "wrcheck"
    /\ IF wr_req_stall /\ wr_requestsInFlight + 1 < QMax
       THEN wr_req_stall' = FALSE /\ peer' = "ready" /\ pc' = "wrretry"
       ELSE pc' = "idle" /\ UNCHANGED <<wr_req_stall, peer>>
    /\ UNCHANGED <<rd_req_stall, resp_stall, counters, reads, answering,
                   drain, memory, pkts>>

(* tick(), second part: retries. sendRetryReq() calls the peer. *)
TickRead ==
    /\ pc = "tick"
    /\ IF rd_req_stall /\ rd_requestsInFlight < QMax
       THEN rd_req_stall' = FALSE /\ peer' = "ready" /\ pc' = "rdretry"
       ELSE pc' = "wrcheck" /\ UNCHANGED <<rd_req_stall, peer>>
    /\ UNCHANGED <<wr_req_stall, resp_stall, counters, reads, answering,
                   drain, memory, pkts>>

TickWrite ==
    /\ pc = "wrcheck"
    /\ IF wr_req_stall /\ wr_requestsInFlight < QMax
       THEN wr_req_stall' = FALSE /\ peer' = "ready" /\ pc' = "wrretry"
       ELSE pc' = "idle" /\ UNCHANGED <<wr_req_stall, peer>>
    /\ UNCHANGED <<rd_req_stall, resp_stall, counters, reads, answering,
                   drain, memory, pkts>>

(* sendRetryReq() returns. *)
RetryDone ==
    /\ pc \in {"rdretry", "wrretry"}
    /\ pc' = IF pc = "rdretry" THEN "wrcheck" ELSE "idle"
    /\ UNCHANGED <<stalls, resp_stall, counters, reads, answering, drain,
                   memory, peer, pkts>>

-----------------------------------------------------------------------------
(* sendResponse, from its event or from recvRetry (e and s are the values  *)
(* of respEvent and resp_stall it starts with). The peer takes the packet, *)
(* and may send requests before the call returns, or it refuses.           *)
SendResponse(e, s) ==
    /\ respEvent' = e
    /\ \/ pc' = "sent" /\ resp_stall' = s
       \/ pc' = "idle" /\ resp_stall' = TRUE
    /\ UNCHANGED <<stalls, counters, reads, resp_queue, pending_del, cell,
                   val, drain, memory, peer, pkts>>

SendRespEvent == pc = "idle" /\ respEvent /\ SendResponse(FALSE, resp_stall)

RecvRetry == pc = "idle" /\ resp_stall /\ SendResponse(respEvent, FALSE)

(* Mutant: the next response is not scheduled. *)
ResponseSentOnly ==
    /\ pc = "sent" /\ pc' = "idle"
    /\ resp_queue' = Tail(resp_queue)
    /\ SignalDrain(rd_requestsInFlight, wr_requestsInFlight, resp_queue')
    /\ UNCHANGED <<stalls, resp_stall, counters, reads, respEvent,
                   pending_del, cell, val, memory, peer, pkts>>

(* sendTimingResp() returned true. *)
ResponseSent ==
    /\ pc = "sent" /\ pc' = "idle"
    /\ resp_queue' = Tail(resp_queue)
    /\ respEvent' = (respEvent \/ Len(resp_queue) > 1)
    /\ SignalDrain(rd_requestsInFlight, wr_requestsInFlight, resp_queue')
    /\ UNCHANGED <<stalls, resp_stall, counters, reads, pending_del, cell,
                   val, memory, peer, pkts>>

-----------------------------------------------------------------------------
(* drain(): the assignment that would remember the manager is commented    *)
(* out. The manager lets the objects run until all have signalled.         *)
Drain ==
    /\ pc = "idle" /\ drainState = "running"
    /\ drainState' = IF NumOutstanding(rd_requestsInFlight,
                            wr_requestsInFlight, resp_queue) > 0
                     THEN "draining" ELSE "drained"
    /\ UNCHANGED <<pc, stalls, resp_stall, counters, reads, answering,
                   drain_manager, memory, peer, pkts>>

Resume ==
    /\ pc = "idle" /\ drainState = "drained" /\ drainState' = "running"
    /\ UNCHANGED <<pc, stalls, resp_stall, counters, reads, answering,
                   drain_manager, memory, peer, pkts>>

-----------------------------------------------------------------------------
Requests ==
    \/ RecvSnooped
    \/ \E a \in Addrs : RecvRead(a) \/ RefuseRead(a)
    \/ \E p \in Writes : RecvWrite(p) \/ RefuseWrite(p.addr)
    \/ \E p \in Others : RecvOther(p)

Tick == TickStart \/ TickRead \/ TickWrite \/ RetryDone

Responses == SendRespEvent \/ RecvRetry \/ ResponseSent

Next ==
    \/ Requests \/ Tick \/ Responses \/ Drain \/ Resume
    \/ \E i \in rdq : ReadIssued(i)
    \/ \E i \in pend : ReadComplete(i)
    \/ \E i \in wrq : WriteIssued(i)
    \/ \E i \in wrq \cup wact : WriteComplete(i)

Spec == Init /\ [][Next]_vars

(* gem5's event queue runs the handlers; the DRAM simulator issues and     *)
(* completes requests at some of its ticks; a peer that is offered a       *)
(* response again and again takes it in the end.                           *)
Fairness ==
    /\ WF_vars(Tick) /\ WF_vars(Responses)
    /\ SF_vars(\E i \in rdq : ReadIssued(i))
    /\ SF_vars(\E i \in pend : ReadComplete(i))
    /\ SF_vars(\E i \in wrq \cup wact : WriteComplete(i))
    /\ SF_vars(Responses /\ pc' = "sent")

FairSpec == Spec /\ Fairness

-----------------------------------------------------------------------------
Ids == 1 .. Len(pkts)

(* The state of the memory object keeps its types; in particular the       *)
(* unsigned in-flight counters never pass zero, and no deque is popped     *)
(* while empty.                                                            *)
TypeOK ==
    /\ pc \in {"idle", "tick", "rdretry", "wrcheck", "wrretry", "sent"}
    /\ rd_req_stall \in BOOLEAN /\ wr_req_stall \in BOOLEAN
    /\ resp_stall \in BOOLEAN
    /\ rd_requestsInFlight \in Nat /\ wr_requestsInFlight \in Nat
    /\ reads \in [Addrs -> Seq(Ids)] /\ resp_queue \in Seq(Ids)
    /\ respEvent \in BOOLEAN /\ pending_del \in Seq(Nat)
    /\ drain_manager \in BOOLEAN
    /\ drainState \in {"running", "draining", "drained"}
    /\ rdq \cup pend \subseteq Ids /\ wrq \cup wact \subseteq Ids
    /\ peer \in {"ready", "blocked"}
    /\ cell \in [Addrs -> Nat] /\ pkts \in Seq([kind : Kinds, addr : Addrs])
    /\ val \in Seq(Nat) /\ Len(val) = Len(pkts)

(* A request is refused exactly when a stall flag records it, and one flag *)
(* at a time: recvTimingReq's assertions on the flags hold, every retry    *)
(* finds the crossbar waiting for one (it asserts so), and no refused      *)
(* requestor is forgotten, nested requests included.                       *)
StallsMatchPeer ==
    /\ (peer = "blocked") <=> (rd_req_stall \/ wr_req_stall)
    /\ ~(rd_req_stall /\ wr_req_stall)

InFlight(a) == {i \in rdq \cup pend : pkts[i].addr = a}

(* The in-flight counters, by which retries and draining are decided,      *)
(* count what is inside the DRAM simulator, and every read in there has    *)
(* its packet in the map.                                                  *)
CountersMatch ==
    /\ wr_requestsInFlight = Cardinality(wrq \cup wact)
    /\ rd_requestsInFlight = Cardinality(rdq \cup pend)
    /\ \A a \in Addrs : Len(reads[a]) = Cardinality(InFlight(a))

(* The asserts of sendResponse hold when its event fires, and no wakeup is *)
(* lost: answers that wait have their event scheduled or wait for the      *)
(* peer's retry, also after requests that arrived in mid-send.             *)
ResponseScheduled ==
    LET queued == IF pc = "sent" THEN Len(resp_queue) - 1 ELSE Len(resp_queue)
    IN  /\ respEvent => ~resp_stall /\ queued > 0
        /\ resp_stall => queued > 0 /\ pc # "sent"
        /\ queued > 0 /\ pc # "sent" => respEvent \/ resp_stall

(* A packet kept for deletion is neither waited for nor queued any more.   *)
DeletedUnused ==
    \A i \in ToSet(pending_del) :
        i \notin ToSet(resp_queue) /\ \A a \in Addrs : i \notin ToSet(reads[a])

(* The inductive invariant: a read is in one place of the DRAM simulator,  *)
(* and a response on its way is still the head of the queue.               *)
PlacesInv == rdq \cap pend = {} /\ (pc = "sent" => resp_queue # <<>>)

IInv == TypeOK /\ PlacesInv /\ StallsMatchPeer /\ CountersMatch /\ ResponseScheduled

(* What the order and the values of the answers rest on: the deque of an   *)
(* address holds reads of it, oldest first, and none that is answered.     *)
DequesInv ==
    \A a \in Addrs :
        /\ \A i \in 1 .. Len(reads[a]) :
              pkts[reads[a][i]] = [kind |-> "read", addr |-> a]
        /\ \A i, j \in 1 .. Len(reads[a]) : i < j => reads[a][i] < reads[a][j]
        /\ ToSet(reads[a]) \cap ToSet(resp_queue) = {}

Undelivered == IF pc = "sent" THEN Tail(resp_queue) ELSE resp_queue

Port == INSTANCE MemoryPort WITH
    ops     <- pkts,
    waiting <- UNION {ToSet(reads[a]) : a \in Addrs},
    answers <- [j \in 1 .. Len(Undelivered) |->
                  [id |-> Undelivered[j], val |-> val[Undelivered[j]]]]

(* The memory object implements the memory port: every accepted packet     *)
(* takes effect once and is answered once, with the value the memory holds *)
(* at that instant, reads of an address in order, whatever the order in    *)
(* which the DRAM simulator completes them.                                *)
ImplementsPort == Port!Spec

(* A requestor that recvTimingReq refused gets its retry from tick(), also *)
(* when other channels keep the in-flight counters up for a while.         *)
RequestRetried == (peer = "blocked") ~> (peer = "ready")

(* Every packet recvTimingReq accepts that needs a response is handed to   *)
(* the peer by sendResponse, however often the peer refuses.               *)
RequestAnswered ==
    \A i \in 1 .. MaxPkts :
        (i \in Ids /\ NeedsResponse(pkts[i]))
            ~> (/\ i \notin ToSet(Undelivered)
                /\ \A a \in Addrs : i \notin ToSet(reads[a]))

(* "When an object has finished draining its internal state, it calls      *)
(* DrainManager::signalDrainDone()" (drain.hh).                            *)
DrainCompletes == (drainState = "draining") ~> (drainState = "drained")
=============================================================================
