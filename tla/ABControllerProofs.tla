------------------------- MODULE ABControllerProofs -------------------------
(***************************************************************************)
(* What the all-bank controller keeps for every timing that satisfies the  *)
(* assumptions of ABController, any number of rows and requests and any    *)
(* size of the queues.                                                     *)
(*                                                                         *)
(* IInv is inductive by itself: the queues are sorted by arrival, so that  *)
(* Scheduler::get_head returns the front, and a command that would close   *)
(* the row of the activated request is allowed no earlier than its column  *)
(* command. Under IInv a tick is one of six outcomes (TickIs), and every   *)
(* later argument is about those. WaitInv and RefreshInv bound the time to *)
(* the next refresh; OrderInv, for one arrival in a cycle, says that the   *)
(* request served next is the oldest.                                      *)
(***************************************************************************)
EXTENDS ABController, SequenceTheorems, TLAPS

Reads == [id : 1 .. nreqs, type : {"READ"}, row : Rows, arrive : 0 .. now]

Writes == [id : 1 .. nreqs, type : {"WRITE"}, row : Rows, arrive : 0 .. now]

Sorted(q) == \A i, j \in 1 .. Len(q) : i < j => q[i].arrive <= q[j].arrive

(* The queues hold requests of their kind, in the order of arrival. *)
QueueInv ==
    /\ readq \in Seq(Reads) /\ Sorted(readq)
    /\ writeq \in Seq(Writes) /\ Sorted(writeq)
    /\ actq \in Seq(Reads \cup Writes) /\ otherq \in Seq({Refresh})

(* The mode is blocked exactly while a request waits activated; its row is *)
(* open, and no command that closes the row is allowed before its own.     *)
ActInv ==
    /\ wm_blocked <=> actq # <<>>
    /\ actq # <<>> => /\ Len(actq) = 1 /\ row = actq[1].row
                      /\ write_mode <=> actq[1].type = "WRITE"
                      /\ wait["RD"] <= wait["PRE"] /\ wait["WR"] <= wait["PRE"]
                      /\ wait["RD"] <= nRAS /\ wait["WR"] <= nRAS

(* How far ahead of a new row cycle a column command may be held back. *)
TimeInv ==
    /\ wait["PREA"] = wait["PRE"]
    /\ row = None => /\ wait["RD"] <= wait["ACT"] + nRAS
                     /\ wait["WR"] <= wait["ACT"] + nRAS
    /\ row # None => /\ wait["RD"] <= wait["PRE"] + nRP + nRAS
                     /\ wait["WR"] <= wait["PRE"] + nRP + nRAS

IInv == TypeOK /\ QueueInv /\ ActInv /\ TimeInv /\ RowTableAgrees

(* The longest time from a column command to the closing of the row. *)
ColPre == Later(nRTP, nCWL + nBL + nWR)

(* The cycles until a refresh that is queued is issued. *)
Left ==
    IF row = None THEN Later(wait["REF"], 1)
    ELSE IF actq = <<>> THEN Later(wait["PRE"], 1) + nRP
    ELSE Later(wait["PRE"], Later(Later(wait["RD"], wait["WR"]), 1) + ColPre) + nRP

(* A refresh never waits longer than an activation does, and the longest   *)
(* waits for the commands that a refresh needs.                            *)
WaitInv ==
    /\ row # None => wait["REF"] = 0
    /\ row = None => wait["REF"] <= wait["ACT"]
    /\ wait["REF"] <= Later(nRP, nRFC) /\ wait["PRE"] <= Later(nRAS, ColPre)

(* A queued refresh is issued before the next one is due. *)
RefreshInv ==
    Len(otherq) <= 1 /\ (otherq # <<>> => Left <= refreshIn)

Elems(q) == {q[i] : i \in 1 .. Len(q)}

Waiting == Elems(readq) \cup Elems(writeq)

ById(q) == \A i, j \in 1 .. Len(q) : i < j => q[i].id < q[j].id

(* Column commands went out in the order of acceptance, and the activated  *)
(* request is the next.                                                    *)
ServedInv ==
    /\ served = [i \in 1 .. Len(served) |-> i]
    /\ actq # <<>> => actq[1].id = Len(served) + 1

(* The requests that wait are those after it; the arrival times tell their *)
(* order as long as one request arrives in a cycle.                        *)
IdsInv ==
    /\ {a.id : a \in Waiting} = Len(served) + Len(actq) + 1 .. nreqs
    /\ \A a, b \in Waiting : a.id = b.id => a = b
    /\ \A a, b \in Waiting : a.id < b.id => a.arrive < b.arrive
    /\ ById(readq) /\ ById(writeq)
    /\ fresh = 0 => \A a \in Waiting : a.arrive < now

(* The mode of two queues is the one with the older head. *)
OlderHead(rq, wq, m) ==
    rq # <<>> /\ wq # <<>> => (m <=> wq[1].id < rq[1].id)

OnlyQueue(rq, wq, m) ==
    (rq # <<>> /\ wq = <<>> => ~m) /\ (rq = <<>> /\ wq # <<>> => m)

(* The mode selects the queue with the oldest request; it may lag behind   *)
(* the request that has arrived in this cycle.                             *)
ModeInv ==
    actq = <<>> => /\ OlderHead(readq, writeq, write_mode)
                   /\ fresh = 0 => OnlyQueue(readq, writeq, write_mode)

OrderInv == ServedInv /\ IdsInv /\ ModeInv /\ fresh <= 1

-----------------------------------------------------------------------------
(* Facts about the operators. *)

(* What erasing the front leaves. *)
LEMMA TailFacts ==
    ASSUME NEW S, NEW q \in Seq(S), q # <<>>
    PROVE  /\ Tail(q) \in Seq(S) /\ Len(Tail(q)) = Len(q) - 1
           /\ Len(q) \in Nat \ {0} /\ q[1] \in S
           /\ \A i \in 1 .. Len(Tail(q)) : Tail(q)[i] = q[i + 1]
  OBVIOUS

(* Under FCFS a queue in the order of arrival is served from its front. *)
LEMMA HeadFacts ==
    ASSUME NEW S, NEW q \in Seq(S), q # <<>>, Sorted(q),
           \A i \in 1 .. Len(q) : q[i].arrive \in Nat
    PROVE  /\ HeadIndex(q) = 1 /\ GetHead(q) = q[1] /\ q[1] \in S
           /\ Erase(q) = Tail(q)
<1> DEFINE First(i) == \A j \in 1 .. Len(q) :
              q[i].arrive < q[j].arrive \/ (q[i].arrive = q[j].arrive /\ i <= j)
<1>1. Len(q) \in Nat \ {0} /\ 1 \in 1 .. Len(q)
  OBVIOUS
<1>2. First(1)
  <2> SUFFICES ASSUME NEW j \in 1 .. Len(q)
               PROVE  q[1].arrive < q[j].arrive \/ (q[1].arrive = q[j].arrive /\ 1 <= j)
    OBVIOUS
  <2>1. q[1].arrive <= q[j].arrive
    BY <1>1 DEF Sorted
  <2> QED
    BY <1>1, <2>1
<1>3. ASSUME NEW i \in 1 .. Len(q), First(i) PROVE i = 1
  BY <1>1, <1>3, <1>2
<1>4. HeadIndex(q) = CHOOSE i \in 1 .. Len(q) : First(i)
  BY DEF HeadIndex
<1> HIDE DEF First
<1>5. HeadIndex(q) = 1
  BY <1>1, <1>2, <1>3, <1>4
<1>6. Erase(q) = [i \in 1 .. Len(q) - 1 |-> q[i + 1]]
  BY <1>1, <1>5 DEF Erase
<1>7. Erase(q) = Tail(q)
  <2>1. /\ Tail(q) \in Seq(S) /\ Len(Tail(q)) = Len(q) - 1
        /\ \A i \in 1 .. Len(Tail(q)) : Tail(q)[i] = q[i + 1]
    BY TailFacts
  <2>2. Erase(q) \in Seq(S) /\ Len(Erase(q)) = Len(q) - 1
    <3>1. \A i \in 1 .. Len(q) - 1 : q[i + 1] \in S
      BY <1>1
    <3> QED
      BY <1>1, <1>6, <3>1
  <2>3. \A i \in 1 .. Len(Erase(q)) : Erase(q)[i] = Tail(q)[i]
    BY <1>1, <1>6, <2>1, <2>2
  <2> QED
    BY <2>1, <2>2, <2>3, SeqEqual
<1> QED
  BY <1>1, <1>5, <1>7 DEF GetHead

(* What push_back leaves. *)
LEMMA AppendFacts ==
    ASSUME NEW S, NEW q \in Seq(S), NEW x \in S
    PROVE  /\ Append(q, x) \in Seq(S) /\ Append(q, x) # <<>>
           /\ Len(Append(q, x)) = Len(q) + 1 /\ Len(q) \in Nat
           /\ Append(q, x)[Len(q) + 1] = x
           /\ \A i \in 1 .. Len(q) : Append(q, x)[i] = q[i]
  OBVIOUS

(* A sequence over a set is one over every larger set. *)
LEMMA SeqMono ==
    ASSUME NEW S, NEW T, S \subseteq T, NEW q \in Seq(S)
    PROVE  q \in Seq(T)
<1>1. Len(q) \in Nat /\ \A i \in 1 .. Len(q) : q[i] \in T
  OBVIOUS
<1>2. q = [i \in 1 .. Len(q) |-> q[i]]
  OBVIOUS
<1> QED
  BY <1>1, <1>2

(* A queue in the order of arrival keeps it when its front is erased. *)
LEMMA SortedTail ==
    ASSUME NEW S, NEW q \in Seq(S), q # <<>>, Sorted(q)
    PROVE  Sorted(Tail(q))
<1>1. /\ Len(Tail(q)) = Len(q) - 1 /\ Len(q) \in Nat \ {0}
      /\ \A i \in 1 .. Len(Tail(q)) : Tail(q)[i] = q[i + 1]
  BY TailFacts
<1> SUFFICES ASSUME NEW i \in 1 .. Len(Tail(q)), NEW j \in 1 .. Len(Tail(q)), i < j
             PROVE  Tail(q)[i].arrive <= Tail(q)[j].arrive
  BY DEF Sorted
<1>2. i + 1 \in 1 .. Len(q) /\ j + 1 \in 1 .. Len(q) /\ i + 1 < j + 1
  BY <1>1
<1>3. q[i + 1].arrive <= q[j + 1].arrive
  BY <1>2 DEF Sorted
<1> QED
  BY <1>1, <1>3

(* It keeps it when a request arrives. *)
LEMMA SortedAppend ==
    ASSUME NEW S, NEW q \in Seq(S), NEW x \in S, Sorted(q),
           \A i \in 1 .. Len(q) : q[i].arrive <= x.arrive
    PROVE  Sorted(Append(q, x))
<1>1. /\ Len(Append(q, x)) = Len(q) + 1 /\ Len(q) \in Nat
      /\ Append(q, x)[Len(q) + 1] = x
      /\ \A i \in 1 .. Len(q) : Append(q, x)[i] = q[i]
  BY AppendFacts
<1> SUFFICES ASSUME NEW i \in 1 .. Len(q) + 1, NEW j \in 1 .. Len(q) + 1, i < j
             PROVE  Append(q, x)[i].arrive <= Append(q, x)[j].arrive
  BY <1>1 DEF Sorted
<1>2. i \in 1 .. Len(q) /\ (j = Len(q) + 1 \/ j \in 1 .. Len(q))
  BY <1>1
<1> QED
  BY <1>1, <1>2 DEF Sorted

(* The delays that the proofs need. *)
LEMMA DelayFacts ==
    /\ Delay("ACT", "RD") = nRCDR /\ Delay("ACT", "WR") = nRCDW
    /\ Delay("ACT", "PRE") = nRAS /\ Delay("ACT", "PREA") = nRAS
    /\ Delay("ACT", "ACT") = nRC /\ Delay("ACT", "REF") = 0
    /\ \A c \in {"PRE", "PREA"} :
          /\ Delay(c, "ACT") = nRP /\ Delay(c, "REF") = nRP
          /\ Delay(c, "RD") = 0 /\ Delay(c, "WR") = 0
          /\ Delay(c, "PRE") = 0 /\ Delay(c, "PREA") = 0
    /\ Delay("RD", "RD") = Later(nBL, nCCDL) /\ Delay("WR", "WR") = Later(nBL, nCCDL)
    /\ Delay("RD", "WR") = nCL + nCCDL + 2 - nCWL
    /\ Delay("WR", "RD") = nCWL + nBL + nWTRL
    /\ Delay("RD", "PRE") = nRTP /\ Delay("RD", "PREA") = nRTP
    /\ Delay("WR", "PRE") = nCWL + nBL + nWR /\ Delay("WR", "PREA") = nCWL + nBL + nWR
    /\ Delay("RD", "ACT") = 0 /\ Delay("WR", "ACT") = 0
    /\ Delay("RD", "REF") = 0 /\ Delay("WR", "REF") = 0
    /\ Delay("REF", "ACT") = nRFC /\ Delay("REF", "REF") = nRFC
    /\ Delay("REF", "RD") = 0 /\ Delay("REF", "WR") = 0
    /\ Delay("REF", "PRE") = 0 /\ Delay("REF", "PREA") = 0
  BY DEF Delay

(* The timing parameters are natural numbers, and so are the waits. *)
LEMMA Params ==
    /\ nBL \in Nat \ {0} /\ nCCDL \in Nat \ {0} /\ nRTP \in Nat \ {0} /\ nCL \in Nat \ {0}
    /\ nCWL \in Nat \ {0} /\ nRCDR \in Nat \ {0} /\ nRCDW \in Nat \ {0}
    /\ nRP \in Nat \ {0} /\ nRAS \in Nat \ {0} /\ nRC \in Nat \ {0} /\ nWR \in Nat \ {0}
    /\ nWTRL \in Nat \ {0} /\ nRFC \in Nat \ {0} /\ nREFI \in Nat \ {0}
    /\ QMax \in Nat \ {0} /\ PerCycle \in Nat \ {0} /\ MaxReqs \in Nat
    /\ 0 \notin Rows
  BY TimingAssumption

(* A cycle takes one off every wait. *)
LEMMA Wait1Facts ==
    ASSUME TypeOK
    PROVE  /\ wait1 \in [Commands -> Nat]
           /\ \A c \in Commands :
                 /\ wait[c] \in Nat /\ wait1[c] \in Nat
                 /\ wait[c] = 0 => wait1[c] = 0
                 /\ wait[c] > 0 => wait1[c] = wait[c] - 1
<1>1. wait \in [Commands -> Nat]
  BY DEF TypeOK
<1> QED
  BY <1>1 DEF wait1, Later

-----------------------------------------------------------------------------
(* What a tick amounts to when the invariant holds. *)

ModeQ == IF write_mode1 THEN writeq ELSE readq

ColCmd(write) == IF write THEN "WR" ELSE "RD"

TakeHead ==
    /\ ModeQ # <<>>
    /\ readq' = (IF write_mode1 THEN readq ELSE Tail(readq))
    /\ writeq' = (IF write_mode1 THEN Tail(writeq) ELSE writeq)

(* The row is closed, for a conflict or a refresh. *)
Closes ==
    /\ actq = <<>> /\ row # None /\ wait1["PRE"] = 0
    /\ \E c \in {"PRE", "PREA"} : IssueCmd(c, None)
    /\ UNCHANGED <<readq, writeq, actq, wm_blocked, served>>
    /\ otherq' = otherq1 /\ write_mode' = write_mode1 /\ pending' = pending1
    /\ Advance({})

(* The head of the queue of the mode is activated. *)
Opens ==
    /\ actq = <<>> /\ row = None /\ otherq1 = <<>> /\ wait1["ACT"] = 0
    /\ TakeHead /\ IssueCmd("ACT", ModeQ[1].row)
    /\ actq' = <<ModeQ[1]>> /\ otherq' = otherq1
    /\ write_mode' = write_mode1 /\ wm_blocked' = TRUE
    /\ pending' = pending1 /\ UNCHANGED served
    /\ Advance({})

(* A request gets its column command. *)
Column(req, write) ==
    /\ wait1[ColCmd(write)] = 0 /\ row = req.row /\ IssueCmd(ColCmd(write), row)
    /\ Advance(IF write THEN {req.id} ELSE {})
    /\ pending' = IF write THEN pending1
                  ELSE Append(pending1, [id |-> req.id, left |-> ReadLatency])
    /\ served' = Append(served, req.id)
    /\ write_mode' = ModeByArrival(readq', writeq', write_mode1)
    /\ wm_blocked' = FALSE /\ actq' = <<>> /\ otherq' = otherq1

ServesAct ==
    actq # <<>> /\ Column(actq[1], write_mode) /\ UNCHANGED <<readq, writeq>>

ServesHead ==
    /\ actq = <<>> /\ otherq1 = <<>>
    /\ TakeHead /\ Column(ModeQ[1], write_mode1)

(* The refresh is issued. *)
Refreshes ==
    /\ actq = <<>> /\ otherq1 # <<>> /\ row = None /\ wait1["REF"] = 0
    /\ IssueCmd("REF", None) /\ otherq' = Tail(otherq1)
    /\ UNCHANGED <<readq, writeq, actq, served>> /\ pending' = pending1
    /\ write_mode' = ModeByArrival(readq, writeq, write_mode1)
    /\ wm_blocked' = FALSE
    /\ Advance({})

(* A sequence of length zero is empty, and conversely. *)
LEMMA EmptyQueueSeq ==
    ASSUME NEW S, NEW q \in Seq(S)
    PROVE  q = <<>> <=> Len(q) = 0
  OBVIOUS

(* The heads of the queues. *)
LEMMA Heads ==
    ASSUME IInv
    PROVE  /\ readq # <<>> => /\ GetHead(readq) = readq[1] /\ readq[1] \in Reads
                              /\ Erase(readq) = Tail(readq)
           /\ writeq # <<>> => /\ GetHead(writeq) = writeq[1] /\ writeq[1] \in Writes
                               /\ Erase(writeq) = Tail(writeq)
           /\ actq # <<>> => /\ GetHead(actq) = actq[1] /\ Len(actq) = 1
                             /\ actq[1] \in Reads \cup Writes
                             /\ Erase(actq) = <<>>
           /\ otherq1 \in Seq({Refresh})
           /\ otherq1 # <<>> => /\ GetHead(otherq1) = Refresh
                                /\ Erase(otherq1) = Tail(otherq1)
<1>1. /\ readq \in Seq(Reads) /\ Sorted(readq) /\ writeq \in Seq(Writes)
      /\ Sorted(writeq) /\ actq \in Seq(Reads \cup Writes)
      /\ otherq \in Seq({Refresh}) /\ now \in Nat
  BY DEF IInv, QueueInv, TypeOK
<1>2. /\ \A a \in Reads \cup Writes : a.arrive \in Nat
      /\ Refresh.arrive = 0
  BY <1>1 DEF Reads, Writes, Refresh
<1>3. readq # <<>> => /\ GetHead(readq) = readq[1] /\ readq[1] \in Reads
                      /\ Erase(readq) = Tail(readq)
  <2>1. \A i \in 1 .. Len(readq) : readq[i].arrive \in Nat
    BY <1>1, <1>2
  <2> QED
    BY <1>1, <2>1, HeadFacts
<1>4. writeq # <<>> => /\ GetHead(writeq) = writeq[1] /\ writeq[1] \in Writes
                       /\ Erase(writeq) = Tail(writeq)
  <2>1. \A i \in 1 .. Len(writeq) : writeq[i].arrive \in Nat
    BY <1>1, <1>2
  <2> QED
    BY <1>1, <2>1, HeadFacts
<1>5. actq # <<>> => /\ GetHead(actq) = actq[1] /\ Len(actq) = 1
                     /\ actq[1] \in Reads \cup Writes /\ Erase(actq) = <<>>
  <2> SUFFICES ASSUME actq # <<>>
               PROVE  /\ GetHead(actq) = actq[1] /\ Len(actq) = 1
                      /\ actq[1] \in Reads \cup Writes /\ Erase(actq) = <<>>
    OBVIOUS
  <2>1. Len(actq) = 1
    BY DEF IInv, ActInv
  <2>2. Sorted(actq) /\ \A i \in 1 .. Len(actq) : actq[i].arrive \in Nat
    BY <2>1, <1>1, <1>2 DEF Sorted
  <2>3. /\ GetHead(actq) = actq[1] /\ actq[1] \in Reads \cup Writes
        /\ Erase(actq) = Tail(actq)
    BY <1>1, <2>2, HeadFacts
  <2>4. Tail(actq) = <<>>
    <3>1. /\ Tail(actq) \in Seq(Reads \cup Writes)
          /\ Len(Tail(actq)) = Len(actq) - 1
      BY <1>1, TailFacts
    <3>2. Len(Tail(actq)) = 0
      BY <2>1, <3>1
    <3> QED
      BY <3>1, <3>2, EmptyQueueSeq
  <2> QED
    BY <2>1, <2>3, <2>4
<1>6. otherq1 \in Seq({Refresh})
  BY <1>1, AppendFacts DEF otherq1
<1>7. otherq1 # <<>> => /\ GetHead(otherq1) = Refresh
                        /\ Erase(otherq1) = Tail(otherq1)
  <2>1. \A i \in 1 .. Len(otherq1) : otherq1[i] = Refresh
    BY <1>6
  <2>2. Sorted(otherq1) /\ \A i \in 1 .. Len(otherq1) : otherq1[i].arrive \in Nat
    BY <2>1, <1>2 DEF Sorted
  <2>3. otherq1 # <<>> => 1 \in 1 .. Len(otherq1)
    BY <1>6
  <2> QED
    BY <1>6, <2>1, <2>2, <2>3, HeadFacts
<1> QED
  BY <1>3, <1>4, <1>5, <1>6, <1>7

(* The request that waits activated asks for its column command. *)
LEMMA ActCmd ==
    ASSUME IInv, actq # <<>>
    PROVE  /\ row # None /\ row = actq[1].row
           /\ FirstCmd(actq[1]) = ColCmd(write_mode)
           /\ ActReady <=> wait1[ColCmd(write_mode)] = 0
           /\ write_mode1 = write_mode
<1>1. /\ actq[1] \in Reads \cup Writes /\ GetHead(actq) = actq[1]
  BY Heads
<1>2. /\ row = actq[1].row /\ (write_mode <=> actq[1].type = "WRITE") /\ wm_blocked
  BY DEF IInv, ActInv
<1>3. row # None
  BY <1>1, <1>2, Params DEF Reads, Writes, None
<1>4. FirstCmd(actq[1]) = ColCmd(write_mode)
  <2>1. actq[1].type \in {"READ", "WRITE"}
    BY <1>1 DEF Reads, Writes
  <2> QED
    BY <1>2, <1>3, <2>1 DEF FirstCmd, ColCmd
<1>5. ActReady <=> wait1[ColCmd(write_mode)] = 0
  BY <1>1, <1>4 DEF ActReady, IsReady
<1> QED
  BY <1>2, <1>3, <1>4, <1>5 DEF write_mode1

(* While it is not ready, nothing else is: a precharge is allowed later    *)
(* still, and the other requests of its kind need the same command.        *)
LEMMA NothingElse ==
    ASSUME IInv, actq # <<>>, ~ActReady
    PROVE  ~Valid(Source)
<1>1. wait1["PRE"] # 0 /\ wait1["PREA"] # 0 /\ wait1[ColCmd(write_mode)] # 0
  <2>1. wait1[ColCmd(write_mode)] # 0
    BY ActCmd
  <2>2. /\ wait["RD"] <= wait["PRE"] /\ wait["WR"] <= wait["PRE"]
        /\ wait["PREA"] = wait["PRE"]
    BY DEF IInv, ActInv, TimeInv
  <2>3. \A c \in {"RD", "WR", "PRE", "PREA"} :
           /\ wait[c] \in Nat /\ wait1[c] \in Nat
           /\ wait[c] = 0 => wait1[c] = 0
           /\ wait[c] > 0 => wait1[c] = wait[c] - 1
    BY Wait1Facts DEF IInv, Commands
  <2>4. ColCmd(write_mode) \in {"RD", "WR"}
    BY DEF ColCmd
  <2>5. wait1["PRE"] # 0
    BY <2>1, <2>2, <2>3, <2>4
  <2> QED
    BY <2>1, <2>2, <2>3, <2>5
<1>2. row # None /\ write_mode1 = write_mode
  BY ActCmd
<1>3. CASE otherq1 # <<>>
  <2>1. Source = "other" /\ GetHead(otherq1) = Refresh
    BY <1>3, Heads DEF Source
  <2>2. FirstCmd(Refresh) = "PREA"
    BY <1>2 DEF FirstCmd, Refresh
  <2> QED
    BY <2>1, <2>2, <1>1 DEF Valid, QueueOf, IsReady
<1>4. CASE otherq1 = <<>> /\ write_mode
  <2>1. Source = "write"
    BY <1>2, <1>4 DEF Source
  <2>2. CASE writeq # <<>>
    <3>1. GetHead(writeq) = writeq[1] /\ writeq[1].type = "WRITE"
      BY <2>2, Heads DEF Writes
    <3>2. FirstCmd(writeq[1]) \in {"PRE", "WR"}
      BY <3>1, <1>2 DEF FirstCmd
    <3> QED
      BY <2>1, <3>1, <3>2, <1>1, <1>4 DEF Valid, QueueOf, IsReady, ColCmd
  <2> QED
    BY <2>1, <2>2 DEF Valid, QueueOf
<1>5. CASE otherq1 = <<>> /\ ~write_mode
  <2>1. Source = "read"
    BY <1>2, <1>5 DEF Source
  <2>2. CASE readq # <<>>
    <3>1. GetHead(readq) = readq[1] /\ readq[1].type = "READ"
      BY <2>2, Heads DEF Reads
    <3>2. FirstCmd(readq[1]) \in {"PRE", "RD"}
      BY <3>1, <1>2 DEF FirstCmd
    <3> QED
      BY <2>1, <3>1, <3>2, <1>1, <1>5 DEF Valid, QueueOf, IsReady, ColCmd
  <2> QED
    BY <2>1, <2>2 DEF Valid, QueueOf
<1> QED
  BY <1>3, <1>4, <1>5

(* The request that a valid tick serves, by its source. *)
LEMMA ServedBy ==
    ASSUME IInv, Valid(Source)
    PROVE  \/ /\ Source = "act" /\ actq # <<>> /\ GetHead(QueueOf(Source)) = actq[1]
              /\ FirstCmd(actq[1]) = ColCmd(write_mode)
              /\ wait1[ColCmd(write_mode)] = 0
           \/ /\ Source = "other" /\ actq = <<>> /\ otherq1 # <<>>
              /\ GetHead(QueueOf(Source)) = Refresh
              /\ FirstCmd(Refresh) = (IF row = None THEN "REF" ELSE "PREA")
              /\ wait1[FirstCmd(Refresh)] = 0
           \/ /\ Source = (IF write_mode1 THEN "write" ELSE "read")
              /\ actq = <<>> /\ otherq1 = <<>> /\ ModeQ # <<>>
              /\ GetHead(QueueOf(Source)) = ModeQ[1]
              /\ ModeQ[1] \in (IF write_mode1 THEN Writes ELSE Reads)
              /\ FirstCmd(ModeQ[1]) = IF row = None THEN "ACT"
                                      ELSE IF row # ModeQ[1].row THEN "PRE"
                                      ELSE ColCmd(write_mode1)
              /\ wait1[FirstCmd(ModeQ[1])] = 0
<1>1. CASE actq # <<>>
  <2>1. ActReady
    BY <1>1, NothingElse
  <2>2. Source = "act" /\ GetHead(actq) = actq[1]
    BY <1>1, <2>1, Heads DEF Source
  <2> QED
    BY <1>1, <2>1, <2>2, ActCmd DEF QueueOf
<1>2. CASE actq = <<>>
  <2>1. ~ActReady
    BY <1>2 DEF ActReady
  <2>2. CASE otherq1 # <<>>
    <3>1. Source = "other" /\ GetHead(otherq1) = Refresh
      BY <2>1, <2>2, Heads DEF Source
    <3>2. FirstCmd(Refresh) = IF row = None THEN "REF" ELSE "PREA"
      BY DEF FirstCmd, Refresh
    <3> QED
      BY <1>2, <2>2, <3>1, <3>2 DEF QueueOf, Valid, IsReady
  <2>3. CASE otherq1 = <<>> /\ write_mode1
    <3>1. Source = "write" /\ ModeQ = writeq
      BY <2>1, <2>3 DEF Source, ModeQ
    <3>2. /\ writeq # <<>> /\ GetHead(writeq) = writeq[1] /\ writeq[1] \in Writes
          /\ wait1[FirstCmd(writeq[1])] = 0
      BY <3>1, Heads DEF Valid, QueueOf, IsReady
    <3>3. FirstCmd(writeq[1]) = IF row = None THEN "ACT"
                                ELSE IF row # writeq[1].row THEN "PRE" ELSE "WR"
      BY <3>2 DEF FirstCmd, Writes
    <3> QED
      BY <1>2, <2>3, <3>1, <3>2, <3>3 DEF QueueOf, ColCmd
  <2>4. CASE otherq1 = <<>> /\ ~write_mode1
    <3>1. Source = "read" /\ ModeQ = readq
      BY <2>1, <2>4 DEF Source, ModeQ
    <3>2. /\ readq # <<>> /\ GetHead(readq) = readq[1] /\ readq[1] \in Reads
          /\ wait1[FirstCmd(readq[1])] = 0
      BY <3>1, Heads DEF Valid, QueueOf, IsReady
    <3>3. FirstCmd(readq[1]) = IF row = None THEN "ACT"
                               ELSE IF row # readq[1].row THEN "PRE" ELSE "RD"
      BY <3>2 DEF FirstCmd, Reads
    <3> QED
      BY <1>2, <2>4, <3>1, <3>2, <3>3 DEF QueueOf, ColCmd
  <2> QED
    BY <2>2, <2>3, <2>4
<1> QED
  BY <1>1, <1>2

(* The mode and the block of a state with no activated request. *)
LEMMA Modes ==
    ASSUME IInv
    PROVE  /\ wm_blocked <=> actq # <<>>
           /\ write_mode1 \in BOOLEAN /\ write_mode \in BOOLEAN
           /\ wm_blocked \in BOOLEAN
           /\ wait1["PRE"] = wait1["PREA"]
<1>1. wait["PRE"] = wait["PREA"]
  BY DEF IInv, TimeInv
<1>2. wait1["PRE"] = wait1["PREA"]
  BY <1>1 DEF wait1, Commands
<1> QED
  BY <1>2 DEF IInv, TypeOK, ActInv, write_mode1

(* A precharge. *)
LEMMA PrechargeIs ==
    ASSUME IInv, TickPrecharge(Source)
    PROVE  Closes
<1> DEFINE c == FirstCmd(GetHead(QueueOf(Source)))
<1>1. /\ Valid(Source) /\ c \in {"PRE", "PREA"} /\ Advance({}) /\ IssueCmd(c, None)
      /\ pending' = pending1 /\ otherq' = otherq1 /\ write_mode' = write_mode1
      /\ wm_blocked' = (wm_blocked /\ Source # "act")
      /\ UNCHANGED <<readq, writeq, actq, served>>
  BY DEF TickPrecharge
<1>2. /\ actq = <<>> /\ row # None /\ wait1[c] = 0
  BY <1>1, ServedBy DEF ColCmd
<1>3. wait1["PRE"] = 0 /\ ~wm_blocked /\ wm_blocked' = wm_blocked
  BY <1>1, <1>2, Modes
<1> HIDE DEF c
<1> QED
  BY <1>1, <1>2, <1>3 DEF Closes

(* An activation. *)
LEMMA ActivateIs ==
    ASSUME IInv, TickActivate(Source)
    PROVE  Opens
<1> DEFINE req == GetHead(QueueOf(Source))
<1>1. /\ Valid(Source) /\ FirstCmd(req) = "ACT" /\ Advance({})
      /\ IssueCmd("ACT", req.row) /\ pending' = pending1 /\ EraseFrom(Source)
      /\ actq' = Append(IF Source = "act" THEN Erase(actq) ELSE actq, req)
      /\ write_mode' = (req.type = "WRITE") /\ wm_blocked' = TRUE
      /\ UNCHANGED served
  BY DEF TickActivate
<1>2. /\ Source = (IF write_mode1 THEN "write" ELSE "read")
      /\ actq = <<>> /\ otherq1 = <<>> /\ ModeQ # <<>> /\ req = ModeQ[1]
      /\ ModeQ[1] \in (IF write_mode1 THEN Writes ELSE Reads)
      /\ row = None /\ wait1["ACT"] = 0
  BY <1>1, ServedBy DEF ColCmd
<1>3. write_mode' = write_mode1
  BY <1>1, <1>2, Modes DEF Reads, Writes
<1>4. TakeHead /\ otherq' = otherq1
  BY <1>1, <1>2, Heads, Modes DEF EraseFrom, TakeHead, ModeQ
<1>5. actq' = <<ModeQ[1]>>
  BY <1>1, <1>2, Modes
<1> HIDE DEF req
<1> QED
  BY <1>1, <1>2, <1>3, <1>4, <1>5 DEF Opens

(* The last command of a request. *)
LEMMA FinishIs ==
    ASSUME IInv, TickFinish(Source)
    PROVE  ServesAct \/ ServesHead \/ Refreshes
<1> DEFINE req == GetHead(QueueOf(Source))
           c == FirstCmd(req)
<1>1. /\ Valid(Source) /\ c \in {"RD", "WR", "REF"}
      /\ Advance(IF c = "WR" THEN {req.id} ELSE {})
      /\ IssueCmd(c, req.row) /\ EraseFrom(Source)
      /\ actq' = (IF Source = "act" THEN Erase(actq) ELSE actq)
      /\ pending' = (IF c = "RD" THEN Append(pending1, [id   |-> req.id,
                                                       left |-> ReadLatency])
                     ELSE pending1)
      /\ served' = (IF c = "REF" THEN served ELSE Append(served, req.id))
      /\ write_mode' = ModeByArrival(readq', writeq', write_mode1)
      /\ wm_blocked' = (wm_blocked /\ Source # "act")
  BY DEF TickFinish
<1>2. CASE Source = "act"
  <2>1. /\ actq # <<>> /\ req = actq[1] /\ c = ColCmd(write_mode)
        /\ wait1[ColCmd(write_mode)] = 0
    BY <1>1, <1>2, ServedBy
  <2>2. row = actq[1].row /\ Erase(actq) = <<>>
    BY <2>1, ActCmd, Heads
  <2>3. /\ UNCHANGED <<readq, writeq>> /\ otherq' = otherq1 /\ actq' = <<>>
        /\ wm_blocked' = FALSE
    BY <1>1, <1>2, <2>2 DEF EraseFrom
  <2>4. /\ c # "REF" /\ (c = "WR" <=> write_mode) /\ (c = "RD" <=> ~write_mode)
    BY <2>1 DEF ColCmd
  <2> HIDE DEF c, req
  <2> QED
    BY <1>1, <2>1, <2>2, <2>3, <2>4 DEF ServesAct, Column
<1>3. CASE Source = "other"
  <2>1. /\ actq = <<>> /\ otherq1 # <<>> /\ req = Refresh
        /\ row = None /\ c = "REF" /\ wait1["REF"] = 0
    BY <1>1, <1>3, ServedBy
  <2>2. /\ UNCHANGED <<readq, writeq, actq, served>> /\ pending' = pending1
        /\ otherq' = Tail(otherq1) /\ wm_blocked' = FALSE /\ req.row = None
    BY <1>1, <1>3, <2>1, Heads, Modes DEF EraseFrom, Refresh
  <2> HIDE DEF c, req
  <2> QED
    BY <1>1, <2>1, <2>2 DEF Refreshes
<1>4. CASE Source \notin {"act", "other"}
  <2>1. /\ Source = (IF write_mode1 THEN "write" ELSE "read")
        /\ actq = <<>> /\ otherq1 = <<>> /\ ModeQ # <<>> /\ req = ModeQ[1]
        /\ row = ModeQ[1].row /\ c = ColCmd(write_mode1)
        /\ wait1[ColCmd(write_mode1)] = 0
    BY <1>1, <1>4, ServedBy
  <2>2. /\ TakeHead /\ otherq' = otherq1 /\ actq' = <<>> /\ wm_blocked' = FALSE
    BY <1>1, <1>4, <2>1, Heads, Modes DEF EraseFrom, TakeHead, ModeQ
  <2>3. /\ c # "REF" /\ (c = "WR" <=> write_mode1) /\ (c = "RD" <=> ~write_mode1)
    BY <2>1 DEF ColCmd
  <2> HIDE DEF c, req
  <2> QED
    BY <1>1, <2>1, <2>2, <2>3 DEF ServesHead, Column
<1> QED
  BY <1>2, <1>3, <1>4

(* The outcomes of a tick. *)
LEMMA TickIs ==
    ASSUME IInv, Tick
    PROVE  TickIdle(Source) \/ Closes \/ Opens \/ ServesAct \/ ServesHead \/ Refreshes
  BY PrechargeIs, ActivateIs, FinishIs DEF Tick

-----------------------------------------------------------------------------
(* Every step keeps the types and the queues. *)

(* The reads on their way are typed, and a cycle keeps them so. *)
LEMMA PendingType ==
    ASSUME TypeOK
    PROVE  /\ pending1 \in Seq([id : 1 .. nreqs, left : Nat])
           /\ pending # <<>> => pending[1].id \in 1 .. nreqs
<1> DEFINE R == [id : 1 .. nreqs, left : Nat]
<1>1. pending \in Seq(R) /\ Len(pending) \in Nat
  BY DEF TypeOK
<1>2. \A i \in 1 .. Len(pending) :
         [pending[i] EXCEPT !.left = Later(@ - 1, 0)] \in R
  <2> SUFFICES ASSUME NEW i \in 1 .. Len(pending)
               PROVE  [pending[i] EXCEPT !.left = Later(@ - 1, 0)] \in R
    OBVIOUS
  <2>1. pending[i] \in R
    <3> HIDE DEF R
    <3> QED
      BY <1>1
  <2>2. Later(pending[i].left - 1, 0) \in Nat
    BY <2>1 DEF Later
  <2> QED
    BY <2>1, <2>2
<1>3. Aged \in Seq(R) /\ Len(Aged) = Len(pending)
  <2> HIDE DEF R
  <2> QED
    BY <1>1, <1>2 DEF Aged
<1>4. Completes => Aged # <<>>
  BY <1>1, <1>3, EmptyQueueSeq DEF Completes
<1>5. pending1 \in Seq(R)
  BY <1>3, <1>4, TailFacts DEF pending1
<1>6. pending # <<>> => pending[1] \in R
  BY <1>1, TailFacts
<1> QED
  BY <1>5, <1>6

(* What every tick does to the clocks and the callbacks. *)
LEMMA AdvanceType ==
    ASSUME TypeOK, NEW cb, cb \subseteq 1 .. nreqs, Advance(cb)
    PROVE  /\ nreqs' = nreqs /\ fresh' = 0 /\ now' \in Nat /\ now <= now'
           /\ refreshIn' \in 1 .. nREFI /\ done' \subseteq 1 .. nreqs
<1>1. /\ refreshIn \in 1 .. nREFI /\ now \in Nat /\ fresh \in Nat
      /\ done \subseteq 1 .. nreqs
  BY DEF TypeOK
<1>2. Completes => pending[1].id \in 1 .. nreqs
  BY PendingType DEF Completes
<1>3. done' = done \cup cb \cup (IF Completes THEN {pending[1].id} ELSE {})
  BY DEF Advance
<1>4. done' \subseteq 1 .. nreqs
  BY <1>1, <1>2, <1>3
<1>5. refreshIn' \in 1 .. nREFI /\ nreqs' = nreqs /\ fresh' = 0
  BY <1>1, Params DEF Advance
<1>6. now' \in Nat /\ now <= now'
  BY <1>1 DEF Advance
<1> QED
  BY <1>4, <1>5, <1>6

(* Every delay is an integer. *)
LEMMA DelayType ==
    ASSUME NEW c \in Commands, NEW d \in Commands
    PROVE  Delay(c, d) \in Int
<1>1. Later(nBL, nCCDL) \in Int
  BY Params DEF Later
<1> QED
  BY <1>1, Params DEF Delay, Commands

(* The device after a command: an activation finds the row closed. *)
LEMMA IssueType ==
    ASSUME TypeOK, RowTableAgrees, NEW c \in Commands, NEW r \in Rows \cup {None},
           IssueCmd(c, r), c = "ACT" => row = None
    PROVE  /\ wait' \in [Commands -> Nat] /\ row' \in Rows \cup {None}
           /\ table' = row'
           /\ \A d \in Commands : wait'[d] = Later(wait1[d], Delay(c, d))
<1>1. wait1 \in [Commands -> Nat] /\ row \in Rows \cup {None} /\ table = row
  BY Wait1Facts DEF TypeOK, RowTableAgrees
<1>2. \A d \in Commands : Later(wait1[d], Delay(c, d)) \in Nat
  BY <1>1, DelayType DEF Later
<1>3. wait' = [d \in Commands |-> Later(wait1[d], Delay(c, d))]
  BY DEF IssueCmd
<1>4. /\ row' = CASE c = "ACT" -> r [] c \in {"PRE", "PREA"} -> None [] OTHER -> row
      /\ table' = CASE c = "ACT" -> IF table = None THEN r ELSE table
                    [] c \in {"PRE", "PREA"} -> None [] OTHER -> table
  BY DEF IssueCmd
<1>5. row' \in Rows \cup {None} /\ table' = row'
  BY <1>1, <1>4
<1> QED
  BY <1>2, <1>3, <1>5

(* The kinds of requests only grow. *)
LEMMA KindsGrow ==
    ASSUME nreqs \in Nat, now \in Nat, nreqs' \in Nat, now' \in Nat,
           nreqs <= nreqs', now <= now'
    PROVE  Reads \subseteq Reads' /\ Writes \subseteq Writes'
  BY DEF Reads, Writes

(* The types of the queues follow from what they hold. *)
LEMMA QueueTypes ==
    ASSUME QueueInv', nreqs' \in Nat, now' \in Nat
    PROVE  /\ readq' \in Seq(Request') /\ writeq' \in Seq(Request')
           /\ actq' \in Seq(Request') /\ otherq' \in Seq(Request')
<1>1. /\ Reads' \subseteq Request' /\ Writes' \subseteq Request'
      /\ Reads' \cup Writes' \subseteq Request' /\ {Refresh} \subseteq Request'
  BY DEF Reads, Writes, Request, Refresh
<1>2. /\ readq' \in Seq(Reads') /\ writeq' \in Seq(Writes')
      /\ actq' \in Seq(Reads' \cup Writes') /\ otherq' \in Seq({Refresh})
  BY DEF QueueInv, Refresh
<1> QED
  BY <1>1, <1>2, SeqMono

(* The mode that is chosen by arrival is a mode. *)
LEMMA ModeByArrivalType ==
    ASSUME NEW rq, NEW wq, NEW m \in BOOLEAN
    PROVE  ModeByArrival(rq, wq, m) \in BOOLEAN
<1>1. (GetHead(wq).arrive <= GetHead(rq).arrive) \in BOOLEAN
  OBVIOUS
<1> QED
  BY <1>1, Zenon DEF ModeByArrival

(* The head of the queue of the mode. *)
LEMMA ModeHead ==
    ASSUME IInv, TakeHead
    PROVE  /\ ModeQ[1] \in Reads \cup Writes
           /\ ModeQ[1].type = IF write_mode1 THEN "WRITE" ELSE "READ"
           /\ ModeQ[1].id \in 1 .. nreqs /\ ModeQ[1].row \in Rows
<1>1. ModeQ[1] \in IF write_mode1 THEN Writes ELSE Reads
  BY Heads DEF TakeHead, ModeQ
<1> QED
  BY <1>1 DEF Reads, Writes

(* Taking the head keeps the queues. *)
LEMMA TakeHeadQueues ==
    ASSUME IInv, TakeHead
    PROVE  /\ readq' \in Seq(Reads) /\ Sorted(readq') /\ Len(readq') <= Len(readq)
           /\ writeq' \in Seq(Writes) /\ Sorted(writeq') /\ Len(writeq') <= Len(writeq)
<1>1. readq \in Seq(Reads) /\ writeq \in Seq(Writes) /\ Sorted(readq) /\ Sorted(writeq)
  BY DEF IInv, QueueInv
<1>2. Len(readq) \in Nat /\ Len(writeq) \in Nat
  BY <1>1
<1>3. CASE write_mode1
  <2>1. writeq # <<>> /\ writeq' = Tail(writeq) /\ readq' = readq
    BY <1>3 DEF TakeHead, ModeQ
  <2>2. Tail(writeq) \in Seq(Writes) /\ Len(Tail(writeq)) = Len(writeq) - 1
    BY <1>1, <2>1, TailFacts
  <2>3. Sorted(Tail(writeq))
    BY <1>1, <2>1, SortedTail
  <2> QED
    BY <1>1, <1>2, <2>1, <2>2, <2>3
<1>4. CASE ~write_mode1
  <2>1. readq # <<>> /\ readq' = Tail(readq) /\ writeq' = writeq
    BY <1>4 DEF TakeHead, ModeQ
  <2>2. Tail(readq) \in Seq(Reads) /\ Len(Tail(readq)) = Len(readq) - 1
    BY <1>1, <2>1, TailFacts
  <2>3. Sorted(Tail(readq))
    BY <1>1, <2>1, SortedTail
  <2> QED
    BY <1>1, <1>2, <2>1, <2>2, <2>3
<1> QED
  BY <1>3, <1>4

(* What a tick leaves of the clocks, and the callbacks it makes. *)
LEMMA TickClocks ==
    ASSUME IInv, Tick
    PROVE  /\ nreqs' = nreqs /\ fresh' = 0 /\ now' \in Nat /\ now <= now'
           /\ refreshIn' \in 1 .. nREFI /\ done' \subseteq 1 .. nreqs
<1>1. TypeOK
  BY DEF IInv
<1>2. \E cb : cb \subseteq 1 .. nreqs /\ Advance(cb)
  <2>1. CASE TickIdle(Source) \/ Closes \/ Opens \/ Refreshes
    <3>1. Advance({}) /\ {} \subseteq 1 .. nreqs
      BY <2>1 DEF TickIdle, Closes, Opens, Refreshes
    <3> QED
      BY <3>1
  <2>2. CASE ServesAct
    <3>1. actq[1].id \in 1 .. nreqs
      BY <2>2, Heads DEF ServesAct, Reads, Writes
    <3> DEFINE cb == IF write_mode THEN {actq[1].id} ELSE {}
    <3>2. Advance(cb)
      BY <2>2 DEF ServesAct, Column
    <3>3. cb \subseteq 1 .. nreqs
      BY <3>1
    <3> QED
      BY <3>2, <3>3
  <2>3. CASE ServesHead
    <3>1. ModeQ[1].id \in 1 .. nreqs
      BY <2>3, ModeHead DEF ServesHead
    <3> DEFINE cb == IF write_mode1 THEN {ModeQ[1].id} ELSE {}
    <3>2. Advance(cb)
      BY <2>3 DEF ServesHead, Column
    <3>3. cb \subseteq 1 .. nreqs
      BY <3>1
    <3> QED
      BY <3>2, <3>3
  <2> QED
    BY <2>1, <2>2, <2>3, TickIs
<1>3. PICK cb : cb \subseteq 1 .. nreqs /\ Advance(cb)
  BY <1>2
<1> QED
  BY <1>1, <1>3, AdvanceType

(* The queues after a tick. *)
LEMMA TickQueues ==
    ASSUME IInv, Tick
    PROVE  /\ readq' \in Seq(Reads) /\ Sorted(readq') /\ Len(readq') <= Len(readq)
           /\ writeq' \in Seq(Writes) /\ Sorted(writeq') /\ Len(writeq') <= Len(writeq)
           /\ actq' \in Seq(Reads \cup Writes) /\ otherq' \in Seq({Refresh})
<1>1. /\ readq \in Seq(Reads) /\ writeq \in Seq(Writes) /\ Sorted(readq) /\ Sorted(writeq)
      /\ actq \in Seq(Reads \cup Writes)
  BY DEF IInv, QueueInv
<1>2. Len(readq) \in Nat /\ Len(writeq) \in Nat
  BY <1>1
<1>3. otherq1 \in Seq({Refresh})
  BY Heads
<1>4. CASE TickIdle(Source) \/ Closes
  BY <1>1, <1>2, <1>3, <1>4 DEF TickIdle, Closes
<1>5. CASE Opens
  <2>1. actq' = <<ModeQ[1]>> /\ otherq' = otherq1 /\ TakeHead
    BY <1>5 DEF Opens
  <2>2. actq' \in Seq(Reads \cup Writes)
    BY <2>1, ModeHead
  <2> QED
    BY <2>1, <2>2, <1>3, TakeHeadQueues
<1>6. CASE ServesAct
  <2>1. actq' = <<>> /\ otherq' = otherq1 /\ UNCHANGED <<readq, writeq>>
    BY <1>6 DEF ServesAct, Column
  <2> QED
    BY <2>1, <1>1, <1>2, <1>3
<1>7. CASE ServesHead
  <2>1. actq' = <<>> /\ otherq' = otherq1 /\ TakeHead
    BY <1>7 DEF ServesHead, Column
  <2>2. actq' \in Seq(Reads \cup Writes)
    BY <2>1
  <2> QED
    BY <2>1, <2>2, <1>3, TakeHeadQueues
<1>8. CASE Refreshes
  <2>1. /\ otherq' = Tail(otherq1) /\ otherq1 # <<>>
        /\ UNCHANGED <<readq, writeq, actq>>
    BY <1>8 DEF Refreshes
  <2>2. otherq' \in Seq({Refresh})
    BY <2>1, <1>3, TailFacts
  <2> QED
    BY <2>1, <2>2, <1>1, <1>2
<1> QED
  BY <1>4, <1>5, <1>6, <1>7, <1>8, TickIs

(* The device after a tick. *)
LEMMA TickDevice ==
    ASSUME IInv, Tick
    PROVE  wait' \in [Commands -> Nat] /\ row' \in Rows \cup {None} /\ table' = row'
<1>1. TypeOK /\ RowTableAgrees
  BY DEF IInv
<1>2. /\ row \in Rows \cup {None} /\ table = row /\ wait1 \in [Commands -> Nat]
  BY <1>1, Wait1Facts DEF TypeOK, RowTableAgrees
<1>3. CASE TickIdle(Source)
  BY <1>2, <1>3 DEF TickIdle
<1>4. CASE ~TickIdle(Source)
  <2>1. \E c \in Commands, r \in Rows \cup {None} :
           IssueCmd(c, r) /\ (c = "ACT" => row = None)
    <3>1. CASE Closes
      BY <3>1 DEF Closes, Commands
    <3>2. CASE Opens
      BY <3>2, ModeHead DEF Opens, Commands
    <3>3. CASE ServesAct
      BY <3>3, <1>2 DEF ServesAct, Column, ColCmd, Commands
    <3>4. CASE ServesHead
      BY <3>4, <1>2 DEF ServesHead, Column, ColCmd, Commands
    <3>5. CASE Refreshes
      BY <3>5 DEF Refreshes, Commands
    <3> QED
      BY <1>4, <3>1, <3>2, <3>3, <3>4, <3>5, TickIs
  <2>2. PICK c \in Commands, r \in Rows \cup {None} :
           IssueCmd(c, r) /\ (c = "ACT" => row = None)
    BY <2>1
  <2> QED
    BY <1>1, <2>2, IssueType
<1> QED
  BY <1>3, <1>4

(* The reads on their way, the order of service and the mode after a tick. *)
LEMMA TickRest ==
    ASSUME IInv, Tick
    PROVE  /\ pending' \in Seq([id : 1 .. nreqs, left : Nat])
           /\ served' \in Seq(1 .. nreqs)
           /\ write_mode' \in BOOLEAN /\ wm_blocked' \in BOOLEAN
<1>1. TypeOK /\ served \in Seq(1 .. nreqs) /\ wm_blocked \in BOOLEAN
  BY DEF IInv, TypeOK
<1>2. pending1 \in Seq([id : 1 .. nreqs, left : Nat])
  BY <1>1, PendingType
<1>3. write_mode1 \in BOOLEAN
  BY Modes
<1>4. ASSUME NEW req, NEW write, req.id \in 1 .. nreqs, Column(req, write)
      PROVE  /\ pending' \in Seq([id : 1 .. nreqs, left : Nat])
             /\ served' \in Seq(1 .. nreqs)
             /\ write_mode' \in BOOLEAN /\ wm_blocked' \in BOOLEAN
  <2>1. [id |-> req.id, left |-> ReadLatency] \in [id : 1 .. nreqs, left : Nat]
    BY <1>4, Params DEF ReadLatency
  <2>2. pending' \in Seq([id : 1 .. nreqs, left : Nat])
    <3>1. \/ pending' = pending1
          \/ pending' = Append(pending1, [id |-> req.id, left |-> ReadLatency])
      BY <1>4 DEF Column
    <3>2. Append(pending1, [id |-> req.id, left |-> ReadLatency])
              \in Seq([id : 1 .. nreqs, left : Nat])
      <4> DEFINE R == [id : 1 .. nreqs, left : Nat]
                 x == [id |-> req.id, left |-> ReadLatency]
      <4>1. pending1 \in Seq(R) /\ x \in R
        BY <2>1, <1>2
      <4> HIDE DEF R, x
      <4>2. Append(pending1, x) \in Seq(R)
        BY <4>1, AppendFacts
      <4> QED
        BY <4>2 DEF R, x
    <3> QED
      BY <3>1, <3>2, <1>2
  <2>3. served' \in Seq(1 .. nreqs)
    BY <1>1, <1>4, AppendFacts DEF Column
  <2>4. write_mode' \in BOOLEAN /\ wm_blocked' \in BOOLEAN
    <3>1. write_mode' = ModeByArrival(readq', writeq', write_mode1) /\ wm_blocked' = FALSE
      BY <1>4 DEF Column
    <3> QED
      BY <3>1, <1>3, ModeByArrivalType
  <2> QED
    BY <2>2, <2>3, <2>4
<1>5. CASE TickIdle(Source) \/ Closes \/ Opens
  <2>1. /\ pending' = pending1 /\ served' = served /\ write_mode' = write_mode1
        /\ wm_blocked' = wm_blocked \/ wm_blocked' = TRUE
    BY <1>5 DEF TickIdle, Closes, Opens
  <2> QED
    BY <2>1, <1>1, <1>2, <1>3
<1>6. CASE ServesAct
  <2>1. actq[1].id \in 1 .. nreqs /\ Column(actq[1], write_mode)
    BY <1>6, Heads DEF ServesAct, Reads, Writes
  <2> QED
    BY <2>1, <1>4
<1>7. CASE ServesHead
  <2>1. ModeQ[1].id \in 1 .. nreqs /\ Column(ModeQ[1], write_mode1)
    BY <1>7, ModeHead DEF ServesHead
  <2> QED
    BY <2>1, <1>4
<1>8. CASE Refreshes
  <2>1. /\ pending' = pending1 /\ served' = served /\ wm_blocked' = FALSE
        /\ write_mode' = ModeByArrival(readq, writeq, write_mode1)
    BY <1>8 DEF Refreshes
  <2> QED
    BY <2>1, <1>1, <1>2, <1>3, ModeByArrivalType
<1> QED
  BY <1>5, <1>6, <1>7, <1>8, TickIs

(* A tick keeps the types, the queues and the row table. *)
LEMMA TickTypes ==
    ASSUME IInv, Tick
    PROVE  TypeOK' /\ QueueInv' /\ RowTableAgrees'
<1>1. /\ nreqs \in Nat /\ now \in Nat /\ Len(readq) <= QMax /\ Len(writeq) <= QMax
      /\ Len(readq) \in Nat /\ Len(writeq) \in Nat /\ served \in Seq(1 .. nreqs)
  BY DEF IInv, TypeOK
<1>2. /\ nreqs' = nreqs /\ fresh' = 0 /\ now' \in Nat /\ now <= now'
      /\ refreshIn' \in 1 .. nREFI /\ done' \subseteq 1 .. nreqs
  BY TickClocks
<1>3. /\ readq' \in Seq(Reads) /\ Sorted(readq') /\ Len(readq') <= Len(readq)
      /\ writeq' \in Seq(Writes) /\ Sorted(writeq') /\ Len(writeq') <= Len(writeq)
      /\ actq' \in Seq(Reads \cup Writes) /\ otherq' \in Seq({Refresh})
  BY TickQueues
<1>4. Reads \subseteq Reads' /\ Writes \subseteq Writes'
  BY <1>1, <1>2, KindsGrow
<1>5. QueueInv'
  <2>1. /\ readq' \in Seq(Reads') /\ writeq' \in Seq(Writes')
        /\ actq' \in Seq(Reads' \cup Writes')
    <3>1. Reads \cup Writes \subseteq Reads' \cup Writes'
      BY <1>4
    <3> QED
      BY <1>3, <1>4, <3>1, SeqMono
  <2>2. Refresh' = Refresh
    BY DEF Refresh
  <2>3. (Sorted(readq))' /\ (Sorted(writeq))'
    BY <1>3 DEF Sorted
  <2> QED
    BY <2>1, <2>2, <2>3, <1>3 DEF QueueInv
<1>6. /\ readq' \in Seq(Request') /\ writeq' \in Seq(Request')
      /\ actq' \in Seq(Request') /\ otherq' \in Seq(Request')
  <2>1. nreqs' \in Nat /\ now' \in Nat
    BY <1>1, <1>2
  <2> QED
    BY <1>5, <2>1, QueueTypes
<1>7. Len(readq') <= QMax /\ Len(writeq') <= QMax
  <2>1. Len(readq') \in Nat /\ Len(writeq') \in Nat
    BY <1>3
  <2> QED
    BY <1>1, <1>3, <2>1, Params
<1>8. /\ pending' \in Seq([id : 1 .. nreqs', left : Nat])
      /\ served' \in Seq(1 .. nreqs')
      /\ write_mode' \in BOOLEAN /\ wm_blocked' \in BOOLEAN
  BY <1>2, TickRest
<1>9. /\ wait' \in [Commands -> Nat] /\ row' \in Rows \cup {None} /\ table' = row'
  BY TickDevice
<1>10. TypeOK'
  BY <1>1, <1>2, <1>6, <1>7, <1>8, <1>9 DEF TypeOK
<1> QED
  BY <1>5, <1>9, <1>10 DEF RowTableAgrees

-----------------------------------------------------------------------------
(* Every step keeps what is known of the activated request and the waits.  *)

(* The wait for a command after another one was issued. *)
LEMMA AfterCmd ==
    ASSUME TypeOK, NEW c \in Commands, NEW r, IssueCmd(c, r)
    PROVE  \A d \in Commands :
              /\ wait'[d] = (IF wait1[d] >= Delay(c, d) THEN wait1[d] ELSE Delay(c, d))
              /\ Delay(c, d) \in Int
  BY DelayType DEF IssueCmd, Later

(* The row after a command. *)
LEMMA RowAfter ==
    ASSUME NEW c, NEW r, IssueCmd(c, r)
    PROVE  /\ c = "ACT" => row' = r
           /\ c \in {"PRE", "PREA"} => row' = None
           /\ c \in {"RD", "WR", "REF"} => row' = row
  BY DEF IssueCmd

(* A column command goes to an open row. *)
LEMMA ColumnRow ==
    ASSUME IInv, ServesAct \/ ServesHead
    PROVE  /\ row # None /\ row' = row /\ actq' = <<>> /\ wm_blocked' = FALSE
           /\ \E c \in {"RD", "WR"} : IssueCmd(c, row) /\ wait1[c] = 0
<1>1. row # None
  <2>1. CASE ServesAct
    BY <2>1, ActCmd DEF ServesAct
  <2>2. CASE ServesHead
    <3>1. row = ModeQ[1].row /\ TakeHead
      BY <2>2 DEF ServesHead, Column
    <3>2. row \in Rows
      BY <3>1, ModeHead
    <3> QED
      BY <3>2, Params DEF None
  <2> QED
    BY <2>1, <2>2
<1>2. /\ \E c \in {"RD", "WR"} : IssueCmd(c, row) /\ wait1[c] = 0
      /\ actq' = <<>> /\ wm_blocked' = FALSE
  BY DEF ServesAct, ServesHead, Column, ColCmd
<1>3. row' = row
  BY <1>2, RowAfter
<1> QED
  BY <1>1, <1>2, <1>3

(* The waits that matter, before and after a cycle. *)
LEMMA Waits ==
    ASSUME IInv
    PROVE  \A c \in {"ACT", "PRE", "PREA", "RD", "WR", "REF"} :
              /\ wait[c] \in Nat /\ wait1[c] \in Nat
              /\ wait[c] = 0 => wait1[c] = 0
              /\ wait[c] > 0 => wait1[c] = wait[c] - 1
  BY Wait1Facts DEF IInv, Commands

(* After an activation the column commands are allowed within nRAS, and    *)
(* the row may not be closed before.                                       *)
LEMMA OpensWaits ==
    ASSUME IInv, Opens
    PROVE  /\ wait'["RD"] <= nRAS /\ wait'["WR"] <= nRAS /\ nRAS <= wait'["PRE"]
           /\ wait'["PRE"] = wait'["PREA"]
<1>1. /\ row = None /\ wait1["ACT"] = 0 /\ IssueCmd("ACT", ModeQ[1].row)
  BY DEF Opens
<1>2. /\ wait["RD"] <= wait["ACT"] + nRAS /\ wait["WR"] <= wait["ACT"] + nRAS
      /\ wait["PRE"] = wait["PREA"]
  BY <1>1 DEF IInv, TimeInv
<1>3. \A d \in {"RD", "WR", "PRE", "PREA"} :
         /\ wait'[d] = (IF wait1[d] >= Delay("ACT", d) THEN wait1[d] ELSE Delay("ACT", d))
  BY <1>1, AfterCmd DEF IInv, Commands
<1>4. wait1["RD"] <= nRAS /\ wait1["WR"] <= nRAS
  BY <1>1, <1>2, Waits, Params
<1>5. wait1["PRE"] = wait1["PREA"]
  BY <1>2, Waits
<1>6. /\ Delay("ACT", "RD") = nRCDR /\ Delay("ACT", "WR") = nRCDW
      /\ Delay("ACT", "PRE") = nRAS /\ Delay("ACT", "PREA") = nRAS
      /\ nRCDR <= nRAS /\ nRCDW <= nRAS
  BY DelayFacts, GradeAssumption
<1>7. /\ wait1["PRE"] \in Nat /\ wait1["RD"] \in Nat /\ wait1["WR"] \in Nat
  BY Waits
<1> QED
  BY <1>3, <1>4, <1>5, <1>6, <1>7, Params

(* A tick keeps the part about the activated request. *)
LEMMA TickAct ==
    ASSUME IInv, Tick
    PROVE  ActInv'
<1>1. CASE TickIdle(Source)
  <2>1. /\ actq' = actq /\ wm_blocked' = wm_blocked /\ row' = row /\ wait' = wait1
        /\ write_mode' = write_mode1
    BY <1>1 DEF TickIdle
  <2>2. wm_blocked <=> actq # <<>>
    BY Modes
  <2>3. CASE actq = <<>>
    BY <2>1, <2>2, <2>3 DEF ActInv
  <2>4. CASE actq # <<>>
    <3>1. /\ Len(actq) = 1 /\ row = actq[1].row
          /\ write_mode <=> actq[1].type = "WRITE"
          /\ wait["RD"] <= wait["PRE"] /\ wait["WR"] <= wait["PRE"]
          /\ wait["RD"] <= nRAS /\ wait["WR"] <= nRAS
      BY <2>4 DEF IInv, ActInv
    <3>2. /\ wait1["RD"] <= wait1["PRE"] /\ wait1["WR"] <= wait1["PRE"]
          /\ wait1["RD"] <= nRAS /\ wait1["WR"] <= nRAS
      BY <3>1, Waits, Params
    <3>3. write_mode' = write_mode
      BY <2>1, <2>4, ActCmd
    <3> QED
      BY <2>1, <2>2, <2>4, <3>1, <3>2, <3>3 DEF ActInv
  <2> QED
    BY <2>3, <2>4
<1>2. CASE Closes
  BY <1>2, Modes DEF Closes, ActInv
<1>3. CASE Opens
  <2>1. /\ actq' = <<ModeQ[1]>> /\ wm_blocked' = TRUE /\ write_mode' = write_mode1
        /\ TakeHead /\ IssueCmd("ACT", ModeQ[1].row)
    BY <1>3 DEF Opens
  <2>2. row' = ModeQ[1].row /\ actq'[1] = ModeQ[1] /\ Len(actq') = 1 /\ actq' # <<>>
    BY <2>1, RowAfter
  <2>3. write_mode' <=> actq'[1].type = "WRITE"
    BY <2>1, <2>2, ModeHead, Modes
  <2>4. /\ wait'["RD"] <= nRAS /\ wait'["WR"] <= nRAS
        /\ wait'["RD"] <= wait'["PRE"] /\ wait'["WR"] <= wait'["PRE"]
    <3>1. /\ wait'["RD"] <= nRAS /\ wait'["WR"] <= nRAS /\ nRAS <= wait'["PRE"]
      BY <1>3, OpensWaits
    <3>2. wait'["RD"] \in Nat /\ wait'["WR"] \in Nat /\ wait'["PRE"] \in Nat
      BY TickDevice DEF Commands
    <3> QED
      BY <3>1, <3>2, Params
  <2> QED
    BY <2>1, <2>2, <2>3, <2>4 DEF ActInv
<1>4. CASE ServesAct \/ ServesHead
  BY <1>4, ColumnRow DEF ActInv
<1>5. CASE Refreshes
  BY <1>5 DEF Refreshes, ActInv
<1> QED
  BY <1>1, <1>2, <1>3, <1>4, <1>5, TickIs

(* A tick keeps the bounds on the column commands. *)
LEMMA TickTime ==
    ASSUME IInv, Tick
    PROVE  TimeInv'
<1>1. /\ wait["PREA"] = wait["PRE"]
      /\ row = None => /\ wait["RD"] <= wait["ACT"] + nRAS
                       /\ wait["WR"] <= wait["ACT"] + nRAS
      /\ row # None => /\ wait["RD"] <= wait["PRE"] + nRP + nRAS
                       /\ wait["WR"] <= wait["PRE"] + nRP + nRAS
  BY DEF IInv, TimeInv
<1>2. /\ wait1["PREA"] = wait1["PRE"]
      /\ row = None => /\ wait1["RD"] <= wait1["ACT"] + nRAS
                       /\ wait1["WR"] <= wait1["ACT"] + nRAS
      /\ row # None => /\ wait1["RD"] <= wait1["PRE"] + nRP + nRAS
                       /\ wait1["WR"] <= wait1["PRE"] + nRP + nRAS
  BY <1>1, Waits, Params
<1>3. \A c \in {"ACT", "PRE", "PREA", "RD", "WR"} : wait1[c] \in Nat
  BY Waits
<1>4. ASSUME NEW c \in Commands, NEW r, IssueCmd(c, r)
      PROVE  \A d \in {"ACT", "PRE", "PREA", "RD", "WR"} :
                wait'[d] = (IF wait1[d] >= Delay(c, d) THEN wait1[d] ELSE Delay(c, d))
  BY <1>4, AfterCmd DEF IInv, Commands
<1>5. CASE TickIdle(Source)
  BY <1>5, <1>2 DEF TickIdle, TimeInv
<1>6. CASE Closes
  <2>1. PICK c \in {"PRE", "PREA"} : IssueCmd(c, None)
    BY <1>6 DEF Closes
  <2>2. row # None /\ wait1["PRE"] = 0 /\ row' = None
    BY <1>6, <2>1, RowAfter DEF Closes
  <2>3. /\ Delay(c, "ACT") = nRP /\ Delay(c, "RD") = 0 /\ Delay(c, "WR") = 0
        /\ Delay(c, "PRE") = 0 /\ Delay(c, "PREA") = 0
    BY <2>1, DelayFacts
  <2>4. \A d \in {"ACT", "PRE", "PREA", "RD", "WR"} :
           wait'[d] = (IF wait1[d] >= Delay(c, d) THEN wait1[d] ELSE Delay(c, d))
    BY <2>1, <1>4 DEF Commands
  <2>5. /\ wait'["RD"] = wait1["RD"] /\ wait'["WR"] = wait1["WR"]
        /\ wait'["ACT"] >= nRP /\ wait'["ACT"] \in Nat
        /\ wait'["PRE"] = wait1["PRE"] /\ wait'["PREA"] = wait1["PREA"]
    BY <2>3, <2>4, <1>3, Params
  <2>6. /\ wait'["RD"] <= wait'["ACT"] + nRAS /\ wait'["WR"] <= wait'["ACT"] + nRAS
    BY <2>2, <2>5, <1>2, <1>3, Params
  <2> QED
    BY <2>2, <2>5, <2>6, <1>2 DEF TimeInv
<1>7. CASE Opens
  <2>1. /\ wait'["RD"] <= nRAS /\ wait'["WR"] <= nRAS /\ wait'["PRE"] = wait'["PREA"]
    BY <1>7, OpensWaits
  <2>2. row' \in Rows /\ row' # None
    <3>1. TakeHead /\ IssueCmd("ACT", ModeQ[1].row)
      BY <1>7 DEF Opens
    <3> QED
      BY <3>1, RowAfter, ModeHead, Params DEF None
  <2>3. wait'["RD"] \in Nat /\ wait'["WR"] \in Nat /\ wait'["PRE"] \in Nat
    BY TickDevice DEF Commands
  <2>4. /\ wait'["RD"] <= wait'["PRE"] + nRP + nRAS
        /\ wait'["WR"] <= wait'["PRE"] + nRP + nRAS
    BY <2>1, <2>3, Params
  <2> QED
    BY <2>1, <2>2, <2>4 DEF TimeInv
<1>8. CASE ServesAct \/ ServesHead
  <2>1. row # None /\ row' = row
    BY <1>8, ColumnRow
  <2>2. PICK c \in {"RD", "WR"} : IssueCmd(c, row)
    BY <1>8, ColumnRow
  <2>3. \A d \in {"ACT", "PRE", "PREA", "RD", "WR"} :
           wait'[d] = (IF wait1[d] >= Delay(c, d) THEN wait1[d] ELSE Delay(c, d))
    BY <2>2, <1>4 DEF Commands
  <2>4. Delay(c, "PREA") = Delay(c, "PRE") /\ Delay(c, "PRE") \in Nat
    BY <2>2, DelayFacts, Params
  <2>5. wait'["PREA"] = wait'["PRE"]
    BY <2>3, <2>4, <1>2
  <2>6. /\ Delay(c, "RD") \in Int /\ Delay(c, "RD") <= Delay(c, "PRE") + nRP + nRAS
        /\ Delay(c, "WR") \in Int /\ Delay(c, "WR") <= Delay(c, "PRE") + nRP + nRAS
    <3>1. /\ nBL <= nRTP + nRP + nRAS /\ nCCDL <= nRTP + nRP + nRAS
          /\ nBL <= nCWL + nBL + nWR + nRP + nRAS /\ nCCDL <= nCWL + nBL + nWR + nRP + nRAS
          /\ nCL + nCCDL + 2 - nCWL <= nRTP + nRP + nRAS
          /\ nWTRL <= nWR + nRP + nRAS
      BY GradeAssumption
    <3>2. Later(nBL, nCCDL) \in {nBL, nCCDL}
      BY DEF Later
    <3>3. CASE c = "RD"
      <4>1. /\ Delay(c, "RD") = Later(nBL, nCCDL) /\ Delay(c, "PRE") = nRTP
            /\ Delay(c, "WR") = nCL + nCCDL + 2 - nCWL
        BY <3>3, DelayFacts
      <4> QED
        BY <4>1, <3>1, <3>2, Params
    <3>4. CASE c = "WR"
      <4>1. /\ Delay(c, "WR") = Later(nBL, nCCDL) /\ Delay(c, "PRE") = nCWL + nBL + nWR
            /\ Delay(c, "RD") = nCWL + nBL + nWTRL
        BY <3>4, DelayFacts
      <4> QED
        BY <4>1, <3>1, <3>2, Params
    <3> QED
      BY <2>2, <3>3, <3>4
  <2>7. /\ wait'["RD"] <= wait'["PRE"] + nRP + nRAS
        /\ wait'["WR"] <= wait'["PRE"] + nRP + nRAS
    BY <2>1, <2>3, <2>4, <2>6, <1>2, <1>3, Params
  <2> QED
    BY <2>1, <2>5, <2>7 DEF TimeInv
<1>9. CASE Refreshes
  <2>1. row = None /\ IssueCmd("REF", None) /\ row' = row
    BY <1>9, RowAfter DEF Refreshes
  <2>2. \A d \in {"ACT", "PRE", "PREA", "RD", "WR"} :
           wait'[d] = (IF wait1[d] >= Delay("REF", d) THEN wait1[d] ELSE Delay("REF", d))
    BY <2>1, <1>4 DEF Commands
  <2>3. /\ Delay("REF", "ACT") = nRFC /\ Delay("REF", "RD") = 0
        /\ Delay("REF", "WR") = 0 /\ Delay("REF", "PRE") = 0 /\ Delay("REF", "PREA") = 0
    BY DelayFacts
  <2>4. /\ wait'["RD"] = wait1["RD"] /\ wait'["WR"] = wait1["WR"]
        /\ wait'["PRE"] = wait1["PRE"] /\ wait'["PREA"] = wait1["PREA"]
        /\ wait'["ACT"] \in Nat /\ wait1["ACT"] <= wait'["ACT"]
    BY <2>2, <2>3, <1>3, Params
  <2>5. /\ wait'["RD"] <= wait'["ACT"] + nRAS /\ wait'["WR"] <= wait'["ACT"] + nRAS
    BY <2>1, <2>4, <1>2, <1>3, Params
  <2> QED
    BY <2>1, <2>4, <2>5, <1>2 DEF TimeInv
<1> QED
  BY <1>5, <1>6, <1>7, <1>8, <1>9, TickIs

-----------------------------------------------------------------------------
(* The invariant. *)

(* The request that enqueue_AB makes. *)
NewReq(type, r) == [id |-> nreqs + 1, type |-> type, row |-> r, arrive |-> now]

(* enqueue_AB appends to one of the two queues. *)
LEMMA EnqueueIs ==
    ASSUME NEW t \in {"READ", "WRITE"}, NEW r, Enqueue(t, r)
    PROVE  /\ nreqs' = nreqs + 1 /\ fresh' = fresh + 1 /\ fresh < PerCycle
           /\ UNCHANGED <<actq, otherq, pending, write_mode, wm_blocked, row,
                          table, wait, refreshIn, now, served, done>>
           /\ \/ /\ t = "READ" /\ Len(readq) < QMax /\ writeq' = writeq
                 /\ readq' = Append(readq, NewReq("READ", r))
              \/ /\ t = "WRITE" /\ Len(writeq) < QMax /\ readq' = readq
                 /\ writeq' = Append(writeq, NewReq("WRITE", r))
  BY DEF Enqueue, NewReq

(* enqueue_AB keeps the types and the queues. *)
LEMMA EnqueueTypes ==
    ASSUME IInv, NEW t \in {"READ", "WRITE"}, NEW r \in Rows, Enqueue(t, r)
    PROVE  TypeOK' /\ QueueInv'
<1>1. /\ nreqs' = nreqs + 1 /\ fresh' = fresh + 1
      /\ UNCHANGED <<actq, otherq, pending, write_mode, wm_blocked, row,
                     table, wait, refreshIn, now, served, done>>
  BY EnqueueIs
<1>2. /\ readq \in Seq(Reads) /\ writeq \in Seq(Writes) /\ Sorted(readq) /\ Sorted(writeq)
      /\ actq \in Seq(Reads \cup Writes) /\ otherq \in Seq({Refresh})
  BY DEF IInv, QueueInv
<1>3. /\ nreqs \in Nat /\ now \in Nat /\ nreqs' \in Nat /\ now' \in Nat
      /\ nreqs <= nreqs' /\ now <= now'
  BY <1>1 DEF IInv, TypeOK
<1>4. Reads \subseteq Reads' /\ Writes \subseteq Writes'
  BY <1>3, KindsGrow
<1>5. /\ readq \in Seq(Reads') /\ writeq \in Seq(Writes')
      /\ actq' \in Seq(Reads' \cup Writes')
  <2>1. Reads \cup Writes \subseteq Reads' \cup Writes'
    BY <1>4
  <2> QED
    BY <1>1, <1>2, <1>4, <2>1, SeqMono
<1>6. /\ Len(readq) <= QMax /\ Len(writeq) <= QMax
      /\ Len(readq) \in Nat /\ Len(writeq) \in Nat
  BY <1>2 DEF IInv, TypeOK
<1>7. /\ readq' \in Seq(Reads') /\ Sorted(readq') /\ Len(readq') <= QMax
      /\ writeq' \in Seq(Writes') /\ Sorted(writeq') /\ Len(writeq') <= QMax
  <2>1. CASE /\ Len(readq) < QMax /\ writeq' = writeq
             /\ readq' = Append(readq, NewReq("READ", r))
    <3> DEFINE x == NewReq("READ", r)
    <3>1. x \in Reads' /\ x.arrive = now
      BY <1>1, <1>3 DEF NewReq, Reads
    <3>2. \A i \in 1 .. Len(readq) : readq[i].arrive <= x.arrive
      <4> SUFFICES ASSUME NEW i \in 1 .. Len(readq) PROVE readq[i].arrive <= x.arrive
        OBVIOUS
      <4>1. readq[i] \in Reads
        BY <1>2
      <4> QED
        BY <4>1, <3>1, <1>3 DEF Reads
    <3> HIDE DEF x
    <3>3. Append(readq, x) \in Seq(Reads') /\ Len(Append(readq, x)) = Len(readq) + 1
      BY <1>5, <3>1, AppendFacts
    <3>4. Sorted(Append(readq, x))
      BY <1>2, <1>5, <3>1, <3>2, SortedAppend
    <3>5. readq' = Append(readq, x)
      BY <2>1 DEF x
    <3> QED
      BY <2>1, <1>2, <1>5, <1>6, <3>3, <3>4, <3>5, Params
  <2>2. CASE /\ Len(writeq) < QMax /\ readq' = readq
             /\ writeq' = Append(writeq, NewReq("WRITE", r))
    <3> DEFINE x == NewReq("WRITE", r)
    <3>1. x \in Writes' /\ x.arrive = now
      BY <1>1, <1>3 DEF NewReq, Writes
    <3>2. \A i \in 1 .. Len(writeq) : writeq[i].arrive <= x.arrive
      <4> SUFFICES ASSUME NEW i \in 1 .. Len(writeq) PROVE writeq[i].arrive <= x.arrive
        OBVIOUS
      <4>1. writeq[i] \in Writes
        BY <1>2
      <4> QED
        BY <4>1, <3>1, <1>3 DEF Writes
    <3> HIDE DEF x
    <3>3. Append(writeq, x) \in Seq(Writes') /\ Len(Append(writeq, x)) = Len(writeq) + 1
      BY <1>5, <3>1, AppendFacts
    <3>4. Sorted(Append(writeq, x))
      BY <1>2, <1>5, <3>1, <3>2, SortedAppend
    <3>5. writeq' = Append(writeq, x)
      BY <2>2 DEF x
    <3> QED
      BY <2>2, <1>2, <1>5, <1>6, <3>3, <3>4, <3>5, Params
  <2> QED
    BY <2>1, <2>2, EnqueueIs
<1>8. QueueInv'
  <2>1. (Sorted(readq))' /\ (Sorted(writeq))' /\ Refresh' = Refresh
    BY <1>7 DEF Sorted, Refresh
  <2> QED
    BY <1>1, <1>2, <1>5, <1>7, <2>1 DEF QueueInv
<1>9. /\ readq' \in Seq(Request') /\ writeq' \in Seq(Request')
      /\ actq' \in Seq(Request') /\ otherq' \in Seq(Request')
  BY <1>3, <1>8, QueueTypes
<1>10. /\ pending' \in Seq([id : 1 .. nreqs', left : Nat])
       /\ served' \in Seq(1 .. nreqs') /\ done' \subseteq 1 .. nreqs'
  <2>1. /\ pending \in Seq([id : 1 .. nreqs, left : Nat])
        /\ served \in Seq(1 .. nreqs) /\ done \subseteq 1 .. nreqs
    BY DEF IInv, TypeOK
  <2>2. 1 .. nreqs \subseteq 1 .. nreqs'
    BY <1>3
  <2>3. [id : 1 .. nreqs, left : Nat] \subseteq [id : 1 .. nreqs', left : Nat]
    BY <2>2
  <2>4. pending \in Seq([id : 1 .. nreqs', left : Nat]) /\ served \in Seq(1 .. nreqs')
    <3> DEFINE P == [id : 1 .. nreqs, left : Nat]
               Q == [id : 1 .. nreqs', left : Nat]
    <3>1. pending \in Seq(P) /\ P \subseteq Q
      BY <2>1, <2>3
    <3> HIDE DEF P, Q
    <3>2. pending \in Seq(Q)
      BY <3>1, SeqMono
    <3> QED
      BY <3>2, <2>1, <2>2, SeqMono DEF Q
  <2> QED
    BY <1>1, <2>1, <2>2, <2>4
<1>11. /\ write_mode' \in BOOLEAN /\ wm_blocked' \in BOOLEAN
       /\ row' \in Rows \cup {None} /\ table' \in Rows \cup {None}
       /\ wait' \in [Commands -> Nat] /\ refreshIn' \in 1 .. nREFI
       /\ fresh' \in Nat
  BY <1>1 DEF IInv, TypeOK
<1>12. TypeOK'
  BY <1>3, <1>7, <1>9, <1>10, <1>11 DEF TypeOK
<1> QED
  BY <1>8, <1>12

(* The initial state. *)
LEMMA InitIInv ==
    ASSUME Init
    PROVE  IInv
<1>1. TypeOK
  <2>1. \A S : <<>> \in Seq(S)
    OBVIOUS
  <2>2. /\ readq \in Seq(Request) /\ writeq \in Seq(Request)
        /\ actq \in Seq(Request) /\ otherq \in Seq(Request)
        /\ pending \in Seq([id : 1 .. nreqs, left : Nat])
        /\ served \in Seq(1 .. nreqs)
    BY <2>1, Zenon DEF Init
  <2>3. Len(readq) <= QMax /\ Len(writeq) <= QMax
    BY Params DEF Init
  <2>4. /\ write_mode \in BOOLEAN /\ wm_blocked \in BOOLEAN
        /\ row \in Rows \cup {None} /\ table \in Rows \cup {None}
        /\ wait \in [Commands -> Nat] /\ done \subseteq 1 .. nreqs
    BY DEF Init
  <2>5. /\ refreshIn \in 1 .. nREFI /\ now \in Nat /\ fresh \in Nat /\ nreqs \in Nat
    BY Params DEF Init
  <2> QED
    BY <2>2, <2>3, <2>4, <2>5 DEF TypeOK
<1>2. QueueInv
  BY DEF Init, QueueInv, Sorted
<1>3. ActInv /\ RowTableAgrees
  BY DEF Init, ActInv, RowTableAgrees
<1>4. TimeInv
  BY Params DEF Init, TimeInv, Commands
<1> QED
  BY <1>1, <1>2, <1>3, <1>4 DEF IInv

(* Every step keeps the invariant. *)
LEMMA NextIInv ==
    ASSUME IInv, [Next]_vars
    PROVE  IInv'
<1>1. CASE Tick
  BY <1>1, TickTypes, TickAct, TickTime DEF IInv
<1>2. ASSUME NEW t \in {"READ", "WRITE"}, NEW r \in Rows, Enqueue(t, r)
      PROVE  IInv'
  <2>1. TypeOK' /\ QueueInv'
    BY <1>2, EnqueueTypes
  <2>2. UNCHANGED <<actq, write_mode, wm_blocked, row, table, wait>>
    BY <1>2, EnqueueIs
  <2>3. ActInv' /\ TimeInv' /\ RowTableAgrees'
    BY <2>2 DEF IInv, ActInv, TimeInv, RowTableAgrees
  <2> QED
    BY <2>1, <2>3 DEF IInv
<1>3. CASE UNCHANGED vars
  <2>1. UNCHANGED <<readq, writeq, actq, otherq, pending, write_mode, wm_blocked, row,
                    table, wait, refreshIn, now, fresh, nreqs, served, done>>
    BY <1>3 DEF vars, queues
  <2>2. TypeOK'
    BY <2>1 DEF IInv, TypeOK, Request
  <2>3. QueueInv'
    BY <2>1 DEF IInv, QueueInv, Sorted, Reads, Writes, Refresh
  <2>4. ActInv' /\ TimeInv' /\ RowTableAgrees'
    BY <2>1 DEF IInv, ActInv, TimeInv, RowTableAgrees
  <2> QED
    BY <2>2, <2>3, <2>4 DEF IInv
<1> QED
  BY <1>1, <1>2, <1>3 DEF Next

(* The controller's invariant holds in every reachable state. *)
THEOREM ControllerInvariant == Spec => []IInv
<1>1. Init => IInv
  BY InitIInv
<1>2. IInv /\ [Next]_vars => IInv'
  BY NextIInv
<1> QED
  BY <1>1, <1>2, PTL DEF Spec

(* Queues, clocks and histories of the controller keep their types, and    *)
(* the two queues that enqueue_AB fills never hold more than Queue::max.   *)
THEOREM TypeCorrect == Spec => []TypeOK
<1>1. IInv => TypeOK
  BY DEF IInv
<1> QED
  BY <1>1, ControllerInvariant, PTL

(* The row table and the row buffers never disagree, so the assertions of  *)
(* RowTable::update on the entry of a row hold.                            *)
THEOREM RowTableCorrect == Spec => []RowTableAgrees
<1>1. IInv => RowTableAgrees
  BY DEF IInv
<1> QED
  BY <1>1, ControllerInvariant, PTL

(* A request that tick_AB activates keeps its row open until it has had    *)
(* its column command, for every timing that satisfies the assumptions on  *)
(* the speed grade.                                                        *)
THEOREM ActivationsUseful == Spec => []NoUselessActivation
<1>1. IInv => NoUselessActivation
  BY DEF IInv, ActInv, NoUselessActivation
<1> QED
  BY <1>1, ControllerInvariant, PTL

-----------------------------------------------------------------------------
(* Refreshes keep up. *)

(* The later of two times. *)
LEMMA LaterFacts ==
    ASSUME NEW a \in Int, NEW b \in Int
    PROVE  /\ Later(a, b) \in {a, b} /\ a <= Later(a, b) /\ b <= Later(a, b)
           /\ Later(a, b) \in Int /\ Later(a - 1, b - 1) = Later(a, b) - 1
  BY DEF Later

(* The longest time from a column command to a precharge. *)
LEMMA ColPreFacts ==
    /\ ColPre \in Nat \ {0} /\ nRTP <= ColPre /\ nCWL + nBL + nWR <= ColPre
    /\ nRFC <= nREFI /\ nRAS + ColPre + nRP <= nREFI
<1>1. /\ nRTP \in Nat \ {0} /\ nCWL + nBL + nWR \in Nat \ {0}
  BY Params
<1>2. ColPre \in {nRTP, nCWL + nBL + nWR}
  BY DEF ColPre, Later
<1>3. nRTP <= ColPre /\ nCWL + nBL + nWR <= ColPre
  BY <1>1 DEF ColPre, Later
<1>4. nRFC <= nREFI /\ nRAS + ColPre + nRP <= nREFI
  BY <1>2, RefreshAssumption
<1> QED
  BY <1>1, <1>2, <1>3, <1>4

(* The waits of a tick, by its outcome. *)
LEMMA TickWait ==
    ASSUME IInv, WaitInv, Tick
    PROVE  WaitInv'
<1>1. /\ row # None => wait["REF"] = 0
      /\ row = None => wait["REF"] <= wait["ACT"]
      /\ wait["REF"] <= Later(nRP, nRFC) /\ wait["PRE"] <= Later(nRAS, ColPre)
  BY DEF WaitInv
<1>2. \A c \in {"ACT", "PRE", "REF"} : wait[c] \in Nat /\ wait1[c] \in Nat
  BY Waits
<1>3. /\ Later(nRP, nRFC) \in Nat /\ nRP <= Later(nRP, nRFC) /\ nRFC <= Later(nRP, nRFC)
      /\ Later(nRAS, ColPre) \in Nat /\ nRAS <= Later(nRAS, ColPre)
      /\ ColPre <= Later(nRAS, ColPre)
  BY Params, ColPreFacts DEF Later
<1> DEFINE A == Later(nRP, nRFC)
           B == Later(nRAS, ColPre)
<1> HIDE DEF A, B
<1>4. /\ row # None => wait1["REF"] = 0
      /\ row = None => wait1["REF"] <= wait1["ACT"]
      /\ wait1["REF"] <= A /\ wait1["PRE"] <= B
  BY <1>1, <1>3, Waits DEF A, B
<1>5. ASSUME NEW c \in Commands, NEW r, IssueCmd(c, r)
      PROVE  \A d \in {"ACT", "PRE", "REF"} :
                wait'[d] = (IF wait1[d] >= Delay(c, d) THEN wait1[d] ELSE Delay(c, d))
  BY <1>5, AfterCmd DEF IInv, Commands
<1>6. SUFFICES /\ row' # None => wait'["REF"] = 0
               /\ row' = None => wait'["REF"] <= wait'["ACT"]
               /\ wait'["REF"] <= A /\ wait'["PRE"] <= B
  BY DEF WaitInv, A, B, ColPre
<1>7. CASE TickIdle(Source)
  BY <1>4, <1>7 DEF TickIdle
<1>8. CASE Closes
  <2>1. PICK c \in {"PRE", "PREA"} : IssueCmd(c, None)
    BY <1>8 DEF Closes
  <2>2. row # None /\ row' = None
    BY <1>8, <2>1, RowAfter DEF Closes
  <2>3. Delay(c, "ACT") = nRP /\ Delay(c, "REF") = nRP /\ Delay(c, "PRE") = 0
    BY <2>1, DelayFacts
  <2>4. \A d \in {"ACT", "PRE", "REF"} :
           wait'[d] = (IF wait1[d] >= Delay(c, d) THEN wait1[d] ELSE Delay(c, d))
    BY <2>1, <1>5 DEF Commands
  <2>5. /\ wait'["REF"] = nRP /\ nRP <= wait'["ACT"] /\ wait'["PRE"] = wait1["PRE"]
    BY <2>2, <2>3, <2>4, <1>2, <1>4, Params
  <2> QED
    BY <2>2, <2>5, <1>3, <1>4 DEF A
<1>9. CASE Opens
  <2>1. row = None /\ wait1["ACT"] = 0 /\ IssueCmd("ACT", ModeQ[1].row) /\ TakeHead
    BY <1>9 DEF Opens
  <2>2. row' # None
    BY <2>1, RowAfter, ModeHead, Params DEF None
  <2>3. Delay("ACT", "REF") = 0 /\ Delay("ACT", "PRE") = nRAS
    BY DelayFacts
  <2>4. \A d \in {"ACT", "PRE", "REF"} :
           wait'[d] = (IF wait1[d] >= Delay("ACT", d) THEN wait1[d] ELSE Delay("ACT", d))
    BY <2>1, <1>5 DEF Commands
  <2>5. wait'["REF"] = 0 /\ wait'["PRE"] <= B
    BY <2>1, <2>3, <2>4, <1>2, <1>3, <1>4, Params DEF B
  <2> QED
    BY <2>2, <2>5, <1>3 DEF A
<1>10. CASE ServesAct \/ ServesHead
  <2>1. row # None /\ row' = row
    BY <1>10, ColumnRow
  <2>2. PICK c \in {"RD", "WR"} : IssueCmd(c, row)
    BY <1>10, ColumnRow
  <2>3. Delay(c, "REF") = 0 /\ Delay(c, "PRE") \in Nat /\ Delay(c, "PRE") <= ColPre
    BY <2>2, DelayFacts, ColPreFacts, Params
  <2>4. \A d \in {"ACT", "PRE", "REF"} :
           wait'[d] = (IF wait1[d] >= Delay(c, d) THEN wait1[d] ELSE Delay(c, d))
    BY <2>2, <1>5 DEF Commands
  <2>5. wait'["REF"] = 0
    BY <2>1, <2>3, <2>4, <1>4
  <2>6. wait'["PRE"] <= B
    BY <2>3, <2>4, <1>2, <1>3, <1>4, ColPreFacts DEF B
  <2> QED
    BY <2>1, <2>5, <2>6, <1>3 DEF A
<1>11. CASE Refreshes
  <2>1. row = None /\ wait1["REF"] = 0 /\ IssueCmd("REF", None) /\ row' = row
    BY <1>11, RowAfter DEF Refreshes
  <2>2. /\ Delay("REF", "ACT") = nRFC /\ Delay("REF", "REF") = nRFC
        /\ Delay("REF", "PRE") = 0
    BY DelayFacts
  <2>3. \A d \in {"ACT", "PRE", "REF"} :
           wait'[d] = (IF wait1[d] >= Delay("REF", d) THEN wait1[d] ELSE Delay("REF", d))
    BY <2>1, <1>5 DEF Commands
  <2>4. /\ wait'["REF"] = nRFC /\ nRFC <= wait'["ACT"] /\ wait'["PRE"] = wait1["PRE"]
    BY <2>1, <2>2, <2>3, <1>2, Params
  <2> QED
    BY <2>1, <2>4, <1>3, <1>4 DEF A
<1> QED
  BY <1>7, <1>8, <1>9, <1>10, <1>11, TickIs

(* A refresh that has just become due can be issued in time. *)
LEMMA LeftBound ==
    ASSUME TypeOK', ActInv', WaitInv'
    PROVE  Left' <= nREFI
<1>1. /\ wait'["REF"] \in Nat /\ wait'["PRE"] \in Nat /\ wait'["RD"] \in Nat
      /\ wait'["WR"] \in Nat
  BY DEF TypeOK, Commands
<1>2. /\ wait'["REF"] <= Later(nRP, nRFC) /\ wait'["PRE"] <= Later(nRAS, ColPre)
  BY DEF WaitInv, ColPre
<1>3. actq' # <<>> => wait'["RD"] <= nRAS /\ wait'["WR"] <= nRAS
  BY DEF ActInv
<1>4. Left' = IF row' = None THEN Later(wait'["REF"], 1)
              ELSE IF actq' = <<>> THEN Later(wait'["PRE"], 1) + nRP
              ELSE Later(wait'["PRE"],
                         Later(Later(wait'["RD"], wait'["WR"]), 1) + ColPre) + nRP
  BY DEF Left, ColPre
<1>5. Later(wait'["REF"], 1) <= nREFI
  BY <1>1, <1>2, ColPreFacts, Params DEF Later
<1>6. Later(wait'["PRE"], 1) + nRP <= nREFI
  BY <1>1, <1>2, ColPreFacts, Params DEF Later
<1>7. actq' # <<>> => Later(wait'["PRE"],
                            Later(Later(wait'["RD"], wait'["WR"]), 1) + ColPre) + nRP <= nREFI
  <2> SUFFICES ASSUME actq' # <<>>
               PROVE  Later(wait'["PRE"],
                            Later(Later(wait'["RD"], wait'["WR"]), 1) + ColPre) + nRP <= nREFI
    OBVIOUS
  <2> DEFINE M == Later(Later(wait'["RD"], wait'["WR"]), 1)
  <2>1. M \in Nat /\ M <= nRAS
    BY <1>1, <1>3, Params DEF Later
  <2> HIDE DEF M
  <2>2. Later(wait'["PRE"], M + ColPre) + nRP <= nREFI
    BY <2>1, <1>1, <1>2, ColPreFacts, Params DEF Later
  <2> QED
    BY <2>2 DEF M
<1> QED
  BY <1>4, <1>5, <1>6, <1>7

(* While a refresh is queued, a tick issues it or brings it nearer. *)
LEMMA LeftFalls ==
    ASSUME IInv, WaitInv, Tick, otherq1 # <<>>
    PROVE  /\ Refreshes \/ (otherq' = otherq1 /\ Left' <= Left - 1)
           /\ Left <= 1 => Refreshes
           /\ Left \in Nat
<1>1. \A c \in {"ACT", "PRE", "PREA", "RD", "WR", "REF"} :
         /\ wait[c] \in Nat /\ wait1[c] \in Nat
         /\ wait[c] = 0 => wait1[c] = 0
         /\ wait[c] > 0 => wait1[c] = wait[c] - 1
  BY Waits
<1>2. Left' = IF row' = None THEN Later(wait'["REF"], 1)
              ELSE IF actq' = <<>> THEN Later(wait'["PRE"], 1) + nRP
              ELSE Later(wait'["PRE"],
                         Later(Later(wait'["RD"], wait'["WR"]), 1) + ColPre) + nRP
  BY DEF Left, ColPre
<1>3. Left = IF row = None THEN Later(wait["REF"], 1)
             ELSE IF actq = <<>> THEN Later(wait["PRE"], 1) + nRP
             ELSE Later(wait["PRE"],
                        Later(Later(wait["RD"], wait["WR"]), 1) + ColPre) + nRP
  BY DEF Left
<1>4. actq # <<>> => row # None
  BY ActCmd
<1>5. Left \in Nat /\ (row # None => Left >= 2)
  <2>1. CASE row = None
    BY <2>1, <1>1, <1>3 DEF Later
  <2>2. CASE row # None /\ actq = <<>>
    BY <2>2, <1>1, <1>3, Params DEF Later
  <2>3. CASE row # None /\ actq # <<>>
    <3> DEFINE M == Later(Later(wait["RD"], wait["WR"]), 1)
    <3>1. M \in Nat /\ M >= 1
      BY <1>1 DEF Later
    <3>2. Left = Later(wait["PRE"], M + ColPre) + nRP
      BY <2>3, <1>3
    <3> HIDE DEF M
    <3>3. M + ColPre \in Int /\ wait["PRE"] \in Int /\ M + ColPre >= 1
      BY <3>1, <1>1, ColPreFacts
    <3>4. Later(wait["PRE"], M + ColPre) \in Int /\ M + ColPre <= Later(wait["PRE"], M + ColPre)
      BY <3>3, LaterFacts
    <3> QED
      BY <3>2, <3>3, <3>4, Params
  <2> QED
    BY <2>1, <2>2, <2>3
<1>6. CASE TickIdle(Source)
  <2>1. /\ ~Valid(Source) /\ row' = row /\ actq' = actq /\ wait' = wait1
        /\ otherq' = otherq1
    BY <1>6 DEF TickIdle
  <2>2. CASE actq = <<>>
    <3>1. ~ActReady
      BY <2>2 DEF ActReady
    <3>2. Source = "other" /\ GetHead(otherq1) = Refresh
      BY <3>1, Heads DEF Source
    <3>3. wait1[FirstCmd(Refresh)] # 0
      BY <2>1, <3>2 DEF Valid, QueueOf, IsReady
    <3>4. FirstCmd(Refresh) = IF row = None THEN "REF" ELSE "PREA"
      BY DEF FirstCmd, Refresh
    <3>5. CASE row = None
      <4>1. wait1["REF"] # 0
        BY <3>3, <3>4, <3>5
      <4>2. Left = wait["REF"] /\ Left' = wait["REF"] - 1 /\ wait["REF"] >= 2
        BY <4>1, <3>5, <2>1, <1>1, <1>2, <1>3 DEF Later
      <4> QED
        BY <4>2, <2>1, <1>1, <1>5
    <3>6. CASE row # None
      <4>1. wait1["PRE"] # 0
        BY <3>3, <3>4, <3>6, Modes
      <4>2. Left = wait["PRE"] + nRP /\ Left' = wait["PRE"] - 1 + nRP /\ wait["PRE"] >= 2
        BY <4>1, <3>6, <2>1, <2>2, <1>1, <1>2, <1>3, Params DEF Later
      <4> QED
        BY <4>2, <2>1, <1>1, <1>5, Params
    <3> QED
      BY <3>5, <3>6
  <2>3. CASE actq # <<>>
    <3>1. ~ActReady
      BY <2>1, <2>3 DEF Source, Valid, QueueOf, ActReady
    <3>2. wait1[ColCmd(write_mode)] # 0 /\ ColCmd(write_mode) \in {"RD", "WR"}
      BY <2>3, <3>1, ActCmd DEF ColCmd
    <3>3. wait["RD"] >= 2 \/ wait["WR"] >= 2
      BY <3>2, <1>1
    <3>4. wait["RD"] <= wait["PRE"] /\ wait["WR"] <= wait["PRE"]
      BY <2>3 DEF IInv, ActInv
    <3> DEFINE M == Later(Later(wait["RD"], wait["WR"]), 1)
               M1 == Later(Later(wait1["RD"], wait1["WR"]), 1)
    <3>5. M \in Nat /\ M1 = M - 1
      BY <3>3, <1>1 DEF Later
    <3>6. wait1["PRE"] = wait["PRE"] - 1
      BY <3>3, <3>4, <1>1
    <3>7. /\ Left = Later(wait["PRE"], M + ColPre) + nRP
          /\ Left' = Later(wait1["PRE"], M1 + ColPre) + nRP
      BY <2>1, <2>3, <1>2, <1>3, <1>4
    <3> HIDE DEF M, M1
    <3>8. Left' = Left - 1
      <4>1. wait["PRE"] \in Int /\ M + ColPre \in Int /\ nRP \in Int
        BY <3>5, <1>1, Params, ColPreFacts
      <4>2. wait1["PRE"] = wait["PRE"] - 1 /\ M1 + ColPre = (M + ColPre) - 1
        BY <3>5, <3>6, ColPreFacts
      <4>3. /\ Later(wait["PRE"] - 1, (M + ColPre) - 1) = Later(wait["PRE"], M + ColPre) - 1
            /\ Later(wait["PRE"], M + ColPre) \in Int
        BY <4>1, LaterFacts
      <4> QED
        BY <4>1, <4>2, <4>3, <3>7
    <3> QED
      BY <3>8, <2>1, <2>3, <1>4, <1>5
  <2> QED
    BY <2>2, <2>3
<1>7. CASE Closes
  <2>1. PICK c \in {"PRE", "PREA"} : IssueCmd(c, None)
    BY <1>7 DEF Closes
  <2>2. /\ row # None /\ row' = None /\ wait1["PRE"] = 0 /\ actq = <<>>
        /\ otherq' = otherq1
    BY <1>7, <2>1, RowAfter DEF Closes
  <2>3. wait'["REF"] = (IF wait1["REF"] >= Delay(c, "REF") THEN wait1["REF"] ELSE Delay(c, "REF"))
    BY <2>1, AfterCmd DEF IInv, Commands
  <2>4. Delay(c, "REF") = nRP
    BY <2>1, DelayFacts
  <2>5. wait["REF"] = 0
    BY <2>2 DEF WaitInv
  <2>6. wait'["REF"] = nRP
    BY <2>3, <2>4, <2>5, <1>1, Params
  <2>7. Left' = nRP /\ Left = 1 + nRP
    BY <2>2, <2>6, <1>1, <1>2, <1>3, Params DEF Later
  <2> QED
    BY <2>2, <2>7, <1>5, Params
<1>8. CASE Opens \/ ServesHead
  BY <1>8 DEF Opens, ServesHead
<1>9. CASE ServesAct
  <2>1. /\ actq # <<>> /\ actq' = <<>> /\ row # None /\ row' = row /\ otherq' = otherq1
    BY <1>9, ColumnRow DEF ServesAct, Column
  <2>2. PICK c \in {"RD", "WR"} : IssueCmd(c, row)
    BY <1>9, ColumnRow
  <2>3. wait'["PRE"] = (IF wait1["PRE"] >= Delay(c, "PRE") THEN wait1["PRE"] ELSE Delay(c, "PRE"))
    BY <2>2, AfterCmd DEF IInv, Commands
  <2>4. Delay(c, "PRE") \in Nat \ {0} /\ Delay(c, "PRE") <= ColPre
    BY <2>2, DelayFacts, ColPreFacts, Params
  <2> DEFINE M == Later(Later(wait["RD"], wait["WR"]), 1)
  <2>5. M \in Nat /\ M >= 1
    BY <1>1 DEF Later
  <2>6. /\ Left = Later(wait["PRE"], M + ColPre) + nRP
        /\ Left' = Later(wait'["PRE"], 1) + nRP
    BY <2>1, <1>2, <1>3
  <2> HIDE DEF M
  <2>7. wait'["PRE"] \in Nat /\ wait'["PRE"] >= 1
        /\ (wait'["PRE"] <= ColPre \/ wait'["PRE"] = wait1["PRE"])
    BY <2>3, <2>4, <1>1, ColPreFacts
  <2>8. Left' <= Left - 1
    BY <2>5, <2>6, <2>7, <1>1, Params, ColPreFacts DEF Later
  <2> QED
    BY <2>1, <2>8, <1>5
<1>10. CASE Refreshes
  BY <1>10, <1>5
<1> QED
  BY <1>6, <1>7, <1>8, <1>9, <1>10, TickIs

(* A sequence that is neither empty nor longer than one. *)
LEMMA OneSeq ==
    ASSUME NEW S, NEW q \in Seq(S), q # <<>>, Len(q) <= 1
    PROVE  Len(q) = 1
<1>1. Len(q) \in Nat \ {0}
  BY TailFacts
<1> QED
  BY <1>1

(* Every tick keeps the refreshes ahead. *)
LEMMA TickRefresh ==
    ASSUME IInv, WaitInv, RefreshInv, Tick, IInv', WaitInv'
    PROVE  RefreshInv'
<1>1. /\ otherq \in Seq({Refresh}) /\ Len(otherq) \in Nat /\ Len(otherq) <= 1
      /\ otherq # <<>> => Left <= refreshIn
      /\ refreshIn \in 1 .. nREFI
  BY DEF IInv, TypeOK, QueueInv, RefreshInv
<1>2. refreshIn' = IF refreshIn = 1 THEN nREFI ELSE refreshIn - 1
  BY TickIs DEF TickIdle, Closes, Opens, ServesAct, ServesHead, Column, Refreshes, Advance
<1>3. Left' <= nREFI
  BY LeftBound DEF IInv
<1>4. otherq1 \in Seq({Refresh})
  BY Heads
<1>5. /\ Refreshes => otherq' = Tail(otherq1) /\ otherq1 # <<>>
      /\ ~Refreshes => otherq' = otherq1
  BY TickIs DEF TickIdle, Closes, Opens, ServesAct, ServesHead, Column, Refreshes
<1>6. Refreshes => Len(otherq') = Len(otherq1) - 1 /\ otherq' \in Seq({Refresh})
  BY <1>4, <1>5, TailFacts
<1>7. otherq1 # <<>> => /\ Refreshes \/ Left' <= Left - 1
                        /\ Left <= 1 => Refreshes
                        /\ Left \in Nat
  BY LeftFalls
<1>10. otherq # <<>> => Len(otherq) = 1
  BY <1>1, OneSeq
<1>8. CASE refreshIn = 1
  <2>1. otherq1 # <<>> /\ Len(otherq1) = Len(otherq) + 1
    <3>1. otherq1 = Append(otherq, Refresh) /\ Refresh \in {Refresh}
      BY <1>8 DEF otherq1
    <3> QED
      BY <3>1, <1>1, AppendFacts
  <2>2. CASE otherq = <<>>
    <3>1. Len(otherq1) = 1
      BY <2>1, <2>2
    <3>2. Len(otherq') <= 1
      <4>1. CASE Refreshes
        <5>1. Len(otherq') = 0
          BY <4>1, <3>1, <1>6
        <5> QED
          BY <5>1
      <4>2. CASE ~Refreshes
        <5>1. Len(otherq') = 1
          BY <4>2, <3>1, <1>5
        <5> QED
          BY <5>1
      <4> QED
        BY <4>1, <4>2
    <3> QED
      BY <3>2, <1>2, <1>3, <1>8 DEF RefreshInv
  <2>3. CASE otherq # <<>>
    <3>1. Left <= 1 /\ Len(otherq) = 1
      BY <2>3, <1>1, <1>8, <1>10
    <3>2. Refreshes
      BY <3>1, <2>1, <1>7
    <3>3. Len(otherq') = 1
      BY <3>1, <3>2, <2>1, <1>6
    <3> QED
      BY <3>3, <1>2, <1>3, <1>8 DEF RefreshInv
  <2> QED
    BY <2>2, <2>3
<1>9. CASE refreshIn # 1
  <2>1. otherq1 = otherq /\ refreshIn' = refreshIn - 1
    BY <1>9, <1>2 DEF otherq1
  <2>2. CASE Refreshes
    <3>1. Len(otherq) = 1
      BY <2>1, <2>2, <1>5, <1>10
    <3>2. Len(otherq') = 0 /\ otherq' \in Seq({Refresh})
      BY <3>1, <2>1, <2>2, <1>6
    <3>3. otherq' = <<>>
      BY <3>2, EmptyQueueSeq
    <3> QED
      BY <3>2, <3>3 DEF RefreshInv
  <2>3. CASE ~Refreshes
    <3>1. otherq' = otherq
      BY <2>1, <2>3, <1>5
    <3>2. otherq # <<>> => Left' <= refreshIn'
      <4> SUFFICES ASSUME otherq # <<>> PROVE Left' <= refreshIn'
        OBVIOUS
      <4>1. Left' <= Left - 1 /\ Left \in Nat /\ Left <= refreshIn
        BY <1>1, <1>7, <2>1, <2>3
      <4>2. Left' \in Int
        <5>1. /\ wait'["REF"] \in Nat /\ wait'["PRE"] \in Nat /\ wait'["RD"] \in Nat
              /\ wait'["WR"] \in Nat
          BY DEF IInv, TypeOK, Commands
        <5> DEFINE M == Later(Later(wait'["RD"], wait'["WR"]), 1)
        <5>2. M \in Int
          BY <5>1 DEF Later
        <5>3. Left' = IF row' = None THEN Later(wait'["REF"], 1)
                      ELSE IF actq' = <<>> THEN Later(wait'["PRE"], 1) + nRP
                      ELSE Later(wait'["PRE"], M + ColPre) + nRP
          BY DEF Left, ColPre
        <5> HIDE DEF M
        <5>4. /\ Later(wait'["REF"], 1) \in Int /\ Later(wait'["PRE"], 1) \in Int
              /\ Later(wait'["PRE"], M + ColPre) \in Int
          BY <5>1, <5>2, ColPreFacts DEF Later
        <5> QED
          BY <5>3, <5>4, Params
      <4> QED
        BY <4>1, <4>2, <2>1, <1>1
    <3> QED
      BY <3>1, <3>2, <1>1 DEF RefreshInv
  <2> QED
    BY <2>2, <2>3
<1> QED
  BY <1>8, <1>9

(* A refresh that is due is issued before the next one is, whatever the    *)
(* requests are: the assertion of the refresh scheduler that its request   *)
(* could be queued never fails.                                            *)
THEOREM RefreshesKeepUp == Spec => []RefreshKeepsUp
<1> DEFINE J == WaitInv /\ RefreshInv
<1>1. Init => J
  <2> SUFFICES ASSUME Init PROVE J
    OBVIOUS
  <2>1. Later(nRP, nRFC) >= 0 /\ Later(nRAS, ColPre) >= 0
    BY Params, ColPreFacts DEF Later
  <2>2. WaitInv
    BY <2>1 DEF Init, WaitInv, Commands
  <2>3. RefreshInv
    BY DEF Init, RefreshInv
  <2> QED
    BY <2>2, <2>3
<1>2. IInv /\ IInv' /\ J /\ [Next]_vars => J'
  <2> SUFFICES ASSUME IInv, IInv', J, [Next]_vars PROVE J'
    OBVIOUS
  <2>1. CASE Tick
    <3>1. WaitInv'
      BY <2>1, TickWait
    <3> QED
      BY <2>1, <3>1, TickRefresh
  <2>2. CASE UNCHANGED <<otherq, actq, row, wait, refreshIn>>
    BY <2>2 DEF WaitInv, RefreshInv, Left
  <2>3. Tick \/ UNCHANGED <<otherq, actq, row, wait, refreshIn>>
    <3>1. ASSUME NEW t \in {"READ", "WRITE"}, NEW r \in Rows, Enqueue(t, r)
          PROVE  UNCHANGED <<otherq, actq, row, wait, refreshIn>>
      BY <3>1 DEF Enqueue
    <3>2. UNCHANGED vars => UNCHANGED <<otherq, actq, row, wait, refreshIn>>
      BY DEF vars, queues
    <3> QED
      BY <3>1, <3>2 DEF Next
  <2> QED
    BY <2>1, <2>2, <2>3
<1>3. J => RefreshKeepsUp
  BY DEF RefreshInv, RefreshKeepsUp
<1> HIDE DEF J
<1> QED
  BY <1>1, <1>2, <1>3, ControllerInvariant, PTL DEF Spec

-----------------------------------------------------------------------------
(* Requests are served in order. *)

(* The oldest of a queue in the order of acceptance is at its front. *)
LEMMA FrontLeast ==
    ASSUME NEW S, NEW q \in Seq(S), q # <<>>, ById(q),
           \A i \in 1 .. Len(q) : q[i].id \in Nat
    PROVE  /\ q[1] \in Elems(q)
           /\ \A a \in Elems(q) : q[1].id <= a.id /\ (a # q[1] => q[1].id < a.id)
<1>1. Len(q) \in Nat \ {0} /\ 1 \in 1 .. Len(q)
  BY TailFacts
<1>2. ASSUME NEW i \in 1 .. Len(q)
      PROVE  q[1].id <= q[i].id /\ (q[i] # q[1] => q[1].id < q[i].id)
  <2>1. CASE i = 1
    BY <2>1, <1>1
  <2>2. CASE i # 1
    <3>1. 1 < i
      BY <2>2, <1>1
    <3>2. q[1].id < q[i].id
      BY <3>1, <1>1 DEF ById
    <3> QED
      BY <3>2, <1>1
  <2> QED
    BY <2>1, <2>2
<1> QED
  BY <1>1, <1>2 DEF Elems

(* Erasing the front takes its request away, and no other. *)
LEMMA ElemsTail ==
    ASSUME NEW S, NEW q \in Seq(S), q # <<>>, ById(q),
           \A i \in 1 .. Len(q) : q[i].id \in Nat
    PROVE  Elems(Tail(q)) = Elems(q) \ {q[1]} /\ ById(Tail(q))
<1>1. /\ Len(Tail(q)) = Len(q) - 1 /\ Len(q) \in Nat \ {0}
      /\ \A i \in 1 .. Len(Tail(q)) : Tail(q)[i] = q[i + 1]
  BY TailFacts
<1>2. ById(Tail(q))
  <2> SUFFICES ASSUME NEW i \in 1 .. Len(Tail(q)), NEW j \in 1 .. Len(Tail(q)), i < j
               PROVE  Tail(q)[i].id < Tail(q)[j].id
    BY DEF ById
  <2>1. i + 1 \in 1 .. Len(q) /\ j + 1 \in 1 .. Len(q) /\ i + 1 < j + 1
    BY <1>1
  <2>2. q[i + 1].id < q[j + 1].id
    BY <2>1 DEF ById
  <2> QED
    BY <1>1, <2>2
<1>3. ASSUME NEW i \in 1 .. Len(Tail(q))
      PROVE  Tail(q)[i] \in Elems(q) \ {q[1]}
  <2>1. i + 1 \in 1 .. Len(q) /\ 1 \in 1 .. Len(q) /\ 1 < i + 1
    BY <1>1
  <2>2. q[1].id < q[i + 1].id /\ q[1].id \in Nat /\ q[i + 1].id \in Nat
    BY <2>1 DEF ById
  <2>3. q[i + 1] # q[1]
    BY <2>2
  <2> QED
    BY <1>1, <2>1, <2>3 DEF Elems
<1>4. ASSUME NEW i \in 1 .. Len(q), q[i] # q[1]
      PROVE  q[i] \in Elems(Tail(q))
  <2>1. i - 1 \in 1 .. Len(Tail(q)) /\ (i - 1) + 1 = i
    BY <1>1, <1>4
  <2>2. Tail(q)[i - 1] = q[i]
    BY <1>1, <2>1
  <2> QED
    BY <2>1, <2>2 DEF Elems
<1>5. Elems(Tail(q)) \subseteq Elems(q) \ {q[1]}
  BY <1>3 DEF Elems
<1>6. Elems(q) \ {q[1]} \subseteq Elems(Tail(q))
  <2> SUFFICES ASSUME NEW a \in Elems(q), a # q[1] PROVE a \in Elems(Tail(q))
    OBVIOUS
  <2>1. PICK i \in 1 .. Len(q) : a = q[i]
    BY DEF Elems
  <2> QED
    BY <2>1, <1>4
<1> QED
  BY <1>2, <1>5, <1>6

(* A request that arrives is added at the end. *)
LEMMA ElemsAppend ==
    ASSUME NEW S, NEW q \in Seq(S), NEW x \in S, ById(q),
           \A a \in Elems(q) : a.id < x.id
    PROVE  Elems(Append(q, x)) = Elems(q) \cup {x} /\ ById(Append(q, x))
<1>1. /\ Len(Append(q, x)) = Len(q) + 1 /\ Len(q) \in Nat
      /\ Append(q, x)[Len(q) + 1] = x
      /\ \A i \in 1 .. Len(q) : Append(q, x)[i] = q[i]
  BY AppendFacts
<1>2. \A i \in 1 .. Len(q) : q[i] \in Elems(q)
  BY DEF Elems
<1>3. ById(Append(q, x))
  <2> SUFFICES ASSUME NEW i \in 1 .. Len(q) + 1, NEW j \in 1 .. Len(q) + 1, i < j
               PROVE  Append(q, x)[i].id < Append(q, x)[j].id
    BY <1>1 DEF ById
  <2>1. i \in 1 .. Len(q) /\ (j = Len(q) + 1 \/ j \in 1 .. Len(q))
    BY <1>1
  <2> QED
    BY <1>1, <1>2, <2>1 DEF ById
<1>4. Elems(Append(q, x)) \subseteq Elems(q) \cup {x}
  <2> SUFFICES ASSUME NEW i \in 1 .. Len(q) + 1
               PROVE  Append(q, x)[i] \in Elems(q) \cup {x}
    BY <1>1 DEF Elems
  <2>1. i = Len(q) + 1 \/ i \in 1 .. Len(q)
    BY <1>1
  <2> QED
    BY <1>1, <1>2, <2>1
<1>5. Elems(q) \cup {x} \subseteq Elems(Append(q, x))
  <2>1. ASSUME NEW i \in 1 .. Len(q) PROVE q[i] \in Elems(Append(q, x))
    <3>1. i \in 1 .. Len(Append(q, x))
      BY <1>1
    <3> QED
      BY <1>1, <3>1 DEF Elems
  <2>2. x \in Elems(Append(q, x))
    <3>1. Len(q) + 1 \in 1 .. Len(Append(q, x))
      BY <1>1
    <3> QED
      BY <1>1, <3>1 DEF Elems
  <2> QED
    BY <2>1, <2>2 DEF Elems
<1> QED
  BY <1>3, <1>4, <1>5

(* What waits are reads and writes. *)
LEMMA WaitingType ==
    ASSUME QueueInv, nreqs \in Nat, now \in Nat
    PROVE  /\ Elems(readq) \subseteq Reads /\ Elems(writeq) \subseteq Writes
           /\ \A a \in Reads \cup Writes : a.id \in Nat /\ a.arrive \in Nat /\ a.arrive <= now
           /\ \A a \in Reads, b \in Writes : a # b
           /\ readq \in Seq(Reads) /\ writeq \in Seq(Writes)
           /\ \A i \in 1 .. Len(readq) : readq[i].id \in Nat
           /\ \A i \in 1 .. Len(writeq) : writeq[i].id \in Nat
<1>1. readq \in Seq(Reads) /\ writeq \in Seq(Writes)
  BY DEF QueueInv
<1>2. Elems(readq) \subseteq Reads /\ Elems(writeq) \subseteq Writes
  BY <1>1 DEF Elems
<1>3. \A a \in Reads \cup Writes : a.id \in Nat /\ a.arrive \in Nat /\ a.arrive <= now
  BY DEF Reads, Writes
<1>4. \A a \in Reads, b \in Writes : a # b
  BY DEF Reads, Writes
<1>5. /\ \A i \in 1 .. Len(readq) : readq[i] \in Reads
      /\ \A i \in 1 .. Len(writeq) : writeq[i] \in Writes
  BY <1>1
<1> QED
  BY <1>1, <1>2, <1>3, <1>4, <1>5

(* Taking the head of the queue of the mode. *)
LEMMA TakeHeadWaiting ==
    ASSUME IInv, IdsInv, TakeHead
    PROVE  /\ ModeQ[1] \in Waiting /\ Waiting' = Waiting \ {ModeQ[1]}
           /\ ById(readq') /\ ById(writeq')
<1>1. QueueInv /\ nreqs \in Nat /\ now \in Nat
  BY DEF IInv, TypeOK
<1>2. ById(readq) /\ ById(writeq)
  BY DEF IdsInv
<1>3. Waiting' = Elems(readq') \cup Elems(writeq') /\ Waiting = Elems(readq) \cup Elems(writeq)
  BY DEF Waiting, Elems
<1>4. CASE write_mode1
  <2>1. writeq # <<>> /\ writeq' = Tail(writeq) /\ readq' = readq /\ ModeQ = writeq
    BY <1>4 DEF TakeHead, ModeQ
  <2>2. Elems(Tail(writeq)) = Elems(writeq) \ {writeq[1]} /\ ById(Tail(writeq))
    BY <1>1, <1>2, <2>1, WaitingType, ElemsTail
  <2>3. writeq[1] \in Elems(writeq)
    BY <1>1, <1>2, <2>1, WaitingType, FrontLeast
  <2>4. writeq[1] \notin Elems(readq)
    BY <1>1, <2>3, WaitingType
  <2> QED
    BY <1>2, <1>3, <2>1, <2>2, <2>3, <2>4
<1>5. CASE ~write_mode1
  <2>1. readq # <<>> /\ readq' = Tail(readq) /\ writeq' = writeq /\ ModeQ = readq
    BY <1>5 DEF TakeHead, ModeQ
  <2>2. Elems(Tail(readq)) = Elems(readq) \ {readq[1]} /\ ById(Tail(readq))
    BY <1>1, <1>2, <2>1, WaitingType, ElemsTail
  <2>3. readq[1] \in Elems(readq)
    BY <1>1, <1>2, <2>1, WaitingType, FrontLeast
  <2>4. readq[1] \notin Elems(writeq)
    BY <1>1, <2>3, WaitingType
  <2> QED
    BY <1>2, <1>3, <2>1, <2>2, <2>3, <2>4
<1> QED
  BY <1>4, <1>5

(* A set of requests with consecutive numbers, without its first. *)
LEMMA IdsWithout ==
    ASSUME NEW W, NEW lo \in Nat, NEW n \in Nat, NEW h \in W, h.id = lo,
           {a.id : a \in W} = lo .. n, \A a, b \in W : a.id = b.id => a = b
    PROVE  {a.id : a \in W \ {h}} = lo + 1 .. n
<1>1. \A a \in W : a.id \in lo .. n
  OBVIOUS
<1>2. ASSUME NEW a \in W \ {h} PROVE a.id \in lo + 1 .. n
  <2>1. a.id # lo /\ a.id \in lo .. n
    BY <1>1
  <2> QED
    BY <2>1
<1>3. ASSUME NEW i \in lo + 1 .. n PROVE i \in {a.id : a \in W \ {h}}
  <2>1. i \in lo .. n /\ i # lo
    BY <1>3
  <2>2. PICK a \in W : a.id = i
    BY <2>1
  <2>3. a \in W \ {h}
    BY <2>1, <2>2
  <2> QED
    BY <2>2, <2>3
<1> QED
  BY <1>2, <1>3

(* write_mode1 selects the queue with the oldest request. *)
LEMMA Mode1Right ==
    ASSUME IInv, ModeInv, actq = <<>>
    PROVE  OlderHead(readq, writeq, write_mode1) /\ OnlyQueue(readq, writeq, write_mode1)
<1>1. ~wm_blocked
  BY Modes
<1>2. CASE readq = <<>> /\ writeq # <<>>
  BY <1>1, <1>2 DEF write_mode1, OlderHead, OnlyQueue
<1>3. CASE readq # <<>> /\ writeq = <<>>
  BY <1>1, <1>3 DEF write_mode1, OlderHead, OnlyQueue
<1>4. CASE readq = <<>> <=> writeq = <<>>
  <2>1. write_mode1 = write_mode /\ OlderHead(readq, writeq, write_mode)
    BY <1>1, <1>4 DEF write_mode1, ModeInv
  <2> QED
    BY <1>4, <2>1 DEF OnlyQueue
<1> QED
  BY <1>2, <1>3, <1>4

(* With no activated request, the head of the queue of the mode is next.   *)
LEMMA HeadIsNext ==
    ASSUME IInv, OrderInv, actq = <<>>, TakeHead
    PROVE  ModeQ[1].id = Len(served) + 1
<1>1. QueueInv /\ nreqs \in Nat /\ now \in Nat /\ Len(served) \in Nat
  BY DEF IInv, TypeOK
<1>2. /\ ById(readq) /\ ById(writeq) /\ ModeInv /\ IdsInv
      /\ {a.id : a \in Waiting} = Len(served) + Len(actq) + 1 .. nreqs
  BY DEF OrderInv, IdsInv
<1>3. OlderHead(readq, writeq, write_mode1) /\ OnlyQueue(readq, writeq, write_mode1)
  BY <1>2, Mode1Right
<1>4. /\ readq # <<>> => /\ readq[1] \in Elems(readq) /\ readq[1].id \in Nat
                         /\ \A a \in Elems(readq) : readq[1].id <= a.id
      /\ writeq # <<>> => /\ writeq[1] \in Elems(writeq) /\ writeq[1].id \in Nat
                          /\ \A a \in Elems(writeq) : writeq[1].id <= a.id
  <2>1. readq # <<>> => /\ readq[1] \in Elems(readq)
                        /\ \A a \in Elems(readq) : readq[1].id <= a.id
    BY <1>1, <1>2, WaitingType, FrontLeast
  <2>2. writeq # <<>> => /\ writeq[1] \in Elems(writeq)
                         /\ \A a \in Elems(writeq) : writeq[1].id <= a.id
    BY <1>1, <1>2, WaitingType, FrontLeast
  <2> QED
    BY <2>1, <2>2, <1>1, WaitingType
<1>5. /\ readq = <<>> => Elems(readq) = {}
      /\ writeq = <<>> => Elems(writeq) = {}
  BY DEF Elems
<1>6. ModeQ # <<>> /\ ModeQ = (IF write_mode1 THEN writeq ELSE readq)
  BY DEF TakeHead, ModeQ
<1>7. \A a \in Elems(readq) \cup Elems(writeq) : a.id \in Nat
  BY <1>1, WaitingType
<1>8. /\ ModeQ[1] \in Waiting
      /\ \A a \in Waiting : ModeQ[1].id <= a.id
  <2>1. CASE write_mode1
    <3>1. writeq # <<>> /\ ModeQ = writeq
      BY <1>6, <2>1
    <3>2. readq # <<>> => writeq[1].id < readq[1].id
      BY <1>3, <2>1, <3>1 DEF OlderHead
    <3>3. ASSUME NEW a \in Elems(readq) PROVE writeq[1].id <= a.id
      <4>1. readq # <<>>
        BY <1>5, <3>3
      <4>2. /\ readq[1].id <= a.id /\ readq[1].id \in Nat /\ a.id \in Nat
            /\ writeq[1].id < readq[1].id /\ writeq[1].id \in Nat
        BY <4>1, <3>1, <3>2, <1>4, <1>7
      <4> QED
        BY <4>2
    <3> QED
      BY <3>1, <3>3, <1>4 DEF Waiting
  <2>2. CASE ~write_mode1
    <3>1. readq # <<>> /\ ModeQ = readq
      BY <1>6, <2>2
    <3>2. writeq # <<>> => readq[1].id <= writeq[1].id
      BY <1>3, <1>4, <2>2, <3>1 DEF OlderHead
    <3>3. ASSUME NEW a \in Elems(writeq) PROVE readq[1].id <= a.id
      <4>1. writeq # <<>>
        BY <1>5, <3>3
      <4>2. /\ writeq[1].id <= a.id /\ writeq[1].id \in Nat /\ a.id \in Nat
            /\ readq[1].id <= writeq[1].id /\ readq[1].id \in Nat
        BY <4>1, <3>1, <3>2, <1>4, <1>7
      <4> QED
        BY <4>2
    <3> QED
      BY <3>1, <3>3, <1>4 DEF Waiting
  <2> QED
    BY <2>1, <2>2
<1>9. {a.id : a \in Waiting} = Len(served) + 1 .. nreqs
  <2>1. Len(actq) = 0
    OBVIOUS
  <2> QED
    BY <1>1, <1>2, <2>1
<1>10. ModeQ[1].id \in Len(served) + 1 .. nreqs
  BY <1>8, <1>9
<1>11. Len(served) + 1 \in Len(served) + 1 .. nreqs
  BY <1>1, <1>10
<1>12. PICK a \in Waiting : a.id = Len(served) + 1
  BY <1>9, <1>11
<1> QED
  BY <1>1, <1>8, <1>10, <1>12

(* ModeByArrival selects the queue with the older head when the arrival    *)
(* times tell the order.                                                   *)
LEMMA ModeChosen ==
    ASSUME NEW S, NEW rq \in Seq(S), NEW wq \in Seq(S), NEW m,
           Sorted(rq), Sorted(wq), \A a \in S : a.id \in Nat /\ a.arrive \in Nat,
           \A a, b \in Elems(rq) \cup Elems(wq) : a.id < b.id => a.arrive < b.arrive,
           rq # <<>> /\ wq # <<>> => rq[1].id # wq[1].id
    PROVE  /\ OlderHead(rq, wq, ModeByArrival(rq, wq, m))
           /\ OnlyQueue(rq, wq, ModeByArrival(rq, wq, m))
<1>1. /\ \A i \in 1 .. Len(rq) : rq[i].arrive \in Nat
      /\ \A i \in 1 .. Len(wq) : wq[i].arrive \in Nat
  OBVIOUS
<1>2. /\ rq # <<>> => GetHead(rq) = rq[1] /\ rq[1] \in S
      /\ wq # <<>> => GetHead(wq) = wq[1] /\ wq[1] \in S
  BY <1>1, HeadFacts
<1>3. CASE rq # <<>> /\ wq # <<>>
  <2>1. rq[1] \in Elems(rq) /\ wq[1] \in Elems(wq)
    <3>1. 1 \in 1 .. Len(rq) /\ 1 \in 1 .. Len(wq)
      BY <1>3
    <3> QED
      BY <3>1 DEF Elems
  <2>2. /\ rq[1].id < wq[1].id => rq[1].arrive < wq[1].arrive
        /\ wq[1].id < rq[1].id => wq[1].arrive < rq[1].arrive
    BY <2>1
  <2>3. /\ rq[1].id \in Nat /\ wq[1].id \in Nat /\ rq[1].id # wq[1].id
        /\ rq[1].arrive \in Nat /\ wq[1].arrive \in Nat
    BY <1>2, <1>3
  <2>4. ModeByArrival(rq, wq, m) <=> wq[1].arrive <= rq[1].arrive
    BY <1>2, <1>3 DEF ModeByArrival
  <2>5. ModeByArrival(rq, wq, m) <=> wq[1].id < rq[1].id
    BY <2>2, <2>3, <2>4
  <2> QED
    BY <1>3, <2>5 DEF OlderHead, OnlyQueue
<1>4. CASE rq = <<>> \/ wq = <<>>
  BY <1>4 DEF OlderHead, OnlyQueue, ModeByArrival
<1> QED
  BY <1>3, <1>4

(* One more request served in order. *)
LEMMA ServedNext ==
    ASSUME NEW s \in Seq(Nat), s = [i \in 1 .. Len(s) |-> i], NEW x \in Nat,
           x = Len(s) + 1
    PROVE  /\ Append(s, x) = [i \in 1 .. Len(Append(s, x)) |-> i]
           /\ Len(Append(s, x)) = Len(s) + 1
<1>1. /\ Append(s, x) \in Seq(Nat) /\ Len(Append(s, x)) = Len(s) + 1 /\ Len(s) \in Nat
      /\ Append(s, x)[Len(s) + 1] = x
      /\ \A i \in 1 .. Len(s) : Append(s, x)[i] = s[i]
  BY AppendFacts
<1> DEFINE t == Append(s, x)
<1> HIDE DEF t
<1>2. t = [i \in 1 .. Len(t) |-> t[i]]
  BY <1>1 DEF t
<1>3. ASSUME NEW i \in 1 .. Len(t) PROVE t[i] = i
  <2>1. i \in 1 .. Len(s) \/ i = Len(s) + 1
    BY <1>1 DEF t
  <2>2. \A j \in 1 .. Len(s) : s[j] = j
    <3> DEFINE n == Len(s)
    <3>1. s = [j \in 1 .. n |-> j]
      OBVIOUS
    <3> HIDE DEF n
    <3>2. \A j \in 1 .. n : s[j] = j
      BY <3>1
    <3> QED
      BY <3>2 DEF n
  <2> QED
    BY <1>1, <2>1, <2>2 DEF t
<1>4. [i \in 1 .. Len(t) |-> t[i]] = [i \in 1 .. Len(t) |-> i]
  BY <1>3
<1>5. t = [i \in 1 .. Len(t) |-> i]
  BY <1>2, <1>4
<1> QED
  BY <1>1, <1>5 DEF t

(* A tick keeps what is known of the requests that go on waiting. *)
LEMMA TickIds ==
    ASSUME IInv, OrderInv, Tick, Waiting' \subseteq Waiting, ById(readq'), ById(writeq'),
           {a.id : a \in Waiting'} = Len(served') + Len(actq') + 1 .. nreqs
    PROVE  IdsInv'
<1>1. /\ nreqs' = nreqs /\ fresh' = 0
  BY TickClocks
<1>2. now' = IF fresh > 0 THEN now + 1 ELSE now
  BY TickIs DEF TickIdle, Closes, Opens, ServesAct, ServesHead, Column, Refreshes, Advance
<1>3. /\ \A a, b \in Waiting : a.id = b.id => a = b
      /\ \A a, b \in Waiting : a.id < b.id => a.arrive < b.arrive
      /\ fresh = 0 => \A a \in Waiting : a.arrive < now
  BY DEF OrderInv, IdsInv
<1>4. QueueInv /\ nreqs \in Nat /\ now \in Nat /\ fresh \in Nat
  BY DEF IInv, TypeOK
<1>5. \A a \in Waiting' : a.arrive < now'
  <2> SUFFICES ASSUME NEW a \in Waiting' PROVE a.arrive < now'
    OBVIOUS
  <2>1. a \in Waiting /\ a.arrive \in Nat /\ a.arrive <= now
    BY <1>4, WaitingType DEF Waiting
  <2>2. CASE fresh = 0
    BY <1>2, <1>3, <2>1, <2>2
  <2>3. CASE fresh > 0
    BY <1>2, <1>4, <2>1, <2>3
  <2> QED
    BY <1>4, <2>2, <2>3
<1>6. (ById(readq))' /\ (ById(writeq))'
  BY DEF ById
<1> QED
  BY <1>1, <1>3, <1>5, <1>6 DEF IdsInv

(* The mode that is chosen after the last command of a request. *)
LEMMA ChosenMode ==
    ASSUME IInv, OrderInv, Tick, Waiting' \subseteq Waiting,
           write_mode' = ModeByArrival(readq', writeq', write_mode1)
    PROVE  ModeInv'
<1>1. QueueInv /\ nreqs \in Nat /\ now \in Nat
  BY DEF IInv, TypeOK
<1> DEFINE S == Reads \cup Writes
<1>2. /\ readq' \in Seq(Reads) /\ Sorted(readq') /\ writeq' \in Seq(Writes) /\ Sorted(writeq')
  BY TickQueues
<1>3. readq' \in Seq(S) /\ writeq' \in Seq(S)
  <2>1. Reads \subseteq S /\ Writes \subseteq S
    OBVIOUS
  <2> QED
    BY <1>2, <2>1, SeqMono
<1>4. \A a \in S : a.id \in Nat /\ a.arrive \in Nat
  BY <1>1, WaitingType
<1>5. Waiting' = Elems(readq') \cup Elems(writeq')
  BY DEF Waiting, Elems
<1>6. \A a, b \in Elems(readq') \cup Elems(writeq') : a.id < b.id => a.arrive < b.arrive
  BY <1>5 DEF OrderInv, IdsInv
<1>7. readq' # <<>> /\ writeq' # <<>> => readq'[1].id # writeq'[1].id
  <2> SUFFICES ASSUME readq' # <<>>, writeq' # <<>> PROVE readq'[1].id # writeq'[1].id
    OBVIOUS
  <2>1. /\ readq'[1] \in Reads /\ writeq'[1] \in Writes
        /\ Len(readq') \in Nat \ {0} /\ Len(writeq') \in Nat \ {0}
    BY <1>2, TailFacts
  <2>2. 1 \in 1 .. Len(readq') /\ 1 \in 1 .. Len(writeq')
    BY <2>1
  <2>3. readq'[1] \in Waiting /\ writeq'[1] \in Waiting
    BY <2>2, <1>5 DEF Elems
  <2>4. readq'[1] # writeq'[1]
    BY <1>1, <2>1, WaitingType
  <2> QED
    BY <2>3, <2>4 DEF OrderInv, IdsInv
<1> HIDE DEF S
<1>8. /\ OlderHead(readq', writeq', write_mode')
      /\ OnlyQueue(readq', writeq', write_mode')
  BY <1>2, <1>3, <1>4, <1>6, <1>7, ModeChosen
<1> QED
  BY <1>8 DEF ModeInv, OlderHead, OnlyQueue

(* A tick serves the next request, if any. *)
LEMMA TickOrder ==
    ASSUME IInv, OrderInv, Tick
    PROVE  OrderInv'
<1> DEFINE k == Len(served)
<1>1. /\ k \in Nat /\ nreqs \in Nat /\ served \in Seq(1 .. nreqs)
      /\ served = [i \in 1 .. k |-> i]
      /\ actq # <<>> => actq[1].id = k + 1
      /\ {a.id : a \in Waiting} = k + Len(actq) + 1 .. nreqs
      /\ \A a, b \in Waiting : a.id = b.id => a = b
      /\ ById(readq) /\ ById(writeq) /\ ModeInv /\ IdsInv
  <2>1. served \in Seq(1 .. nreqs) /\ nreqs \in Nat
    BY DEF IInv, TypeOK
  <2>2. k \in Nat
    BY <2>1
  <2>3. ServedInv /\ IdsInv /\ ModeInv
    BY DEF OrderInv
  <2>4. /\ served = [i \in 1 .. k |-> i]
        /\ actq # <<>> => actq[1].id = k + 1
    BY <2>3, Zenon DEF ServedInv
  <2>5. /\ {a.id : a \in Waiting} = k + Len(actq) + 1 .. nreqs
        /\ \A a, b \in Waiting : a.id = b.id => a = b
        /\ ById(readq) /\ ById(writeq)
    BY <2>3, Zenon DEF IdsInv
  <2> HIDE DEF k
  <2> QED
    BY <2>1, <2>2, <2>3, <2>4, <2>5, Zenon
<1>2. fresh' = 0
  BY TickClocks
<1>3. served \in Seq(Nat)
  <2>1. 1 .. nreqs \subseteq Nat
    OBVIOUS
  <2> QED
    BY <1>1, <2>1, SeqMono
<1>4. UNCHANGED <<readq, writeq>> => Waiting' = Waiting /\ ById(readq') /\ ById(writeq')
  BY <1>1 DEF Waiting, Elems
<1>5. CASE TickIdle(Source) \/ Closes
  <2>1. UNCHANGED <<readq, writeq, actq, served>> /\ write_mode' = write_mode1
    BY <1>5 DEF TickIdle, Closes
  <2>2. ServedInv'
    BY <2>1, <1>1 DEF ServedInv
  <2>3. IdsInv'
    BY <2>1, <1>1, <1>4, TickIds
  <2>4. ModeInv'
    BY <2>1, <1>1, Mode1Right DEF ModeInv
  <2> QED
    BY <2>2, <2>3, <2>4, <1>2 DEF OrderInv
<1>6. CASE Opens
  <2>1. actq = <<>> /\ actq' = <<ModeQ[1]>> /\ TakeHead /\ served' = served
    BY <1>6 DEF Opens
  <2>2. ModeQ[1].id = k + 1
    BY <2>1, HeadIsNext
  <2>3. /\ ModeQ[1] \in Waiting /\ Waiting' = Waiting \ {ModeQ[1]}
        /\ ById(readq') /\ ById(writeq')
    BY <2>1, <1>1, TakeHeadWaiting
  <2>4. Len(actq) = 0 /\ Len(actq') = 1 /\ actq' # <<>> /\ actq'[1] = ModeQ[1]
    BY <2>1
  <2>5. {a.id : a \in Waiting'} = Len(served') + Len(actq') + 1 .. nreqs
    <3>1. {a.id : a \in Waiting} = k + 1 .. nreqs
      BY <1>1, <2>4
    <3>2. {a.id : a \in Waiting \ {ModeQ[1]}} = (k + 1) + 1 .. nreqs
      <4>1. k + 1 \in Nat
        BY <1>1
      <4> HIDE DEF k
      <4> QED
        BY <3>1, <4>1, <2>2, <2>3, <1>1, IdsWithout
    <3> QED
      BY <3>2, <2>1, <2>3, <2>4, <1>1
  <2>6. IdsInv'
    BY <2>3, <2>5, TickIds
  <2>7. ServedInv'
    BY <2>1, <2>2, <2>4, <1>1 DEF ServedInv
  <2>8. ModeInv'
    BY <2>4 DEF ModeInv
  <2> QED
    BY <2>6, <2>7, <2>8, <1>2 DEF OrderInv
<1>7. ASSUME NEW x, x = k + 1, served' = Append(served, x), actq' = <<>>,
             Waiting' \subseteq Waiting, ById(readq'), ById(writeq'),
             {a.id : a \in Waiting'} = k + 2 .. nreqs,
             write_mode' = ModeByArrival(readq', writeq', write_mode1)
      PROVE  OrderInv'
  <2>1. served' = [i \in 1 .. Len(served') |-> i] /\ Len(served') = k + 1
    <3>1. x \in Nat
      BY <1>1, <1>7
    <3> QED
      BY <3>1, <1>1, <1>3, <1>7, ServedNext
  <2>2. Len(actq') = 0
    BY <1>7
  <2>3. {a.id : a \in Waiting'} = Len(served') + Len(actq') + 1 .. nreqs
    BY <2>1, <2>2, <1>1, <1>7
  <2>4. IdsInv'
    BY <2>3, <1>7, TickIds
  <2>5. ServedInv'
    BY <2>1, <1>7 DEF ServedInv
  <2>6. ModeInv'
    BY <1>7, ChosenMode
  <2> QED
    BY <2>4, <2>5, <2>6, <1>2 DEF OrderInv
<1>8. CASE ServesAct
  <2>1. /\ actq # <<>> /\ actq' = <<>> /\ served' = Append(served, actq[1].id)
        /\ UNCHANGED <<readq, writeq>>
        /\ write_mode' = ModeByArrival(readq', writeq', write_mode1)
    BY <1>8 DEF ServesAct, Column
  <2>2. Len(actq) = 1
    BY <2>1, Heads
  <2>3. {a.id : a \in Waiting'} = k + 2 .. nreqs
    BY <2>1, <2>2, <1>1, <1>4
  <2> HIDE DEF k
  <2> QED
    BY <2>1, <2>3, <1>1, <1>4, <1>7
<1>9. CASE ServesHead
  <2>1. /\ actq = <<>> /\ actq' = <<>> /\ served' = Append(served, ModeQ[1].id)
        /\ TakeHead
        /\ write_mode' = ModeByArrival(readq', writeq', write_mode1)
    BY <1>9 DEF ServesHead, Column
  <2>2. ModeQ[1].id = k + 1
    BY <2>1, HeadIsNext
  <2>3. /\ ModeQ[1] \in Waiting /\ Waiting' = Waiting \ {ModeQ[1]}
        /\ ById(readq') /\ ById(writeq')
    BY <2>1, <1>1, TakeHeadWaiting
  <2>4. {a.id : a \in Waiting'} = k + 2 .. nreqs
    <3>1. {a.id : a \in Waiting} = k + 1 .. nreqs
      <4>1. Len(actq) = 0
        BY <2>1
      <4> QED
        BY <1>1, <4>1
    <3>2. {a.id : a \in Waiting \ {ModeQ[1]}} = (k + 1) + 1 .. nreqs
      <4>1. k + 1 \in Nat
        BY <1>1
      <4> HIDE DEF k
      <4> QED
        BY <3>1, <4>1, <2>2, <2>3, <1>1, IdsWithout
    <3> QED
      BY <3>2, <2>3, <1>1
  <2> HIDE DEF k
  <2> QED
    BY <2>1, <2>2, <2>3, <2>4, <1>7
<1>10. CASE Refreshes
  <2>1. /\ UNCHANGED <<readq, writeq, actq, served>>
        /\ write_mode' = ModeByArrival(readq', writeq', write_mode1)
    BY <1>10 DEF Refreshes
  <2>2. ServedInv'
    BY <2>1, <1>1 DEF ServedInv
  <2>3. IdsInv'
    BY <2>1, <1>1, <1>4, TickIds
  <2>4. ModeInv'
    BY <2>1, <1>4, ChosenMode
  <2> QED
    BY <2>2, <2>3, <2>4, <1>2 DEF OrderInv
<1> QED
  BY <1>5, <1>6, <1>8, <1>9, <1>10, TickIs

(* A request that is accepted is the last to wait. *)
LEMMA EnqueueOrder ==
    ASSUME PerCycle = 1, IInv, OrderInv, NEW t \in {"READ", "WRITE"}, NEW r \in Rows,
           Enqueue(t, r)
    PROVE  OrderInv'
<1> DEFINE x == NewReq(t, r)
<1>1. /\ nreqs' = nreqs + 1 /\ fresh' = fresh + 1 /\ fresh < 1
      /\ UNCHANGED <<actq, write_mode, now, served>>
      /\ \/ t = "READ" /\ writeq' = writeq /\ readq' = Append(readq, x)
         \/ t = "WRITE" /\ readq' = readq /\ writeq' = Append(writeq, x)
  BY EnqueueIs
<1>2. /\ nreqs \in Nat /\ now \in Nat /\ fresh \in Nat /\ QueueInv
      /\ Len(served) \in Nat /\ Len(actq) \in Nat
  BY DEF IInv, TypeOK
<1>3. fresh = 0 /\ fresh' = 1
  BY <1>1, <1>2
<1>4. /\ {a.id : a \in Waiting} = Len(served) + Len(actq) + 1 .. nreqs
      /\ \A a, b \in Waiting : a.id = b.id => a = b
      /\ \A a, b \in Waiting : a.id < b.id => a.arrive < b.arrive
      /\ ById(readq) /\ ById(writeq)
      /\ \A a \in Waiting : a.arrive < now
  BY <1>3 DEF OrderInv, IdsInv
<1>5. x.id = nreqs + 1 /\ x.arrive = now
  BY DEF NewReq
<1>6. \A a \in Waiting : a.id \in Nat /\ a.id <= nreqs
  <2>1. \A a \in Waiting : a.id \in Len(served) + Len(actq) + 1 .. nreqs
    BY <1>4
  <2> QED
    BY <1>2, <2>1
<1>7. Waiting = Elems(readq) \cup Elems(writeq) /\ Waiting' = Elems(readq') \cup Elems(writeq')
  BY DEF Waiting, Elems
<1>8. /\ readq \in Seq(Reads \cup {x}) /\ writeq \in Seq(Writes \cup {x})
  <2>1. readq \in Seq(Reads) /\ writeq \in Seq(Writes)
    BY <1>2 DEF QueueInv
  <2>2. Reads \subseteq Reads \cup {x} /\ Writes \subseteq Writes \cup {x}
    OBVIOUS
  <2> QED
    BY <2>1, <2>2, SeqMono
<1>9. \A a \in Waiting : a.id < x.id
  BY <1>2, <1>5, <1>6
<1> HIDE DEF x
<1>10. Waiting' = Waiting \cup {x} /\ ById(readq') /\ ById(writeq')
  <2>1. CASE writeq' = writeq /\ readq' = Append(readq, x)
    <3>1. Elems(Append(readq, x)) = Elems(readq) \cup {x} /\ ById(Append(readq, x))
      BY <1>4, <1>7, <1>8, <1>9, ElemsAppend
    <3> QED
      BY <2>1, <3>1, <1>4, <1>7
  <2>2. CASE readq' = readq /\ writeq' = Append(writeq, x)
    <3>1. Elems(Append(writeq, x)) = Elems(writeq) \cup {x} /\ ById(Append(writeq, x))
      BY <1>4, <1>7, <1>8, <1>9, ElemsAppend
    <3> QED
      BY <2>2, <3>1, <1>4, <1>7
  <2> QED
    BY <1>1, <2>1, <2>2
<1>11. {a.id : a \in Waiting \cup {x}} = Len(served) + Len(actq) + 1 .. nreqs + 1
  <2> DEFINE lo == Len(served) + Len(actq) + 1
  <2>1. lo \in Nat /\ lo <= nreqs + 1
    <3>1. Len(served) + Len(actq) <= nreqs
      <4>1. CASE actq # <<>>
        <5>1. Len(actq) = 1 /\ actq[1].id \in 1 .. nreqs
          BY <4>1, Heads DEF Reads, Writes
        <5>2. actq[1].id = Len(served) + 1
          BY <4>1 DEF OrderInv, ServedInv
        <5> QED
          BY <5>1, <5>2, <1>2
      <4>2. CASE actq = <<>> /\ served # <<>>
        <5>1. served \in Seq(1 .. nreqs) /\ served = [i \in 1 .. Len(served) |-> i]
          BY DEF OrderInv, ServedInv, IInv, TypeOK
        <5>2. Len(served) \in Nat \ {0}
          BY <4>2, <5>1, TailFacts
        <5>3. Len(served) \in 1 .. Len(served)
          BY <5>2
        <5>4. served[Len(served)] \in 1 .. nreqs
          <6> DEFINE T == 1 .. nreqs
          <6>1. served \in Seq(T)
            BY <5>1
          <6> HIDE DEF T
          <6>2. served[Len(served)] \in T
            BY <5>3, <6>1, ElementOfSeq
          <6> QED
            BY <6>2 DEF T
        <5>5. served[Len(served)] = Len(served)
          <6> DEFINE n == Len(served)
          <6>1. served = [i \in 1 .. n |-> i] /\ n \in 1 .. n
            BY <5>1, <5>3
          <6> HIDE DEF n
          <6>2. served[n] = n
            BY <6>1
          <6> QED
            BY <6>2 DEF n
        <5>6. Len(actq) = 0
          BY <4>2
        <5> QED
          BY <5>4, <5>5, <5>6, <1>2
      <4>3. CASE actq = <<>> /\ served = <<>>
        BY <4>3, <1>2
      <4> QED
        BY <4>1, <4>2, <4>3
    <3> QED
      BY <3>1, <1>2
  <2>2. {a.id : a \in Waiting} = lo .. nreqs
    BY <1>4
  <2> HIDE DEF lo
  <2>3. lo .. nreqs + 1 = (lo .. nreqs) \cup {nreqs + 1}
    BY <2>1, <1>2
  <2>4. {a.id : a \in Waiting \cup {x}} = {a.id : a \in Waiting} \cup {x.id}
    OBVIOUS
  <2> QED
    BY <2>2, <2>3, <2>4, <1>5 DEF lo
<1>12. IdsInv'
  <2>1. {a.id : a \in Waiting'} = Len(served') + Len(actq') + 1 .. nreqs'
    BY <1>1, <1>10, <1>11
  <2>2. \A a, b \in Waiting' : a.id = b.id => a = b
    <3>1. x.id \in Nat
      BY <1>2, <1>5
    <3>2. \A a \in Waiting : a.id # x.id
      BY <1>6, <1>9, <3>1
    <3> QED
      BY <1>4, <1>10, <3>2
  <2>3. \A a, b \in Waiting' : a.id < b.id => a.arrive < b.arrive
    <3>1. x.id \in Nat /\ ~(x.id < x.id)
      BY <1>2, <1>5
    <3>2. \A a \in Waiting : ~(x.id < a.id) /\ a.arrive < x.arrive
      BY <1>4, <1>5, <1>6, <1>9, <3>1
    <3> QED
      BY <1>4, <1>10, <3>1, <3>2
  <2>4. (ById(readq))' /\ (ById(writeq))'
    BY <1>10 DEF ById
  <2> QED
    BY <1>3, <2>1, <2>2, <2>3, <2>4 DEF IdsInv
<1>13. ServedInv'
  BY <1>1 DEF OrderInv, ServedInv
<1>14. ModeInv'
  <2> SUFFICES ASSUME actq = <<>> PROVE OlderHead(readq', writeq', write_mode)
    BY <1>1, <1>3 DEF ModeInv, OlderHead
  <2>1. OlderHead(readq, writeq, write_mode) /\ OnlyQueue(readq, writeq, write_mode)
    BY <1>3 DEF OrderInv, ModeInv
  <2>2. \A S : \A q \in Seq(S \cup {x}) :
           /\ q = <<>> => Append(q, x)[1] = x
           /\ q # <<>> => Append(q, x)[1] = q[1] /\ q[1] \in Elems(q)
    <3> SUFFICES ASSUME NEW S, NEW q \in Seq(S \cup {x})
                 PROVE  /\ q = <<>> => Append(q, x)[1] = x
                        /\ q # <<>> => Append(q, x)[1] = q[1] /\ q[1] \in Elems(q)
      OBVIOUS
    <3>1. /\ Append(q, x)[Len(q) + 1] = x /\ Len(q) \in Nat
          /\ \A i \in 1 .. Len(q) : Append(q, x)[i] = q[i]
      BY AppendFacts
    <3>2. q # <<>> => 1 \in 1 .. Len(q)
      BY <3>1
    <3> QED
      BY <3>1, <3>2 DEF Elems
  <2>3. CASE writeq' = writeq /\ readq' = Append(readq, x)
    <3>1. CASE readq # <<>>
      BY <2>1, <2>2, <2>3, <3>1, <1>8 DEF OlderHead
    <3>2. CASE readq = <<>> /\ writeq # <<>>
      <4>1. write_mode /\ readq'[1] = x /\ writeq'[1] \in Waiting
        BY <2>1, <2>2, <2>3, <3>2, <1>7, <1>8 DEF OnlyQueue
      <4> QED
        BY <4>1, <1>9 DEF OlderHead
    <3>3. CASE writeq = <<>>
      BY <2>3, <3>3 DEF OlderHead
    <3> QED
      BY <3>1, <3>2, <3>3
  <2>4. CASE readq' = readq /\ writeq' = Append(writeq, x)
    <3>1. CASE writeq # <<>>
      BY <2>1, <2>2, <2>4, <3>1, <1>8 DEF OlderHead
    <3>2. CASE writeq = <<>> /\ readq # <<>>
      <4>1. ~write_mode /\ writeq'[1] = x /\ readq'[1] \in Waiting
        BY <2>1, <2>2, <2>4, <3>2, <1>7, <1>8 DEF OnlyQueue
      <4>2. ~(x.id < readq'[1].id)
        BY <4>1, <1>2, <1>5, <1>6, <1>9
      <4> QED
        BY <4>1, <4>2 DEF OlderHead
    <3>3. CASE readq = <<>>
      BY <2>4, <3>3 DEF OlderHead
    <3> QED
      BY <3>1, <3>2, <3>3
  <2> QED
    BY <1>1, <2>3, <2>4
<1> QED
  BY <1>3, <1>12, <1>13, <1>14 DEF OrderInv

(* When at most one request arrives in a cycle, the column commands go to  *)
(* the device in the order in which enqueue_AB accepted the requests.      *)
THEOREM CommandsStayInOrder ==
    ASSUME PerCycle = 1
    PROVE  Spec => []CommandOrder
<1>1. Init => OrderInv
  <2> SUFFICES ASSUME Init PROVE OrderInv
    OBVIOUS
  <2>1. /\ readq = <<>> /\ writeq = <<>> /\ actq = <<>> /\ served = <<>>
        /\ nreqs = 0 /\ fresh = 0
    BY DEF Init
  <2>2. Waiting = {}
    BY <2>1 DEF Waiting, Elems
  <2>3. ServedInv
    BY <2>1 DEF ServedInv
  <2>4. IdsInv
    <3>1. Len(served) + Len(actq) + 1 .. nreqs = {}
      BY <2>1
    <3>2. ById(readq) /\ ById(writeq)
      BY <2>1 DEF ById
    <3> QED
      BY <2>2, <3>1, <3>2 DEF IdsInv
  <2>5. ModeInv
    BY <2>1 DEF ModeInv, OlderHead, OnlyQueue
  <2> QED
    BY <2>1, <2>3, <2>4, <2>5 DEF OrderInv
<1>2. IInv /\ OrderInv /\ [Next]_vars => OrderInv'
  <2> SUFFICES ASSUME IInv, OrderInv, [Next]_vars PROVE OrderInv'
    OBVIOUS
  <2>1. CASE Tick
    BY <2>1, TickOrder
  <2>2. ASSUME NEW t \in {"READ", "WRITE"}, NEW r \in Rows, Enqueue(t, r)
        PROVE  OrderInv'
    BY <2>2, EnqueueOrder
  <2>3. CASE UNCHANGED vars
    <3>1. UNCHANGED <<readq, writeq, actq, write_mode, now, fresh, nreqs, served>>
      BY <2>3 DEF vars, queues
    <3>2. ServedInv' /\ ModeInv'
      BY <3>1 DEF OrderInv, ServedInv, ModeInv, OlderHead, OnlyQueue
    <3>3. IdsInv'
      BY <3>1 DEF OrderInv, IdsInv, Waiting, Elems, ById
    <3> QED
      BY <3>1, <3>2, <3>3 DEF OrderInv
  <2> QED
    BY <2>1, <2>2, <2>3 DEF Next
<1>3. OrderInv => CommandOrder
  BY DEF OrderInv, ServedInv, CommandOrder
<1> QED
  BY <1>1, <1>2, <1>3, ControllerInvariant, PTL DEF Spec
=============================================================================
