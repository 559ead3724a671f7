---------------------------- MODULE ABController ----------------------------
(***************************************************************************)
(* Ramulator's memory controller for the all-bank standards: enqueue_AB    *)
(* and tick_AB (Controller.h) with the device of HBM_AB.cpp, one channel   *)
(* with one rank. A command acts on all banks, so the device is one row    *)
(* buffer. Reads and writes have queues of their own, and write_mode and   *)
(* wm_blocked are there to serve both in the order of arrival, which the   *)
(* near-memory cores rely on.                                              *)
(*                                                                         *)
(* Time is relative: wait[c] is the number of cycles until command c is    *)
(* allowed (next[c] - clk), and the arrival time counts only the cycles in *)
(* which something arrived, which keeps every comparison of the code.      *)
(***************************************************************************)
EXTENDS Integers, Sequences

CONSTANTS
    Rows,        \* rows
    QMax,        \* Queue::max
    nBL, nCCDL, nRTP, nCL, nCWL, nRCDR, nRCDW, nRP, nRAS, nRC, nWR, nWTRL,
    nRFC, nREFI, \* timing of the speed grade
    PerCycle,    \* environment: arrivals in one cycle
    MaxReqs      \* bound: requests accepted

ASSUME TimingAssumption ==
    /\ \A n \in {QMax, nBL, nCCDL, nRTP, nCL, nCWL, nRCDR, nRCDW, nRP, nRAS,
                 nRC, nWR, nWTRL, nRFC, nREFI, PerCycle} : n \in Nat \ {0}
    /\ MaxReqs \in Nat /\ 0 \notin Rows

(* What the timing of every speed grade of HBM_AB.h satisfies: the column  *)
(* command of an activated request is allowed before its row may be closed *)
(* again, and a column command delays the next one for less than a new     *)
(* row cycle does.                                                         *)
ASSUME GradeAssumption ==
    /\ nRCDR <= nRAS /\ nRCDW <= nRAS
    /\ \A n \in {nRTP, nCWL + nBL + nWR} :
          nBL <= n + nRP + nRAS /\ nCCDL <= n + nRP + nRAS
    /\ nCL + nCCDL + 2 - nCWL <= nRTP + nRP + nRAS
    /\ nWTRL <= nWR + nRP + nRAS

(* A refresh, the closing of the row before it and an activated request    *)
(* that comes first together take less than the refresh interval.          *)
ASSUME RefreshAssumption ==
    \A n \in {nRTP, nCWL + nBL + nWR} :
        nRFC <= nREFI /\ nRAS + n + nRP <= nREFI

VARIABLES
    readq, writeq, actq, otherq,   \* the queues of the controller
    pending,                       \* reads issued, with the cycles to go
    write_mode, wm_blocked,
    row,                           \* the open row of all banks, or None
    table,                         \* the row table's entry, or None
    wait,                          \* cycles until a command is allowed
    refreshIn,                     \* cycles until the next refresh is due
    now, fresh,                    \* arrival clock, arrivals in this cycle
    nreqs,                         \* history: requests accepted
    served,                        \* history: order of column commands
    done                           \* history: requests called back

queues == <<readq, writeq, actq, otherq>>
vars == <<queues, pending, write_mode, wm_blocked, row, table, wait,
          refreshIn, now, fresh, nreqs, served, done>>

None == 0

Commands == {"ACT", "PRE", "PREA", "RD", "WR", "REF"}

Later(a, b) == IF a >= b THEN a ELSE b

ReadLatency == nCL + nBL

(* The timing constraints of HBM_AB: cycles from one command to another.   *)
(* (The four-activate window nFAW is implied by nRC, since every           *)
(* activation opens all banks.)                                            *)
Delay(c, d) ==
    CASE c \in {"RD", "WR"} /\ d = c -> Later(nBL, nCCDL)
      [] c = "RD" /\ d = "WR" -> nCL + nCCDL + 2 - nCWL
      [] c = "WR" /\ d = "RD" -> nCWL + nBL + nWTRL
      [] c = "RD" /\ d \in {"PRE", "PREA"} -> nRTP
      [] c = "WR" /\ d \in {"PRE", "PREA"} -> nCWL + nBL + nWR
      [] c = "ACT" /\ d = "RD" -> nRCDR
      [] c = "ACT" /\ d = "WR" -> nRCDW
      [] c = "ACT" /\ d = "ACT" -> nRC
      [] c = "ACT" /\ d \in {"PRE", "PREA"} -> nRAS
      [] c \in {"PRE", "PREA"} /\ d \in {"ACT", "REF"} -> nRP
      [] c = "REF" /\ d \in {"ACT", "REF"} -> nRFC
      [] OTHER -> 0

Refresh == [id |-> 0, type |-> "REFRESH", row |-> None, arrive |-> 0]

Init ==
    /\ readq = <<>> /\ writeq = <<>> /\ actq = <<>> /\ otherq = <<>>
    /\ pending = <<>> /\ write_mode = FALSE /\ wm_blocked = FALSE
    /\ row = None /\ table = None /\ wait = [c \in Commands |-> 0]
    /\ refreshIn = nREFI /\ now = 0 /\ fresh = 0
    /\ nreqs = 0 /\ served = <<>> /\ done = {}

-----------------------------------------------------------------------------
(* Mutant: the test for a full queue is off by one. *)
EnqueueOneMore(type, r) ==
    LET req == [id |-> nreqs + 1, type |-> type, row |-> r, arrive |-> now]
    IN  /\ nreqs < MaxReqs /\ fresh < PerCycle
        /\ \/ /\ type = "READ" /\ Len(readq) <= QMax
              /\ readq' = Append(readq, req) /\ UNCHANGED writeq
           \/ /\ type = "WRITE" /\ Len(writeq) <= QMax
              /\ writeq' = Append(writeq, req) /\ UNCHANGED readq
        /\ nreqs' = nreqs + 1 /\ fresh' = fresh + 1
        /\ UNCHANGED <<actq, otherq, pending, write_mode, wm_blocked, row,
                       table, wait, refreshIn, now, served, done>>

(* enqueue_AB. A full queue refuses, and nothing changes. *)
Enqueue(type, r) ==
    LET req == [id |-> nreqs + 1, type |-> type, row |-> r, arrive |-> now]
    IN  /\ nreqs < MaxReqs /\ fresh < PerCycle
        /\ \/ /\ type = "READ" /\ Len(readq) < QMax
              /\ readq' = Append(readq, req) /\ UNCHANGED writeq
           \/ /\ type = "WRITE" /\ Len(writeq) < QMax
              /\ writeq' = Append(writeq, req) /\ UNCHANGED readq
        /\ nreqs' = nreqs + 1 /\ fresh' = fresh + 1
        /\ UNCHANGED <<actq, otherq, pending, write_mode, wm_blocked, row,
                       table, wait, refreshIn, now, served, done>>

-----------------------------------------------------------------------------
(* tick_AB. The operators with suffix 1 are what the first stages leave    *)
(* for the choice of a command.                                            *)

(* clk++ *)
wait1 == [c \in Commands |-> Later(wait[c] - 1, 0)]

(* 1. Serve completed reads: at most one in a cycle. *)
Aged == [i \in 1 .. Len(pending) |->
           [pending[i] EXCEPT !.left = Later(@ - 1, 0)]]

Completes == pending # <<>> /\ pending[1].left <= 1

pending1 == IF Completes THEN Tail(Aged) ELSE Aged

(* 2. Refresh scheduler *)
otherq1 == IF refreshIn = 1 THEN Append(otherq, Refresh) ELSE otherq

(* Mutant: the tests on the two queues are swapped. *)
write_modeSwapped ==
    IF wm_blocked THEN write_mode
    ELSE IF readq # <<>> /\ writeq = <<>> THEN TRUE
    ELSE IF readq = <<>> /\ writeq # <<>> THEN FALSE
    ELSE write_mode

(* 3. Should we schedule writes? *)
write_mode1 ==
    IF wm_blocked THEN write_mode
    ELSE IF readq = <<>> /\ writeq # <<>> THEN TRUE
    ELSE IF readq # <<>> /\ writeq = <<>> THEN FALSE
    ELSE write_mode

(* Scheduler::get_head under FCFS: the earliest arrival, the first of      *)
(* equals.                                                                 *)
HeadIndex(q) ==
    CHOOSE i \in 1 .. Len(q) :
        \A j \in 1 .. Len(q) :
            q[i].arrive < q[j].arrive \/ (q[i].arrive = q[j].arrive /\ i <= j)

GetHead(q) == q[HeadIndex(q)]

Erase(q) == [i \in 1 .. Len(q) - 1 |-> IF i < HeadIndex(q) THEN q[i] ELSE q[i + 1]]

(* get_first_cmd: the prerequisite of a request, or its own command. *)
FirstCmd(req) ==
    IF req.type = "REFRESH" THEN IF row = None THEN "REF" ELSE "PREA"
    ELSE IF row = None THEN "ACT"
    ELSE IF row # req.row THEN "PRE"
    ELSE IF req.type = "READ" THEN "RD" ELSE "WR"

IsReady(req) == wait1[FirstCmd(req)] = 0

ActReady == actq # <<>> /\ IsReady(GetHead(actq))

(* Mutants: "other" requests before activated ones; and after all others.  *)
SourceOtherFirst ==
    IF otherq1 # <<>> THEN "other" ELSE IF ActReady THEN "act"
    ELSE IF write_mode1 THEN "write" ELSE "read"

SourceOtherLast ==
    IF ActReady THEN "act"
    ELSE IF otherq1 # <<>> /\ readq = <<>> /\ writeq = <<>> THEN "other"
    ELSE IF write_mode1 THEN "write" ELSE "read"

(* 4. The queue to serve: an activated request if it is ready, else "other"*)
(* requests, else the queue of the mode.                                   *)
Source ==
    IF ActReady THEN "act" ELSE IF otherq1 # <<>> THEN "other"
    ELSE IF write_mode1 THEN "write" ELSE "read"

QueueOf(src) == CASE src = "act"   -> actq
                  [] src = "other" -> otherq1
                  [] src = "write" -> writeq
                  [] src = "read"  -> readq

Valid(src) == QueueOf(src) # <<>> /\ IsReady(GetHead(QueueOf(src)))

(* queue->q.erase(req), for the head of the queue that is served. *)
EraseFrom(src) ==
    /\ readq'  = IF src = "read" THEN Erase(readq) ELSE readq
    /\ writeq' = IF src = "write" THEN Erase(writeq) ELSE writeq
    /\ otherq' = IF src = "other" THEN Erase(otherq1) ELSE otherq1

(* What every tick does; cb is the write it calls back, if any. *)
Advance(cb) ==
    /\ done' = done \cup cb \cup (IF Completes THEN {pending[1].id} ELSE {})
    /\ refreshIn' = IF refreshIn = 1 THEN nREFI ELSE refreshIn - 1
    /\ now' = IF fresh > 0 THEN now + 1 ELSE now
    /\ fresh' = 0
    /\ UNCHANGED nreqs

(* Mutant: precharging all banks leaves the row table alone. *)
IssueCmdKeepEntry(c, r) ==
    /\ wait' = [d \in Commands |-> Later(wait1[d], Delay(c, d))]
    /\ row' = CASE c = "ACT" -> r [] c \in {"PRE", "PREA"} -> None
                [] OTHER -> row
    /\ table' = CASE c = "ACT" -> IF table = None THEN r ELSE table
                  [] c = "PRE" -> None
                  [] OTHER -> table

(* issue_cmd: the device and the row table. *)
IssueCmd(c, r) ==
    /\ wait' = [d \in Commands |-> Later(wait1[d], Delay(c, d))]
    /\ row' = CASE c = "ACT" -> r [] c \in {"PRE", "PREA"} -> None
                [] OTHER -> row
    /\ table' = CASE c = "ACT" -> IF table = None THEN r ELSE table
                  [] c \in {"PRE", "PREA"} -> None
                  [] OTHER -> table

(* No command can be issued; under the open-row policy there is no victim. *)
TickIdle(src) ==
    /\ ~Valid(src)
    /\ Advance({})
    /\ wait' = wait1 /\ pending' = pending1 /\ otherq' = otherq1
    /\ write_mode' = write_mode1
    /\ UNCHANGED <<readq, writeq, actq, wm_blocked, row, table, served>>

(* A prerequisite that opens no row; the request stays where it is. *)
TickPrecharge(src) ==
    LET c == FirstCmd(GetHead(QueueOf(src))) IN
    /\ Valid(src) /\ c \in {"PRE", "PREA"}
    /\ Advance({})
    /\ IssueCmd(c, None) /\ pending' = pending1 /\ otherq' = otherq1
    /\ write_mode' = write_mode1
    /\ wm_blocked' = (wm_blocked /\ src # "act")
    /\ UNCHANGED <<readq, writeq, actq, served>>

(* An activation promotes the request to actq. Its type is read from the   *)
(* list node just erased, which the allocator has left as it was.          *)
TickActivate(src) ==
    LET req == GetHead(QueueOf(src)) IN
    /\ Valid(src) /\ FirstCmd(req) = "ACT"
    /\ Advance({})
    /\ IssueCmd("ACT", req.row) /\ pending' = pending1
    /\ EraseFrom(src)
    /\ actq' = Append(IF src = "act" THEN Erase(actq) ELSE actq, req)
    /\ write_mode' = (req.type = "WRITE") /\ wm_blocked' = TRUE
    /\ UNCHANGED served

(* Mutant: the queue with the later head. *)
ModeByArrivalLater(rq, wq, m) ==
    IF rq # <<>> /\ wq # <<>> THEN GetHead(wq).arrive >= GetHead(rq).arrive
    ELSE IF rq # <<>> THEN FALSE ELSE IF wq # <<>> THEN TRUE ELSE m

(* The mode after a request has finished: the queue with the earlier head. *)
ModeByArrival(rq, wq, m) ==
    IF rq # <<>> /\ wq # <<>> THEN GetHead(wq).arrive <= GetHead(rq).arrive
    ELSE IF rq # <<>> THEN FALSE ELSE IF wq # <<>> THEN TRUE ELSE m

(* The last command of a request. *)
TickFinish(src) ==
    LET req == GetHead(QueueOf(src))
        c   == FirstCmd(req)
    IN
    /\ Valid(src) /\ c \in {"RD", "WR", "REF"}
    /\ Advance(IF c = "WR" THEN {req.id} ELSE {})
    /\ IssueCmd(c, req.row)
    /\ EraseFrom(src)
    /\ actq' = IF src = "act" THEN Erase(actq) ELSE actq
    /\ pending' = IF c = "RD" THEN Append(pending1, [id   |-> req.id,
                                                     left |-> ReadLatency])
                  ELSE pending1
    /\ served' = IF c = "REF" THEN served ELSE Append(served, req.id)
    /\ write_mode' = ModeByArrival(readq', writeq', write_mode1)
    /\ wm_blocked' = (wm_blocked /\ src # "act")

Tick == \E src \in {Source} :
            TickIdle(src) \/ TickPrecharge(src) \/ TickActivate(src) \/ TickFinish(src)

Next == (\E t \in {"READ", "WRITE"}, r \in Rows : Enqueue(t, r)) \/ Tick

Spec == Init /\ [][Next]_vars

(* Ramulator::tick reschedules itself for ever. *)
FairSpec == Spec /\ WF_vars(Tick)

-----------------------------------------------------------------------------
Request == [id : 0 .. nreqs, type : {"READ", "WRITE", "REFRESH"},
            row : Rows \cup {None}, arrive : Nat]

(* The controller keeps its types, and the queues of reads and writes      *)
(* never grow past Queue::max, which enqueue_AB tests by equality.         *)
TypeOK ==
    /\ readq \in Seq(Request) /\ writeq \in Seq(Request)
    /\ actq \in Seq(Request) /\ otherq \in Seq(Request)
    /\ Len(readq) <= QMax /\ Len(writeq) <= QMax
    /\ pending \in Seq([id : 1 .. nreqs, left : Nat])
    /\ write_mode \in BOOLEAN /\ wm_blocked \in BOOLEAN
    /\ row \in Rows \cup {None} /\ table \in Rows \cup {None}
    /\ wait \in [Commands -> Nat] /\ refreshIn \in 1 .. nREFI
    /\ now \in Nat /\ fresh \in Nat /\ nreqs \in Nat
    /\ served \in Seq(1 .. nreqs) /\ done \subseteq 1 .. nreqs

(* "AllBanks memories maintain command order" (tick_AB): the column        *)
(* commands of reads and writes go to the device in the order in which the *)
(* requests were accepted, through activations, row conflicts, refreshes   *)
(* and mode switches.                                                      *)
CommandOrder == served = [i \in 1 .. Len(served) |-> i]

(* The row table agrees with the row buffers, so its assertions (an        *)
(* accessed row has its entry, a precharge removes one) hold.              *)
RowTableAgrees == table = row

(* An activated request gets its column command before its row is closed   *)
(* again, by a conflict or by a refresh: the purpose of actq, "avoiding    *)
(* useless activations", which rests on the timing of the grade.           *)
NoUselessActivation ==
    actq # <<>> => Len(actq) = 1 /\ row = actq[1].row

(* A refresh is over before the next is due, so the assertion that the     *)
(* refresh could be queued never fails, however busy the queues are.       *)
RefreshKeepsUp == Len(otherq) <= 1

(* Every accepted request is called back: nothing starves behind refreshes,*)
(* row conflicts or the other queue.                                       *)
RequestCompletes ==
    \A i \in 1 .. MaxReqs : (nreqs >= i) ~> (i \in done)
=============================================================================
