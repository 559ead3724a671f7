---------------------------- MODULE CoSimProofs ----------------------------
(***************************************************************************)
(* Proofs about the co-simulation protocol, for every clock period, tick   *)
(* threshold, set of gaps and number of commands, and at any pace of the   *)
(* program. IInv of CoSim is the inductive invariant; each of its parts    *)
(* has a lemma with one step per action.                                   *)
(***************************************************************************)
EXTENDS CoSim, TLAPS

(* Setting nmcMode in a FileLine leaves its tick as it is. *)
LEMMA SetMode ==
    ASSUME NEW c \in FileLine, NEW b \in BOOLEAN
    PROVE  /\ [c EXCEPT !.nmcMode = b] \in FileLine
           /\ [c EXCEPT !.nmcMode = b].issuedTick = c.issuedTick
  BY DEF FileLine

(* The same for RDcmd. *)
LEMMA SetRDcmd ==
    ASSUME NEW c \in FileLine, NEW b \in BOOLEAN
    PROVE  /\ [c EXCEPT !.RDcmd = b] \in FileLine
           /\ [c EXCEPT !.RDcmd = b].issuedTick = c.issuedTick
  BY DEF FileLine

(* The same for the data, which do not make a command an execution write. *)
LEMMA SetData ==
    ASSUME NEW c \in FileLine, NEW s \in Seq(Nat)
    PROVE  /\ [c EXCEPT !.data = s] \in FileLine
           /\ [c EXCEPT !.data = s].issuedTick = c.issuedTick
           /\ IsExecWrite([c EXCEPT !.data = s]) = IsExecWrite(c)
  BY DEF FileLine, IsExecWrite

(* The same for simCycle. *)
LEMMA SetCycle ==
    ASSUME NEW c \in FileLine, NEW n \in Nat
    PROVE  /\ [c EXCEPT !.simCycle = n] \in FileLine
           /\ [c EXCEPT !.simCycle = n].issuedTick = c.issuedTick
           /\ IsExecWrite([c EXCEPT !.simCycle = n]) = IsExecWrite(c)
  BY DEF FileLine, IsExecWrite

(* What pop_front does to a queue. *)
LEMMA TailFacts ==
    ASSUME NEW S, NEW q \in Seq(S), q # <<>>
    PROVE  /\ Tail(q) \in Seq(S) /\ Len(Tail(q)) = Len(q) - 1
           /\ Len(q) \in Nat \ {0}
           /\ \A i \in 1 .. Len(Tail(q)) : Tail(q)[i] = q[i + 1]
           /\ Head(q) = q[1] /\ Head(q) \in S
  OBVIOUS

(* The tick offset chosen for a command never passes the command's own     *)
(* tick, so the device cycle it is given is a natural number.              *)
LEMMA OffsetFacts ==
    ASSUME IInv
    PROVE  /\ OffsetFor(shared) \in Nat
           /\ OffsetFor(shared) <= shared.issuedTick
           /\ CycleOf(shared.issuedTick, OffsetFor(shared)) \in Nat
<1>1. shared.issuedTick \in Nat
  BY DEF IInv, TypeOK, FileLine
<1>2. /\ tickOffset \in Nat /\ mostRecentTick \in Nat
      /\ tickOffset <= mostRecentTick /\ mostRecentTick <= shared.issuedTick
  BY DEF IInv, TypeOK, ClockInv
<1>3. OffsetFor(shared) \in Nat /\ OffsetFor(shared) <= shared.issuedTick
  BY <1>1, <1>2, ParamAssumption DEF OffsetFor
<1> QED
  BY <1>1, <1>3, ParamAssumption DEF CycleOf

(* gem5's clock does not run backwards. *)
LEMMA NextTickFacts ==
    ASSUME TypeOK, NEW t \in NextTicks
    PROVE  t \in Nat /\ t >= tick
<1>1. PICK g \in Gaps : t = tick + g
  BY DEF NextTicks
<1>2. g \in Nat /\ tick \in Nat
  BY ParamAssumption DEF TypeOK
<1> QED
  BY <1>1, <1>2

-----------------------------------------------------------------------------
(* The token is passed on, never lost or doubled. *)
LEMMA TurnStep == ASSUME IInv, [Next]_vars PROVE TurnInv'
<1> USE ParamAssumption DEF IInv, TurnInv, STurn, PhaseInv, TypeOK
<1>1. CASE ModeChange
  BY <1>1 DEF ModeChange, svars
<1>2. ASSUME NEW rd \in BOOLEAN, PacketReg(rd) PROVE TurnInv'
  BY <1>2 DEF PacketReg, CanIssue, Issue, NextTicks, svars
<1>3. ASSUME NEW rd \in BOOLEAN, PacketGrfLast(rd) PROVE TurnInv'
  BY <1>3 DEF PacketGrfLast, CanIssue, Issue, NextTicks, svars
<1>4. ASSUME NEW rd \in BOOLEAN, PacketExec(rd) PROVE TurnInv'
  BY <1>4 DEF PacketExec, CanIssue, Issue, NextTicks, svars
<1>5. ASSUME NEW d \in 0 .. DQ_CLK - 2, PacketGrfWord(d) PROVE TurnInv'
  BY <1>5 DEF PacketGrfWord, CanIssue, svars
<1>6. CASE EndSystemCSim
  BY <1>6 DEF EndSystemCSim, svars
<1>7. CASE WriteEvent
  BY <1>7 DEF WriteEvent, svars
<1>8. CASE GPost
  BY <1>8 DEF GPost, svars
<1>9. CASE GWait
  BY <1>9 DEF GWait, svars
<1>10. CASE AfterCommand
  BY <1>10 DEF AfterCommand, IsExecWrite, svars
<1>11. CASE AfterEvent
  BY <1>11 DEF AfterEvent, svars
<1>12. CASE AfterExit
  BY <1>12 DEF AfterExit, svars
<1>13. CASE STop
  BY <1>13 DEF STop, gvars
<1>14. CASE SWait
  BY <1>14 DEF SWait, gvars
<1>15. CASE SCopy
  BY <1>15 DEF SCopy, IsNew, Queue, OffsetFor, CycleOf, IsExecWrite, gvars
<1>16. CASE SAck
  BY <1>16 DEF SAck, gvars
<1>17. CASE SSyncPost
  BY <1>17 DEF SSyncPost, gvars
<1>18. CASE SSyncWait
  BY <1>18 DEF SSyncWait, gvars
<1>19. CASE SPop
  BY <1>19 DEF SPop, gvars
<1>20. CASE SExecute
  BY <1>20 DEF SExecute, CaughtUp, IsExecWrite, WrapDQ, IsGrfWrite, gvars
<1>21. CASE SIdle
  BY <1>21 DEF SIdle, CaughtUp, WrapDQ, gvars
<1>22. CASE SStore
  BY <1>22 DEF SStore, gvars
<1>23. CASE SAdvance
  BY <1>23 DEF SAdvance, Spinning, gvars
<1>24. CASE SFinish
  BY <1>24 DEF SFinish, CaughtUp, gvars
<1>25. CASE Ended
  BY <1>25 DEF Ended, vars, gvars, svars
<1>26. CASE UNCHANGED vars
  BY <1>26 DEF vars, gvars, svars
<1> QED
  BY <1>1, <1>2, <1>3, <1>4, <1>5, <1>6, <1>7, <1>8, <1>9,
     <1>10, <1>11, <1>12, <1>13, <1>14, <1>15, <1>16, <1>17, <1>18,
     <1>19, <1>20, <1>21, <1>22, <1>23, <1>24, <1>25, <1>26
  DEF Next, Program, GStep, SStep

(* The driver's flags stay in step with its place in the loop. *)
LEMMA PhaseStep == ASSUME IInv, [Next]_vars PROVE PhaseInv'
<1> USE ParamAssumption DEF IInv, PhaseInv, TypeOK
<1>1. CASE ModeChange
  BY <1>1 DEF ModeChange, svars
<1>2. ASSUME NEW rd \in BOOLEAN, PacketReg(rd) PROVE PhaseInv'
  BY <1>2 DEF PacketReg, CanIssue, Issue, NextTicks, svars
<1>3. ASSUME NEW rd \in BOOLEAN, PacketGrfLast(rd) PROVE PhaseInv'
  BY <1>3 DEF PacketGrfLast, CanIssue, Issue, NextTicks, svars
<1>4. ASSUME NEW rd \in BOOLEAN, PacketExec(rd) PROVE PhaseInv'
  BY <1>4 DEF PacketExec, CanIssue, Issue, NextTicks, svars
<1>5. ASSUME NEW d \in 0 .. DQ_CLK - 2, PacketGrfWord(d) PROVE PhaseInv'
  BY <1>5 DEF PacketGrfWord, CanIssue, svars
<1>6. CASE EndSystemCSim
  BY <1>6 DEF EndSystemCSim, svars
<1>7. CASE WriteEvent
  BY <1>7 DEF WriteEvent, svars
<1>8. CASE GPost
  BY <1>8 DEF GPost, svars
<1>9. CASE GWait
  BY <1>9 DEF GWait, svars
<1>10. CASE AfterCommand
  BY <1>10 DEF AfterCommand, IsExecWrite, svars
<1>11. CASE AfterEvent
  BY <1>11 DEF AfterEvent, svars
<1>12. CASE AfterExit
  BY <1>12 DEF AfterExit, svars
<1>13. CASE STop
  BY <1>13 DEF STop, gvars
<1>14. CASE SWait
  BY <1>14 DEF SWait, gvars
<1>15. CASE SCopy
  BY <1>15 DEF SCopy, IsNew, Queue, OffsetFor, CycleOf, IsExecWrite, gvars
<1>16. CASE SAck
  BY <1>16 DEF SAck, gvars
<1>17. CASE SSyncPost
  BY <1>17 DEF SSyncPost, gvars
<1>18. CASE SSyncWait
  BY <1>18 DEF SSyncWait, gvars
<1>19. CASE SPop
  BY <1>19 DEF SPop, gvars
<1>20. CASE SExecute
  BY <1>20 DEF SExecute, CaughtUp, IsExecWrite, WrapDQ, IsGrfWrite, gvars
<1>21. CASE SIdle
  BY <1>21 DEF SIdle, CaughtUp, WrapDQ, gvars
<1>22. CASE SStore
  BY <1>22 DEF SStore, gvars
<1>23. CASE SAdvance
  BY <1>23 DEF SAdvance, Spinning, gvars
<1>24. CASE SFinish
  BY <1>24 DEF SFinish, CaughtUp, gvars
<1>25. CASE Ended
  BY <1>25 DEF Ended, vars, gvars, svars
<1>26. CASE UNCHANGED vars
  BY <1>26 DEF vars, gvars, svars
<1> QED
  BY <1>1, <1>2, <1>3, <1>4, <1>5, <1>6, <1>7, <1>8, <1>9,
     <1>10, <1>11, <1>12, <1>13, <1>14, <1>15, <1>16, <1>17, <1>18,
     <1>19, <1>20, <1>21, <1>22, <1>23, <1>24, <1>25, <1>26
  DEF Next, Program, GStep, SStep

(* The write-back event and the deque of channels stay together. *)
LEMMA EventStep == ASSUME IInv, [Next]_vars PROVE EventInv'
<1> USE ParamAssumption DEF IInv, EventInv, TypeOK
<1>1. CASE ModeChange
  BY <1>1 DEF ModeChange, svars
<1>2. ASSUME NEW rd \in BOOLEAN, PacketReg(rd) PROVE EventInv'
  BY <1>2 DEF PacketReg, CanIssue, Issue, NextTicks, svars
<1>3. ASSUME NEW rd \in BOOLEAN, PacketGrfLast(rd) PROVE EventInv'
  BY <1>3 DEF PacketGrfLast, CanIssue, Issue, NextTicks, svars
<1>4. ASSUME NEW rd \in BOOLEAN, PacketExec(rd) PROVE EventInv'
  BY <1>4 DEF PacketExec, CanIssue, Issue, NextTicks, svars
<1>5. ASSUME NEW d \in 0 .. DQ_CLK - 2, PacketGrfWord(d) PROVE EventInv'
  BY <1>5 DEF PacketGrfWord, CanIssue, svars
<1>6. CASE EndSystemCSim
  BY <1>6 DEF EndSystemCSim, svars
<1>7. CASE WriteEvent
  BY <1>7 DEF WriteEvent, svars
<1>8. CASE GPost
  BY <1>8 DEF GPost, svars
<1>9. CASE GWait
  BY <1>9 DEF GWait, svars
<1>10. CASE AfterCommand
  BY <1>10 DEF AfterCommand, IsExecWrite, svars
<1>11. CASE AfterEvent
  BY <1>11 DEF AfterEvent, svars
<1>12. CASE AfterExit
  BY <1>12 DEF AfterExit, svars
<1>13. CASE STop
  BY <1>13 DEF STop, gvars
<1>14. CASE SWait
  BY <1>14 DEF SWait, gvars
<1>15. CASE SCopy
  BY <1>15 DEF SCopy, IsNew, Queue, OffsetFor, CycleOf, IsExecWrite, gvars
<1>16. CASE SAck
  BY <1>16 DEF SAck, gvars
<1>17. CASE SSyncPost
  BY <1>17 DEF SSyncPost, gvars
<1>18. CASE SSyncWait
  BY <1>18 DEF SSyncWait, gvars
<1>19. CASE SPop
  BY <1>19 DEF SPop, gvars
<1>20. CASE SExecute
  BY <1>20 DEF SExecute, CaughtUp, IsExecWrite, WrapDQ, IsGrfWrite, gvars
<1>21. CASE SIdle
  BY <1>21 DEF SIdle, CaughtUp, WrapDQ, gvars
<1>22. CASE SStore
  BY <1>22 DEF SStore, gvars
<1>23. CASE SAdvance
  BY <1>23 DEF SAdvance, Spinning, gvars
<1>24. CASE SFinish
  BY <1>24 DEF SFinish, CaughtUp, gvars
<1>25. CASE Ended
  BY <1>25 DEF Ended, vars, gvars, svars
<1>26. CASE UNCHANGED vars
  BY <1>26 DEF vars, gvars, svars
<1> QED
  BY <1>1, <1>2, <1>3, <1>4, <1>5, <1>6, <1>7, <1>8, <1>9,
     <1>10, <1>11, <1>12, <1>13, <1>14, <1>15, <1>16, <1>17, <1>18,
     <1>19, <1>20, <1>21, <1>22, <1>23, <1>24, <1>25, <1>26
  DEF Next, Program, GStep, SStep

(* Ticks and cycles only move forward. *)
LEMMA ClockStep == ASSUME IInv, [Next]_vars PROVE ClockInv'
<1> USE DEF IInv, ClockInv, PhaseInv, TypeOK
<1>0. shared.issuedTick \in Nat
  BY DEF FileLine
<1>1. CASE ModeChange
  <2>1. shared'.issuedTick = shared.issuedTick
    BY <1>1, SetMode DEF ModeChange
  <2> QED
    BY <1>1, <2>1 DEF ModeChange, svars
<1>2. ASSUME NEW rd \in BOOLEAN, PacketReg(rd) PROVE ClockInv'
  <2>1. PICK t \in NextTicks : shared'.issuedTick = t /\ tick' = t
    BY <1>2 DEF PacketReg, Issue
  <2>2. t \in Nat /\ t >= tick
    BY <2>1, NextTickFacts
  <2> QED
    BY <1>2, <2>1, <2>2, <1>0 DEF PacketReg, Issue, CanIssue, svars
<1>3. ASSUME NEW rd \in BOOLEAN, PacketGrfLast(rd) PROVE ClockInv'
  <2>1. PICK t \in NextTicks : shared'.issuedTick = t /\ tick' = t
    BY <1>3 DEF PacketGrfLast, Issue
  <2>2. t \in Nat /\ t >= tick
    BY <2>1, NextTickFacts
  <2> QED
    BY <1>3, <2>1, <2>2, <1>0 DEF PacketGrfLast, Issue, CanIssue, svars
<1>4. ASSUME NEW rd \in BOOLEAN, PacketExec(rd) PROVE ClockInv'
  <2>1. PICK t \in NextTicks : shared'.issuedTick = t /\ tick' = t
    BY <1>4 DEF PacketExec, Issue
  <2>2. t \in Nat /\ t >= tick
    BY <2>1, NextTickFacts
  <2> QED
    BY <1>4, <2>1, <2>2, <1>0 DEF PacketExec, Issue, CanIssue, svars
<1>5. ASSUME NEW d \in 0 .. DQ_CLK - 2, PacketGrfWord(d) PROVE ClockInv'
  BY <1>5 DEF PacketGrfWord, CanIssue, svars
<1>6. CASE EndSystemCSim
  BY <1>6 DEF EndSystemCSim, svars
<1>7. CASE WriteEvent
  <2>1. evTick \in Nat /\ evTick >= tick
    BY <1>7 DEF WriteEvent, EventInv
  <2> QED
    BY <1>7, <2>1, <1>0 DEF WriteEvent, svars
<1>8. CASE GPost
  BY <1>8 DEF GPost, svars
<1>9. CASE GWait
  BY <1>9 DEF GWait, svars
<1>10. CASE AfterCommand
  BY <1>10 DEF AfterCommand, IsExecWrite, svars
<1>11. CASE AfterEvent
  <2>1. shared'.issuedTick = shared.issuedTick
    BY <1>11, SetRDcmd DEF AfterEvent
  <2> QED
    BY <1>11, <2>1 DEF AfterEvent, svars
<1>12. CASE AfterExit
  BY <1>12 DEF AfterExit, svars
<1>13. CASE STop
  BY <1>13 DEF STop, gvars
<1>14. CASE SWait
  BY <1>14 DEF SWait, gvars
<1>15. CASE SCopy
  <2>1. /\ spc' \in {"exec", "syncpost", "ack"}
        /\ UNCHANGED <<shared, tick, curCycle>>
        /\ spc' # "exec" => readCycle' = readCycle
    BY <1>15 DEF SCopy, gvars
  <2>2. \/ UNCHANGED <<tickOffset, mostRecentTick>>
        \/ /\ tickOffset' = OffsetFor(shared)
           /\ mostRecentTick' = shared.issuedTick
    BY <1>15 DEF SCopy, Queue
  <2>3. spc = "copy"
    BY <1>15 DEF SCopy
  <2> QED
    BY <2>1, <2>2, <2>3, <1>0, OffsetFacts
<1>16. CASE SAck
  BY <1>16 DEF SAck, gvars
<1>17. CASE SSyncPost
  BY <1>17 DEF SSyncPost, gvars
<1>18. CASE SSyncWait
  BY <1>18 DEF SSyncWait, gvars
<1>19. CASE SPop
  <2>1. curCycle > readCycle /\ spc' = "exec"
    BY <1>19 DEF SPop
  <2> QED
    BY <1>19, <2>1 DEF SPop, gvars
<1>20. CASE SExecute
  <2>1. curCycle = readCycle /\ spc' \in {"store", "advance"}
    BY <1>20 DEF SExecute
  <2> QED
    BY <1>20, <2>1 DEF SExecute, gvars
<1>21. CASE SIdle
  BY <1>21 DEF SIdle, CaughtUp, WrapDQ, gvars
<1>22. CASE SStore
  <2>1. shared'.issuedTick = send.issuedTick
    BY <1>22, SetData DEF SStore
  <2>2. send.issuedTick = mostRecentTick
    BY <1>22 DEF SStore, QueueInv
  <2>3. spc = "store" /\ spc' = "advance"
    BY <1>22 DEF SStore
  <2> QED
    BY <1>22, <2>1, <2>2, <2>3, <1>0 DEF SStore, gvars
<1>23. CASE SAdvance
  BY <1>23 DEF SAdvance, Spinning, gvars
<1>24. CASE SFinish
  BY <1>24 DEF SFinish, CaughtUp, gvars
<1>25. CASE Ended
  BY <1>25 DEF Ended, vars, gvars, svars
<1>26. CASE UNCHANGED vars
  BY <1>26 DEF vars, gvars, svars
<1> QED
  BY <1>1, <1>2, <1>3, <1>4, <1>5, <1>6, <1>7, <1>8, <1>9,
     <1>10, <1>11, <1>12, <1>13, <1>14, <1>15, <1>16, <1>17, <1>18,
     <1>19, <1>20, <1>21, <1>22, <1>23, <1>24, <1>25, <1>26
  DEF Next, Program, GStep, SStep

(* A command is queued behind commands that are not execution writes. *)
LEMMA QueueSCopy == ASSUME IInv, SCopy PROVE QueueInv'
<1> DEFINE q == instructionList
<1>1. /\ \A i \in 1 .. Len(q) : ~IsExecWrite(q[i])
      /\ q # <<>> => q[Len(q)].issuedTick = mostRecentTick
      /\ q \in Seq(FileLine) /\ shared \in FileLine
  BY DEF SCopy, IInv, PhaseInv, QueueInv, TypeOK
<1>2. /\ spc' \in {"exec", "syncpost", "ack"}
      /\ spc' = "exec" => localLastCmd'
      /\ UNCHANGED <<send, curCycle>>
  BY DEF SCopy
<1>3. CASE q' = q /\ mostRecentTick' = mostRecentTick
  BY <1>1, <1>2, <1>3 DEF QueueInv
<1>4. CASE ~sharedLastCmd /\ IsNew(shared)
  <2> DEFINE line == [shared EXCEPT !.simCycle =
                         CycleOf(shared.issuedTick, OffsetFor(shared))]
  <2>1. /\ q' = Append(q, line)
        /\ mostRecentTick' = shared.issuedTick
        /\ spc' = IF IsExecWrite(shared) THEN "syncpost" ELSE "ack"
    BY <1>4 DEF SCopy, Queue
  <2>2. /\ line \in FileLine /\ line.issuedTick = shared.issuedTick
        /\ IsExecWrite(line) = IsExecWrite(shared)
    BY <1>1, SetCycle, OffsetFacts
  <2> HIDE DEF line
  <2>3. /\ Len(q') = Len(q) + 1 /\ Len(q) \in Nat
        /\ q'[Len(q) + 1] = line
        /\ \A i \in 1 .. Len(q) : q'[i] = q[i]
    BY <1>1, <2>1, <2>2
  <2>4. \A i \in 1 .. Len(q') : IsExecWrite(q'[i]) => i = Len(q')
    BY <1>1, <2>3
  <2>5. ~IsExecWrite(shared) => \A i \in 1 .. Len(q') : ~IsExecWrite(q'[i])
    BY <1>1, <2>2, <2>3
  <2>6. q'[Len(q')].issuedTick = mostRecentTick'
    BY <2>1, <2>2, <2>3
  <2> QED
    BY <1>2, <2>1, <2>4, <2>5, <2>6 DEF QueueInv
<1> QED
  BY <1>3, <1>4 DEF SCopy

(* Taking the front keeps the execution write last; once it is the front   *)
(* the queue is empty behind it.                                           *)
LEMMA QueueSPop == ASSUME IInv, SPop PROVE QueueInv'
<1>1. CASE instructionList # <<>> /\ curCycle >= readCycle
  <2> DEFINE q == instructionList
  <2>1. send' = q[1] /\ q' = Tail(q)
    BY <1>1, TailFacts DEF SPop, IInv, TypeOK
  <2>2. /\ Len(q') = Len(q) - 1 /\ Len(q) \in Nat \ {0}
        /\ \A i \in 1 .. Len(q') : q'[i] = q[i + 1]
    BY <1>1, <2>1, TailFacts DEF IInv, TypeOK
  <2>3. Len(q') = 0 <=> q' = <<>>
    BY <1>1, <2>1, TailFacts DEF IInv, TypeOK
  <2>4. \A i \in 1 .. Len(q) : IsExecWrite(q[i]) => i = Len(q)
    BY DEF IInv, QueueInv
  <2>5. /\ q[Len(q)].issuedTick = mostRecentTick
        /\ mostRecentTick' = mostRecentTick
    BY <1>1 DEF IInv, QueueInv, SPop
  <2>6. ~waitSemaphore' /\ spc' = "exec"
    BY DEF IInv, PhaseInv, SPop
  <2>7. \A i \in 1 .. Len(q') : IsExecWrite(q'[i]) => i = Len(q')
    BY <2>2, <2>4
  <2>8. q' # <<>> => q'[Len(q')].issuedTick = mostRecentTick'
    BY <2>2, <2>3, <2>5
  <2>9. IsExecWrite(q[1]) => Len(q) = 1
    BY <2>2, <2>4
  <2>10. ASSUME IsExecWrite(send')
         PROVE  q' = <<>> /\ send'.issuedTick = mostRecentTick'
    <3>1. Len(q) = 1
      BY <2>1, <2>9, <2>10
    <3>2. q[1].issuedTick = mostRecentTick'
      BY <2>5, <3>1
    <3> QED
      BY <2>1, <2>2, <2>3, <3>1, <3>2
  <2> QED
    BY <2>6, <2>7, <2>8, <2>10 DEF QueueInv, IsExecWrite
<1>2. CASE ~(instructionList # <<>> /\ curCycle >= readCycle)
  BY <1>2 DEF SPop, IInv, TypeOK, QueueInv, PhaseInv, ClockInv, gvars
<1> QED
  BY <1>1, <1>2

(* An execution write stays the last command of its batch. *)
LEMMA QueueStep == ASSUME IInv, [Next]_vars PROVE QueueInv'
<1> USE ParamAssumption DEF IInv, QueueInv, PhaseInv, ClockInv, TypeOK
<1>1. CASE ModeChange
  BY <1>1 DEF ModeChange, svars
<1>2. ASSUME NEW rd \in BOOLEAN, PacketReg(rd) PROVE QueueInv'
  BY <1>2 DEF PacketReg, CanIssue, Issue, NextTicks, svars
<1>3. ASSUME NEW rd \in BOOLEAN, PacketGrfLast(rd) PROVE QueueInv'
  BY <1>3 DEF PacketGrfLast, CanIssue, Issue, NextTicks, svars
<1>4. ASSUME NEW rd \in BOOLEAN, PacketExec(rd) PROVE QueueInv'
  BY <1>4 DEF PacketExec, CanIssue, Issue, NextTicks, svars
<1>5. ASSUME NEW d \in 0 .. DQ_CLK - 2, PacketGrfWord(d) PROVE QueueInv'
  BY <1>5 DEF PacketGrfWord, CanIssue, svars
<1>6. CASE EndSystemCSim
  BY <1>6 DEF EndSystemCSim, svars
<1>7. CASE WriteEvent
  BY <1>7 DEF WriteEvent, svars
<1>8. CASE GPost
  BY <1>8 DEF GPost, svars
<1>9. CASE GWait
  BY <1>9 DEF GWait, svars
<1>10. CASE AfterCommand
  BY <1>10 DEF AfterCommand, svars
<1>11. CASE AfterEvent
  BY <1>11 DEF AfterEvent, svars
<1>12. CASE AfterExit
  BY <1>12 DEF AfterExit, svars
<1>13. CASE STop
  BY <1>13 DEF STop, gvars
<1>14. CASE SWait
  BY <1>14 DEF SWait, gvars
<1>15. CASE SCopy
  BY <1>15, QueueSCopy
<1>16. CASE SAck
  BY <1>16 DEF SAck, gvars
<1>17. CASE SSyncPost
  BY <1>17 DEF SSyncPost, gvars
<1>18. CASE SSyncWait
  BY <1>18 DEF SSyncWait, gvars
<1>19. CASE SPop
  BY <1>19, QueueSPop
<1>20. CASE SExecute
  BY <1>20 DEF SExecute, CaughtUp, WrapDQ, IsGrfWrite, gvars
<1>21. CASE SIdle
  BY <1>21 DEF SIdle, CaughtUp, WrapDQ, gvars
<1>22. CASE SStore
  BY <1>22, SetData DEF SStore, gvars
<1>23. CASE SAdvance
  BY <1>23 DEF SAdvance, Spinning, gvars
<1>24. CASE SFinish
  BY <1>24 DEF SFinish, CaughtUp, gvars
<1>25. CASE Ended
  BY <1>25 DEF Ended, vars, gvars, svars
<1>26. CASE UNCHANGED vars
  BY <1>26 DEF vars, gvars, svars
<1> QED
  BY <1>1, <1>2, <1>3, <1>4, <1>5, <1>6, <1>7, <1>8, <1>9,
     <1>10, <1>11, <1>12, <1>13, <1>14, <1>15, <1>16, <1>17, <1>18,
     <1>19, <1>20, <1>21, <1>22, <1>23, <1>24, <1>25, <1>26
  DEF Next, Program, GStep, SStep

(* Every action keeps the types. *)
LEMMA TypeStep == ASSUME IInv, [Next]_vars PROVE TypeOK'
<1> USE DEF IInv, TypeOK
<1>1. CASE ModeChange
  <2>1. shared' \in FileLine /\ local' \in FileLine
    BY <1>1, SetMode DEF ModeChange
  <2> QED
    BY <1>1, <2>1 DEF ModeChange, svars
<1>2. ASSUME NEW rd \in BOOLEAN, PacketReg(rd) PROVE TypeOK'
  <2>1. PICK t \in NextTicks : Issue("reg", rd, <<Len(sent) + 1>>, t)
    BY <1>2 DEF PacketReg
  <2>2. t \in Nat
    BY <2>1, NextTickFacts
  <2>3. <<Len(sent) + 1>> \in Seq(Nat)
    OBVIOUS
  <2>4. Len(sent) + 1 \in Nat
    OBVIOUS
  <2>5. local.nmcMode \in BOOLEAN
    BY DEF FileLine
  <2>6. local' \in FileLine /\ shared' = local' /\ sent' = Append(sent, local')
    BY <2>1, <2>2, <2>3, <2>4, <2>5 DEF Issue, FileLine, Address, Regions
  <2> QED
    BY <1>2, <2>1, <2>2, <2>6 DEF PacketReg, Issue, CanIssue, svars
<1>3. ASSUME NEW rd \in BOOLEAN, PacketGrfLast(rd) PROVE TypeOK'
  <2> DEFINE words == [temp EXCEPT ![DQ_CLK - 1] = Len(sent) + 1]
             data  == [i \in 1 .. DQ_CLK |-> words[i - 1]]
  <2>1. PICK t \in NextTicks : Issue("grf", rd, data, t)
    BY <1>3 DEF PacketGrfLast
  <2>2. t \in Nat
    BY <2>1, NextTickFacts
  <2>3. words \in [0 .. DQ_CLK - 1 -> Nat]
    BY ParamAssumption
  <2>4. data \in Seq(Nat)
    BY <2>3, ParamAssumption
  <2>5. Len(sent) + 1 \in Nat /\ local.nmcMode \in BOOLEAN
    BY DEF FileLine
  <2> HIDE DEF data
  <2>6. local' \in FileLine /\ shared' = local' /\ sent' = Append(sent, local')
    BY <2>1, <2>2, <2>4, <2>5 DEF Issue, FileLine, Address, Regions
  <2>7. temp' = words
    BY <1>3 DEF PacketGrfLast
  <2> QED
    BY <1>3, <2>1, <2>2, <2>3, <2>6, <2>7 DEF PacketGrfLast, Issue, CanIssue, svars
<1>4. ASSUME NEW rd \in BOOLEAN, PacketExec(rd) PROVE TypeOK'
  <2>1. PICK t \in NextTicks : Issue("exec", rd, IF rd THEN <<Len(applied)>> ELSE local.data, t)
    BY <1>4 DEF PacketExec
  <2>2. t \in Nat
    BY <2>1, NextTickFacts
  <2>3. (IF rd THEN <<Len(applied)>> ELSE local.data) \in Seq(Nat)
    BY DEF FileLine
  <2>4. Len(sent) + 1 \in Nat
    OBVIOUS
  <2>5. local.nmcMode \in BOOLEAN
    BY DEF FileLine
  <2>6. local' \in FileLine /\ shared' = local' /\ sent' = Append(sent, local')
    BY <2>1, <2>2, <2>3, <2>4, <2>5 DEF Issue, FileLine, Address, Regions
  <2> QED
    BY <1>4, <2>1, <2>2, <2>6 DEF PacketExec, Issue, CanIssue, svars
<1>5. ASSUME NEW d \in 0 .. DQ_CLK - 2, PacketGrfWord(d) PROVE TypeOK'
  <2>0. temp \in [0 .. DQ_CLK - 1 -> Nat] /\ Len(sent) + 1 \in Nat
    OBVIOUS
  <2>1. temp' \in [0 .. DQ_CLK - 1 -> Nat]
    <3> HIDE DEF TypeOK, IInv
    <3> QED BY <1>5, <2>0 DEF PacketGrfWord
  <2> QED
    BY <1>5, <2>1 DEF PacketGrfWord, svars
<1>6. CASE EndSystemCSim
  BY <1>6 DEF EndSystemCSim, svars
<1>7. CASE WriteEvent
  BY <1>7 DEF WriteEvent, svars
<1>8. CASE GPost
  BY <1>8 DEF GPost, svars
<1>9. CASE GWait
  BY <1>9 DEF GWait, svars
<1>10. CASE AfterCommand
  <2>1. evTick' \in Nat \cup {None}
    BY <1>10, ParamAssumption DEF AfterCommand
  <2>0. Append(channelCnmWrite, 0) \in Seq({0})
    OBVIOUS
  <2>2. channelCnmWrite' \in Seq({0})
    BY <1>10, <2>0 DEF AfterCommand
  <2>3. gpc' \in {"idle", "aborted"}
    BY <1>10 DEF AfterCommand
  <2> QED
    BY <1>10, <2>1, <2>2, <2>3 DEF AfterCommand, svars
<1>11. CASE AfterEvent
  <2>1. shared.address.loc \in Nat /\ shared.data \in Seq(Nat)
    BY DEF FileLine, Address
  <2>2. shared' \in FileLine
    BY <1>11, SetRDcmd DEF AfterEvent
  <2>3. channelCnmWrite' \in Seq({0})
    BY <1>11, TailFacts DEF AfterEvent, EventInv
  <2>4. applied' \in Seq([loc : Nat, data : Seq(Nat)])
    BY <1>11, <2>1 DEF AfterEvent
  <2> QED
    BY <1>11, <2>2, <2>3, <2>4 DEF AfterEvent, svars
<1>12. CASE AfterExit
  BY <1>12 DEF AfterExit, svars
<1>13. CASE STop
  <2>1. DQCycle' \in Nat
    BY <1>13 DEF STop
  <2>2. rcvNewCmd' \in BOOLEAN
    BY <1>13, Zenon DEF STop
  <2> QED
    BY <1>13, <2>1, <2>2 DEF STop, gvars
<1>14. CASE SWait
  BY <1>14 DEF SWait, gvars
<1>15. CASE SCopy
  <2>1. /\ OffsetFor(shared) \in Nat
        /\ [shared EXCEPT !.simCycle = CycleOf(shared.issuedTick,
              OffsetFor(shared))] \in FileLine
        /\ shared.issuedTick \in Nat /\ shared.nmcMode \in BOOLEAN
        /\ IsExecWrite(shared) \in BOOLEAN
    BY OffsetFacts, SetCycle DEF FileLine, IsExecWrite
  <2>2. instructionList' \in Seq(FileLine)
    <3>1. \A c \in FileLine : Append(instructionList, c) \in Seq(FileLine)
      OBVIOUS
    <3> QED
      BY <1>15, <2>1, <3>1 DEF SCopy, Queue
  <2>3. tickOffset' \in Nat /\ mostRecentTick' \in Nat
    BY <1>15, <2>1 DEF SCopy, Queue
  <2>4. readCycle' \in Nat
    BY <1>15, ParamAssumption DEF SCopy
  <2>5. localPimMode' \in BOOLEAN
    BY <1>15, <2>1 DEF SCopy
  <2>6. /\ writeSync' \in BOOLEAN /\ localLastCmd' \in BOOLEAN
        /\ spc' \in {"exec", "syncpost", "ack"}
    BY <1>15, <2>1, Zenon DEF SCopy
  <2>7. UNCHANGED <<rcvNewCmd, waitSemaphore, curCycle, send, DQCycle, bankWrite, gvars,
                    shared, sharedLastCmd, sem1, sem2, sent, executed, applied>>
    BY <1>15 DEF SCopy
  <2> QED
    BY <2>2, <2>3, <2>4, <2>5, <2>6, <2>7 DEF gvars
<1>16. CASE SAck
  BY <1>16 DEF SAck, gvars
<1>17. CASE SSyncPost
  BY <1>17 DEF SSyncPost, gvars
<1>18. CASE SSyncWait
  <2>1. sem1' \in Nat
    BY <1>18 DEF SSyncWait
  <2>2. waitSemaphore' \in BOOLEAN
    BY <1>18, Zenon DEF SSyncWait
  <2> QED
    BY <1>18, <2>1, <2>2 DEF SSyncWait, gvars
<1>19. CASE SPop
  <2>1. \A c \in FileLine : c.simCycle \in Nat
    BY DEF FileLine
  <2>2. CASE instructionList # <<>> /\ curCycle >= readCycle
    <3>1. /\ Tail(instructionList) \in Seq(FileLine)
          /\ Head(instructionList) \in FileLine
      BY <2>2, TailFacts
    <3>2. Head(instructionList).simCycle \in Nat
      BY <2>1, <3>1
    <3>3. /\ instructionList' \in Seq(FileLine) /\ send' \in FileLine
          /\ readCycle' \in Nat /\ spc' = "exec"
      BY <1>19, <2>2, <3>1, <3>2 DEF SPop
    <3> QED
      BY <1>19, <3>3 DEF SPop, gvars
  <2>3. CASE ~(instructionList # <<>> /\ curCycle >= readCycle)
    BY <1>19, <2>3 DEF SPop, gvars
  <2> QED
    BY <2>2, <2>3
<1>20. CASE SExecute
  <2>1. send.address.loc \in Nat /\ IsExecWrite(send) \in BOOLEAN
    BY DEF FileLine, Address, IsExecWrite
  <2> QED
    BY <1>20, <2>1 DEF SExecute, WrapDQ, gvars
<1>21. CASE SIdle
  BY <1>21 DEF SIdle, CaughtUp, WrapDQ, gvars
<1>22. CASE SStore
  <2>1. send' \in FileLine /\ shared' \in FileLine
    BY <1>22, SetData DEF SStore
  <2>2. bankWrite' \in BOOLEAN
    BY <1>22, Zenon DEF SStore
  <2> QED
    BY <1>22, <2>1, <2>2 DEF SStore, gvars
<1>23. CASE SAdvance
  <2>1. sem2' \in Nat /\ curCycle' \in Nat
    BY <1>23 DEF SAdvance
  <2>2. waitSemaphore' \in BOOLEAN
    BY <1>23, Zenon DEF SAdvance
  <2> QED
    BY <1>23, <2>1, <2>2 DEF SAdvance, gvars
<1>24. CASE SFinish
  BY <1>24 DEF SFinish, CaughtUp, gvars
<1>25. CASE Ended
  BY <1>25 DEF Ended, vars, gvars, svars
<1>26. CASE UNCHANGED vars
  BY <1>26 DEF vars, gvars, svars
<1> QED
  BY <1>1, <1>2, <1>3, <1>4, <1>5, <1>6, <1>7, <1>8, <1>9,
     <1>10, <1>11, <1>12, <1>13, <1>14, <1>15, <1>16, <1>17, <1>18,
     <1>19, <1>20, <1>21, <1>22, <1>23, <1>24, <1>25, <1>26
  DEF Next, Program, GStep, SStep

-----------------------------------------------------------------------------
(* The inductive invariant holds in every reachable state. *)
THEOREM InductiveInvariant == Spec => []IInv
<1>1. Init => IInv
  <2> SUFFICES ASSUME Init PROVE IInv
    OBVIOUS
  <2>1. InitLine \in FileLine
    BY DEF InitLine, FileLine, Address, Regions
  <2>2. TypeOK
    BY <2>1, ParamAssumption DEF Init, TypeOK
  <2>3. ClockInv /\ QueueInv
    BY ParamAssumption DEF Init, ClockInv, QueueInv, InitLine, IsExecWrite
  <2>4. TurnInv /\ PhaseInv /\ EventInv
    BY DEF Init, TurnInv, STurn, PhaseInv, EventInv
  <2> QED
    BY <2>2, <2>3, <2>4 DEF IInv
<1>2. IInv /\ [Next]_vars => IInv'
  BY TypeStep, TurnStep, PhaseStep, EventStep, ClockStep, QueueStep DEF IInv
<1> QED
  BY <1>1, <1>2, PTL DEF Spec

(* All variables of both processes keep their types; in particular the     *)
(* deque channelCnmWrite is never popped while empty and the device cycle  *)
(* given to a command is never negative.                                   *)
THEOREM TypeCorrect == Spec => []TypeOK
<1>1. IInv => TypeOK
  BY DEF IInv
<1> QED
  BY <1>1, InductiveInvariant, PTL

(* The child touches the shared line only while gem5 is blocked in         *)
(* sem_wait(semaphore2).                                                   *)
THEOREM SharedMemoryExclusion == Spec => []SharedMemoryExclusive
<1>1. IInv => SharedMemoryExclusive
  BY DEF IInv, TurnInv, STurn, SharedMemoryExclusive
<1> QED
  BY <1>1, InductiveInvariant, PTL

(* The two semaphores together never hold more than one post. *)
THEOREM SemaphoreBound == Spec => []SemaphoresBinary
<1>1. IInv => SemaphoresBinary
  BY DEF IInv, TurnInv, SemaphoresBinary
<1> QED
  BY <1>1, InductiveInvariant, PTL

(* The unsigned subtraction issuedTick - tickOffset never wraps around. *)
THEOREM TickSubtractionSafe == Spec => []NoTickUnderflow
<1>1. IInv => NoTickUnderflow
  <2> SUFFICES ASSUME IInv PROVE NoTickUnderflow
    OBVIOUS
  <2>1. tickOffset <= mostRecentTick /\ mostRecentTick <= shared.issuedTick
    BY DEF IInv, ClockInv
  <2>2. tickOffset \in Nat /\ mostRecentTick \in Nat /\ shared.issuedTick \in Nat
    BY DEF IInv, TypeOK, FileLine
  <2>3. tickOffset <= shared.issuedTick
    <3> DEFINE x == shared.issuedTick
    <3> HIDE DEF x
    <3>1. tickOffset <= x
      BY <2>1, <2>2 DEF x
    <3> QED
      BY <3>1 DEF x
  <2> QED
    BY <2>1, <2>3 DEF NoTickUnderflow
<1> QED
  BY <1>1, InductiveInvariant, PTL
=============================================================================
