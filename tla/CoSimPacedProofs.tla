-------------------------- MODULE CoSimPacedProofs --------------------------
(***************************************************************************)
(* Proofs about the co-simulation when the program keeps the distances the *)
(* driver's comments ask for (Paced): the device executes what gem5 issued,*)
(* each command once and in order, and a write-back carries the effect of  *)
(* all of them.  PInv below is the inductive invariant; it is added to     *)
(* IInv, which CoSimProofs proves at any pace.                             *)
(***************************************************************************)
EXTENDS CoSimProofs, FiniteSetTheorems, SequenceTheorems

(* A jump of the tick offset leaves as much room as the pace does, and the *)
(* program starts to use the device in cycle two or later (curCycle starts *)
(* at one, and a command of a cycle already reached is dropped).           *)
Pace ==
    /\ Paced
    /\ BACKUP >= DQ_CLK * P /\ BACKUP >= 2 * P
    /\ StartTick >= 2 * P

-----------------------------------------------------------------------------
(* The driver is ready for the next command. *)
Receiving == spc = "wait" \/ (spc = "top" /\ rcvNewCmd /\ waitSemaphore)

(* A command was taken from the queue and its cycle has not come yet. *)
InFlight == ~waitSemaphore /\ ~rcvNewCmd /\ spc \in {"exec", "advance", "top"}

(* The command issued last has not been copied by the driver. *)
NotCopied == gop = "cmd" /\ (gpc = "post" \/ sem1 = 1 \/ spc = "copy")

Copied == IF NotCopied THEN Len(sent) - 1 ELSE Len(sent)

InCommand == gop = "cmd" /\ gpc \in {"post", "wait", "after"}

LastSent == sent[Len(sent)]

(* Which message of gem5 the driver is waiting for, and which one it is    *)
(* working on.                                                             *)
HandInv ==
    /\ gpc # "aborted" /\ (gpc = "idle" => gop # "exit")
    /\ sharedLastCmd <=> gop = "exit"
    /\ localLastCmd => gop = "exit" /\ waitSemaphore
    /\ spc = "done" => localLastCmd
    /\ spc = "copy" => gop \in {"cmd", "exit"}
    /\ spc \in {"ack", "syncpost"} =>
          gop = "cmd" /\ (IsExecWrite(local) <=> spc = "syncpost")
    /\ spc = "syncwait" =>
          \/ gop = "cmd" /\ (sem2 = 1 \/ gpc = "after") /\ IsExecWrite(local)
          \/ gpc = "idle" /\ evTick # None
          \/ gop \in {"event", "exit"} /\ (gpc = "post" \/ sem1 = 1)
    /\ ~waitSemaphore => gop \in {"event", "exit"}
    /\ Receiving =>
          \/ gop = "exit"
          \/ /\ gop = "cmd" /\ evTick = None
             /\ gpc = "after" \/ sem2 = 1 => ~IsExecWrite(local)
          \/ /\ gop = "event" /\ evTick = None
             /\ gpc \in {"idle", "after"} \/ sem2 = 1

(* The commands issued: their ticks and the write-back of the last one. *)
SentInv ==
    /\ \A i \in 1 .. Len(sent) :
          /\ sent[i].nmcMode /\ sent[i].issuedTick >= StartTick
          /\ sent[i].address.loc = i
          /\ i > 1 => sent[i].issuedTick >=
                        sent[i - 1].issuedTick + GapAfter(sent[i - 1])
    /\ tick >= StartTick /\ (nmcMode => local.nmcMode)
    /\ evTick # None => /\ sent # <<>> /\ IsExecWrite(LastSent)
                        /\ evTick = LastSent.issuedTick + P
    /\ InCommand => /\ sent # <<>> /\ local = LastSent /\ tick = local.issuedTick
                    /\ evTick = None
    /\ NotCopied => shared = LastSent

(* Every command copied is executed, in flight or queued, in this order,   *)
(* and the last of a batch is the execution write that started it.         *)
OrderInv ==
    LET e == Len(executed)
        f == IF InFlight THEN 1 ELSE 0
        q == instructionList
    IN  /\ executed = [i \in 1 .. e |-> i]
        /\ Copied = e + f + Len(q)
        /\ \A i \in 1 .. Len(q) : q[i].address.loc = e + f + i /\ q[i].nmcMode
        /\ InFlight => send.address.loc = e + 1 /\ send.nmcMode
        /\ spc = "store" => /\ send.address.loc = e /\ send.nmcMode
                            /\ rcvNewCmd
        /\ (\/ spc \in {"pop", "syncpost", "syncwait"}
            \/ spc = "top" /\ rcvNewCmd /\ ~waitSemaphore) => q # <<>>
        /\ (~waitSemaphore \/ spc \in {"syncpost", "syncwait"}) /\ q # <<>>
              => IsExecWrite(q[Len(q)])
        /\ ~waitSemaphore /\ q = <<>> => IsExecWrite(send)
        /\ ~waitSemaphore \/ spc \in {"syncpost", "syncwait"} => localPimMode
        /\ q # <<>> => /\ q[Len(q)].address = sent[Copied].address
                       /\ q[Len(q)].RDcmd = sent[Copied].RDcmd
        /\ Copied > 0 /\ q = <<>> => IsExecWrite(sent[Copied])

Room(c) == IF IsGrfWrite(c) THEN DQ_CLK ELSE 1

(* The device cycle of the command copied last. *)
LastCycle == IF instructionList = <<>> THEN readCycle
             ELSE instructionList[Len(instructionList)].simCycle

(* Queued commands leave each other the cycles they need. *)
CycleInv ==
    ~localLastCmd =>
        LET q == instructionList
        IN  /\ \A i \in 1 .. Len(q) :
                  /\ q[i].simCycle >= curCycle
                  /\ q[i].simCycle >= readCycle + Room(send)
                  /\ \A j \in 1 .. i - 1 :
                        q[i].simCycle >= q[j].simCycle + Room(q[j])
            /\ waitSemaphore /\ q = <<>> =>
                  curCycle = readCycle + 1 /\ ~IsGrfWrite(send)
            /\ InFlight => IF spc = "advance" THEN curCycle < readCycle
                           ELSE curCycle <= readCycle
            /\ ~waitSemaphore /\ rcvNewCmd =>
                  curCycle = IF spc = "top" THEN readCycle + 1 ELSE readCycle
            /\ mostRecentTick = IF Copied > 0 THEN sent[Copied].issuedTick ELSE 0
            /\ LastCycle = CycleOf(mostRecentTick, tickOffset)

(* A register write on DQ ends before the cycle of the next command. *)
DQInv ==
    ~localLastCmd /\ DQCycle # 0 =>
        /\ ~waitSemaphore /\ (InFlight \/ instructionList # <<>>)
        /\ DQCycle <= IF spc \in {"advance", "top", "store"} THEN DQ_CLK - 1
                      ELSE DQ_CLK
        /\ (IF InFlight THEN readCycle ELSE instructionList[1].simCycle)
              >= curCycle + DQ_CLK + (IF spc = "top" THEN 0 ELSE 1) - DQCycle

ExecWrites == {i \in 1 .. Len(sent) : IsExecWrite(sent[i])}

(* An execution write whose result has not reached gem5's memory. *)
Owed ==
    \/ evTick # None
    \/ InCommand /\ IsExecWrite(local)
    \/ gop = "event" /\ gpc \in {"post", "wait", "after"}

(* The shared line holds the result of everything issued. *)
ResultReady ==
    \/ gop = "event" /\ (sem2 = 1 \/ gpc = "after")
    \/ spc = "advance" /\ rcvNewCmd /\ ~waitSemaphore /\ instructionList = <<>>

(* One result per execution write, except for the one still owed. *)
CountInv ==
    gop # "exit" =>
        Cardinality(ExecWrites) = Len(applied) + (IF Owed THEN 1 ELSE 0)

(* The result that gem5 is about to take accounts for all commands. *)
ReadyInv ==
    ResultReady => /\ Len(executed) = Len(sent) /\ shared.nmcMode
                   /\ shared.address.loc = Len(sent)
                   /\ shared.data = executed

PInv ==
    /\ HandInv /\ SentInv /\ OrderInv /\ CycleInv /\ DQInv
    /\ CountInv /\ ReadyInv

-----------------------------------------------------------------------------
(* The command issued last is a line of the shared memory. *)
LEMMA LastSentType ==
    ASSUME TypeOK, sent # <<>>
    PROVE  /\ LastSent \in FileLine /\ LastSent.issuedTick \in Nat
           /\ Len(sent) \in Nat \ {0}
<1>1. sent \in Seq(FileLine)
  BY DEF TypeOK
<1>2. LastSent \in FileLine /\ Len(sent) \in Nat \ {0}
  BY <1>1 DEF LastSent
<1> QED
  BY <1>2 DEF FileLine

(* What the environment guarantees of the tick of a new command: no event  *)
(* is scheduled, since one would be due before the distance that follows   *)
(* an execution write is over.                                             *)
LEMMA IssueFacts ==
    ASSUME IInv, SentInv, Pace, NEW t \in NextTicks
    PROVE  /\ t \in Nat /\ t >= tick /\ evTick = None
           /\ sent # <<>> => t >= LastSent.issuedTick + GapAfter(LastSent)
<1>1. t \in Nat /\ t >= tick
  BY NextTickFacts DEF IInv
<1>2. /\ evTick # None => t <= evTick
      /\ sent # <<>> => t >= LastSent.issuedTick + GapAfter(LastSent)
  BY DEF NextTicks, LastSent
<1>3. evTick = None
  <2> SUFFICES ASSUME evTick # None PROVE FALSE
    OBVIOUS
  <2>1. /\ sent # <<>> /\ GapAfter(LastSent) = WrGap
        /\ evTick = LastSent.issuedTick + P
    BY DEF SentInv, GapAfter
  <2>2. LastSent.issuedTick \in Nat
    BY <2>1, LastSentType DEF IInv
  <2>3. P \in Nat \ {0} /\ WrGap >= 2 * P /\ WrGap \in Nat
    BY ParamAssumption DEF Pace, Paced
  <2> QED
    BY <1>1, <1>2, <2>1, <2>2, <2>3
<1> QED
  BY <1>1, <1>2, <1>3

(* While gem5 is idle and no event is scheduled, the driver is ready for a *)
(* command and holds no token.                                             *)
LEMMA IdleReceiving ==
    ASSUME IInv, HandInv, gpc = "idle", evTick = None
    PROVE  /\ Receiving /\ waitSemaphore /\ ~localLastCmd
           /\ gop # "exit" /\ sem1 = 0 /\ sem2 = 0 /\ spc # "copy"
  BY DEF IInv, TypeOK, TurnInv, STurn, PhaseInv, HandInv, Receiving

Packet(rd) == PacketReg(rd) \/ PacketGrfLast(rd) \/ PacketExec(rd)

(* What the three kinds of command have in common. *)
LEMMA PacketFacts ==
    ASSUME IInv, PInv, Pace, NEW rd \in BOOLEAN, Packet(rd)
    PROVE  /\ local' \in FileLine /\ shared' = local'
           /\ sent' = Append(sent, local') /\ tick' = local'.issuedTick
           /\ gpc = "idle" /\ gpc' = "post" /\ gop' = "cmd"
           /\ local'.nmcMode /\ local'.address.loc = Len(sent) + 1
           /\ local'.address.region = "exec" /\ local'.RDcmd
                => local'.data = <<Len(applied)>>
           /\ tick' >= tick /\ tick' \in Nat
           /\ sent # <<>> => tick' >= LastSent.issuedTick + GapAfter(LastSent)
           /\ UNCHANGED <<nmcMode, evTick, channelCnmWrite, sharedLastCmd>>
           /\ UNCHANGED <<sem1, sem2, executed, applied>> /\ UNCHANGED svars
           /\ evTick = None /\ Receiving /\ waitSemaphore /\ ~localLastCmd
           /\ gop # "exit" /\ sem1 = 0 /\ sem2 = 0 /\ spc # "copy"
<1>1. /\ tick' \in NextTicks /\ local'.issuedTick = tick'
      /\ local'.nmcMode = local.nmcMode
      /\ local'.address.loc = Len(sent) + 1
      /\ local'.address.region = "exec" /\ local'.RDcmd
            => local'.data = <<Len(applied)>>
      /\ shared' = local' /\ sent' = Append(sent, local')
      /\ gpc' = "post" /\ gop' = "cmd"
  <2>1. CASE PacketReg(rd)
    BY <2>1 DEF PacketReg, Issue
  <2>2. CASE PacketGrfLast(rd)
    BY <2>2 DEF PacketGrfLast, Issue
  <2>3. CASE PacketExec(rd)
    BY <2>3 DEF PacketExec, Issue
  <2> QED
    BY <2>1, <2>2, <2>3 DEF Packet
<1>2. /\ CanIssue
      /\ UNCHANGED <<nmcMode, evTick, channelCnmWrite, sharedLastCmd>>
      /\ UNCHANGED <<sem1, sem2, executed, applied>> /\ UNCHANGED svars
  BY DEF Packet, PacketReg, PacketGrfLast, PacketExec
<1>3. /\ tick' \in Nat /\ tick' >= tick /\ evTick = None
      /\ sent # <<>> => tick' >= LastSent.issuedTick + GapAfter(LastSent)
  BY <1>1, IssueFacts DEF PInv
<1>5. local'.nmcMode
  BY <1>1, <1>2 DEF CanIssue, PInv, SentInv
<1>6. local' \in FileLine
  <2>1. Next
    BY DEF Next, Program, Packet
  <2> QED
    BY <2>1, TypeStep DEF TypeOK
<1>7. /\ evTick = None /\ Receiving /\ waitSemaphore /\ ~localLastCmd
      /\ gop # "exit" /\ sem1 = 0 /\ sem2 = 0 /\ spc # "copy"
      /\ gpc = "idle"
  BY <1>2, <1>3, IdleReceiving DEF PInv, CanIssue
<1> QED
  BY <1>1, <1>2, <1>3, <1>5, <1>6, <1>7
(* The driver and gem5 agree on the message that comes next. *)
LEMMA HandStep == ASSUME IInv, PInv, Pace, [Next]_vars PROVE HandInv'
<1> USE DEF IInv, TurnInv, STurn, PhaseInv, HandInv, Receiving, PInv
<1>1. CASE ModeChange
  BY <1>1 DEF ModeChange, svars, IsExecWrite, InCommand
<1>2. ASSUME NEW rd \in BOOLEAN, Packet(rd) PROVE HandInv'
  BY <1>2, PacketFacts DEF svars
<1>3. ASSUME NEW d \in 0 .. DQ_CLK - 2, PacketGrfWord(d) PROVE HandInv'
  BY <1>3 DEF PacketGrfWord, CanIssue, svars
<1>4. CASE EndSystemCSim
  BY <1>4 DEF EndSystemCSim, svars
<1>5. CASE WriteEvent
  BY <1>5 DEF WriteEvent, svars
<1>6. CASE GPost
  BY <1>6 DEF GPost, svars
<1>7. CASE GWait
  BY <1>7 DEF GWait, svars
<1>8. CASE AfterCommand
  BY <1>8, ParamAssumption DEF AfterCommand, svars, TypeOK, None, SentInv, InCommand
<1>9. CASE AfterEvent
  BY <1>9 DEF AfterEvent, svars
<1>10. CASE AfterExit
  BY <1>10 DEF AfterExit, svars
<1>11. CASE STop
  BY <1>11 DEF STop, gvars
<1>12. CASE SWait
  BY <1>12 DEF SWait, gvars
<1>13. CASE SCopy
  BY <1>13 DEF SCopy, gvars, SentInv, NotCopied, InCommand
<1>14. CASE SAck
  BY <1>14 DEF SAck, gvars, SentInv, InCommand
<1>15. CASE SSyncPost
  BY <1>15 DEF SSyncPost, gvars
<1>16. CASE SSyncWait
  BY <1>16 DEF SSyncWait, gvars
<1>17. CASE SPop
  BY <1>17 DEF SPop, gvars
<1>18. CASE SExecute
  BY <1>18 DEF SExecute, gvars
<1>19. CASE SIdle
  BY <1>19 DEF SIdle, gvars
<1>20. CASE SStore
  BY <1>20 DEF SStore, gvars
<1>21. CASE SAdvance
  BY <1>21 DEF SAdvance, gvars, EventInv, TypeOK
<1>22. CASE SFinish
  BY <1>22 DEF SFinish, gvars
<1>23. CASE Ended
  BY <1>23 DEF Ended, vars, gvars, svars
<1>24. CASE UNCHANGED vars
  BY <1>24 DEF vars, gvars, svars
<1> QED
  BY <1>1, <1>2, <1>3, <1>4, <1>5, <1>6, <1>7, <1>8, <1>9, <1>10, <1>11,
     <1>12, <1>13, <1>14, <1>15, <1>16, <1>17, <1>18, <1>19, <1>20,
     <1>21, <1>22, <1>23, <1>24
  DEF Next, Program, GStep, SStep, Packet

(* What is known of the commands issued. *)
LEMMA SentStep == ASSUME IInv, PInv, Pace, [Next]_vars PROVE SentInv'
<1> USE DEF IInv, TurnInv, STurn, PhaseInv, PInv, HandInv, SentInv, NotCopied, InCommand,
          LastSent
<1>1. CASE ModeChange
  BY <1>1 DEF ModeChange, svars
<1>2. ASSUME NEW rd \in BOOLEAN, Packet(rd) PROVE SentInv'
  <2>1. /\ local' \in FileLine /\ shared' = local'
        /\ sent' = Append(sent, local') /\ tick' = local'.issuedTick
        /\ local'.nmcMode /\ local'.address.loc = Len(sent) + 1
        /\ tick' >= tick /\ evTick' = None /\ nmcMode' = nmcMode
        /\ sent # <<>> => tick' >= LastSent.issuedTick + GapAfter(LastSent)
    BY <1>2, PacketFacts
  <2>2. sent \in Seq(FileLine) /\ tick \in Nat /\ tick' \in Nat
    BY <1>2, PacketFacts DEF IInv, TypeOK
  <2>3. /\ Len(sent') = Len(sent) + 1 /\ Len(sent) \in Nat
        /\ \A i \in 1 .. Len(sent) : sent'[i] = sent[i]
        /\ sent'[Len(sent) + 1] = local'
    BY <2>1, <2>2
  <2>4. ASSUME NEW i \in 1 .. Len(sent')
        PROVE  /\ sent'[i].nmcMode /\ sent'[i].issuedTick >= StartTick
               /\ sent'[i].address.loc = i
               /\ i > 1 => sent'[i].issuedTick >=
                        sent'[i - 1].issuedTick + GapAfter(sent'[i - 1])
    <3>1. CASE i <= Len(sent)
      BY <3>1, <2>3 DEF PInv, SentInv
    <3>2. CASE i = Len(sent) + 1
      <4>1. sent'[i] = local' /\ tick >= StartTick
        BY <3>2, <2>3 DEF PInv, SentInv
      <4>2. sent'[i].nmcMode /\ sent'[i].issuedTick >= StartTick
        BY <4>1, <2>1, <2>2, ParamAssumption
      <4>3. sent'[i].address.loc = i
        BY <4>1, <2>1, <3>2
      <4>4. i > 1 => sent # <<>> /\ sent'[i - 1] = LastSent
        BY <3>2, <2>2, <2>3 DEF LastSent
      <4> QED
        BY <4>1, <4>2, <4>3, <4>4, <2>1
    <3> QED
      BY <3>1, <3>2, <2>3
  <2>5. tick' >= StartTick
    BY <2>1, <2>2, ParamAssumption DEF PInv, SentInv
  <2>6. sent' # <<>> /\ LastSent' = local'
    BY <2>1, <2>2, <2>3 DEF LastSent
  <2> QED
    BY <2>1, <2>4, <2>5, <2>6 DEF SentInv, GapAfter
<1>3. ASSUME NEW d \in 0 .. DQ_CLK - 2, PacketGrfWord(d) PROVE SentInv'
  BY <1>3 DEF PacketGrfWord, CanIssue, svars
<1>4. CASE EndSystemCSim
  BY <1>4 DEF EndSystemCSim, svars
<1>5. CASE WriteEvent
  <2>1. tick' >= StartTick
    BY <1>5, ParamAssumption DEF WriteEvent, EventInv, TypeOK, None
  <2> QED
    BY <1>5, <2>1 DEF WriteEvent, svars
<1>6. CASE GPost
  BY <1>6 DEF GPost, svars
<1>7. CASE GWait
  BY <1>7 DEF GWait, svars
<1>8. CASE AfterCommand
  BY <1>8 DEF AfterCommand, svars
<1>9. CASE AfterEvent
  <2>1. shared.nmcMode
    BY <1>9 DEF AfterEvent, ReadyInv, ResultReady
  <2> QED
    BY <1>9, <2>1 DEF AfterEvent, svars
<1>10. CASE AfterExit
  BY <1>10 DEF AfterExit, svars
<1>11. CASE STop
  BY <1>11 DEF STop, gvars
<1>12. CASE SWait
  BY <1>12 DEF SWait, gvars
<1>13. CASE SCopy
  BY <1>13 DEF SCopy, gvars
<1>14. CASE SAck
  BY <1>14 DEF SAck, gvars
<1>15. CASE SSyncPost
  BY <1>15 DEF SSyncPost, gvars
<1>16. CASE SSyncWait
  BY <1>16 DEF SSyncWait, gvars
<1>17. CASE SPop
  BY <1>17 DEF SPop, gvars
<1>18. CASE SExecute
  BY <1>18 DEF SExecute, gvars
<1>19. CASE SIdle
  BY <1>19 DEF SIdle, gvars
<1>20. CASE SStore
  BY <1>20 DEF SStore, gvars
<1>21. CASE SAdvance
  BY <1>21 DEF SAdvance, gvars
<1>22. CASE SFinish
  BY <1>22 DEF SFinish, gvars
<1>23. CASE Ended
  BY <1>23 DEF Ended, vars, gvars, svars
<1>24. CASE UNCHANGED vars
  BY <1>24 DEF vars, gvars, svars
<1> QED
  BY <1>1, <1>2, <1>3, <1>4, <1>5, <1>6, <1>7, <1>8, <1>9, <1>10, <1>11,
     <1>12, <1>13, <1>14, <1>15, <1>16, <1>17, <1>18, <1>19, <1>20,
     <1>21, <1>22, <1>23, <1>24
  DEF Next, Program, GStep, SStep, Packet

(* The length of an empty queue. *)
LEMMA EmptyLen ==
    ASSUME NEW q, q = <<>>
    PROVE  Len(q) = 0
  OBVIOUS

(* Only a new command and the driver's copy change how many are copied.    *)
LEMMA CopiedSame ==
    ASSUME IInv, HandInv, sent' = sent, [Next]_vars, ~SCopy
    PROVE  (NotCopied' <=> NotCopied) /\ Copied' = Copied
<1> SUFFICES NotCopied' <=> NotCopied
  BY DEF Copied
<1> USE DEF IInv, TurnInv, STurn, PhaseInv, HandInv, NotCopied
<1>1. CASE ModeChange
  BY <1>1 DEF ModeChange, svars
<1>2. ASSUME NEW rd \in BOOLEAN, Packet(rd) PROVE NotCopied' <=> NotCopied
  <2>1. sent \in Seq(FileLine) /\ \E c : sent' = Append(sent, c)
    BY <1>2 DEF Packet, PacketReg, PacketGrfLast, PacketExec, Issue, IInv, TypeOK
  <2> QED
    BY <2>1
<1>3. ASSUME NEW d \in 0 .. DQ_CLK - 2, PacketGrfWord(d) PROVE NotCopied' <=> NotCopied
  BY <1>3 DEF PacketGrfWord, CanIssue, svars
<1>4. CASE EndSystemCSim
  BY <1>4 DEF EndSystemCSim, svars
<1>5. CASE WriteEvent
  BY <1>5 DEF WriteEvent, svars
<1>6. CASE GPost
  BY <1>6 DEF GPost, svars
<1>7. CASE GWait
  BY <1>7 DEF GWait, svars
<1>8. CASE AfterCommand
  BY <1>8 DEF AfterCommand, svars
<1>9. CASE AfterEvent
  BY <1>9 DEF AfterEvent, svars
<1>10. CASE AfterExit
  BY <1>10 DEF AfterExit, svars
<1>11. CASE STop
  BY <1>11 DEF STop, gvars
<1>12. CASE SWait
  BY <1>12 DEF SWait, gvars
<1>13. CASE SCopy
  BY <1>13
<1>14. CASE SAck
  BY <1>14 DEF SAck, gvars
<1>15. CASE SSyncPost
  BY <1>15 DEF SSyncPost, gvars
<1>16. CASE SSyncWait
  BY <1>16 DEF SSyncWait, gvars
<1>17. CASE SPop
  BY <1>17 DEF SPop, gvars
<1>18. CASE SExecute
  BY <1>18 DEF SExecute, gvars
<1>19. CASE SIdle
  BY <1>19 DEF SIdle, gvars
<1>20. CASE SStore
  BY <1>20 DEF SStore, gvars
<1>21. CASE SAdvance
  BY <1>21 DEF SAdvance, gvars
<1>22. CASE SFinish
  BY <1>22 DEF SFinish, gvars
<1>23. CASE Ended
  BY <1>23 DEF Ended, vars, gvars, svars
<1>24. CASE UNCHANGED vars
  BY <1>24 DEF vars, gvars, svars
<1>99. QED
  BY <1>1, <1>2, <1>3, <1>4, <1>5, <1>6, <1>7, <1>8, <1>9, <1>10, <1>11,
     <1>12, <1>13, <1>14, <1>15, <1>16, <1>17, <1>18, <1>19, <1>20,
     <1>21, <1>22, <1>23, <1>24
  DEF Next, Copied, Program, GStep, SStep, Packet

(* Ticks that lie n periods apart lie at least n cycles apart. *)
LEMMA CyclesApart ==
    ASSUME NEW x \in Nat, NEW y \in Nat, NEW n \in Nat, y >= x + n * P
    PROVE  y \div P >= (x \div P) + n
<1> DEFINE a == x \div P
           b == y \div P
<1>1. P \in Nat /\ P > 0
  BY ParamAssumption
<1>2. a \in Nat /\ x = P * a + (x % P) /\ x % P >= 0
  BY <1>1, SMT
<1>3. b \in Nat /\ y = P * b + (y % P) /\ y % P < P
  BY <1>1, SMT
<1> HIDE DEF a, b
<1> SUFFICES ASSUME b + 1 <= a + n PROVE FALSE
  BY <1>2, <1>3 DEF a, b
<1>4. P * (b + 1) <= P * (a + n)
  <2>1. PICK k \in Nat : a + n = b + 1 + k
    BY <1>2, <1>3, (a + n) - (b + 1) \in Nat
  <2>2. P * (a + n) = P * (b + 1) + P * k /\ P * k >= 0
    BY <2>1, <1>1, <1>2, <1>3, SMT
  <2> QED
    BY <2>2, <1>1, <1>3, SMT
<1>5. P * (b + 1) = P * b + P /\ P * (a + n) = P * a + n * P
  BY <1>1, <1>2, <1>3, SMT
<1>6. P * a \in Nat /\ P * b \in Nat /\ n * P \in Nat /\ x % P \in Nat /\ y % P \in Nat
  BY <1>1, <1>2, <1>3, SMT
<1> QED
  BY <1>1, <1>2, <1>3, <1>4, <1>5, <1>6

(* The cycles that the command copied last leaves before the next one. *)
Ahead ==
    IF instructionList = <<>> THEN 2
    ELSE Room(instructionList[Len(instructionList)])

(* How far the command in the shared memory is from the one before it. *)
LEMMA CopyDistance ==
    ASSUME IInv, PInv, Pace, spc = "copy", ~sharedLastCmd
    PROVE  /\ gop = "cmd" /\ NotCopied /\ sent # <<>> /\ shared = LastSent
           /\ shared = local /\ Copied = Len(sent) - 1 /\ ~localLastCmd
           /\ Ahead \in Nat \ {0}
           /\ shared.issuedTick >= mostRecentTick + Ahead * P
           /\ BACKUP >= Ahead * P
<1> DEFINE q == instructionList
<1>1. gop = "cmd" /\ NotCopied /\ gpc = "wait" /\ ~localLastCmd
  BY DEF IInv, TurnInv, STurn, PhaseInv, PInv, HandInv, NotCopied
<1>2. sent # <<>> /\ shared = LastSent /\ shared = local /\ Copied = Len(sent) - 1
  BY <1>1 DEF PInv, SentInv, InCommand, Copied
<1>3. /\ sent \in Seq(FileLine) /\ Len(sent) \in Nat \ {0}
      /\ Copied \in Nat /\ Copied + 1 = Len(sent)
      /\ q \in Seq(FileLine) /\ executed \in Seq(Nat)
  BY <1>2 DEF IInv, TypeOK
<1>4. /\ P \in Nat \ {0} /\ DQ_CLK \in Nat \ {0} /\ BACKUP \in Nat
      /\ CmdGap \in Nat /\ GrfGap \in Nat /\ WrGap \in Nat
      /\ CmdGap >= P /\ GrfGap >= DQ_CLK * P /\ WrGap >= 2 * P
      /\ BACKUP >= DQ_CLK * P /\ BACKUP >= 2 * P /\ StartTick >= 2 * P
      /\ StartTick \in Nat /\ DQ_CLK * P \in Nat
  BY ParamAssumption DEF Pace, Paced
<1>5. Ahead \in Nat \ {0} /\ BACKUP >= Ahead * P
  BY <1>4 DEF Ahead, Room
<1>6. /\ shared = sent[Copied + 1] /\ shared.issuedTick \in Nat
      /\ mostRecentTick \in Nat
  BY <1>2, <1>3, LastSentType DEF LastSent, IInv, TypeOK
<1>7. mostRecentTick = IF Copied > 0 THEN sent[Copied].issuedTick ELSE 0
  BY <1>1 DEF PInv, CycleInv
<1>8. CASE Copied = 0
  <2>1. q = <<>>
    <3>1. /\ Copied = Len(executed) + (IF InFlight THEN 1 ELSE 0) + Len(q)
          /\ Len(q) \in Nat /\ Len(executed) \in Nat
      BY <1>3 DEF PInv, OrderInv
    <3>2. Len(q) = 0
      BY <3>1, <1>8
    <3> QED
      BY <3>2, <1>3
  <2>2. shared.issuedTick >= StartTick
    <3>1. Copied + 1 \in 1 .. Len(sent)
      BY <1>3
    <3> QED
      BY <1>6, <3>1 DEF PInv, SentInv
  <2>3. Ahead = 2 /\ mostRecentTick = 0
    BY <1>7, <1>8, <2>1 DEF Ahead
  <2>4. shared.issuedTick >= mostRecentTick + Ahead * P
    BY <1>4, <1>6, <2>2, <2>3
  <2> QED
    BY <1>1, <1>2, <1>5, <2>4
<1>9. CASE Copied > 0
  <2>1. /\ mostRecentTick = sent[Copied].issuedTick
        /\ sent[Copied] \in FileLine
    BY <1>3, <1>7, <1>9
  <2>2. shared.issuedTick >= mostRecentTick + GapAfter(sent[Copied])
    <3>1. /\ Copied + 1 \in 1 .. Len(sent) /\ Copied + 1 > 1
          /\ (Copied + 1) - 1 = Copied
      BY <1>3, <1>9
    <3> QED
      BY <3>1, <1>6, <2>1 DEF PInv, SentInv
  <2>3. GapAfter(sent[Copied]) \in Nat /\ GapAfter(sent[Copied]) >= Ahead * P
    <3>1. CASE q = <<>>
      BY <3>1, <1>4, <1>9 DEF GapAfter, Ahead, PInv, OrderInv
    <3>2. CASE q # <<>>
      <4>1. /\ q[Len(q)].address = sent[Copied].address
            /\ q[Len(q)].RDcmd = sent[Copied].RDcmd
        BY <3>2 DEF PInv, OrderInv
      <4>2. CASE IsGrfWrite(q[Len(q)])
        BY <4>1, <4>2, <3>2, <1>4 DEF GapAfter, Ahead, Room, IsGrfWrite, IsExecWrite
      <4>3. CASE ~IsGrfWrite(q[Len(q)])
        <5>1. Ahead * P = P
          BY <4>3, <3>2, <1>4 DEF Ahead, Room
        <5>2. DQ_CLK * P >= P
          BY <1>4, SMT
        <5> QED
          BY <5>1, <5>2, <1>4 DEF GapAfter
      <4> QED
        BY <4>2, <4>3
    <3> QED
      BY <3>1, <3>2
  <2>4. Ahead * P \in Nat
    BY <1>4, <1>5
  <2> QED
    BY <1>1, <1>2, <1>5, <1>6, <2>2, <2>3, <2>4
<1> QED
  BY <1>3, <1>8, <1>9

(* A command is never dropped, and the device cycle it is given, by the    *)
(* old offset and by the new one, leaves the one before it its room.       *)
LEMMA CopyFacts ==
    ASSUME IInv, PInv, Pace, spc = "copy", ~sharedLastCmd
    PROVE  /\ IsNew(shared)
           /\ CycleOf(shared.issuedTick, OffsetFor(shared)) \in Nat
           /\ CycleOf(shared.issuedTick, OffsetFor(shared)) >= LastCycle + Ahead
           /\ CycleOf(shared.issuedTick, OffsetFor(shared)) > curCycle
           /\ LastCycle \in Nat /\ LastCycle >= readCycle
<1> DEFINE q == instructionList
           x == mostRecentTick - tickOffset
<1>1. /\ ~localLastCmd /\ Ahead \in Nat \ {0} /\ shared = LastSent /\ sent # <<>>
      /\ shared.issuedTick >= mostRecentTick + Ahead * P
      /\ BACKUP >= Ahead * P
  BY CopyDistance
<1>2. /\ shared.issuedTick \in Nat /\ mostRecentTick \in Nat
      /\ tickOffset \in Nat /\ tickOffset <= mostRecentTick
      /\ curCycle \in Nat /\ readCycle \in Nat
      /\ P \in Nat \ {0} /\ BACKUP \in Nat /\ THRESHOLD \in Nat
      /\ q \in Seq(FileLine)
  BY <1>1, LastSentType, ParamAssumption DEF IInv, TypeOK, ClockInv
<1>3. Ahead * P \in Nat \ {0} /\ x \in Nat
  BY <1>1, <1>2
<1>4. /\ LastCycle = x \div P
      /\ q = <<>> => curCycle = readCycle + 1 /\ LastCycle = readCycle
      /\ q # <<>> => LastCycle >= curCycle /\ LastCycle > readCycle
  <2>1. LastCycle = x \div P
    BY <1>1 DEF PInv, CycleInv, CycleOf
  <2>2. waitSemaphore
    BY DEF IInv, PhaseInv
  <2>3. q = <<>> => curCycle = readCycle + 1 /\ LastCycle = readCycle
    BY <1>1, <2>2 DEF PInv, CycleInv, LastCycle
  <2>4. q # <<>> => LastCycle >= curCycle /\ LastCycle > readCycle
    <3>1. q # <<>> => Len(q) \in 1 .. Len(q)
      BY <1>2
    <3> QED
      <4>1. Room(send) \in Nat /\ Room(send) >= 1
        BY ParamAssumption DEF Room
      <4>2. q # <<>> => /\ LastCycle \in Nat /\ LastCycle >= curCycle
                        /\ LastCycle >= readCycle + Room(send)
        <5>1. q # <<>> => q[Len(q)] \in FileLine
          BY <1>2, <3>1
        <5>2. CycleInv /\ ~localLastCmd
          BY <1>1 DEF PInv
        <5> QED
          BY <3>1, <5>1, <5>2 DEF CycleInv, LastCycle, FileLine
      <4> QED
        BY <4>1, <4>2, <1>2
  <2> QED
    BY <2>1, <2>3, <2>4
<1>5. LastCycle \in Nat
  BY <1>2, <1>3, <1>4
<1>6. LastCycle + Ahead > curCycle
  BY <1>1, <1>2, <1>4, <1>5 DEF Ahead
<1>7. CycleOf(shared.issuedTick, tickOffset) >= LastCycle + Ahead
  <2>1. /\ shared.issuedTick - tickOffset \in Nat
        /\ shared.issuedTick - tickOffset >= x + Ahead * P
    BY <1>1, <1>2, <1>3
  <2> QED
    BY <2>1, <1>1, <1>3, <1>4, CyclesApart DEF CycleOf
<1>8. /\ CycleOf(shared.issuedTick, OffsetFor(shared)) \in Nat
      /\ CycleOf(shared.issuedTick, OffsetFor(shared)) >= LastCycle + Ahead
  <2>1. /\ shared.issuedTick - OffsetFor(shared) \in Nat
        /\ shared.issuedTick - OffsetFor(shared) >= x + Ahead * P
    BY <1>1, <1>2, <1>3 DEF OffsetFor
  <2> QED
    BY <2>1, <1>1, <1>3, <1>4, CyclesApart, OffsetFacts DEF CycleOf
<1>9. CycleOf(shared.issuedTick, tickOffset) > curCycle
  <2>1. CycleOf(shared.issuedTick, tickOffset) \in Nat
    BY <1>1, <1>2, <1>3 DEF CycleOf
  <2> QED
    BY <2>1, <1>1, <1>2, <1>5, <1>6, <1>7
<1>10. IsNew(shared)
  <2>1. shared.nmcMode
    <3>1. Len(sent) \in 1 .. Len(sent)
      BY <1>1, LastSentType DEF IInv
    <3> QED
      BY <1>1, <3>1 DEF PInv, SentInv, LastSent
  <2>2. q # <<>> => shared.issuedTick # q[Len(q)].issuedTick
    BY <1>1, <1>2, <1>3 DEF IInv, QueueInv
  <2> QED
    BY <2>1, <2>2, <1>9 DEF IsNew
<1> QED
  BY <1>1, <1>2, <1>4, <1>5, <1>6, <1>8, <1>10

(* What push_back does to a queue. *)
LEMMA AppendFacts ==
    ASSUME NEW S, NEW s \in Seq(S), NEW x \in S
    PROVE  /\ Append(s, x) \in Seq(S) /\ Append(s, x) # <<>>
           /\ Len(Append(s, x)) = Len(s) + 1 /\ Len(s) \in Nat
           /\ Append(s, x)[Len(s) + 1] = x
           /\ \A i \in 1 .. Len(s) : Append(s, x)[i] = s[i]
  OBVIOUS

(* The last element of a queue that loses its head is the same. *)
LEMMA TailLast ==
    ASSUME NEW S, NEW s \in Seq(S), s # <<>>, Tail(s) # <<>>
    PROVE  Tail(s)[Len(Tail(s))] = s[Len(s)]
<1>1. /\ Tail(s) \in Seq(S) /\ Len(Tail(s)) = Len(s) - 1 /\ Len(s) \in Nat
      /\ \A i \in 1 .. Len(Tail(s)) : Tail(s)[i] = s[i + 1]
  BY TailFacts
<1>2. Len(Tail(s)) \in 1 .. Len(Tail(s))
  BY <1>1
<1>3. Tail(s)[Len(Tail(s))] = s[Len(Tail(s)) + 1] /\ Len(Tail(s)) + 1 = Len(s)
  BY <1>1, <1>2
<1> QED
  BY <1>3

(* A copied command joins the end of the queue. *)
LEMMA OrderSCopy == ASSUME IInv, PInv, Pace, SCopy PROVE OrderInv'
<1>1. CASE sharedLastCmd
  <2>1. /\ gop = "exit" /\ spc' = "exec" /\ waitSemaphore /\ spc = "copy"
        /\ UNCHANGED <<gop, waitSemaphore, sent, executed, send>>
        /\ UNCHANGED <<instructionList, localPimMode, rcvNewCmd>>
    BY <1>1 DEF SCopy, gvars, IInv, PhaseInv, PInv, HandInv
  <2>2. /\ ~NotCopied /\ ~NotCopied' /\ ~InFlight' /\ ~InFlight
    BY <2>1 DEF NotCopied, InFlight
  <2>3. Copied' = Copied
    BY <2>1, <2>2 DEF Copied
  <2> QED
    BY <2>1, <2>2, <2>3 DEF PInv, OrderInv
<1>2. CASE ~sharedLastCmd
  <2> DEFINE q == instructionList
             e == Len(executed)
             line == [shared EXCEPT !.simCycle =
                         CycleOf(shared.issuedTick, OffsetFor(shared))]
  <2>1. /\ gop = "cmd" /\ NotCopied /\ sent # <<>> /\ shared = LastSent
        /\ shared = local /\ Copied = Len(sent) - 1 /\ IsNew(shared)
        /\ ~localLastCmd
        /\ CycleOf(shared.issuedTick, OffsetFor(shared)) \in Nat
    BY <1>2, CopyDistance, CopyFacts DEF SCopy
  <2>2. /\ q' = Append(q, line) /\ sent' = sent /\ executed' = executed
        /\ localPimMode' = shared.nmcMode /\ send' = send
        /\ waitSemaphore' = waitSemaphore /\ rcvNewCmd' = rcvNewCmd
        /\ spc' = (IF IsExecWrite(shared) THEN "syncpost" ELSE "ack")
        /\ spc = "copy" /\ waitSemaphore /\ sem1' = sem1 /\ gpc' = gpc
    BY <1>2, <2>1 DEF SCopy, Queue, gvars, IInv, PhaseInv
  <2>3. /\ shared \in FileLine /\ q \in Seq(FileLine) /\ sent \in Seq(FileLine)
        /\ executed \in Seq(Nat) /\ Len(q) \in Nat /\ e \in Nat
        /\ Len(sent) \in Nat
    BY DEF IInv, TypeOK
  <2>4. /\ line \in FileLine /\ line.address = shared.address
        /\ line.RDcmd = shared.RDcmd /\ line.nmcMode = shared.nmcMode
    BY <2>1, <2>3 DEF FileLine
  <2> HIDE DEF line
  <2>5. /\ Len(q') = Len(q) + 1 /\ q'[Len(q')] = line /\ q' # <<>>
        /\ \A i \in 1 .. Len(q) : q'[i] = q[i]
    BY <2>2, <2>3, <2>4, AppendFacts
  <2>6. Copied' = Len(sent) /\ ~InFlight /\ ~InFlight'
    <3>1. gpc = "wait" /\ sem1 = 0
      BY <2>2 DEF IInv, TurnInv, STurn
    <3>2. ~NotCopied'
      BY <2>2, <3>1 DEF NotCopied
    <3> QED
      BY <2>2, <3>2 DEF Copied, InFlight
  <2>7. /\ shared.nmcMode /\ shared.address.loc = Len(sent)
        /\ shared = sent[Len(sent)]
    <3>1. Len(sent) \in 1 .. Len(sent)
      BY <2>1, <2>3
    <3> QED
      BY <3>1, <2>1 DEF PInv, SentInv, LastSent
  <2>8. /\ Copied = e + Len(q) /\ executed = [i \in 1 .. e |-> i]
        /\ \A i \in 1 .. Len(q) : q[i].address.loc = e + i /\ q[i].nmcMode
    BY <2>3, <2>6 DEF PInv, OrderInv
  <2>9. Copied' = e + Len(q')
    BY <2>1, <2>3, <2>5, <2>6, <2>8
  <2>10. ASSUME NEW i \in 1 .. Len(q')
         PROVE  q'[i].address.loc = e + i /\ q'[i].nmcMode
    <3>1. CASE i \in 1 .. Len(q)
      BY <3>1, <2>5, <2>8
    <3>2. CASE i = Len(q')
      <4>1. i = Len(q) + 1 /\ e + i = Len(sent)
        BY <3>2, <2>1, <2>3, <2>5, <2>8
      <4>2. q'[i] = line
        BY <3>2, <2>5
      <4> QED
        BY <4>1, <4>2, <2>4, <2>7
    <3> QED
      BY <3>1, <3>2, <2>3, <2>5
  <2>11. /\ q'[Len(q')].address = sent[Copied'].address
         /\ q'[Len(q')].RDcmd = sent[Copied'].RDcmd
    BY <2>4, <2>5, <2>6, <2>7
  <2>12. /\ ~waitSemaphore' \/ spc' \in {"syncpost", "syncwait"}
               => IsExecWrite(q'[Len(q')]) /\ localPimMode'
         /\ spc' # "store" /\ spc' # "top" /\ spc' # "pop"
    BY <2>2, <2>4, <2>5, <2>7 DEF IsExecWrite
  <2>13. e' = e /\ e + 0 = e
    BY <2>2, <2>3
  <2> HIDE DEF q, e
  <2> QED
    BY <2>2, <2>5, <2>6, <2>8, <2>9, <2>10, <2>11, <2>12, <2>13
    DEF OrderInv, q, e
<1> QED
  BY <1>1, <1>2

(* The head of the queue becomes the command in flight. *)
LEMMA OrderSPop == ASSUME IInv, PInv, Pace, SPop PROVE OrderInv'
<1> DEFINE q == instructionList
           e == Len(executed)
<1>1. /\ spc = "pop" /\ ~waitSemaphore /\ ~rcvNewCmd /\ spc' = "exec"
      /\ UNCHANGED <<waitSemaphore, rcvNewCmd, executed, localPimMode, sent>>
  BY DEF SPop, gvars, IInv, PhaseInv
<1>2. q # <<>> /\ curCycle >= readCycle
  BY <1>1 DEF IInv, ClockInv, TypeOK, PInv, OrderInv
<1>3. /\ q \in Seq(FileLine) /\ send' = Head(q) /\ q' = Tail(q) /\ e \in Nat
  BY <1>2 DEF SPop, IInv, TypeOK
<1>4. /\ Len(q) \in Nat \ {0} /\ Len(q') = Len(q) - 1
      /\ \A i \in 1 .. Len(q') : q'[i] = q[i + 1]
      /\ send' = q[1]
  BY <1>2, <1>3, TailFacts
<1>5. Copied' = Copied
  BY <1>1, CopiedSame DEF SPop, SCopy, PInv, Next, SStep
<1>6. ~InFlight /\ InFlight'
  BY <1>1 DEF InFlight
<1>7. /\ Copied = e + Len(q) /\ executed = [i \in 1 .. e |-> i]
      /\ \A i \in 1 .. Len(q) : q[i].address.loc = e + i /\ q[i].nmcMode
      /\ IsExecWrite(q[Len(q)]) /\ localPimMode
      /\ q[Len(q)].address = sent[Copied].address
      /\ q[Len(q)].RDcmd = sent[Copied].RDcmd
  <2>1. OrderInv /\ Len(q) \in Nat
    BY <1>3 DEF PInv
  <2>2. IsExecWrite(q[Len(q)]) /\ localPimMode
    BY <2>1, <1>1, <1>2 DEF OrderInv
  <2>3. /\ q[Len(q)].address = sent[Copied].address
        /\ q[Len(q)].RDcmd = sent[Copied].RDcmd
    BY <2>1, <1>2 DEF OrderInv
  <2>4. /\ Copied = e + 0 + Len(q) /\ executed = [i \in 1 .. e |-> i]
        /\ \A i \in 1 .. Len(q) : q[i].address.loc = e + 0 + i /\ q[i].nmcMode
    BY <2>1, <1>6 DEF OrderInv
  <2> QED
    BY <2>1, <2>2, <2>3, <2>4, <1>3
<1> HIDE DEF e
<1>8. send'.address.loc = e + 1 /\ send'.nmcMode
  BY <1>3, <1>4, <1>7
<1>9. ASSUME NEW i \in 1 .. Len(q')
      PROVE  q'[i].address.loc = e + 1 + i /\ q'[i].nmcMode
  <2>1. i + 1 \in 1 .. Len(q) /\ q'[i] = q[i + 1] /\ e + (i + 1) = e + 1 + i
    BY <1>3, <1>4
  <2> QED
    BY <2>1, <1>7
<1>10. Copied = e + 1 + Len(q')
  BY <1>3, <1>4, <1>7
<1>11. q' # <<>> => q'[Len(q')] = q[Len(q)]
  BY <1>2, <1>3, TailLast
<1>12. q' = <<>> => send' = q[Len(q)]
  <2>1. q' = <<>> => Len(q') = 0
    BY EmptyLen
  <2>2. Len(q') = 0 => Len(q) = 1
    BY <1>4
  <2> QED
    BY <2>1, <2>2, <1>4
<1>13. IsExecWrite(sent[Copied])
  BY <1>7 DEF IsExecWrite
<1>14. e' = e
  BY <1>1 DEF e
<1> HIDE DEF q
<1> QED
  BY <1>1, <1>5, <1>6, <1>7, <1>8, <1>9, <1>10, <1>11, <1>12, <1>13, <1>14
  DEF OrderInv, q, e

(* A cycle without a command passes only before the cycle of the command   *)
(* in flight, or while the driver drains at the end.                       *)
LEMMA SIdleWaits ==
    ASSUME IInv, PInv, SIdle
    PROVE  ~CaughtUp /\ ~rcvNewCmd /\ ~rcvNewCmd'
<1>1. spc = "exec" /\ ~rcvNewCmd
  BY DEF SIdle, IInv, PhaseInv
<1>2. ~CaughtUp
  <2>1. CASE localLastCmd
    BY <2>1 DEF SIdle
  <2>2. CASE ~localLastCmd
    <3>1. ~waitSemaphore
      BY <1>1, <2>2 DEF IInv, PhaseInv
    <3>2. InFlight
      BY <1>1, <3>1 DEF InFlight
    <3>3. curCycle <= readCycle /\ curCycle \in Nat /\ readCycle \in Nat
      BY <1>1, <2>2, <3>2 DEF PInv, CycleInv, IInv, TypeOK
    <3> QED
      BY <3>3 DEF SIdle, CaughtUp
  <2> QED
    BY <2>1, <2>2
<1> QED
  BY <1>1, <1>2 DEF SIdle

(* Commands are executed in the order in which they were issued. *)
LEMMA OrderStep == ASSUME IInv, PInv, Pace, [Next]_vars PROVE OrderInv'
<1> USE DEF IInv, TurnInv, STurn, PhaseInv, PInv, HandInv, OrderInv, InFlight
<1>1. CASE ModeChange
  <2>1. sent' = sent /\ Copied' = Copied
    BY <1>1, CopiedSame DEF ModeChange, svars, SCopy, PInv
  <2> QED
    BY <1>1, <2>1 DEF ModeChange, svars
<1>2. ASSUME NEW rd \in BOOLEAN, Packet(rd) PROVE OrderInv'
  <2>1. /\ sent' = Append(sent, local') /\ local' \in FileLine
        /\ executed' = executed /\ instructionList' = instructionList
        /\ send' = send /\ spc' = spc /\ localPimMode' = localPimMode
        /\ waitSemaphore' = waitSemaphore /\ rcvNewCmd' = rcvNewCmd
        /\ Receiving /\ waitSemaphore /\ NotCopied' /\ ~NotCopied
    BY <1>2, PacketFacts DEF svars, NotCopied
  <2>2. /\ sent \in Seq(FileLine) /\ Len(sent) \in Nat
        /\ Len(sent') = Len(sent) + 1
        /\ \A i \in 1 .. Len(sent) : sent'[i] = sent[i]
    BY <2>1 DEF TypeOK
  <2>3. /\ Copied = Len(sent) /\ Copied' = Copied
        /\ Copied > 0 => sent'[Copied'] = sent[Copied]
    BY <2>1, <2>2 DEF Copied
  <2>4. instructionList # <<>> => Copied > 0
    <3>1. instructionList \in Seq(FileLine) /\ executed \in Seq(Nat)
      BY DEF TypeOK
    <3> QED
      BY <3>1
  <2> QED
    BY <2>1, <2>3, <2>4
<1>3. ASSUME NEW d \in 0 .. DQ_CLK - 2, PacketGrfWord(d) PROVE OrderInv'
  <2>1. sent' = sent /\ Copied' = Copied
    BY <1>3, CopiedSame DEF PacketGrfWord, CanIssue, svars, SCopy, PInv
  <2> QED
    BY <1>3, <2>1 DEF PacketGrfWord, CanIssue, svars
<1>4. CASE EndSystemCSim
  <2>1. sent' = sent /\ Copied' = Copied
    BY <1>4, CopiedSame DEF EndSystemCSim, svars, SCopy, PInv
  <2> QED
    BY <1>4, <2>1 DEF EndSystemCSim, svars
<1>5. CASE WriteEvent
  <2>1. sent' = sent /\ Copied' = Copied
    BY <1>5, CopiedSame DEF WriteEvent, svars, SCopy, PInv
  <2> QED
    BY <1>5, <2>1 DEF WriteEvent, svars
<1>6. CASE GPost
  <2>1. sent' = sent /\ Copied' = Copied
    BY <1>6, CopiedSame DEF GPost, svars, SCopy, PInv
  <2> QED
    BY <1>6, <2>1 DEF GPost, svars
<1>7. CASE GWait
  <2>1. sent' = sent /\ Copied' = Copied
    BY <1>7, CopiedSame DEF GWait, svars, SCopy, PInv
  <2> QED
    BY <1>7, <2>1 DEF GWait, svars
<1>8. CASE AfterCommand
  <2>1. sent' = sent /\ Copied' = Copied
    BY <1>8, CopiedSame DEF AfterCommand, svars, SCopy, PInv
  <2> QED
    BY <1>8, <2>1 DEF AfterCommand, svars
<1>9. CASE AfterEvent
  <2>1. sent' = sent /\ Copied' = Copied
    BY <1>9, CopiedSame DEF AfterEvent, svars, SCopy, PInv
  <2> QED
    BY <1>9, <2>1 DEF AfterEvent, svars
<1>10. CASE AfterExit
  <2>1. sent' = sent /\ Copied' = Copied
    BY <1>10, CopiedSame DEF AfterExit, svars, SCopy, PInv
  <2> QED
    BY <1>10, <2>1 DEF AfterExit, svars
<1>11. CASE STop
  <2>1. sent' = sent /\ Copied' = Copied
    BY <1>11, CopiedSame DEF STop, gvars, SCopy, PInv
  <2> QED
    BY <1>11, <2>1 DEF STop, gvars
<1>12. CASE SWait
  <2>1. sent' = sent /\ Copied' = Copied
    BY <1>12, CopiedSame DEF SWait, gvars, SCopy, PInv
  <2> QED
    BY <1>12, <2>1 DEF SWait, gvars
<1>13. CASE SCopy
  BY <1>13, OrderSCopy
<1>14. CASE SAck
  <2>1. sent' = sent /\ Copied' = Copied
    BY <1>14, CopiedSame DEF SAck, gvars, SCopy, PInv
  <2> QED
    BY <1>14, <2>1 DEF SAck, gvars
<1>15. CASE SSyncPost
  <2>1. sent' = sent /\ Copied' = Copied
    BY <1>15, CopiedSame DEF SSyncPost, gvars, SCopy, PInv
  <2> QED
    BY <1>15, <2>1 DEF SSyncPost, gvars
<1>16. CASE SSyncWait
  <2>1. sent' = sent /\ Copied' = Copied
    BY <1>16, CopiedSame DEF SSyncWait, gvars, SCopy, PInv
  <2> QED
    BY <1>16, <2>1 DEF SSyncWait, gvars
<1>17. CASE SPop
  BY <1>17, OrderSPop
<1>18. CASE SExecute
  <2>1. sent' = sent /\ Copied' = Copied
    BY <1>18, CopiedSame DEF SExecute, gvars, SCopy, PInv
  <2> QED
    BY <1>18, <2>1 DEF SExecute, gvars
<1>19. CASE SIdle
  <2>1. sent' = sent /\ Copied' = Copied
    BY <1>19, CopiedSame DEF SIdle, gvars, SCopy, PInv
  <2>2. ~rcvNewCmd' /\ ~rcvNewCmd
    BY <1>19, SIdleWaits DEF SIdle
  <2> QED
    BY <1>19, <2>1, <2>2 DEF SIdle, gvars
<1>20. CASE SStore
  <2>1. sent' = sent /\ Copied' = Copied
    BY <1>20, CopiedSame DEF SStore, gvars, SCopy, PInv
  <2>2. /\ IsExecWrite(send') <=> IsExecWrite(send)
        /\ send'.address = send.address /\ send'.nmcMode = send.nmcMode
    <3>1. send \in FileLine /\ send' = [send EXCEPT !.data = executed]
      BY <1>20 DEF TypeOK, SStore
    <3> QED
      BY <3>1 DEF FileLine, IsExecWrite
  <2> QED
    BY <1>20, <2>1, <2>2 DEF SStore, gvars
<1>21. CASE SAdvance
  <2>1. sent' = sent /\ Copied' = Copied
    BY <1>21, CopiedSame DEF SAdvance, gvars, SCopy, PInv
  <2> QED
    BY <1>21, <2>1 DEF SAdvance, gvars
<1>22. CASE SFinish
  <2>1. sent' = sent /\ Copied' = Copied
    BY <1>22, CopiedSame DEF SFinish, gvars, SCopy, PInv
  <2> QED
    BY <1>22, <2>1 DEF SFinish, gvars
<1>23. CASE Ended
  <2>1. sent' = sent /\ Copied' = Copied
    BY <1>23, CopiedSame DEF Ended, vars, gvars, svars, SCopy, PInv
  <2> QED
    BY <1>23, <2>1 DEF Ended, vars, gvars, svars
<1>24. CASE UNCHANGED vars
  <2>1. sent' = sent /\ Copied' = Copied
    BY <1>24, CopiedSame DEF vars, gvars, svars, SCopy, PInv
  <2> QED
    BY <1>24, <2>1 DEF vars, gvars, svars
<1> QED
  BY <1>1, <1>2, <1>3, <1>4, <1>5, <1>6, <1>7, <1>8, <1>9, <1>10, <1>11,
     <1>12, <1>13, <1>14, <1>15, <1>16, <1>17, <1>18, <1>19, <1>20,
     <1>21, <1>22, <1>23, <1>24
  DEF Next, Program, GStep, SStep, Packet

(* The device cycle given to a copied command leaves the others their room. *)
LEMMA CycleSCopy == ASSUME IInv, PInv, Pace, SCopy PROVE CycleInv'
<1>1. CASE sharedLastCmd
  <2>1. localLastCmd'
    BY <1>1 DEF SCopy
  <2> QED
    BY <2>1 DEF CycleInv
<1>2. CASE ~sharedLastCmd
  <2> DEFINE q == instructionList
             cyc == CycleOf(shared.issuedTick, OffsetFor(shared))
             line == [shared EXCEPT !.simCycle = cyc]
  <2>1. /\ gop = "cmd" /\ NotCopied /\ sent # <<>> /\ shared = LastSent
        /\ Copied = Len(sent) - 1 /\ IsNew(shared) /\ ~localLastCmd
        /\ cyc \in Nat /\ cyc >= LastCycle + Ahead /\ cyc > curCycle
        /\ LastCycle \in Nat /\ LastCycle >= readCycle /\ Ahead \in Nat \ {0}
    BY <1>2, CopyDistance, CopyFacts DEF SCopy
  <2>2. /\ q' = Append(q, line) /\ sent' = sent
        /\ mostRecentTick' = shared.issuedTick
        /\ tickOffset' = OffsetFor(shared)
        /\ UNCHANGED <<waitSemaphore, rcvNewCmd, curCycle, readCycle, send>>
        /\ spc' \in {"ack", "syncpost"} /\ spc = "copy" /\ waitSemaphore
        /\ UNCHANGED <<sem1, gpc, gop>>
    BY <1>2, <2>1 DEF SCopy, Queue, gvars, IInv, PhaseInv
  <2>3. /\ shared \in FileLine /\ q \in Seq(FileLine) /\ sent \in Seq(FileLine)
        /\ curCycle \in Nat /\ readCycle \in Nat /\ send \in FileLine
        /\ DQ_CLK \in Nat \ {0}
    BY ParamAssumption DEF IInv, TypeOK
  <2>4. line \in FileLine /\ line.simCycle = cyc
    BY <2>1, <2>3 DEF FileLine
  <2> HIDE DEF line
  <2>5. /\ Len(q') = Len(q) + 1 /\ q'[Len(q')] = line /\ q' # <<>>
        /\ \A i \in 1 .. Len(q) : q'[i] = q[i]
        /\ Len(q) \in Nat
    BY <2>2, <2>3, <2>4, AppendFacts
  <2>6. Copied' = Len(sent) /\ ~InFlight'
    <3>1. gpc = "wait" /\ sem1 = 0
      BY <2>2 DEF IInv, TurnInv, STurn
    <3>2. ~NotCopied'
      BY <2>2, <3>1 DEF NotCopied
    <3> QED
      BY <2>2, <3>2 DEF Copied, InFlight
  <2>7. \A i \in 1 .. Len(q) :
          /\ q[i].simCycle >= curCycle /\ q[i].simCycle \in Nat
          /\ q[i].simCycle >= readCycle + Room(send)
          /\ \A j \in 1 .. i - 1 : q[i].simCycle >= q[j].simCycle + Room(q[j])
    <3>1. \A i \in 1 .. Len(q) : q[i] \in FileLine
      BY <2>3
    <3>2. \A i \in 1 .. Len(q) : q[i].simCycle \in Nat
      BY <3>1 DEF FileLine
    <3>3. CycleInv /\ ~localLastCmd
      BY <2>1 DEF PInv
    <3> QED
      BY <3>2, <3>3 DEF CycleInv
  <2>8. Room(send) \in Nat /\ \A i \in 1 .. Len(q) : Room(q[i]) \in Nat
    BY <2>3 DEF Room
  <2>9. /\ cyc >= readCycle + Room(send)
        /\ \A j \in 1 .. Len(q) : cyc >= q[j].simCycle + Room(q[j])
    <3>1. CASE q = <<>>
      <4>1. Room(send) = 1 /\ LastCycle = readCycle /\ Ahead = 2
        BY <2>1, <2>2, <3>1 DEF PInv, CycleInv, Room, LastCycle, Ahead
      <4>2. Len(q) = 0
        BY <3>1, EmptyLen
      <4> QED
        BY <4>2, <4>1, <2>1, <2>3
    <3>2. CASE q # <<>>
      <4>1. Len(q) \in 1 .. Len(q)
        BY <3>2, <2>3
      <4>2. cyc >= q[Len(q)].simCycle + Room(q[Len(q)])
        BY <3>2, <2>1 DEF LastCycle, Ahead
      <4>3. cyc >= q[Len(q)].simCycle /\ q[Len(q)].simCycle >= readCycle + Room(send)
        BY <4>1, <4>2, <2>1, <2>7, <2>8
      <4>4. cyc >= readCycle + Room(send)
        BY <4>1, <4>3, <2>1, <2>3, <2>7, <2>8
      <4>5. ASSUME NEW j \in 1 .. Len(q) PROVE cyc >= q[j].simCycle + Room(q[j])
        <5>1. CASE j = Len(q)
          BY <5>1, <4>2
        <5>2. CASE j \in 1 .. Len(q) - 1
          <6>1. q[Len(q)].simCycle >= q[j].simCycle + Room(q[j])
            BY <5>2, <4>1, <2>7
          <6>2. /\ q[Len(q)].simCycle \in Nat /\ q[j].simCycle \in Nat
                /\ Room(q[j]) \in Nat
            BY <4>1, <2>7, <2>8
          <6> QED
            BY <6>1, <6>2, <4>3, <2>1
        <5> QED
          BY <5>1, <5>2, <2>5
      <4> QED
        BY <4>4, <4>5
    <3> QED
      BY <3>1, <3>2
  <2>10. ASSUME NEW i \in 1 .. Len(q')
         PROVE  /\ q'[i].simCycle >= curCycle
                /\ q'[i].simCycle >= readCycle + Room(send)
                /\ \A j \in 1 .. i - 1 :
                      q'[i].simCycle >= q'[j].simCycle + Room(q'[j])
    <3>1. CASE i \in 1 .. Len(q)
      <4>1. q'[i] = q[i] /\ \A j \in 1 .. i - 1 : q'[j] = q[j]
        BY <3>1, <2>5
      <4> QED
        BY <3>1, <4>1, <2>7
    <3>2. CASE i = Len(q')
      <4>1. q'[i].simCycle = cyc
        BY <3>2, <2>4, <2>5
      <4>2. \A j \in 1 .. i - 1 : j \in 1 .. Len(q) /\ q'[j] = q[j]
        BY <3>2, <2>5
      <4>3. cyc >= curCycle
        BY <2>1, <2>3
      <4> QED
        BY <4>1, <4>2, <4>3, <2>9
    <3> QED
      BY <3>1, <3>2, <2>5
  <2>11. shared = sent[Copied'] /\ Copied' > 0
    BY <2>1, <2>3, <2>6 DEF LastSent
  <2>12. LastCycle' = cyc
    BY <2>4, <2>5 DEF LastCycle
  <2>13. LastCycle' = CycleOf(mostRecentTick', tickOffset')
    BY <2>2, <2>12
  <2>14. ~(~waitSemaphore' /\ rcvNewCmd')
    BY <2>2
  <2> HIDE DEF q, cyc
  <2> QED
    BY <2>2, <2>5, <2>6, <2>10, <2>11, <2>13, <2>14 DEF CycleInv, q
<1> QED
  BY <1>1, <1>2

(* The command taken from the queue lies in a cycle still to come. *)
LEMMA CycleSPop == ASSUME IInv, PInv, Pace, SPop PROVE CycleInv'
<1> DEFINE q == instructionList
<1>1. /\ spc = "pop" /\ ~waitSemaphore /\ ~rcvNewCmd /\ spc' = "exec"
      /\ UNCHANGED <<waitSemaphore, rcvNewCmd, curCycle, mostRecentTick>>
      /\ UNCHANGED <<tickOffset, sent, localLastCmd>> /\ ~localLastCmd
  BY DEF SPop, gvars, IInv, PhaseInv
<1>2. q # <<>> /\ curCycle >= readCycle
  BY <1>1 DEF IInv, ClockInv, TypeOK, PInv, OrderInv
<1>3. /\ q \in Seq(FileLine) /\ send' = Head(q) /\ q' = Tail(q)
      /\ readCycle' = Head(q).simCycle
      /\ curCycle \in Nat /\ readCycle \in Nat /\ DQ_CLK \in Nat \ {0}
  BY <1>2, ParamAssumption DEF SPop, IInv, TypeOK
<1>4. /\ Len(q) \in Nat \ {0} /\ Len(q') = Len(q) - 1 /\ q' \in Seq(FileLine)
      /\ \A i \in 1 .. Len(q') : q'[i] = q[i + 1]
      /\ send' = q[1] /\ readCycle' = q[1].simCycle
  BY <1>2, <1>3, TailFacts
<1>5. Copied' = Copied
  BY <1>1, CopiedSame DEF SPop, SCopy, PInv, Next, SStep
<1>6. \A i \in 1 .. Len(q) :
          /\ q[i].simCycle >= curCycle
          /\ q[i].simCycle >= readCycle + Room(send)
          /\ \A j \in 1 .. i - 1 : q[i].simCycle >= q[j].simCycle + Room(q[j])
  BY <1>1 DEF PInv, CycleInv
<1>7. curCycle <= readCycle'
  <2>1. 1 \in 1 .. Len(q)
    BY <1>4
  <2> QED
    BY <2>1, <1>4, <1>6
<1>8. LastCycle' = LastCycle
  <2>1. CASE q' = <<>>
    <3>1. Len(q) = 1
      BY <2>1, <1>4, EmptyLen
    <3> QED
      BY <2>1, <3>1, <1>2, <1>4 DEF LastCycle
  <2>2. CASE q' # <<>>
    BY <2>2, <1>2, <1>3, TailLast DEF LastCycle
  <2> QED
    BY <2>1, <2>2
<1>9. ASSUME NEW i \in 1 .. Len(q')
      PROVE  /\ q'[i].simCycle >= curCycle
             /\ q'[i].simCycle >= readCycle' + Room(send')
             /\ \A j \in 1 .. i - 1 :
                   q'[i].simCycle >= q'[j].simCycle + Room(q'[j])
  <2>1. /\ i + 1 \in 1 .. Len(q) /\ q'[i] = q[i + 1]
        /\ 1 \in 1 .. (i + 1) - 1
        /\ \A j \in 1 .. i - 1 : j + 1 \in 1 .. (i + 1) - 1 /\ q'[j] = q[j + 1]
    BY <1>4
  <2> QED
    BY <2>1, <1>4, <1>6
<1>11. mostRecentTick = (IF Copied > 0 THEN sent[Copied].issuedTick ELSE 0)
       /\ LastCycle = CycleOf(mostRecentTick, tickOffset)
  BY <1>1 DEF PInv, CycleInv
<1> HIDE DEF q
<1> QED
  BY <1>1, <1>5, <1>7, <1>8, <1>9, <1>11 DEF CycleInv, q, InFlight

(* A command is driven in its own cycle. *)
LEMMA CycleSExecute == ASSUME IInv, PInv, Pace, SExecute PROVE CycleInv'
<1>1. /\ spc = "exec" /\ ~localLastCmd /\ curCycle = readCycle
      /\ rcvNewCmd' /\ spc' \in {"store", "advance"}
      /\ UNCHANGED <<instructionList, readCycle, curCycle, send, sent>>
      /\ UNCHANGED <<waitSemaphore, mostRecentTick, tickOffset, localLastCmd>>
  BY DEF SExecute, gvars
<1>2. ~waitSemaphore /\ ~InFlight' /\ CycleInv
  BY <1>1 DEF IInv, PhaseInv, InFlight, PInv
<1>3. Copied' = Copied
  BY <1>1, CopiedSame DEF SExecute, SCopy, PInv, Next, SStep
<1>4. LastCycle' = LastCycle
  BY <1>1 DEF LastCycle
<1> QED
  BY <1>1, <1>2, <1>3, <1>4 DEF CycleInv

(* A cycle without a command lies before that of the command in flight. *)
LEMMA CycleSIdle == ASSUME IInv, PInv, Pace, SIdle PROVE CycleInv'
<1>1. /\ spc = "exec" /\ ~rcvNewCmd' /\ spc' = "advance" /\ ~rcvNewCmd
      /\ UNCHANGED <<instructionList, readCycle, curCycle, send, sent>>
      /\ UNCHANGED <<waitSemaphore, mostRecentTick, tickOffset, localLastCmd>>
  BY SIdleWaits DEF SIdle, gvars
<1>2. Copied' = Copied
  BY <1>1, CopiedSame DEF SIdle, SCopy, PInv, Next, SStep
<1>3. CASE localLastCmd
  BY <1>1, <1>3 DEF CycleInv
<1>4. CASE ~localLastCmd
  <2>1. ~waitSemaphore /\ InFlight' /\ InFlight /\ CycleInv
    BY <1>1, <1>4 DEF IInv, PhaseInv, InFlight, PInv
  <2>2. curCycle < readCycle
    <3>1. localPimMode /\ curCycle \in Nat /\ readCycle \in Nat
      BY <2>1 DEF PInv, OrderInv, IInv, TypeOK
    <3> QED
      BY <3>1, SIdleWaits DEF CaughtUp
  <2>3. LastCycle' = LastCycle
    BY <1>1 DEF LastCycle
  <2> QED
    BY <1>1, <1>2, <1>4, <2>1, <2>2, <2>3 DEF CycleInv
<1> QED
  BY <1>3, <1>4

(* The clock passes no queued command. *)
LEMMA CycleSAdvance == ASSUME IInv, PInv, Pace, SAdvance PROVE CycleInv'
<1> DEFINE q == instructionList
<1>1. /\ spc = "advance" /\ spc' = "top"
      /\ UNCHANGED <<instructionList, readCycle, send, sent, rcvNewCmd>>
      /\ UNCHANGED <<mostRecentTick, tickOffset, localLastCmd>>
      /\ waitSemaphore' = ((rcvNewCmd /\ q = <<>>) \/ waitSemaphore)
      /\ curCycle' = IF Spinning THEN curCycle ELSE curCycle + 1
  BY DEF SAdvance, gvars, IInv, TypeOK
<1>2. Copied' = Copied
  BY <1>1, CopiedSame DEF SAdvance, SCopy, PInv, Next, SStep
<1>3. CASE localLastCmd
  BY <1>1, <1>3 DEF CycleInv
<1>4. CASE ~localLastCmd
  <2>1. ~waitSemaphore /\ CycleInv
    BY <1>1, <1>4 DEF IInv, PhaseInv, PInv
  <2>2. curCycle' = curCycle + 1 /\ curCycle \in Nat /\ readCycle \in Nat
    BY <1>1, <2>1 DEF PInv, OrderInv, Spinning, IInv, TypeOK
  <2>3. Room(send) \in Nat /\ Room(send) >= 1
    BY ParamAssumption DEF Room
  <2>4. /\ rcvNewCmd => curCycle = readCycle
        /\ ~rcvNewCmd => curCycle < readCycle
    BY <1>1, <1>4, <2>1 DEF CycleInv, InFlight
  <2>5. curCycle' <= readCycle + Room(send)
    BY <2>2, <2>3, <2>4, <1>1 DEF IInv, TypeOK
  <2>6. ASSUME NEW i \in 1 .. Len(q) PROVE q[i].simCycle >= curCycle'
    <3>1. q[i] \in FileLine
      BY DEF IInv, TypeOK
    <3>2. q[i].simCycle >= readCycle + Room(send)
      BY <1>4, <2>1 DEF CycleInv
    <3> QED
      BY <3>1, <3>2, <2>2, <2>3, <2>5 DEF FileLine
  <2>7. q = <<>> => ~IsGrfWrite(send)
    BY <2>1 DEF PInv, OrderInv, IsGrfWrite, IsExecWrite
  <2>8. LastCycle' = LastCycle
    BY <1>1 DEF LastCycle
  <2>9. /\ waitSemaphore' /\ q = <<>> =>
              curCycle' = readCycle + 1 /\ ~IsGrfWrite(send)
        /\ InFlight' => curCycle' <= readCycle
        /\ ~waitSemaphore' /\ rcvNewCmd' => curCycle' = readCycle + 1
    <3>1. CASE rcvNewCmd
      BY <3>1, <1>1, <2>1, <2>2, <2>4, <2>7 DEF InFlight
    <3>2. CASE ~rcvNewCmd
      <4>1. ~waitSemaphore' /\ ~rcvNewCmd'
        BY <3>2, <1>1, <2>1
      <4> QED
        BY <3>2, <4>1, <2>2, <2>4
    <3> QED
      BY <3>1, <3>2
  <2> HIDE DEF q
  <2> QED
    BY <1>1, <1>2, <1>4, <2>1, <2>6, <2>8, <2>9 DEF CycleInv, q
<1> QED
  BY <1>3, <1>4

(* A new iteration of the loop leaves the cycles as they are. *)
LEMMA CycleSTop == ASSUME IInv, PInv, Pace, STop PROVE CycleInv'
<1>1. /\ spc = "top" /\ ~rcvNewCmd' /\ spc' # "advance"
      /\ UNCHANGED <<instructionList, readCycle, curCycle, send, sent>>
      /\ UNCHANGED <<waitSemaphore, mostRecentTick, tickOffset, localLastCmd>>
  BY DEF STop, gvars
<1>2. Copied' = Copied
  BY <1>1, CopiedSame DEF STop, SCopy, PInv, Next, SStep
<1>3. CycleInv /\ LastCycle' = LastCycle
  BY <1>1 DEF LastCycle, PInv
<1>4. InFlight' => InFlight
  BY <1>1 DEF STop, InFlight, IInv, PhaseInv, TypeOK
<1> QED
  BY <1>1, <1>2, <1>3, <1>4 DEF CycleInv

(* Queued commands keep their distances. *)
LEMMA CycleStep == ASSUME IInv, PInv, Pace, [Next]_vars PROVE CycleInv'
<1> USE DEF IInv, TurnInv, STurn, PhaseInv, PInv, CycleInv, InFlight, LastCycle
<1>1. CASE ModeChange
  <2>1. sent' = sent /\ Copied' = Copied
    BY <1>1, CopiedSame DEF ModeChange, svars, SCopy, PInv
  <2> QED
    BY <1>1, <2>1 DEF ModeChange, svars
<1>2. ASSUME NEW rd \in BOOLEAN, Packet(rd) PROVE CycleInv'
  <2>1. /\ sent' = Append(sent, local') /\ local' \in FileLine
        /\ UNCHANGED <<instructionList, send, spc, waitSemaphore, rcvNewCmd>>
        /\ UNCHANGED <<curCycle, readCycle, mostRecentTick, tickOffset>>
        /\ UNCHANGED localLastCmd
        /\ NotCopied' /\ ~NotCopied
    BY <1>2, PacketFacts DEF svars, NotCopied
  <2>2. /\ sent \in Seq(FileLine) /\ Len(sent) \in Nat
        /\ Len(sent') = Len(sent) + 1
        /\ \A i \in 1 .. Len(sent) : sent'[i] = sent[i]
    BY <2>1 DEF TypeOK
  <2>3. /\ Copied = Len(sent) /\ Copied' = Copied
        /\ Copied > 0 => sent'[Copied'] = sent[Copied]
    BY <2>1, <2>2 DEF Copied
  <2> QED
    BY <2>1, <2>3
<1>3. ASSUME NEW d \in 0 .. DQ_CLK - 2, PacketGrfWord(d) PROVE CycleInv'
  <2>1. sent' = sent /\ Copied' = Copied
    BY <1>3, CopiedSame DEF PacketGrfWord, CanIssue, svars, SCopy, PInv
  <2> QED
    BY <1>3, <2>1 DEF PacketGrfWord, CanIssue, svars
<1>4. CASE EndSystemCSim
  <2>1. sent' = sent /\ Copied' = Copied
    BY <1>4, CopiedSame DEF EndSystemCSim, svars, SCopy, PInv
  <2> QED
    BY <1>4, <2>1 DEF EndSystemCSim, svars
<1>5. CASE WriteEvent
  <2>1. sent' = sent /\ Copied' = Copied
    BY <1>5, CopiedSame DEF WriteEvent, svars, SCopy, PInv
  <2> QED
    BY <1>5, <2>1 DEF WriteEvent, svars
<1>6. CASE GPost
  <2>1. sent' = sent /\ Copied' = Copied
    BY <1>6, CopiedSame DEF GPost, svars, SCopy, PInv
  <2> QED
    BY <1>6, <2>1 DEF GPost, svars
<1>7. CASE GWait
  <2>1. sent' = sent /\ Copied' = Copied
    BY <1>7, CopiedSame DEF GWait, svars, SCopy, PInv
  <2> QED
    BY <1>7, <2>1 DEF GWait, svars
<1>8. CASE AfterCommand
  <2>1. sent' = sent /\ Copied' = Copied
    BY <1>8, CopiedSame DEF AfterCommand, svars, SCopy, PInv
  <2> QED
    BY <1>8, <2>1 DEF AfterCommand, svars
<1>9. CASE AfterEvent
  <2>1. sent' = sent /\ Copied' = Copied
    BY <1>9, CopiedSame DEF AfterEvent, svars, SCopy, PInv
  <2> QED
    BY <1>9, <2>1 DEF AfterEvent, svars
<1>10. CASE AfterExit
  <2>1. sent' = sent /\ Copied' = Copied
    BY <1>10, CopiedSame DEF AfterExit, svars, SCopy, PInv
  <2> QED
    BY <1>10, <2>1 DEF AfterExit, svars
<1>11. CASE STop
  BY <1>11, CycleSTop
<1>12. CASE SWait
  <2>1. sent' = sent /\ Copied' = Copied
    BY <1>12, CopiedSame DEF SWait, gvars, SCopy, PInv
  <2> QED
    BY <1>12, <2>1 DEF SWait, gvars
<1>13. CASE SCopy
  BY <1>13, CycleSCopy
<1>14. CASE SAck
  <2>1. sent' = sent /\ Copied' = Copied
    BY <1>14, CopiedSame DEF SAck, gvars, SCopy, PInv
  <2> QED
    BY <1>14, <2>1 DEF SAck, gvars
<1>15. CASE SSyncPost
  <2>1. sent' = sent /\ Copied' = Copied
    BY <1>15, CopiedSame DEF SSyncPost, gvars, SCopy, PInv
  <2> QED
    BY <1>15, <2>1 DEF SSyncPost, gvars
<1>16. CASE SSyncWait
  <2>1. sent' = sent /\ Copied' = Copied
    BY <1>16, CopiedSame DEF SSyncWait, gvars, SCopy, PInv
  <2> QED
    BY <1>16, <2>1 DEF SSyncWait, gvars
<1>17. CASE SPop
  BY <1>17, CycleSPop
<1>18. CASE SExecute
  BY <1>18, CycleSExecute
<1>19. CASE SIdle
  BY <1>19, CycleSIdle
<1>20. CASE SStore
  <2>1. sent' = sent /\ Copied' = Copied
    BY <1>20, CopiedSame DEF SStore, gvars, SCopy, PInv
  <2>2. (IsGrfWrite(send') <=> IsGrfWrite(send)) /\ Room(send') = Room(send)
    <3>1. send \in FileLine /\ send' = [send EXCEPT !.data = executed]
      BY <1>20 DEF TypeOK, SStore
    <3> QED
      BY <3>1 DEF FileLine, IsGrfWrite, Room
  <2>3. rcvNewCmd /\ ~waitSemaphore
    BY <1>20 DEF SStore, OrderInv
  <2> QED
    BY <1>20, <2>1, <2>2, <2>3 DEF SStore, gvars
<1>21. CASE SAdvance
  BY <1>21, CycleSAdvance
<1>22. CASE SFinish
  <2>1. sent' = sent /\ Copied' = Copied
    BY <1>22, CopiedSame DEF SFinish, gvars, SCopy, PInv
  <2> QED
    BY <1>22, <2>1 DEF SFinish, gvars
<1>23. CASE Ended
  <2>1. sent' = sent /\ Copied' = Copied
    BY <1>23, CopiedSame DEF Ended, vars, gvars, svars, SCopy, PInv
  <2> QED
    BY <1>23, <2>1 DEF Ended, vars, gvars, svars
<1>24. CASE UNCHANGED vars
  <2>1. sent' = sent /\ Copied' = Copied
    BY <1>24, CopiedSame DEF vars, gvars, svars, SCopy, PInv
  <2> QED
    BY <1>24, <2>1 DEF vars, gvars, svars
<1> QED
  BY <1>1, <1>2, <1>3, <1>4, <1>5, <1>6, <1>7, <1>8, <1>9, <1>10, <1>11,
     <1>12, <1>13, <1>14, <1>15, <1>16, <1>17, <1>18, <1>19, <1>20,
     <1>21, <1>22, <1>23, <1>24
  DEF Next, Program, GStep, SStep, Packet

(* When a command is driven, DQ is free. *)
LEMMA DQFree ==
    ASSUME IInv, CycleInv, DQInv, spc = "exec", ~localLastCmd, curCycle = readCycle
    PROVE  DQCycle = 0 /\ InFlight /\ ~waitSemaphore /\ ~rcvNewCmd
<1>1. InFlight /\ ~waitSemaphore /\ ~rcvNewCmd
  BY DEF IInv, PhaseInv, InFlight
<1>2. /\ DQCycle \in Nat /\ curCycle \in Nat /\ readCycle \in Nat
      /\ DQ_CLK \in Nat \ {0}
  BY ParamAssumption DEF IInv, TypeOK
<1>3. DQCycle # 0 => /\ DQCycle <= DQ_CLK
                     /\ readCycle >= curCycle + DQ_CLK + 1 - DQCycle
  BY <1>1 DEF DQInv
<1> QED
  BY <1>1, <1>2, <1>3

(* A register write leaves the next command the cycles it takes. *)
LEMMA DQSExecute == ASSUME IInv, PInv, Pace, SExecute PROVE DQInv'
<1> DEFINE q == instructionList
<1>1. /\ spc = "exec" /\ ~localLastCmd /\ curCycle = readCycle
      /\ rcvNewCmd' /\ spc' \in {"store", "advance"}
      /\ UNCHANGED <<instructionList, readCycle, curCycle, send>>
      /\ UNCHANGED <<waitSemaphore, localLastCmd>>
      /\ DQCycle' = WrapDQ(IF IsGrfWrite(send) THEN DQCycle + 1 ELSE DQCycle)
  BY DEF SExecute
<1>2. DQCycle = 0 /\ ~waitSemaphore /\ ~InFlight'
  BY <1>1, DQFree DEF PInv, InFlight
<1>3. /\ curCycle \in Nat /\ readCycle \in Nat /\ DQ_CLK \in Nat \ {0}
      /\ q \in Seq(FileLine)
  BY ParamAssumption DEF IInv, TypeOK
<1>4. CASE IsGrfWrite(send)
  <2>1. DQCycle' = IF 1 > DQ_CLK - 1 THEN 0 ELSE 1
    BY <1>1, <1>2, <1>4 DEF WrapDQ
  <2>2. q # <<>>
    BY <1>2, <1>4 DEF PInv, OrderInv, IsGrfWrite, IsExecWrite
  <2>3. q[1].simCycle >= curCycle + DQ_CLK
    <3>1. 1 \in 1 .. Len(q)
      BY <2>2, <1>3
    <3>2. Room(send) = DQ_CLK
      BY <1>4 DEF Room
    <3> QED
      BY <1>1, <3>1, <3>2 DEF PInv, CycleInv
  <2>4. /\ DQCycle' <= DQ_CLK - 1
        /\ DQCycle' # 0 => curCycle + DQ_CLK = curCycle + DQ_CLK + 1 - DQCycle'
    BY <2>1, <1>3
  <2>5. spc' # "top" /\ q' = q /\ ~waitSemaphore' /\ curCycle' = curCycle
    BY <1>1, <1>2
  <2> QED
    BY <1>1, <1>2, <2>2, <2>3, <2>4, <2>5 DEF DQInv
<1>5. CASE ~IsGrfWrite(send)
  <2>1. DQCycle' = 0
    BY <1>1, <1>2, <1>3, <1>5 DEF WrapDQ
  <2> QED
    BY <2>1 DEF DQInv
<1> QED
  BY <1>4, <1>5

(* The next word goes out with the next cycle. *)
LEMMA DQSTop == ASSUME IInv, PInv, Pace, STop PROVE DQInv'
<1> DEFINE q == instructionList
<1> SUFFICES ASSUME ~localLastCmd', DQCycle' # 0 PROVE DQInv'
  BY DEF DQInv
<1>1. /\ spc = "top" /\ ~rcvNewCmd'
      /\ UNCHANGED <<instructionList, readCycle, curCycle, waitSemaphore>>
      /\ localLastCmd' = localLastCmd
      /\ DQCycle' = DQCycle + 1 /\ DQCycle # 0
  BY DEF STop
<1>2. /\ ~waitSemaphore /\ (InFlight \/ q # <<>>) /\ DQCycle <= DQ_CLK - 1
      /\ (IF InFlight THEN readCycle ELSE q[1].simCycle)
            >= curCycle + DQ_CLK + 0 - DQCycle
  BY <1>1 DEF PInv, DQInv
<1>3. /\ spc' = IF ~rcvNewCmd THEN "exec" ELSE "pop"
      /\ InFlight <=> InFlight'
  BY <1>1, <1>2 DEF STop, IInv, PhaseInv, InFlight
<1>4. /\ DQCycle \in Nat /\ curCycle \in Nat /\ DQ_CLK \in Nat
  BY ParamAssumption DEF IInv, TypeOK
<1>5. /\ DQCycle' <= DQ_CLK
      /\ curCycle + DQ_CLK + 0 - DQCycle = curCycle + DQ_CLK + 1 - DQCycle'
  BY <1>1, <1>2, <1>4
<1>6. spc' \notin {"advance", "top", "store"} /\ q' = q
  BY <1>1, <1>3
<1> QED
  BY <1>1, <1>2, <1>3, <1>5, <1>6 DEF DQInv

(* The word counter ends with the register. *)
LEMMA DQSIdle == ASSUME IInv, PInv, Pace, SIdle PROVE DQInv'
<1> DEFINE q == instructionList
<1> SUFFICES ASSUME ~localLastCmd', DQCycle' # 0 PROVE DQInv'
  BY DEF DQInv
<1>1. /\ spc = "exec" /\ spc' = "advance" /\ ~rcvNewCmd /\ ~rcvNewCmd'
      /\ UNCHANGED <<instructionList, readCycle, curCycle, waitSemaphore>>
      /\ localLastCmd' = localLastCmd /\ DQCycle' = WrapDQ(DQCycle)
  BY SIdleWaits DEF SIdle
<1>2. /\ DQCycle \in Nat /\ curCycle \in Nat /\ DQ_CLK \in Nat \ {0}
  BY ParamAssumption DEF IInv, TypeOK
<1>3. DQCycle # 0 /\ DQCycle' = DQCycle /\ DQCycle <= DQ_CLK - 1
  BY <1>1, <1>2 DEF WrapDQ
<1>4. /\ ~waitSemaphore /\ (InFlight \/ q # <<>>)
      /\ (IF InFlight THEN readCycle ELSE q[1].simCycle)
            >= curCycle + DQ_CLK + 1 - DQCycle
  BY <1>1, <1>3 DEF PInv, DQInv
<1>5. InFlight /\ InFlight'
  BY <1>1, <1>4 DEF InFlight
<1>6. readCycle' >= curCycle' + DQ_CLK + 1 - DQCycle'
  BY <1>1, <1>3, <1>4, <1>5
<1> QED
  BY <1>1, <1>3, <1>4, <1>5, <1>6 DEF DQInv

(* The clock and the word counter go together. *)
LEMMA DQSAdvance == ASSUME IInv, PInv, Pace, SAdvance PROVE DQInv'
<1> DEFINE q == instructionList
<1> SUFFICES ASSUME ~localLastCmd', DQCycle' # 0 PROVE DQInv'
  BY DEF DQInv
<1>1. /\ spc = "advance" /\ spc' = "top"
      /\ UNCHANGED <<instructionList, readCycle, rcvNewCmd, DQCycle>>
      /\ localLastCmd' = localLastCmd
      /\ curCycle' = IF Spinning THEN curCycle ELSE curCycle + 1
  BY DEF SAdvance
<1>2. /\ ~waitSemaphore /\ (InFlight \/ q # <<>>) /\ DQCycle <= DQ_CLK - 1
      /\ (IF InFlight THEN readCycle ELSE q[1].simCycle)
            >= curCycle + DQ_CLK + 1 - DQCycle
  BY <1>1 DEF PInv, DQInv
<1>3. curCycle' = curCycle + 1
  BY <1>1, <1>2 DEF PInv, OrderInv, Spinning
<1>4. ~waitSemaphore'
  BY <1>1, <1>2 DEF SAdvance, InFlight
<1>5. InFlight <=> InFlight'
  BY <1>1, <1>2, <1>4 DEF InFlight
<1>6. curCycle \in Nat /\ DQ_CLK \in Nat /\ DQCycle \in Nat
  BY ParamAssumption DEF IInv, TypeOK
<1>7. curCycle' + DQ_CLK + 0 - DQCycle = curCycle + DQ_CLK + 1 - DQCycle
  BY <1>3, <1>6
<1>8. /\ spc' = "top" /\ q' = q /\ DQCycle' = DQCycle /\ readCycle' = readCycle
      /\ DQCycle' <= DQ_CLK - 1
  BY <1>1, <1>2
<1> QED
  BY <1>2, <1>4, <1>5, <1>7, <1>8 DEF DQInv

(* The command taken from the queue is the one DQ must be free for. *)
LEMMA DQSPop == ASSUME IInv, PInv, Pace, SPop PROVE DQInv'
<1> DEFINE q == instructionList
<1> SUFFICES ASSUME ~localLastCmd', DQCycle' # 0 PROVE DQInv'
  BY DEF DQInv
<1>1. /\ spc = "pop" /\ spc' = "exec" /\ ~waitSemaphore /\ ~rcvNewCmd
      /\ UNCHANGED <<rcvNewCmd, DQCycle, curCycle, waitSemaphore>>
      /\ localLastCmd' = localLastCmd
  BY DEF SPop, IInv, PhaseInv
<1>2. q # <<>> /\ curCycle >= readCycle /\ q \in Seq(FileLine)
  BY <1>1 DEF IInv, ClockInv, TypeOK, PInv, OrderInv
<1>3. readCycle' = q[1].simCycle
  BY <1>2, TailFacts DEF SPop
<1>4. InFlight' /\ ~InFlight
  BY <1>1 DEF InFlight
<1>5. /\ DQCycle <= DQ_CLK
      /\ q[1].simCycle >= curCycle + DQ_CLK + 1 - DQCycle
  BY <1>1, <1>4 DEF PInv, DQInv
<1>6. spc' \notin {"advance", "top", "store"} /\ spc' # "top"
  BY <1>1
<1> QED
  BY <1>1, <1>3, <1>4, <1>5, <1>6 DEF DQInv

(* A register write on DQ never reaches the next command. *)
LEMMA DQStep == ASSUME IInv, PInv, Pace, [Next]_vars PROVE DQInv'
<1> USE DEF IInv, PhaseInv, PInv, DQInv, InFlight
<1>1. CASE ModeChange
  BY <1>1 DEF ModeChange, svars
<1>2. ASSUME NEW rd \in BOOLEAN, Packet(rd) PROVE DQInv'
  <2>1. waitSemaphore' /\ waitSemaphore
        /\ DQCycle' = DQCycle /\ localLastCmd' = localLastCmd
    BY <1>2, PacketFacts DEF svars
  <2> QED
    BY <2>1
<1>3. ASSUME NEW d \in 0 .. DQ_CLK - 2, PacketGrfWord(d) PROVE DQInv'
  BY <1>3 DEF PacketGrfWord, CanIssue, svars
<1>4. CASE EndSystemCSim
  BY <1>4 DEF EndSystemCSim, svars
<1>5. CASE WriteEvent
  BY <1>5 DEF WriteEvent, svars
<1>6. CASE GPost
  BY <1>6 DEF GPost, svars
<1>7. CASE GWait
  BY <1>7 DEF GWait, svars
<1>8. CASE AfterCommand
  BY <1>8 DEF AfterCommand, svars
<1>9. CASE AfterEvent
  BY <1>9 DEF AfterEvent, svars
<1>10. CASE AfterExit
  BY <1>10 DEF AfterExit, svars
<1>11. CASE STop
  BY <1>11, DQSTop
<1>12. CASE SWait
  BY <1>12 DEF SWait, gvars
<1>13. CASE SCopy
  BY <1>13 DEF SCopy, gvars
<1>14. CASE SAck
  BY <1>14 DEF SAck, gvars
<1>15. CASE SSyncPost
  BY <1>15 DEF SSyncPost, gvars
<1>16. CASE SSyncWait
  BY <1>16 DEF SSyncWait, gvars
<1>17. CASE SPop
  BY <1>17, DQSPop
<1>18. CASE SExecute
  BY <1>18, DQSExecute
<1>19. CASE SIdle
  BY <1>19, DQSIdle
<1>20. CASE SStore
  <2>1. rcvNewCmd /\ ~waitSemaphore
    BY <1>20 DEF SStore, OrderInv
  <2> QED
    BY <1>20, <2>1 DEF SStore, gvars
<1>21. CASE SAdvance
  BY <1>21, DQSAdvance
<1>22. CASE SFinish
  BY <1>22 DEF SFinish, gvars
<1>23. CASE Ended
  BY <1>23 DEF Ended, vars, gvars, svars
<1>24. CASE UNCHANGED vars
  BY <1>24 DEF vars, gvars, svars
<1> QED
  BY <1>1, <1>2, <1>3, <1>4, <1>5, <1>6, <1>7, <1>8, <1>9, <1>10, <1>11,
     <1>12, <1>13, <1>14, <1>15, <1>16, <1>17, <1>18, <1>19, <1>20,
     <1>21, <1>22, <1>23, <1>24
  DEF Next, Program, GStep, SStep, Packet

(* The execution writes issued are finitely many, and a new command adds   *)
(* at most itself.                                                         *)
LEMMA ExecWritesFacts ==
    ASSUME TypeOK
    PROVE  IsFiniteSet(ExecWrites) /\ Cardinality(ExecWrites) \in Nat
<1>1. Len(sent) \in Nat /\ 1 \in Int
  BY DEF TypeOK
<1>2. IsFiniteSet(1 .. Len(sent))
  BY <1>1, FS_Interval
<1>3. ExecWrites \subseteq 1 .. Len(sent)
  BY DEF ExecWrites
<1> QED
  BY <1>2, <1>3, FS_Subset, FS_CardinalityType

(* A new command is counted when it is an execution write. *)
LEMMA CountPacket ==
    ASSUME IInv, PInv, Pace, NEW rd \in BOOLEAN, Packet(rd)
    PROVE  CountInv'
<1> DEFINE n == Len(sent)
<1>1. /\ sent' = Append(sent, local') /\ local' \in FileLine
      /\ gpc = "idle" /\ gpc' = "post" /\ gop' = "cmd" /\ gop # "exit"
      /\ evTick = None /\ evTick' = evTick /\ applied' = applied
  BY PacketFacts
<1>2. sent \in Seq(FileLine) /\ n \in Nat /\ applied \in Seq([loc : Nat, data : Seq(Nat)])
  BY DEF IInv, TypeOK
<1>3. /\ Len(sent') = n + 1 /\ sent'[n + 1] = local'
      /\ \A i \in 1 .. n : sent'[i] = sent[i]
  BY <1>1, <1>2, AppendFacts
<1>4. ~Owed /\ (Owed' <=> IsExecWrite(local'))
  BY <1>1 DEF Owed, InCommand
<1>5. Cardinality(ExecWrites) = Len(applied) /\ Len(applied) \in Nat
  <2>1. Cardinality(ExecWrites) = Len(applied) + 0 /\ Len(applied) \in Nat
    BY <1>1, <1>2, <1>4 DEF PInv, CountInv
  <2> QED
    BY <2>1
<1>6. IsFiniteSet(ExecWrites) /\ n + 1 \notin ExecWrites
  BY <1>2, ExecWritesFacts DEF ExecWrites, IInv
<1>7. ExecWrites' = IF IsExecWrite(local') THEN ExecWrites \cup {n + 1}
                    ELSE ExecWrites
  <2>1. ExecWrites' = {i \in 1 .. n + 1 : IsExecWrite(sent'[i])}
    BY <1>3 DEF ExecWrites
  <2>2. \A i : i \in 1 .. n + 1 <=> i \in 1 .. n \/ i = n + 1
    BY <1>2
  <2>3. \A i \in 1 .. n : IsExecWrite(sent'[i]) <=> IsExecWrite(sent[i])
    BY <1>3
  <2>4. IsExecWrite(sent'[n + 1]) <=> IsExecWrite(local')
    BY <1>3
  <2> HIDE DEF n
  <2> QED
    BY <2>1, <2>2, <2>3, <2>4, Zenon DEF ExecWrites, n
<1>8. Cardinality(ExecWrites') = IF IsExecWrite(local') THEN Len(applied) + 1
                                 ELSE Len(applied)
  BY <1>5, <1>6, <1>7, FS_AddElement
<1>9. Len(applied') = Len(applied) /\ Len(applied) + 0 = Len(applied)
  BY <1>1, <1>5
<1> QED
  BY <1>1, <1>4, <1>8, <1>9 DEF CountInv

(* Every execution write has its result, but for the one still owed. *)
LEMMA CountStep == ASSUME IInv, PInv, Pace, [Next]_vars PROVE CountInv'
<1> USE DEF IInv, TurnInv, STurn, PInv
<1>1. CASE ModeChange
  <2>1. sent' = sent
    BY <1>1 DEF ModeChange, svars
  <2>2. ExecWrites' = ExecWrites
    BY <2>1 DEF ExecWrites
  <2>3. (gop' # "exit" => gop # "exit" /\ (Owed <=> Owed')) /\ applied' = applied
    BY <1>1 DEF ModeChange, svars, HandInv, Owed, InCommand
  <2> QED
    BY <2>2, <2>3 DEF CountInv
<1>2. ASSUME NEW rd \in BOOLEAN, Packet(rd) PROVE CountInv'
  BY <1>2, CountPacket
<1>3. ASSUME NEW d \in 0 .. DQ_CLK - 2, PacketGrfWord(d) PROVE CountInv'
  <2>1. sent' = sent
    BY <1>3 DEF PacketGrfWord, CanIssue, svars
  <2>2. ExecWrites' = ExecWrites
    BY <2>1 DEF ExecWrites
  <2>3. (gop' # "exit" => gop # "exit" /\ (Owed <=> Owed')) /\ applied' = applied
    BY <1>3 DEF PacketGrfWord, CanIssue, svars, HandInv, Owed, InCommand
  <2> QED
    BY <2>2, <2>3 DEF CountInv
<1>4. CASE EndSystemCSim
  <2>1. sent' = sent
    BY <1>4 DEF EndSystemCSim, svars
  <2>2. ExecWrites' = ExecWrites
    BY <2>1 DEF ExecWrites
  <2>3. (gop' # "exit" => gop # "exit" /\ (Owed <=> Owed')) /\ applied' = applied
    BY <1>4 DEF EndSystemCSim, svars, HandInv, Owed, InCommand
  <2> QED
    BY <2>2, <2>3 DEF CountInv
<1>5. CASE WriteEvent
  <2>1. sent' = sent
    BY <1>5 DEF WriteEvent, svars
  <2>2. ExecWrites' = ExecWrites
    BY <2>1 DEF ExecWrites
  <2>3. (gop' # "exit" => gop # "exit" /\ (Owed <=> Owed')) /\ applied' = applied
    BY <1>5 DEF WriteEvent, svars, HandInv, Owed, InCommand
  <2> QED
    BY <2>2, <2>3 DEF CountInv
<1>6. CASE GPost
  <2>1. sent' = sent
    BY <1>6 DEF GPost, svars
  <2>2. ExecWrites' = ExecWrites
    BY <2>1 DEF ExecWrites
  <2>3. (gop' # "exit" => gop # "exit" /\ (Owed <=> Owed')) /\ applied' = applied
    BY <1>6 DEF GPost, svars, HandInv, Owed, InCommand
  <2> QED
    BY <2>2, <2>3 DEF CountInv
<1>7. CASE GWait
  <2>1. sent' = sent
    BY <1>7 DEF GWait, svars
  <2>2. ExecWrites' = ExecWrites
    BY <2>1 DEF ExecWrites
  <2>3. (gop' # "exit" => gop # "exit" /\ (Owed <=> Owed')) /\ applied' = applied
    BY <1>7 DEF GWait, svars, HandInv, Owed, InCommand
  <2> QED
    BY <2>2, <2>3 DEF CountInv
<1>8. CASE AfterCommand
  <2>1. sent' = sent /\ gop = "cmd" /\ gop' = gop /\ gpc = "after" /\ applied' = applied
    BY <1>8 DEF AfterCommand, svars
  <2>2. ExecWrites' = ExecWrites
    BY <2>1 DEF ExecWrites
  <2>3. evTick = None /\ tick \in Nat /\ P \in Nat
    BY <2>1, ParamAssumption DEF SentInv, InCommand, TypeOK
  <2>4. tick + P # None
    BY <2>3 DEF None
  <2>5. Owed <=> Owed'
    BY <1>8, <2>1, <2>3, <2>4 DEF AfterCommand, svars, Owed, InCommand
  <2> QED
    BY <2>1, <2>2, <2>5 DEF CountInv
<1>9. CASE AfterEvent
  <2>1. sent' = sent /\ gop = "event" /\ gop' = gop /\ gpc = "after"
    BY <1>9 DEF AfterEvent, svars
  <2>2. ExecWrites' = ExecWrites
    BY <2>1 DEF ExecWrites
  <2>3. Owed /\ ~Owed'
    BY <1>9, <2>1 DEF AfterEvent, svars, Owed, InCommand, EventInv
  <2>4. Len(applied') = Len(applied) + 1 /\ Len(applied) \in Nat
    BY <1>9 DEF AfterEvent, TypeOK
  <2>5. Cardinality(ExecWrites) = Len(applied) + 1
    BY <2>1, <2>3 DEF CountInv
  <2> QED
    BY <2>1, <2>2, <2>3, <2>4, <2>5 DEF CountInv
<1>10. CASE AfterExit
  <2>1. sent' = sent
    BY <1>10 DEF AfterExit, svars
  <2>2. ExecWrites' = ExecWrites
    BY <2>1 DEF ExecWrites
  <2>3. (gop' # "exit" => gop # "exit" /\ (Owed <=> Owed')) /\ applied' = applied
    BY <1>10 DEF AfterExit, svars, HandInv, Owed, InCommand
  <2> QED
    BY <2>2, <2>3 DEF CountInv
<1>11. CASE STop
  <2>1. sent' = sent
    BY <1>11 DEF STop, gvars
  <2>2. ExecWrites' = ExecWrites
    BY <2>1 DEF ExecWrites
  <2>3. (gop' # "exit" => gop # "exit" /\ (Owed <=> Owed')) /\ applied' = applied
    BY <1>11 DEF STop, gvars, HandInv, Owed, InCommand
  <2> QED
    BY <2>2, <2>3 DEF CountInv
<1>12. CASE SWait
  <2>1. sent' = sent
    BY <1>12 DEF SWait, gvars
  <2>2. ExecWrites' = ExecWrites
    BY <2>1 DEF ExecWrites
  <2>3. (gop' # "exit" => gop # "exit" /\ (Owed <=> Owed')) /\ applied' = applied
    BY <1>12 DEF SWait, gvars, HandInv, Owed, InCommand
  <2> QED
    BY <2>2, <2>3 DEF CountInv
<1>13. CASE SCopy
  <2>1. sent' = sent
    BY <1>13 DEF SCopy, gvars
  <2>2. ExecWrites' = ExecWrites
    BY <2>1 DEF ExecWrites
  <2>3. (gop' # "exit" => gop # "exit" /\ (Owed <=> Owed')) /\ applied' = applied
    BY <1>13 DEF SCopy, gvars, HandInv, Owed, InCommand
  <2> QED
    BY <2>2, <2>3 DEF CountInv
<1>14. CASE SAck
  <2>1. sent' = sent
    BY <1>14 DEF SAck, gvars
  <2>2. ExecWrites' = ExecWrites
    BY <2>1 DEF ExecWrites
  <2>3. (gop' # "exit" => gop # "exit" /\ (Owed <=> Owed')) /\ applied' = applied
    BY <1>14 DEF SAck, gvars, HandInv, Owed, InCommand
  <2> QED
    BY <2>2, <2>3 DEF CountInv
<1>15. CASE SSyncPost
  <2>1. sent' = sent
    BY <1>15 DEF SSyncPost, gvars
  <2>2. ExecWrites' = ExecWrites
    BY <2>1 DEF ExecWrites
  <2>3. (gop' # "exit" => gop # "exit" /\ (Owed <=> Owed')) /\ applied' = applied
    BY <1>15 DEF SSyncPost, gvars, HandInv, Owed, InCommand
  <2> QED
    BY <2>2, <2>3 DEF CountInv
<1>16. CASE SSyncWait
  <2>1. sent' = sent
    BY <1>16 DEF SSyncWait, gvars
  <2>2. ExecWrites' = ExecWrites
    BY <2>1 DEF ExecWrites
  <2>3. (gop' # "exit" => gop # "exit" /\ (Owed <=> Owed')) /\ applied' = applied
    BY <1>16 DEF SSyncWait, gvars, HandInv, Owed, InCommand
  <2> QED
    BY <2>2, <2>3 DEF CountInv
<1>17. CASE SPop
  <2>1. sent' = sent
    BY <1>17 DEF SPop, gvars
  <2>2. ExecWrites' = ExecWrites
    BY <2>1 DEF ExecWrites
  <2>3. (gop' # "exit" => gop # "exit" /\ (Owed <=> Owed')) /\ applied' = applied
    BY <1>17 DEF SPop, gvars, HandInv, Owed, InCommand
  <2> QED
    BY <2>2, <2>3 DEF CountInv
<1>18. CASE SExecute
  <2>1. sent' = sent
    BY <1>18 DEF SExecute, gvars
  <2>2. ExecWrites' = ExecWrites
    BY <2>1 DEF ExecWrites
  <2>3. (gop' # "exit" => gop # "exit" /\ (Owed <=> Owed')) /\ applied' = applied
    BY <1>18 DEF SExecute, gvars, HandInv, Owed, InCommand
  <2> QED
    BY <2>2, <2>3 DEF CountInv
<1>19. CASE SIdle
  <2>1. sent' = sent
    BY <1>19 DEF SIdle, gvars
  <2>2. ExecWrites' = ExecWrites
    BY <2>1 DEF ExecWrites
  <2>3. (gop' # "exit" => gop # "exit" /\ (Owed <=> Owed')) /\ applied' = applied
    BY <1>19 DEF SIdle, gvars, HandInv, Owed, InCommand
  <2> QED
    BY <2>2, <2>3 DEF CountInv
<1>20. CASE SStore
  <2>1. sent' = sent
    BY <1>20 DEF SStore, gvars
  <2>2. ExecWrites' = ExecWrites
    BY <2>1 DEF ExecWrites
  <2>3. (gop' # "exit" => gop # "exit" /\ (Owed <=> Owed')) /\ applied' = applied
    BY <1>20 DEF SStore, gvars, HandInv, Owed, InCommand
  <2> QED
    BY <2>2, <2>3 DEF CountInv
<1>21. CASE SAdvance
  <2>1. sent' = sent
    BY <1>21 DEF SAdvance, gvars
  <2>2. ExecWrites' = ExecWrites
    BY <2>1 DEF ExecWrites
  <2>3. (gop' # "exit" => gop # "exit" /\ (Owed <=> Owed')) /\ applied' = applied
    BY <1>21 DEF SAdvance, gvars, HandInv, Owed, InCommand
  <2> QED
    BY <2>2, <2>3 DEF CountInv
<1>22. CASE SFinish
  <2>1. sent' = sent
    BY <1>22 DEF SFinish, gvars
  <2>2. ExecWrites' = ExecWrites
    BY <2>1 DEF ExecWrites
  <2>3. (gop' # "exit" => gop # "exit" /\ (Owed <=> Owed')) /\ applied' = applied
    BY <1>22 DEF SFinish, gvars, HandInv, Owed, InCommand
  <2> QED
    BY <2>2, <2>3 DEF CountInv
<1>23. CASE Ended
  <2>1. sent' = sent
    BY <1>23 DEF Ended, vars, gvars, svars
  <2>2. ExecWrites' = ExecWrites
    BY <2>1 DEF ExecWrites
  <2>3. (gop' # "exit" => gop # "exit" /\ (Owed <=> Owed')) /\ applied' = applied
    BY <1>23 DEF Ended, vars, gvars, svars, HandInv, Owed, InCommand
  <2> QED
    BY <2>2, <2>3 DEF CountInv
<1>24. CASE UNCHANGED vars
  <2>1. sent' = sent
    BY <1>24 DEF vars, gvars, svars
  <2>2. ExecWrites' = ExecWrites
    BY <2>1 DEF ExecWrites
  <2>3. (gop' # "exit" => gop # "exit" /\ (Owed <=> Owed')) /\ applied' = applied
    BY <1>24 DEF vars, gvars, svars, HandInv, Owed, InCommand
  <2> QED
    BY <2>2, <2>3 DEF CountInv
<1> QED
  BY <1>1, <1>2, <1>3, <1>4, <1>5, <1>6, <1>7, <1>8, <1>9, <1>10, <1>11,
     <1>12, <1>13, <1>14, <1>15, <1>16, <1>17, <1>18, <1>19, <1>20,
     <1>21, <1>22, <1>23, <1>24
  DEF Next, Program, GStep, SStep, Packet

(* A result is handed over only when it accounts for all commands. *)
LEMMA ReadyStep == ASSUME IInv, PInv, Pace, [Next]_vars PROVE ReadyInv'
<1> USE DEF IInv, TurnInv, STurn, PhaseInv, PInv, ReadyInv, ResultReady
<1>1. CASE ModeChange
  BY <1>1 DEF ModeChange, svars
<1>2. ASSUME NEW rd \in BOOLEAN, Packet(rd) PROVE ReadyInv'
  <2>1. gop' = "cmd" /\ waitSemaphore'
    BY <1>2, PacketFacts DEF svars
  <2> QED
    BY <2>1
<1>3. ASSUME NEW d \in 0 .. DQ_CLK - 2, PacketGrfWord(d) PROVE ReadyInv'
  BY <1>3 DEF PacketGrfWord, CanIssue, svars
<1>4. CASE EndSystemCSim
  BY <1>4 DEF EndSystemCSim, svars
<1>5. CASE WriteEvent
  BY <1>5 DEF WriteEvent, svars
<1>6. CASE GPost
  BY <1>6 DEF GPost, svars
<1>7. CASE GWait
  BY <1>7 DEF GWait, svars
<1>8. CASE AfterCommand
  BY <1>8 DEF AfterCommand, svars
<1>9. CASE AfterEvent
  BY <1>9 DEF AfterEvent, svars
<1>10. CASE AfterExit
  BY <1>10 DEF AfterExit, svars
<1>11. CASE STop
  BY <1>11 DEF STop, gvars
<1>12. CASE SWait
  BY <1>12 DEF SWait, gvars
<1>13. CASE SCopy
  BY <1>13 DEF SCopy, gvars
<1>14. CASE SAck
  BY <1>14 DEF SAck, gvars, HandInv
<1>15. CASE SSyncPost
  BY <1>15 DEF SSyncPost, gvars, HandInv
<1>16. CASE SSyncWait
  BY <1>16 DEF SSyncWait, gvars
<1>17. CASE SPop
  BY <1>17 DEF SPop, gvars
<1>18. CASE SExecute
  <2>1. spc' = "advance" => instructionList # <<>>
    BY <1>18 DEF SExecute, OrderInv
  <2> QED
    BY <1>18, <2>1 DEF SExecute, gvars
<1>19. CASE SIdle
  <2>1. ~rcvNewCmd'
    BY <1>19, SIdleWaits
  <2> QED
    BY <1>19, <2>1 DEF SIdle, gvars
<1>20. CASE SStore
  <2>1. /\ spc = "store" /\ ~waitSemaphore /\ shared' = [send EXCEPT !.data = executed]
        /\ UNCHANGED <<executed, sent>>
    BY <1>20 DEF SStore
  <2>2. send \in FileLine /\ executed \in Seq(Nat) /\ instructionList = <<>>
    BY <2>1 DEF TypeOK, ClockInv, QueueInv
  <2>3. ~NotCopied /\ ~InFlight
    BY <2>1 DEF HandInv, NotCopied, InFlight
  <2>4. Len(sent) = Len(executed) + 0 + Len(instructionList)
    BY <2>3 DEF OrderInv, Copied
  <2>5. Len(executed) = Len(sent)
    BY <2>2, <2>4, EmptyLen
  <2>6. send.address.loc = Len(executed) /\ send.nmcMode
    BY <2>1 DEF OrderInv
  <2>7. /\ shared'.data = executed /\ shared'.address = send.address
        /\ shared'.nmcMode = send.nmcMode
    BY <2>1, <2>2 DEF FileLine
  <2> QED
    BY <2>1, <2>5, <2>6, <2>7
<1>21. CASE SAdvance
  BY <1>21 DEF SAdvance, gvars
<1>22. CASE SFinish
  BY <1>22 DEF SFinish, gvars, HandInv
<1>23. CASE Ended
  BY <1>23 DEF Ended, vars, gvars, svars
<1>24. CASE UNCHANGED vars
  BY <1>24 DEF vars, gvars, svars
<1> QED
  BY <1>1, <1>2, <1>3, <1>4, <1>5, <1>6, <1>7, <1>8, <1>9, <1>10, <1>11,
     <1>12, <1>13, <1>14, <1>15, <1>16, <1>17, <1>18, <1>19, <1>20,
     <1>21, <1>22, <1>23, <1>24
  DEF Next, Program, GStep, SStep, Packet

-----------------------------------------------------------------------------
(* The invariant holds when the simulation starts. *)
LEMMA PacedInit == ASSUME Init, Pace PROVE PInv
<1>1. HandInv
  BY DEF Init, HandInv, Receiving
<1>2. SentInv
  BY ParamAssumption DEF Init, SentInv, InCommand, NotCopied
<1>3. /\ ~InFlight /\ ~NotCopied /\ Len(sent) = 0 /\ Len(executed) = 0
      /\ Len(instructionList) = 0 /\ Copied = 0
  BY DEF Init, InFlight, NotCopied, Copied
<1>4. OrderInv
  <2>1. executed = [i \in 1 .. Len(executed) |-> i]
    BY <1>3 DEF Init
  <2> QED
    BY <1>3, <2>1 DEF Init, OrderInv
<1>5. CycleInv
  <2>1. LastCycle = 0 /\ CycleOf(mostRecentTick, tickOffset) = 0
    BY ParamAssumption DEF Init, LastCycle, CycleOf
  <2>2. ~IsGrfWrite(send) /\ instructionList = <<>> /\ curCycle = readCycle + 1
    BY DEF Init, InitLine, IsGrfWrite
  <2> QED
    BY <1>3, <2>1, <2>2 DEF Init, CycleInv
<1>6. DQInv
  BY DEF Init, DQInv
<1>7. CountInv
  <2>1. ExecWrites = {}
    BY <1>3 DEF ExecWrites
  <2>2. ~Owed /\ Len(applied) = 0
    BY DEF Init, Owed, InCommand
  <2> QED
    BY <2>1, <2>2, FS_EmptySet DEF CountInv
<1>8. ReadyInv
  BY DEF Init, ReadyInv, ResultReady
<1> QED
  BY <1>1, <1>2, <1>4, <1>5, <1>6, <1>7, <1>8 DEF PInv

(* The inductive invariant of the paced co-simulation: what each process   *)
(* holds, where every command issued is, and in which device cycle.        *)
THEOREM PacedInvariant ==
    ASSUME Pace PROVE Spec => [](IInv /\ PInv)
<1>1. Init => PInv
  BY PacedInit
<1>2. IInv /\ PInv /\ [Next]_vars => PInv'
  BY HandStep, SentStep, OrderStep, CycleStep, DQStep, CountStep, ReadyStep
  DEF PInv
<1> QED
  BY <1>1, <1>2, InductiveInvariant, PTL DEF Spec

(* gem5's event queue never aborts because advanceOneCycle_event is        *)
(* scheduled twice (nmccores.cc, packetInfo).                              *)
THEOREM EventScheduledOnce ==
    ASSUME Pace PROVE Spec => []EventNotRescheduled
<1>1. PInv => EventNotRescheduled
  BY DEF PInv, HandInv, EventNotRescheduled
<1> QED
  BY <1>1, PacedInvariant, PTL

(* The device executes the commands gem5 issued, each once, in the order   *)
(* of issue (the driver's test for a new command, its queue and the cycle  *)
(* each command is given).                                                 *)
THEOREM CommandsInOrder ==
    ASSUME Pace PROVE Spec => []ExecutedInOrder
<1>1. IInv /\ PInv => ExecutedInOrder
  <2> SUFFICES ASSUME IInv, PInv PROVE ExecutedInOrder
    OBVIOUS
  <2>1. Len(sent) \in Nat /\ Len(executed) \in Nat /\ Len(instructionList) \in Nat
    BY DEF IInv, TypeOK
  <2>2. executed = [i \in 1 .. Len(executed) |-> i]
    BY DEF PInv, OrderInv
  <2>3. /\ Copied = Len(executed) + (IF InFlight THEN 1 ELSE 0) + Len(instructionList)
        /\ Copied = Len(sent) \/ Copied = Len(sent) - 1
    BY DEF PInv, OrderInv, Copied
  <2>4. Len(executed) <= Len(sent)
    BY <2>1, <2>3
  <2> QED
    BY <2>2, <2>4 DEF ExecutedInOrder
<1> QED
  BY <1>1, PacedInvariant, PTL

(* The driver's assertion that a register write does not overlap the next  *)
(* command never fails.                                                    *)
THEOREM DQNeverOverlaps ==
    ASSUME Pace PROVE Spec => []NoDQOverlap
<1>1. IInv /\ PInv => NoDQOverlap
  BY DQFree DEF PInv, NoDQOverlap
<1> QED
  BY <1>1, PacedInvariant, PTL

(* Queued commands lie in strictly increasing device cycles, all still to  *)
(* come, across every move of the tick offset.                             *)
THEOREM QueueStaysAhead ==
    ASSUME Pace PROVE Spec => []QueueAhead
<1>1. IInv /\ PInv => QueueAhead
  <2> SUFFICES ASSUME IInv, PInv, ~localLastCmd,
                      NEW i \in 1 .. Len(instructionList)
               PROVE  LET c == instructionList[i].simCycle
                      IN  /\ c > readCycle /\ c >= curCycle
                          /\ i > 1 => c > instructionList[i - 1].simCycle
    BY DEF QueueAhead
  <2> DEFINE q == instructionList
  <2>1. /\ q \in Seq(FileLine) /\ Len(q) \in Nat /\ q[i] \in FileLine
        /\ readCycle \in Nat /\ (i > 1 => q[i - 1] \in FileLine)
    BY DEF IInv, TypeOK
  <2>2. /\ q[i].simCycle >= curCycle
        /\ q[i].simCycle >= readCycle + Room(send)
        /\ \A j \in 1 .. i - 1 : q[i].simCycle >= q[j].simCycle + Room(q[j])
    BY DEF PInv, CycleInv
  <2>3. /\ Room(send) \in Nat \ {0} /\ q[i].simCycle \in Nat
        /\ i > 1 => q[i - 1].simCycle \in Nat /\ Room(q[i - 1]) \in Nat \ {0}
    <3>1. \A c : Room(c) \in Nat \ {0}
      BY ParamAssumption DEF Room
    <3>2. \A c \in FileLine : c.simCycle \in Nat
      BY DEF FileLine
    <3> QED
      BY <2>1, <3>1, <3>2
  <2>4. i > 1 => q[i].simCycle >= q[i - 1].simCycle + Room(q[i - 1])
    <3>1. i > 1 => i - 1 \in 1 .. i - 1
      BY <2>1
    <3> QED
      BY <3>1, <2>2
  <2> QED
    BY <2>1, <2>2, <2>3, <2>4
<1> QED
  BY <1>1, PacedInvariant, PTL

-----------------------------------------------------------------------------
(* The refinement: the commands issued and the results applied.            *)

Issued == [i \in 1 .. Len(sent) |-> AsIssued(sent[i])]

(* Appending to a sequence given by its elements. *)
LEMMA AppendIsFunction ==
    ASSUME NEW S, NEW s \in Seq(S), NEW x \in S
    PROVE  Append(s, x) = [i \in 1 .. Len(s) + 1 |->
                              IF i = Len(s) + 1 THEN x ELSE s[i]]
<1> DEFINE t == [i \in 1 .. Len(s) + 1 |-> IF i = Len(s) + 1 THEN x ELSE s[i]]
<1>1. Len(s) \in Nat /\ \A i \in 1 .. Len(s) : s[i] \in S
  OBVIOUS
<1>2. t \in Seq(S) /\ Len(t) = Len(s) + 1
  BY <1>1
<1>3. /\ Append(s, x) \in Seq(S) /\ Len(Append(s, x)) = Len(s) + 1
      /\ Append(s, x)[Len(s) + 1] = x
      /\ \A i \in 1 .. Len(s) : Append(s, x)[i] = s[i]
  BY AppendFacts
<1>4. ASSUME NEW i \in 1 .. Len(s) + 1 PROVE Append(s, x)[i] = t[i]
  BY <1>1, <1>3
<1> HIDE DEF t
<1>5. Append(s, x) = t
  BY <1>2, <1>3, <1>4, SeqEqual
<1> QED
  BY <1>5 DEF t

(* The writes of the offload specification are the execution writes. *)
LEMMA OffloadWrites ==
    ASSUME TypeOK
    PROVE  Offload!Writes = ExecWrites /\ Len(Issued) = Len(sent)
<1>1. Len(sent) \in Nat
  BY DEF TypeOK
<1>2. Len(Issued) = Len(sent)
  BY <1>1 DEF Issued
<1>3. \A i \in 1 .. Len(sent) : Issued[i].write <=> IsExecWrite(sent[i])
  BY DEF Issued, AsIssued
<1>4. Offload!Writes = {i \in 1 .. Len(Issued) : Issued[i].write}
  BY DEF Offload!Writes, Issued
<1> QED
  BY <1>1, <1>2, <1>3, <1>4 DEF ExecWrites

(* A result is outstanding exactly when one is owed. *)
LEMMA OffloadOutstanding ==
    ASSUME IInv, PInv, gop # "exit"
    PROVE  Offload!Outstanding <=> Owed
<1>1. Len(applied) \in Nat
  BY DEF IInv, TypeOK
<1>2. Offload!Outstanding <=> Len(applied) < Cardinality(ExecWrites)
  <2>1. Offload!Cardinality(ExecWrites) = Cardinality(ExecWrites)
    BY Zenon DEF Offload!Cardinality, Cardinality
  <2> QED
    BY <2>1, OffloadWrites DEF Offload!Outstanding, IInv
<1> QED
  BY <1>1, <1>2 DEF PInv, CountInv

(* A command of gem5 is a command of the offload specification: no result  *)
(* is outstanding, and an execution read sees all results so far.          *)
LEMMA PacketIsCommand ==
    ASSUME IInv, PInv, Pace, NEW rd \in BOOLEAN, Packet(rd)
    PROVE  Offload!Command
<1> DEFINE n == Len(sent)
           x == AsIssued(local')
<1>1. /\ sent' = Append(sent, local') /\ local' \in FileLine
      /\ gpc = "idle" /\ gop # "exit" /\ evTick = None /\ applied' = applied
      /\ local'.address.region = "exec" /\ local'.RDcmd
           => local'.data = <<Len(applied)>>
  BY PacketFacts
<1>2. sent \in Seq(FileLine) /\ n \in Nat
  BY DEF IInv, TypeOK
<1>3. /\ Len(sent') = n + 1 /\ sent'[n + 1] = local'
      /\ \A i \in 1 .. n : sent'[i] = sent[i]
  BY <1>1, <1>2, AppendFacts
<1>4. ~Offload!Outstanding
  BY <1>1, OffloadOutstanding DEF Owed, InCommand
<1>5. Issued' = Append(Issued, x)
  <2> DEFINE S == {Issued[i] : i \in 1 .. n} \cup {x}
  <2>1. Issued \in Seq(S) /\ x \in S /\ Len(Issued) = n
    BY <1>2 DEF Issued
  <2>2. Append(Issued, x) = [i \in 1 .. n + 1 |->
                                IF i = n + 1 THEN x ELSE Issued[i]]
    BY <2>1, AppendIsFunction
  <2>3. Issued' = [i \in 1 .. n + 1 |-> AsIssued(sent'[i])]
    BY <1>3 DEF Issued
  <2>4. ASSUME NEW i \in 1 .. n + 1
        PROVE  AsIssued(sent'[i]) = IF i = n + 1 THEN x ELSE Issued[i]
    <3>1. CASE i = n + 1
      BY <3>1, <1>3
    <3>2. CASE i \in 1 .. n
      BY <3>2, <1>2, <1>3 DEF Issued
    <3> QED
      BY <3>1, <3>2, <1>2
  <2> HIDE DEF x, n
  <2> QED
    BY <2>2, <2>3, <2>4
<1>6. /\ x = [write |-> x.write, seen |-> x.seen] /\ x.write \in BOOLEAN
      /\ x.seen \in {-1, Len(applied)} /\ (x.write => x.seen = -1)
  <2>1. CASE local'.address.region = "exec" /\ local'.RDcmd
    <3>1. x.seen = Len(applied) /\ ~IsExecWrite(local')
      BY <1>1, <2>1 DEF AsIssued, IsExecWrite
    <3> QED
      BY <3>1 DEF AsIssued, IsExecWrite
  <2>2. CASE ~(local'.address.region = "exec" /\ local'.RDcmd)
    BY <2>2 DEF AsIssued, IsExecWrite, None
  <2> QED
    BY <2>1, <2>2
<1> HIDE DEF x
<1> QED
  BY <1>1, <1>4, <1>5, <1>6 DEF Offload!Command, Issued

(* The write-back of the event is the return of the result: it carries     *)
(* the effect of exactly the commands issued so far.                       *)
LEMMA EventIsReturn ==
    ASSUME IInv, PInv, AfterEvent
    PROVE  Offload!Return
<1>1. /\ gop = "event" /\ gpc = "after" /\ sent' = sent
      /\ applied' = Append(applied, [loc  |-> shared.address.loc,
                                     data |-> shared.data])
  BY DEF AfterEvent
<1>2. Offload!Outstanding
  BY <1>1, OffloadOutstanding DEF Owed
<1>3. /\ shared.address.loc = Len(sent) /\ shared.data = executed
      /\ Len(executed) = Len(sent) /\ executed = [i \in 1 .. Len(executed) |-> i]
  BY <1>1 DEF PInv, ReadyInv, ResultReady, OrderInv
<1>4. Len(Issued) = Len(sent)
  BY OffloadWrites DEF IInv
<1>5. applied' = Append(applied, [loc  |-> Len(Issued),
                                  data |-> [i \in 1 .. Len(Issued) |-> i]])
  BY <1>1, <1>3, <1>4
<1>6. Issued' = Issued
  BY <1>1 DEF Issued
<1> QED
  BY <1>2, <1>5, <1>6 DEF Offload!Return, Issued

(* Every step of the pair of processes is a step of the offload            *)
(* specification or leaves its state alone.                                *)
LEMMA OffloadStep ==
    ASSUME IInv, PInv, Pace, [Next]_vars
    PROVE  [Offload!Next]_(Offload!vars)
<1>1. ASSUME NEW rd \in BOOLEAN, Packet(rd) PROVE Offload!Next
  BY <1>1, PacketIsCommand DEF Offload!Next
<1>2. CASE AfterEvent
  BY <1>2, EventIsReturn DEF Offload!Next
<1>3. ASSUME UNCHANGED <<sent, applied>> PROVE UNCHANGED Offload!vars
  BY <1>3 DEF Offload!vars
<1>4. CASE \/ ModeChange \/ \E d \in 0 .. DQ_CLK - 2 : PacketGrfWord(d)
           \/ EndSystemCSim \/ WriteEvent \/ GPost \/ GWait \/ AfterCommand
           \/ AfterExit \/ SStep \/ Ended \/ UNCHANGED vars
  <2>1. UNCHANGED <<sent, applied>>
    <3>1. CASE SStep
      BY <3>1 DEF SStep, STop, SWait, SCopy, SAck, SSyncPost, SSyncWait, SPop,
                  SExecute, SIdle, SStore, SAdvance, SFinish
    <3>2. CASE ~SStep
      BY <1>4, <3>2 DEF ModeChange, PacketGrfWord, EndSystemCSim, WriteEvent,
                        GPost, GWait, AfterCommand, AfterExit, Ended, vars
    <3> QED
      BY <3>1, <3>2
  <2> QED
    BY <2>1, <1>3
<1> QED
  BY <1>1, <1>2, <1>4 DEF Next, Program, GStep, Packet

(* The co-simulation implements NMCOffload: results come back in order,    *)
(* before the next command is issued, and each accounts for exactly the    *)
(* commands issued up to its execution write.                              *)
THEOREM OffloadRefinement ==
    ASSUME Pace PROVE Spec => ImplementsOffload
<1>1. Init => Offload!Init
  BY DEF Init, Offload!Init
<1>2. IInv /\ PInv /\ [Next]_vars => [Offload!Next]_(Offload!vars)
  BY OffloadStep
<1> QED
  BY <1>1, <1>2, PacedInvariant, PTL DEF Spec, ImplementsOffload, Offload!Spec
=============================================================================
