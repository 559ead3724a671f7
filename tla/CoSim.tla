------------------------------- MODULE CoSim -------------------------------
(***************************************************************************)
(* The co-simulation of gem5 and the SystemC model of the near-memory      *)
(* cores: NMCcores (gem5-x-nmc/src/mem/nmccores.cc) runs inside gem5,      *)
(* cnm_driver::driver_thread (ANEMOS/src/tb/cnm_driver_gem5.cpp) runs in   *)
(* the child process.  They share one FileLine, the byte lastCmd and two   *)
(* named semaphores, both created with value 0.                            *)
(*                                                                         *)
(* gem5 passes every memory-mode change, register-file access and          *)
(* execution access of channel 0 (NUM_SIM_CHANNEL = 1).  The child only    *)
(* queues commands; it simulates them when an execution WRITE arrives,     *)
(* because only then does gem5 need data back.  The write itself is        *)
(* acknowledged at once, and one device cycle later the event              *)
(* advanceOneCycle_event posts semaphore 1 again ("go") and collects.      *)
(*                                                                         *)
(* Every access between two semaphore calls of a process is one action.    *)
(***************************************************************************)
EXTENDS Integers, Sequences, FiniteSets

CONSTANTS
    P,            \* CLK_PERIOD, in ticks
    THRESHOLD,    \* TICK_THRESHOLD
    BACKUP,       \* TICK_BACKUP
    DQ_CLK,       \* words of a general register (one per cycle on DQ)
    DRAIN,        \* 3 + MULT_STAGES + ADD_STAGES cycles granted at the end
    StartTick,    \* tick at which the program starts to use the device
    Gaps,         \* distances between the ticks of successive commands
    CmdGap,       \* environment: least distance after RF writes and reads,
    GrfGap,       \*   after a write of a general register,
    WrGap,        \*   and after an execution write
    MaxCmds       \* bound: commands issued

ASSUME ParamAssumption ==
    /\ P \in Nat \ {0} /\ DQ_CLK \in Nat \ {0} /\ DRAIN \in Nat
    /\ THRESHOLD \in Nat /\ BACKUP \in Nat /\ BACKUP <= THRESHOLD
    /\ StartTick \in Nat /\ Gaps \subseteq Nat
    /\ CmdGap \in Nat /\ GrfGap \in Nat /\ WrGap \in Nat
    /\ MaxCmds \in Nat

VARIABLES
    \* gem5: NMCcores
    gpc,              \* where the gem5 thread is
    gop,              \* why it synchronises: a command, the event, the exit
    tick,             \* curTick()
    nmcMode,          \* nmcMode[0]
    local,            \* localCnmInfo[0]
    temp,             \* temp[0]: the words of the register being written
    evTick,           \* when advanceOneCycle_event is scheduled, or None
    channelCnmWrite,  \* channels with a write-back outstanding
    \* shared between the two processes
    shared,           \* sharedCnmInfo[0]
    sharedLastCmd,    \* *sharedLastCmd
    sem1, sem2,       \* semaphore values
    \* SystemC: driver_thread
    spc,              \* where the driver thread is
    rcvNewCmd, waitSemaphore, writeSync,
    curCycle, readCycle, tickOffset, mostRecentTick,
    instructionList,  \* commands queued for simulation
    send,             \* sendCnmInfo[0], the command being simulated
    localPimMode, localLastCmd,
    DQCycle,          \* next word of a register write on DQ, 0 when none
    bankWrite,        \* the device drives the bank buses this cycle
    \* history
    sent,             \* commands gem5 put into the shared memory
    executed,         \* numbers of the commands driven into the device
    applied           \* write-backs copied into gem5's memory

gvars == <<gpc, gop, tick, nmcMode, local, temp, evTick, channelCnmWrite>>
svars == <<spc, rcvNewCmd, waitSemaphore, writeSync, curCycle, readCycle,
           tickOffset, mostRecentTick, instructionList, send,
           localPimMode, localLastCmd, DQCycle, bankWrite>>
vars == <<gvars, shared, sharedLastCmd, sem1, sem2, svars,
          sent, executed, applied>>

-----------------------------------------------------------------------------
(* Data. An address is abstracted to its region and the number of the      *)
(* command that uses it; data is a sequence of numbers.                    *)

None == -1

Regions == {"reg", "grf", "exec"}     \* CRF/SRF, GRF, execution rows

Address == [region : Regions, loc : Nat]

FileLine == [address : Address, data : Seq(Nat), issuedTick : Nat,
             simCycle : Nat, nmcMode : BOOLEAN, RDcmd : BOOLEAN]

InitLine == [address |-> [region |-> "reg", loc |-> 0], data |-> <<>>,
             issuedTick |-> 0, simCycle |-> 0, nmcMode |-> FALSE,
             RDcmd |-> TRUE]

IsExecWrite(c) == c.address.region = "exec" /\ ~c.RDcmd

IsGrfWrite(c) == c.address.region = "grf" /\ ~c.RDcmd

(* What the environment keeps between two commands. The driver's "assuming *)
(* gem5 can only synch once per cycle" (the write-back event is a sync as  *)
(* well) and "A write to a GRF shouldn't overlap with next command".       *)
GapAfter(c) == IF IsExecWrite(c) THEN WrGap
               ELSE IF c.address.region = "grf" THEN GrfGap ELSE CmdGap

Paced == CmdGap >= P /\ GrfGap >= DQ_CLK * P /\ WrGap >= 2 * P

-----------------------------------------------------------------------------
Init ==
    /\ gpc = "idle" /\ gop = "cmd" /\ tick = StartTick /\ nmcMode = FALSE
    /\ local = InitLine /\ temp = [d \in 0 .. DQ_CLK - 1 |-> 0]
    /\ evTick = None /\ channelCnmWrite = <<>>
    /\ shared = InitLine /\ sharedLastCmd = FALSE /\ sem1 = 0 /\ sem2 = 0
    /\ spc = "top" /\ rcvNewCmd = TRUE /\ waitSemaphore = TRUE
    /\ writeSync = FALSE /\ curCycle = 1 /\ readCycle = 0
    /\ tickOffset = 0 /\ mostRecentTick = 0 /\ instructionList = <<>>
    /\ send = InitLine
    /\ localPimMode = FALSE /\ localLastCmd = FALSE
    /\ DQCycle = 0 /\ bankWrite = FALSE
    /\ sent = <<>> /\ executed = <<>> /\ applied = <<>>

-----------------------------------------------------------------------------
(* gem5.                                                                   *)

(* packetInfo on a mode-change address: no semaphore is taken.             *)
ModeChange ==
    /\ gpc = "idle"
    /\ nmcMode' = ~nmcMode
    /\ shared' = [shared EXCEPT !.nmcMode = ~nmcMode]
    /\ local' = [local EXCEPT !.nmcMode = ~nmcMode]
    /\ UNCHANGED <<gpc, gop, tick, temp, evTick, channelCnmWrite,
                   sharedLastCmd, sem1, sem2, svars, sent, executed, applied>>

(* The ticks at which the next command may be issued. gem5 never runs past *)
(* a scheduled event.                                                      *)
NextTicks ==
    {t \in {tick + g : g \in Gaps} :
        /\ evTick # None => t <= evTick
        /\ sent # <<>> =>
              LET c == sent[Len(sent)] IN t >= c.issuedTick + GapAfter(c)}

(* The common end of the three branches of packetInfo that reach the       *)
(* child: fill localCnmInfo, copy it to the shared memory, then post.      *)
Issue(region, rd, data, t) ==
    LET line == [address |-> [region |-> region, loc |-> Len(sent) + 1],
                 data |-> data, issuedTick |-> t, simCycle |-> 0,
                 nmcMode |-> local.nmcMode, RDcmd |-> rd]
    IN  /\ local' = line /\ shared' = line
        /\ tick' = t /\ gpc' = "post" /\ gop' = "cmd"
        /\ sent' = Append(sent, line)

CanIssue == gpc = "idle" /\ nmcMode /\ Len(sent) < MaxCmds

(* CRF and SRF: one word. *)
PacketReg(rd) ==
    /\ CanIssue
    /\ \E t \in NextTicks : Issue("reg", rd, <<Len(sent) + 1>>, t)
    /\ UNCHANGED <<nmcMode, temp, evTick, channelCnmWrite, sharedLastCmd,
                   sem1, sem2, svars, executed, applied>>

(* A word of a general register that is not its last is only kept. The     *)
(* program writes the words of a register in order.                        *)
PacketGrfWord(d) ==
    /\ CanIssue
    /\ d > 0 => temp[d - 1] = Len(sent) + 1
    /\ temp[d] # Len(sent) + 1
    /\ temp' = [temp EXCEPT ![d] = Len(sent) + 1]
    /\ UNCHANGED <<gpc, gop, tick, nmcMode, local, evTick, channelCnmWrite,
                   shared, sharedLastCmd, sem1, sem2, svars,
                   sent, executed, applied>>

(* The last word sends the whole register. *)
PacketGrfLast(rd) ==
    LET words == [temp EXCEPT ![DQ_CLK - 1] = Len(sent) + 1]
    IN  /\ CanIssue
        /\ DQ_CLK > 1 => temp[DQ_CLK - 2] = Len(sent) + 1
        /\ temp' = words
        /\ \E t \in NextTicks :
              Issue("grf", rd, [i \in 1 .. DQ_CLK |-> words[i - 1]], t)
        /\ UNCHANGED <<nmcMode, evTick, channelCnmWrite, sharedLastCmd,
                       sem1, sem2, svars, executed, applied>>

(* An execution read gathers the addressed column of all even or all odd   *)
(* banks from gem5's memory, whose version is the number of write-backs    *)
(* it holds. A write leaves dataArray as it is.                            *)
PacketExec(rd) ==
    /\ CanIssue
    /\ \E t \in NextTicks :
          Issue("exec", rd, IF rd THEN <<Len(applied)>> ELSE local.data, t)
    /\ UNCHANGED <<nmcMode, temp, evTick, channelCnmWrite, sharedLastCmd,
                   sem1, sem2, svars, executed, applied>>

(* The event queue calls rcvCnmWriteData. *)
WriteEvent ==
    /\ gpc = "idle" /\ evTick # None
    /\ tick' = evTick /\ evTick' = None
    /\ gpc' = "post" /\ gop' = "event"
    /\ UNCHANGED <<nmcMode, local, temp, channelCnmWrite, shared,
                   sharedLastCmd, sem1, sem2, svars, sent, executed, applied>>

(* Mutant: the exit callback does not raise the last-command flag. *)
EndSystemCSimNoFlag ==
    /\ gpc = "idle"
    /\ gpc' = "post" /\ gop' = "exit"
    /\ UNCHANGED <<tick, nmcMode, local, temp, evTick, channelCnmWrite,
                   shared, sharedLastCmd, sem1, sem2, svars,
                   sent, executed, applied>>

(* The exit callback: endSystemCSim. *)
EndSystemCSim ==
    /\ gpc = "idle"
    /\ sharedLastCmd' = TRUE
    /\ gpc' = "post" /\ gop' = "exit"
    /\ UNCHANGED <<tick, nmcMode, local, temp, evTick, channelCnmWrite,
                   shared, sem1, sem2, svars, sent, executed, applied>>

(* sem_post(semaphore1) *)
GPost ==
    /\ gpc = "post" /\ gpc' = "wait" /\ sem1' = sem1 + 1
    /\ UNCHANGED <<gop, tick, nmcMode, local, temp, evTick, channelCnmWrite,
                   shared, sharedLastCmd, sem2, svars,
                   sent, executed, applied>>

(* sem_wait(semaphore2) *)
GWait ==
    /\ gpc = "wait" /\ sem2 > 0 /\ gpc' = "after" /\ sem2' = sem2 - 1
    /\ UNCHANGED <<gop, tick, nmcMode, local, temp, evTick, channelCnmWrite,
                   shared, sharedLastCmd, sem1, svars,
                   sent, executed, applied>>

(* Mutants of AfterCommand: the event comes three cycles later; the event  *)
(* is not scheduled.                                                       *)
AfterCommandLate ==
    /\ gpc = "after" /\ gop = "cmd"
    /\ IF IsExecWrite(local)
       THEN /\ gpc' = IF evTick = None THEN "idle" ELSE "aborted"
            /\ evTick' = IF evTick = None THEN tick + 3 * P ELSE evTick
            /\ channelCnmWrite' = Append(channelCnmWrite, 0)
       ELSE gpc' = "idle" /\ UNCHANGED <<evTick, channelCnmWrite>>
    /\ UNCHANGED <<gop, tick, nmcMode, local, temp, shared, sharedLastCmd,
                   sem1, sem2, svars, sent, executed, applied>>

AfterCommandNoEvent ==
    /\ gpc = "after" /\ gop = "cmd" /\ gpc' = "idle"
    /\ channelCnmWrite' = IF IsExecWrite(local)
                          THEN Append(channelCnmWrite, 0) ELSE channelCnmWrite
    /\ UNCHANGED <<gop, tick, nmcMode, local, temp, evTick, shared,
                   sharedLastCmd, sem1, sem2, svars, sent, executed, applied>>

(* After a command: an execution write schedules the event one device      *)
(* cycle ahead. EventManager::schedule asserts that it is not scheduled.   *)
AfterCommand ==
    /\ gpc = "after" /\ gop = "cmd"
    /\ \/ /\ ~IsExecWrite(local)
          /\ gpc' = "idle" /\ UNCHANGED <<evTick, channelCnmWrite>>
       \/ /\ IsExecWrite(local) /\ evTick = None
          /\ gpc' = "idle" /\ evTick' = tick + P
          /\ channelCnmWrite' = Append(channelCnmWrite, 0)
       \/ /\ IsExecWrite(local) /\ evTick # None
          /\ gpc' = "aborted"
          /\ channelCnmWrite' = Append(channelCnmWrite, 0)
          /\ UNCHANGED evTick
    /\ UNCHANGED <<gop, tick, nmcMode, local, temp, shared, sharedLastCmd,
                   sem1, sem2, svars, sent, executed, applied>>

(* After the event: copy the result, reset RDcmd, write all banks. *)
AfterEvent ==
    /\ gpc = "after" /\ gop = "event"
    /\ channelCnmWrite' = Tail(channelCnmWrite)
    /\ local' = shared
    /\ shared' = [shared EXCEPT !.RDcmd = TRUE]
    /\ applied' = Append(applied, [loc  |-> shared.address.loc,
                                   data |-> shared.data])
    /\ gpc' = "idle"
    /\ UNCHANGED <<gop, tick, nmcMode, temp, evTick, sharedLastCmd,
                   sem1, sem2, svars, sent, executed>>

(* After the exit handshake gem5 unlinks everything and terminates. *)
AfterExit ==
    /\ gpc = "after" /\ gop = "exit"
    /\ gpc' = "ended"
    /\ UNCHANGED <<gop, tick, nmcMode, local, temp, evTick, channelCnmWrite,
                   shared, sharedLastCmd, sem1, sem2, svars,
                   sent, executed, applied>>

GStep == GPost \/ GWait \/ AfterCommand \/ AfterEvent \/ AfterExit

-----------------------------------------------------------------------------
(* The driver thread.                                                      *)

(* Start of an iteration: default signals, next word on DQ, then either    *)
(* wait for gem5, take the next queued command, or let a cycle pass.       *)
STop ==
    /\ spc = "top"
    /\ DQCycle' = IF DQCycle # 0 THEN DQCycle + 1 ELSE 0
    /\ rcvNewCmd' = FALSE
    /\ spc' = IF ~rcvNewCmd THEN "exec"
              ELSE IF waitSemaphore THEN "wait"
              ELSE IF writeSync THEN "pop" ELSE "ack"
    /\ UNCHANGED <<waitSemaphore, writeSync, curCycle, readCycle, tickOffset,
                   mostRecentTick, instructionList, send, localPimMode,
                   localLastCmd, bankWrite, gvars, shared, sharedLastCmd,
                   sem1, sem2, sent, executed, applied>>

(* sem_wait(semaphore1) for a command *)
SWait ==
    /\ spc = "wait" /\ sem1 > 0 /\ sem1' = sem1 - 1 /\ spc' = "copy"
    /\ UNCHANGED <<rcvNewCmd, waitSemaphore, writeSync, curCycle, readCycle,
                   tickOffset, mostRecentTick, instructionList, send,
                   localPimMode, localLastCmd, DQCycle, bankWrite, gvars,
                   shared, sharedLastCmd, sem2, sent, executed, applied>>

CycleOf(issuedTick, offset) == (issuedTick - offset) \div P

(* Mutant: the test is off by one cycle. *)
IsNewTooLate(c) ==
    /\ c.nmcMode
    /\ CycleOf(c.issuedTick, tickOffset) > curCycle + 1
    /\ instructionList # <<>> =>
          c.issuedTick # instructionList[Len(instructionList)].issuedTick

(* A command is queued when it is for the device, lies in a later cycle    *)
(* and is not the one queued last.                                         *)
IsNew(c) ==
    /\ c.nmcMode
    /\ CycleOf(c.issuedTick, tickOffset) > curCycle
    /\ instructionList # <<>> =>
          c.issuedTick # instructionList[Len(instructionList)].issuedTick

(* Mutants of OffsetFor: the most recent tick is not subtracted; no room   *)
(* is left before the command.                                             *)
OffsetForAbsolute(c) ==
    IF c.issuedTick > mostRecentTick + THRESHOLD
    THEN tickOffset + (c.issuedTick - BACKUP)
    ELSE tickOffset

OffsetForNoBackup(c) ==
    IF c.issuedTick > mostRecentTick + THRESHOLD
    THEN tickOffset + (c.issuedTick - mostRecentTick)
    ELSE tickOffset

(* A jump of more than TICK_THRESHOLD ticks is shortened to TICK_BACKUP.   *)
OffsetFor(c) ==
    IF c.issuedTick > mostRecentTick + THRESHOLD
    THEN tickOffset + (c.issuedTick - mostRecentTick - BACKUP)
    ELSE tickOffset

Queue(c) ==
    LET line == [c EXCEPT !.simCycle = CycleOf(c.issuedTick, OffsetFor(c))]
    IN  /\ tickOffset' = OffsetFor(c)
        /\ mostRecentTick' = c.issuedTick
        /\ instructionList' = Append(instructionList, line)

(* copySharedMem and what follows it up to the next semaphore call.        *)
SCopy ==
    /\ spc = "copy"
    /\ localLastCmd' = sharedLastCmd
    /\ writeSync' = IsExecWrite(shared)
    /\ \/ /\ sharedLastCmd
          /\ readCycle' = readCycle + DRAIN
          /\ spc' = "exec"
          /\ UNCHANGED <<tickOffset, mostRecentTick, instructionList,
                         localPimMode>>
       \/ /\ ~sharedLastCmd
          /\ IF IsNew(shared) THEN Queue(shared)
             ELSE UNCHANGED <<tickOffset, mostRecentTick, instructionList>>
          /\ localPimMode' = shared.nmcMode
          /\ spc' = IF writeSync' THEN "syncpost" ELSE "ack"
          /\ UNCHANGED readCycle
    /\ UNCHANGED <<rcvNewCmd, waitSemaphore, curCycle, send, DQCycle,
                   bankWrite, gvars, shared, sharedLastCmd, sem1, sem2,
                   sent, executed, applied>>

(* sem_post(semaphore2) and continue: a read or a register-file write.     *)
SAck ==
    /\ spc = "ack" /\ sem2' = sem2 + 1
    /\ rcvNewCmd' = TRUE /\ spc' = "top"
    /\ UNCHANGED <<waitSemaphore, writeSync, curCycle, readCycle, tickOffset,
                   mostRecentTick, instructionList, send, localPimMode,
                   localLastCmd, DQCycle, bankWrite, gvars, shared,
                   sharedLastCmd, sem1, sent, executed, applied>>

(* sem_post(semaphore2) for an execution write, before the go. *)
SSyncPost ==
    /\ spc = "syncpost" /\ sem2' = sem2 + 1 /\ spc' = "syncwait"
    /\ UNCHANGED <<rcvNewCmd, waitSemaphore, writeSync, curCycle, readCycle,
                   tickOffset, mostRecentTick, instructionList, send,
                   localPimMode, localLastCmd, DQCycle, bankWrite, gvars,
                   shared, sharedLastCmd, sem1, sent, executed, applied>>

(* Mutant: the driver does not wait for the go. *)
SSyncWaitNot ==
    /\ spc = "syncwait"
    /\ waitSemaphore' = FALSE /\ spc' = "pop"
    /\ UNCHANGED <<rcvNewCmd, writeSync, curCycle, readCycle, tickOffset,
                   mostRecentTick, instructionList, send, localPimMode,
                   localLastCmd, DQCycle, bankWrite, gvars, shared,
                   sharedLastCmd, sem1, sem2, sent, executed, applied>>

(* sem_wait(semaphore1): the go. *)
SSyncWait ==
    /\ spc = "syncwait" /\ sem1 > 0 /\ sem1' = sem1 - 1
    /\ waitSemaphore' = FALSE /\ spc' = "pop"
    /\ UNCHANGED <<rcvNewCmd, writeSync, curCycle, readCycle, tickOffset,
                   mostRecentTick, instructionList, send, localPimMode,
                   localLastCmd, DQCycle, bankWrite, gvars, shared,
                   sharedLastCmd, sem2, sent, executed, applied>>

(* Take the next queued command once the previous one's cycle is reached.  *)
SPop ==
    /\ spc = "pop" /\ spc' = "exec"
    /\ IF instructionList # <<>> /\ curCycle >= readCycle
       THEN /\ send' = Head(instructionList)
            /\ instructionList' = Tail(instructionList)
            /\ readCycle' = Head(instructionList).simCycle
       ELSE UNCHANGED <<send, instructionList, readCycle>>
    /\ UNCHANGED <<rcvNewCmd, waitSemaphore, writeSync, curCycle, tickOffset,
                   mostRecentTick, localPimMode, localLastCmd, DQCycle,
                   bankWrite, gvars, shared, sharedLastCmd, sem1, sem2,
                   sent, executed, applied>>

CaughtUp == localPimMode /\ curCycle >= readCycle

(* Mutant: the word counter wraps one word late. *)
WrapDQLate(d) == IF d > DQ_CLK THEN 0 ELSE d

WrapDQ(d) == IF d > DQ_CLK - 1 THEN 0 ELSE d

(* Drive the command whose cycle has come into the device. *)
SExecute ==
    /\ spc = "exec" /\ ~localLastCmd /\ CaughtUp /\ curCycle = readCycle
    /\ rcvNewCmd' = TRUE
    /\ executed' = Append(executed, send.address.loc)
    /\ bankWrite' = IsExecWrite(send)
    /\ DQCycle' = WrapDQ(IF IsGrfWrite(send) THEN DQCycle + 1 ELSE DQCycle)
    /\ spc' = IF bankWrite' THEN "store" ELSE "advance"
    /\ UNCHANGED <<waitSemaphore, writeSync, curCycle, readCycle, tickOffset,
                   mostRecentTick, instructionList, send, localPimMode,
                   localLastCmd, gvars, shared, sharedLastCmd, sem1, sem2,
                   sent, applied>>

(* No command in this cycle. *)
SIdle ==
    /\ spc = "exec" /\ ~(localLastCmd /\ CaughtUp)
    /\ ~(CaughtUp /\ curCycle = readCycle)
    /\ rcvNewCmd' = (rcvNewCmd \/ CaughtUp)
    /\ DQCycle' = WrapDQ(DQCycle)
    /\ spc' = "advance"
    /\ UNCHANGED <<waitSemaphore, writeSync, curCycle, readCycle, tickOffset,
                   mostRecentTick, instructionList, send, localPimMode,
                   localLastCmd, bankWrite, gvars, shared, sharedLastCmd,
                   sem1, sem2, sent, executed, applied>>

(* The device has driven the bank buses: hand the result to gem5. *)
SStore ==
    /\ spc = "store" /\ spc' = "advance"
    /\ send' = [send EXCEPT !.data = executed]
    /\ shared' = send'
    /\ bankWrite' = FALSE
    /\ UNCHANGED <<rcvNewCmd, waitSemaphore, writeSync, curCycle, readCycle,
                   tickOffset, mostRecentTick, instructionList,
                   localPimMode, localLastCmd, DQCycle, gvars, sharedLastCmd,
                   sem1, sem2, sent, executed, applied>>

(* Nothing can set rcvNewCmd again: the loop turns for ever and only       *)
(* counts cycles, so the count is kept where it is.                        *)
Spinning == ~rcvNewCmd /\ ~localPimMode

(* Mutants of SAdvance: every command of a batch is answered; none is.     *)
SAdvanceEach ==
    /\ spc = "advance" /\ spc' = "top"
    /\ sem2' = IF rcvNewCmd THEN sem2 + 1 ELSE sem2
    /\ waitSemaphore' = (waitSemaphore \/ (rcvNewCmd /\ instructionList = <<>>))
    /\ curCycle' = IF Spinning THEN curCycle ELSE curCycle + 1
    /\ UNCHANGED <<rcvNewCmd, writeSync, readCycle, tickOffset,
                   mostRecentTick, instructionList, send, localPimMode,
                   localLastCmd, DQCycle, bankWrite, gvars, shared,
                   sharedLastCmd, sem1, sent, executed, applied>>

SAdvanceSilent ==
    /\ spc = "advance" /\ spc' = "top"
    /\ waitSemaphore' = (waitSemaphore \/ (rcvNewCmd /\ instructionList = <<>>))
    /\ curCycle' = IF Spinning THEN curCycle ELSE curCycle + 1
    /\ UNCHANGED <<rcvNewCmd, writeSync, readCycle, tickOffset,
                   mostRecentTick, instructionList, send, localPimMode,
                   localLastCmd, DQCycle, bankWrite, gvars, shared,
                   sharedLastCmd, sem1, sem2, sent, executed, applied>>

(* End of the cycle: answer gem5 when everything queued has been run.      *)
SAdvance ==
    /\ spc = "advance" /\ spc' = "top"
    /\ IF rcvNewCmd /\ instructionList = <<>>
       THEN waitSemaphore' = TRUE /\ sem2' = sem2 + 1
       ELSE UNCHANGED <<waitSemaphore, sem2>>
    /\ curCycle' = IF Spinning THEN curCycle ELSE curCycle + 1
    /\ UNCHANGED <<rcvNewCmd, writeSync, readCycle, tickOffset,
                   mostRecentTick, instructionList, send, localPimMode,
                   localLastCmd, DQCycle, bankWrite, gvars, shared,
                   sharedLastCmd, sem1, sent, executed, applied>>

(* End of the simulation: unmap, answer gem5's exit callback and stop.     *)
SFinish ==
    /\ spc = "exec" /\ localLastCmd /\ CaughtUp
    /\ sem2' = sem2 + 1 /\ spc' = "done"
    /\ UNCHANGED <<rcvNewCmd, waitSemaphore, writeSync, curCycle, readCycle,
                   tickOffset, mostRecentTick, instructionList, send,
                   localPimMode, localLastCmd, DQCycle, bankWrite, gvars,
                   shared, sharedLastCmd, sem1, sent, executed, applied>>

SStep == STop \/ SWait \/ SCopy \/ SAck \/ SSyncPost \/ SSyncWait \/ SPop
         \/ SExecute \/ SIdle \/ SStore \/ SAdvance \/ SFinish

-----------------------------------------------------------------------------
(* The program run by gem5 is the environment. *)
Program ==
    \/ ModeChange
    \/ \E rd \in BOOLEAN : PacketReg(rd) \/ PacketGrfLast(rd) \/ PacketExec(rd)
    \/ \E d \in 0 .. DQ_CLK - 2 : PacketGrfWord(d)
    \/ EndSystemCSim

(* gem5 is gone. *)
Ended == gpc \in {"ended", "aborted"} /\ UNCHANGED vars

Next == Program \/ WriteEvent \/ GStep \/ SStep \/ Ended

Spec == Init /\ [][Next]_vars

(* gem5's thread runs and its event queue serves a scheduled event; the    *)
(* child's thread runs. The program may stop at any time.                  *)
Fairness == WF_vars(GStep) /\ WF_vars(WriteEvent) /\ WF_vars(SStep)

FairSpec == Spec /\ Fairness

-----------------------------------------------------------------------------
(* The state of both processes keeps its types; in particular no unsigned  *)
(* cycle or offset of the driver goes below zero.                          *)
TypeOK ==
    /\ gpc \in {"idle", "post", "wait", "after", "ended", "aborted"}
    /\ gop \in {"cmd", "event", "exit"}
    /\ tick \in Nat /\ nmcMode \in BOOLEAN /\ local \in FileLine
    /\ temp \in [0 .. DQ_CLK - 1 -> Nat]
    /\ evTick \in Nat \cup {None} /\ channelCnmWrite \in Seq({0})
    /\ shared \in FileLine /\ sharedLastCmd \in BOOLEAN
    /\ sem1 \in Nat /\ sem2 \in Nat
    /\ spc \in {"top", "wait", "copy", "ack", "syncpost", "syncwait", "pop",
                "exec", "store", "advance", "done"}
    /\ rcvNewCmd \in BOOLEAN /\ waitSemaphore \in BOOLEAN
    /\ writeSync \in BOOLEAN
    /\ curCycle \in Nat /\ readCycle \in Nat
    /\ tickOffset \in Nat /\ mostRecentTick \in Nat
    /\ instructionList \in Seq(FileLine)
    /\ send \in FileLine
    /\ localPimMode \in BOOLEAN /\ localLastCmd \in BOOLEAN
    /\ DQCycle \in Nat /\ bankWrite \in BOOLEAN
    /\ sent \in Seq(FileLine) /\ executed \in Seq(Nat)
    /\ applied \in Seq([loc : Nat, data : Seq(Nat)])

(* The parts of the inductive invariant behind the safety properties that  *)
(* hold at any pace of the program.                                        *)

(* The driver has taken a post of semaphore 1 and not answered it yet. *)
STurn ==
    \/ spc \in {"copy", "ack", "syncpost", "pop", "exec", "store", "advance"}
    \/ (spc = "top" /\ ~(rcvNewCmd /\ waitSemaphore))

(* One token: gem5 has it, or it lies in a semaphore, or the driver has it.*)
TurnInv ==
    \/ gpc # "wait" /\ sem1 = 0 /\ sem2 = 0 /\ ~STurn
    \/ gpc = "wait" /\ sem1 = 1 /\ sem2 = 0 /\ ~STurn
    \/ gpc = "wait" /\ sem1 = 0 /\ sem2 = 0 /\ STurn
    \/ gpc = "wait" /\ sem1 = 0 /\ sem2 = 1 /\ ~STurn

(* How the driver's flags go with its place in the loop. *)
PhaseInv ==
    /\ spc \notin {"top", "advance", "store", "done"} => ~rcvNewCmd
    /\ spc \in {"wait", "copy", "ack", "syncpost", "syncwait"} => waitSemaphore
    /\ spc \in {"pop", "store"} => ~waitSemaphore
    /\ ~waitSemaphore \/ spc \in {"syncpost", "syncwait"} => writeSync
    /\ waitSemaphore /\ (spc \in {"exec", "advance"} \/ (spc = "top" /\ ~rcvNewCmd))
          => localLastCmd
    /\ localLastCmd => /\ spc \in {"exec", "advance", "top", "done"}
                       /\ ~rcvNewCmd

(* A write-back that is scheduled or under way has its channel queued.     *)
EventInv ==
    LET inEvent == gop = "event" /\ gpc \in {"post", "wait", "after"}
    IN  /\ inEvent => evTick = None
        /\ inEvent \/ evTick # None => channelCnmWrite # <<>>
        /\ evTick # None => evTick >= tick

(* Time runs forward, and a command is taken up after its predecessor's    *)
(* cycle only.                                                             *)
ClockInv ==
    /\ tickOffset <= mostRecentTick
    /\ mostRecentTick <= shared.issuedTick /\ shared.issuedTick <= tick
    /\ (\/ spc \in {"wait", "copy", "ack", "syncpost", "syncwait", "pop"}
        \/ spc = "top" /\ rcvNewCmd)
       => curCycle > readCycle
    /\ spc = "advance" /\ rcvNewCmd => curCycle >= readCycle
    /\ spc = "store" => curCycle = readCycle

(* An execution write is the last command of a batch; what is about to be  *)
(* stored is the newest command queued.                                    *)
QueueInv ==
    /\ \A i \in 1 .. Len(instructionList) :
          IsExecWrite(instructionList[i]) => i = Len(instructionList)
    /\ instructionList # <<>> =>
          instructionList[Len(instructionList)].issuedTick = mostRecentTick
    /\ waitSemaphore /\ spc \notin {"syncpost", "syncwait"} =>
          \A i \in 1 .. Len(instructionList) : ~IsExecWrite(instructionList[i])
    /\ (/\ IsExecWrite(send) /\ curCycle <= readCycle
        /\ \/ spc = "store"
           \/ spc \in {"exec", "advance", "top"} /\ ~rcvNewCmd /\ ~localLastCmd)
       => instructionList = <<>> /\ send.issuedTick = mostRecentTick
    /\ spc = "store" => IsExecWrite(send)

IInv == TypeOK /\ TurnInv /\ PhaseInv /\ EventInv /\ ClockInv /\ QueueInv

-----------------------------------------------------------------------------
(* No access to the shared memory by the child overlaps one by gem5: the   *)
(* child copies from it (copySharedMem) or into it (copyFileLine) only     *)
(* while gem5 is blocked in sem_wait(semaphore2). The mode change, which   *)
(* stores without a semaphore, is covered: gem5 is idle when it does.      *)
SharedMemoryExclusive ==
    spc \in {"copy", "store"} => gpc = "wait"

(* Neither semaphore counts past one, and never both: a post is always     *)
(* consumed before the other side posts again, so no go is remembered from *)
(* an earlier round.                                                       *)
SemaphoresBinary == sem1 + sem2 <= 1

(* The device executes the commands gem5 issued, each exactly once and in  *)
(* the order of issue: none is dropped by the driver's "is it new" test,   *)
(* overwritten in the shared line or passed over because its cycle is gone.*)
ExecutedInOrder ==
    /\ executed = [i \in 1 .. Len(executed) |-> i]
    /\ Len(executed) <= Len(sent)

(* The driver's assertion "A write to a GRF shouldn't overlap with next    *)
(* command": when a command is driven, no register write occupies DQ.      *)
NoDQOverlap ==
    spc = "exec" /\ ~localLastCmd /\ CaughtUp /\ curCycle = readCycle
        => DQCycle = 0

(* advanceOneCycle_event is never scheduled while it is scheduled, which   *)
(* would make gem5's event queue abort the simulation.                     *)
EventNotRescheduled == gpc # "aborted"

(* The unsigned difference issuedTick - tickOffset never wraps around, for *)
(* the line in the shared memory, however often the offset has been moved. *)
NoTickUnderflow ==
    /\ tickOffset <= mostRecentTick
    /\ spc = "copy" /\ ~sharedLastCmd => tickOffset <= shared.issuedTick

(* Queued commands lie in strictly increasing device cycles, all later     *)
(* than the command simulated last and none already gone by, across every  *)
(* move of the tick offset: two commands never share a device cycle.       *)
QueueAhead ==
    ~localLastCmd =>
        \A i \in 1 .. Len(instructionList) :
            LET c == instructionList[i].simCycle
            IN  /\ c > readCycle /\ c >= curCycle
                /\ i > 1 => c > instructionList[i - 1].simCycle

-----------------------------------------------------------------------------
(* What the pair of processes promises to gem5's program.                  *)

(* What the program sees of a command: whether it is an execution write,   *)
(* and the memory that an execution read gathered.                         *)
AsIssued(c) ==
    [write |-> IsExecWrite(c),
     seen  |-> IF c.address.region = "exec" /\ c.RDcmd THEN c.data[1] ELSE None]

Offload == INSTANCE NMCOffload WITH
    issued  <- [i \in 1 .. Len(sent) |-> AsIssued(sent[i])],
    results <- applied

(* The co-simulation implements the offload specification: a write-back    *)
(* carries the effect of exactly the commands issued up to its write, it   *)
(* reaches gem5's memory before the next command is issued, and every      *)
(* execution read gathers memory that holds all earlier write-backs.       *)
ImplementsOffload == Offload!Spec

(* Once the child has received a command, no semaphore call of gem5 blocks *)
(* for ever, be it for a command, a write-back or the exit.                *)
SyncReturns == (gpc = "wait" /\ sent # <<>>) ~> (gpc # "wait")

(* Every execution write is followed by its write-back unless gem5 exits.  *)
WriteBackArrives ==
    (gpc = "after" /\ gop = "cmd" /\ IsExecWrite(local))
        ~> (gop = "exit" \/ Len(applied) = Cardinality(
                {i \in 1 .. Len(sent) : IsExecWrite(sent[i])}))

(* An exit with no write-back outstanding also ends the child process.     *)
ChildTerminates ==
    (gpc = "post" /\ gop = "exit" /\ evTick = None /\ sent # <<>>)
        ~> (spc = "done")

(* "you can safely exit it from the terminal by using: m5 exit"            *)
(* (README.md): an exit always completes.                                  *)
ExitCompletes == (gpc = "post" /\ gop = "exit") ~> (gpc = "ended")

(* "you might need to manually kill child process if gem5 crashes"         *)
(* (nmccores.cc): after an orderly exit the child ends by itself.          *)
ExitEndsChild == (gpc = "ended") ~> (spc = "done")
=============================================================================
