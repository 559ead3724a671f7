# gem5-X-NMC: TLA+ models, checks and proofs

gem5-X-NMC simulates a system with near-memory computing cores. gem5 runs the
host; Ramulator, behind a gem5 memory object, gives the timing of the memory; a
child process runs ANEMOS, a SystemC model of the cores beside the memory banks.
A library on the host, NMClib, writes programs for the cores and drives them with
memory accesses. The code that is this project's own sits where these simulators
meet, in the cores and in the library. That is what is modelled.

## 1. Inventory

| Part | State | Operations | Talks to | What is hard |
|---|---|---|---|---|
| `NMCcores` (`gem5-x-nmc/src/mem/nmccores.cc`) | mode, line being filled, register words, write-back event, channels waiting for data | `packetInfo`, `rcvCnmWriteData`, `endSystemCSim` | the driver, through shared memory and two semaphores | the same post means "command", "go" or "exit"; the mode is stored without a semaphore |
| `cnm_driver` (`ANEMOS/src/tb/cnm_driver_gem5.cpp`) | queue of commands, cycle counters, tick offset, DQ position, flags | the loop of `driver_thread` | gem5, and the device's pins | time is translated between two clocks with unsigned numbers; commands are dropped by an "is it new" test |
| `Ramulator` (`gem5-x-nmc/src/mem/ramulator.cc`) | packets waiting by address, response queue, stall flags, in-flight counters, drain manager | `recvTimingReq`, `tick`, `sendResponse`, `recvRetry`, callbacks, `drain` | crossbar, Ramulator, `NMCcores` | calls nest: a retry or a response comes back as a request |
| All-bank controller (`ext/ramulator/.../Controller.h`, `HBM_AB.cpp`) | read, write, activated and other queues, mode, timing, row table | `enqueue_AB`, `tick_AB` | the memory object, by callbacks | order of reads and writes over separate queues, refresh, timing |
| ANEMOS core (`control_unit`, `instr_decoder`, `pc_unit`, `interface_unit`, `grf`, `srf`, `crf`, `fpu`) | registers, program counter, pipeline | clocked threads and combinational methods | the driver's pins | serial writes, loops by jump counters, pipeline write-back |
| NMClib (`softwareStack/NMClib`) | the kernels of a channel, with their rows | `generateSequence`, `executeSequence` of four kernels | the cores, through memory accesses of the host | host and core share no position: the host's loops and the core's program counter must stay in step |
| gem5, ordinary Ramulator standards, applications, scripts | | | | third party or without state of interest here |

What makes each correct: every command is executed once, in order, on the data
it was meant for, and its result reaches memory before it is looked at
(co-simulation); every packet takes effect and is answered once and nobody is
forgotten (memory object); commands leave in order, the bookkeeping agrees with
the banks and nothing starves (controller); a command has the effect its
instruction is documented to have, whatever is still in the pipeline (core); and
every command meets the instruction it was issued for (NMClib). `PROJECT.json` lists all components,
also those left out, and the hazards at their lines.

## 2. Modules

| Module | Role |
|---|---|
| `CoSim` | `NMCcores` and `driver_thread`, composed over shared line and semaphores |
| `NMCOffload` | abstract: what a program that offloads work may rely on |
| `CoSimProofs`, `CoSimPacedProofs` | proofs about `CoSim`: at any pace, and for a program that keeps its distances |
| `RamulatorBridge` | the memory object with its crossbar peer and the DRAM simulator's interface |
| `MemoryPort` | abstract: a memory behind a timing port |
| `RamulatorBridgeProofs` | proofs about `RamulatorBridge` |
| `ABController` | `enqueue_AB`, `tick_AB` and the HBM_AB device |
| `ABControllerProofs` | proofs about `ABController` |
| `CnmOps` | instructions, terms, commands, and the path through a program: shared by the modules of the core and of the library |
| `CnmISA` | abstract: each command takes effect at once |
| `CnmCore` | one ANEMOS core, cycle by cycle: interface unit, program counter, decoder with its shift registers, register files, FPU |
| `CnmCoreProofs` | proofs about `CnmCore` |
| `NMClib` | the kernels: programs and command sequences |
| `KernelRun` | the host executing kernels on the core's program counter |
| `KernelRunProofs`, `NMClibProofs`, `LibraryProofs` | proofs about `KernelRun`, about `NMClib`, and about programs of its kernels |
| `MCCoSim`, `MCRamulatorBridge`, `MCABController`, `MCCnmCore`, `MCKernelRun` | constants for TLC |

**CoSim.** Variables keep the source's names and are grouped by owner. A process
runs atomically between two of its semaphore calls, since it touches nothing the
other may write in between (which is itself checked: `SharedMemoryExclusive`).
`gpc` and `spc` are the places in the two programs. `packetInfo` is
`ModeChange`, `PacketReg`, `PacketGrfWord`, `PacketGrfLast` and `PacketExec`,
each followed by `GPost`, `GWait` and `AfterCommand`; the event is `WriteEvent`
to `AfterEvent`; the exit callback is `EndSystemCSim` to `AfterExit`. The
driver's loop is `STop`, `SWait`, `SCopy`, `SAck`, `SSyncPost`, `SSyncWait`,
`SPop`, `SExecute` or `SIdle`, `SStore`, `SAdvance` and `SFinish`. An address is
its region and the number of its command; the data a device returns are the
numbers of the commands executed so far, which is what tells right data from
wrong. Two facts about the environment are constants: the distances `CmdGap`,
`GrfGap` and `WrGap` the program keeps between commands. With `Paced` values they
are what the driver's comments assume; with 0 anything goes.

**RamulatorBridge.** One action per outcome of a handler. `pc` is the call on the
stack: in `rdretry`, `wrretry` and `sent` the peer may call `recvTimingReq`. The
DRAM simulator is an interface: a full queue refuses, a request leaves its queue,
a request completes, in any order. A cell holds the number of the last packet
written to it. Packets are reads, writes, write-backs and others; write-backs and some
of the others (`"evict"`) get no response and are kept for deletion. `accessAndRespond`
shows the packets to be answered to the cores (`packetInfo`), which is `CoSim`'s part.

**ABController.** A tick is one action per outcome: idle, precharge, activation,
last command. `wait[c]` is `next[c] - clk`, and the arrival clock counts only
cycles with arrivals; every comparison the code makes has the same outcome as
with absolute times. All banks act together, so there is one row.

**CnmCore.** One step is one clock cycle of all units, `Step`, with the command on
the pins as its input; the actions are the kinds of command: `BankCommand`,
`RegisterCommand`, `InstructionWrite`, `IdleCycle`. The decoder's operators
(`MovSignals`, `AddSignals` and so on) give the control signals of an instruction
with the stage at which each is due, as the code does by writing into its shift
registers; signals due at one stage are ORed (`Or`), which is where two
instructions could spoil each other. Values are terms ("the sum of what the third
command read and GRF_A1"), so equality of registers means the same computation.
Refinement maps the register files to what they hold once everything in flight is
written (`settled`), and the control registers to themselves.

The guards hold what the memory controller keeps to: bank commands are `MinGap`
apart, and a register write is complete on DQ before the next command. `MinGap` is a
constant for each program, since it depends on where the program's operands are. The
controller itself guarantees only nCCDL = 3 (`ControllerGap`). That is not enough for
a program in which a MAD or MAC that loads, which writes its register three cycles
after its command, meets an instruction on registers of the same file, which reads and
writes in its own cycle: `core_isa` gives these programs an empty pipeline (`SafeGap`,
one cycle more), and `core_relu` shows what happens without it. The library has such a
pair, the ReLU move of a convolution after its last MAC, and nothing in it that would
keep the two further apart than nCCDL when their operands are in one open row.
Instruction forms left out: ADD of two `SRF_A` registers (one read port), MAD that
loads with a bank as its addend, operands the decoder does not support, JUMP with a
count of 0 (it would count 2^32 times; the library writes none below its limit),
and FILL, which the code leaves empty.

**NMClib and KernelRun.** A kernel is a sequence of phases. A phase is the program
written into the CRF and the commands issued for it: an initial part, a loop body
repeated `loops` times with the command of the JUMP, a tail with, if the host's own
test says so, the command of the EXIT, all of it `reps` times. The `generate` and
`execute` functions build program and commands separately, by loops with the same
bounds; where they use one bound they share one operator here (`Loads`, `Macs`),
and what they compute separately, the lengths of jumps and the tests for the EXIT,
is kept apart. `KernelRun` issues the commands; the core executes what its program
counter points to. `writeCRF`'s masks are the `%` in `JumpBack`. Phases that the
code writes out twice with the same text (the peeling of matrix multiplication and
of convolution) share `Accumulate`. With 32 CRF entries the constructors never
choose VA R-limited, MM C-limited or convolution C-limited; those are left out.

Definitions whose comment begins with "Mutant" are deliberate errors. No
specification uses them; each stands for a plausible bug that a property must
catch when it replaces the definition after it.

## 3. Runs

| Run | Result | Shows |
|---|---|---|
| `cosim` | pass | commands executed once and in order, no assertion of either program fails, queued cycles increase strictly, the shared line is never touched by both, semaphores stay binary, no unsigned underflow; the pair implements `NMCOffload`; no semaphore call blocks for ever after a command, write-backs arrive, an exit ends the child |
| `cosim_exit_without_use` | violation | `m5 exit` before the cores were used hangs both processes |
| `cosim_exit_pending_write` | violation | an exit between a write and its write-back leaves the child running |
| `bridge` | pass | stall flags, counters, wakeups and deletions are right under nesting, `MemoryPort` is implemented, every refused requestor is retried and every packet answered |
| `bridge_drain` | violation | a drain with packets in flight is never signalled |
| `ab` | pass | order of arrival, row table, activations; refresh keeps up and every request completes when the device is busy for longer than a refresh interval |
| `ab_ties` | violation | a read and a write of one cycle may be served in the other order than they were sent: the mode the controller is in decides |
| `core_isa` | pass | for every pair of 19 instruction forms, and each with every control instruction, the pipelined core implements `CnmISA`, at any distance from `nCCDL` on, or from an empty pipeline on for the programs `core_relu` is about; serial writes stay in step with the driver |
| `core_mad` | violation | a loading MAD with its second factor in GRF_B multiplies by register 0 |
| `core_relu` | violation | a ReLU move `nCCDL` cycles after the last MAC of a convolution reads the sum without it, and spoils its write |
| `kernels` | pass | every pair of 18 kernels, one after the other: each command meets its instruction, the core comes back to entry 0, every result takes every scalar once, and the kernels satisfy the hypothesis of the theorems |
| `kernel_lockstep` | violation | small convolutions and dot products of a multiple of 14 elements get out of step |

The violations are disagreements between the code and a line of its docs or
comments; each has a finding in `PROJECT.json` with the quotation. The pacing that
`cosim` assumes is not enforced by the memory object, which shows the cores a write
when it is accepted and a read when it completes: it has to come from the program.

**Bounds.** Every bound is a constant: `MaxCmds`, `MaxPkts`, `MaxReqs`, `QMax`,
`PerCycle`, `MaxKernels`. Three commands are enough for a register write, an execution read and
an execution write in any order with the write-back between any two; the tick
constants are scaled down such that one gap jumps past `TICK_THRESHOLD` and
`TICK_BACKUP` does not divide the clock period. Three packets on two channels with
queues of one entry reach each refusal, a refusal inside a retry of either kind, and a
retry that is withheld because of the other channel. The kinds of packets enumerated are
the constants `Writes` (a write to one channel, a write-back to the other) and `Others`;
reads go to every address. Three requests with two rows reach hits,
conflicts, promotions and mode switches in both directions, before, during and
after a refresh. `ab` has scaled timing, because three requests cannot fill a
nominal refresh interval, and the short distances let more commands compete in a
cycle; `ab_ties` has the timing of HBM_300MHz with a third of its interval.

`core_isa` has a CRF of two entries, so that every instruction is followed by every
other, by NOP, JUMP or EXIT and by itself after the wrap, and two registers per
file; three commands reach across the pipeline, whose depth is three. The bank
accesses enumerated are the constant `Accesses`: in `core_isa` and `core_mad` all of
them, in `core_relu` the loads of the kernel. The stages
and DQ cycles are those of the build. `kernels` has the build's 32 CRF entries and 8
registers, and a loop counter of 2 bits instead of 11, so that four loops are its
limit and the second loop of vector addition exists; two kernels in a row show that
the first leaves nothing behind, and the theorems cover any number. The library
warns from 2^11 loops on; 2^11 itself still counts right (the JUMP holds one less).

**Deadlock** is checked in every passing run but `kernels`, where the host is done
after `MaxKernels`. `CoSim` has `Ended`, since a simulation ends.

**Fairness.** `CoSim`: weak fairness of each process and of gem5's event; both are
operating-system processes, and a scheduled event runs unless the simulation
ends. Nothing is assumed of the program: it may stop issuing commands.
`RamulatorBridge`: weak fairness of the tick, which reschedules itself, and of the
responses; strong fairness of the DRAM simulator's progress inside ticks, which
`ab` supports (`RequestCompletes`), and of a peer that takes a response
offered again and again. `ABController`: weak fairness of the tick.

## 4. Proofs

The theorems hold for every value of the constants that the assumptions of the
modules allow. `ParamAssumption`, `BridgeAssumption`, `TimingAssumption`,
`StagesAssumption`, `Imm1Assumption` and `KernelsAssumption` say no more than that
sizes and times are numbers of the right sign, that the packets and accesses enumerated
have the form of packets and accesses, that the backup is not larger than the
threshold, and that the CRF has at most 256 entries, what the 8-bit program counter
can address. Three say more and are explained below: `GradeAssumption` and
`RefreshAssumption` about DRAM timing, `ProgramsAssumption` about programs. Every
hypothesis that is not an assumption of a module stands in its theorem. The theorems
bound nothing: `MaxCmds`, `MaxPkts`, `MaxReqs` and `MaxKernels` are any numbers.

*CoSimProofs.* `InductiveInvariant` proves `IInv`, from which `TypeCorrect`,
`SharedMemoryExclusion`, `SemaphoreBound` and `TickSubtractionSafe` follow. None of
these is inductive alone. That the child copies only while gem5 waits rests on
`TurnInv`: there is one token, held by gem5, by a semaphore or by the driver.
Whether the driver holds it depends on its flags, so `PhaseInv` ties the flags to
the place in the loop. Types need `EventInv` (the deque of channels is not empty
when the event runs), `ClockInv` (offset, most recent tick and issue tick are
ordered, so the difference is a natural number) and `QueueInv` (a batch ends with
its write, so what is stored is the newest command). No pacing is assumed: what
`cosim` checks of these properties for paced commands holds at any pace.

*CoSimPacedProofs.* The other properties of `cosim` are false for a program that
issues two commands in one device cycle, so their theorems assume `Pace`: the
distances `Paced`, taken from the driver's comments; `BACKUP` of at least `DQ_CLK`
cycles and of at least two; and a first command in cycle two or later. The build has
3333 ticks per cycle, a backup of 20000 (six cycles) and four DQ cycles, and a host
that boots before it uses the cores. Under it `EventScheduledOnce`, `CommandsInOrder`,
`DQNeverOverlaps` and `QueueStaysAhead` follow from `PacedInvariant`, and
`OffloadRefinement` shows that the two processes implement `NMCOffload`.
`PInv` adds seven parts to `IInv`. `HandInv` says which of gem5's messages the driver
waits for or works on: a post of semaphore 1 is never mistaken for another one.
`SentInv` keeps the distances between issued commands, `OrderInv` splits these into
executed, in flight, queued and not yet copied, in this order. `CycleInv` carries the
distances from ticks over to cycles: queued cycles leave each other the room their
commands need, and the last one is what the most recent tick and the offset say,
before and after a jump. `DQInv` concludes that a register write is off DQ in time.
`CountInv` and `ReadyInv` are for the refinement: one result per execution write, and
the result gem5 takes accounts for all commands. `ExecutedInOrder` alone says nothing
about the command in the shared line; `QueueAhead` is lost at a jump unless the
room left by the pace is known, and a jump leaves exactly `BACKUP`. An exit moves
`readCycle` ahead, to let the last command finish, so cycles are compared only before it
(`~localLastCmd`).

*RamulatorBridgeProofs.* `InductiveInvariant` proves the conjunction of types,
`PlacesInv`, `StallsMatchPeer`, `CountersMatch` and `ResponseScheduled`; the
theorems `TypeCorrect`, `StallsAgree`, `CountersAgree` and `NoLostWakeup` read them
off. The parts need each other: a completing read finds a packet in the deque of
its address only because the deque's length is the number of reads in flight
there (`CountersMatch`), a completed read leaves one set only because the two are
disjoint (`PlacesInv`), and a response taken by the peer is popped from a queue
that is not empty because `ResponseScheduled` held when the send began.
`DequesInvariant` adds what the deques hold: reads of their own address, in increasing
order, none of them answered. `DeletedPacketsUnused` follows, and `PortRefinement`
proves `ImplementsPort` handler by handler. Its hard steps are the completion of a read,
where the packet taken must be the oldest one of the address in the port as well, and
the send, where the answer has left for the peer while the packet is still at the head
of `resp_queue` (`Undelivered`) and a nested request may append behind it.

*ABControllerProofs.* `ControllerInvariant` proves types, `QueueInv`, `ActInv`, `TimeInv`
and `RowTableAgrees`; `TypeCorrect`, `RowTableCorrect` and `ActivationsUseful` read off
theirs. That an activated request is served before its row is closed is a matter of
timing, not of the queues: `ActInv` says that its column command is allowed no later than
a precharge, and holds because after an activation both are set from the same cycle
(`nRCDR`, `nRCDW <= nRAS`) and because older commands do not hold a column command back
for longer than a new row cycle takes (`TimeInv`). This is `GradeAssumption`, an
inequality between parameters that all four grades of `speed_table` in `HBM_AB.h`
satisfy; TLC evaluates it for the timing of both runs. `RefreshesKeepUp` bounds the
cycles until a queued refresh is issued (`Left`) by the time until the next one, in each
of the states it can meet: row closed, row open, row open for an activated request that
goes first. `RefreshAssumption` states that these fit into the interval, which holds for
the grades with a wide margin. `CommandsStayInOrder` assumes one arrival per cycle,
`PerCycle = 1`; without it the property is false (`ab_ties`). `IdsInv` says that then
arrival times order the waiting requests as their numbers do, and `ModeInv` that the mode
selects the queue with the older head, except for a request that arrived in this cycle.

*CnmCoreProofs.* `CoreInvariant` proves types, `SerialInStep` and `RegistersInv`, for
every depth of the pipelines, size of the files and burst length; `TypeCorrect` and
`WordsInStep` read off. `WordsInStep` is not inductive alone: that the word on DQ is
counted depends on the row still being selected while the driver sends words.
`ProgramPath` is the control half of the refinement `ImplementsISA`: program counter,
jump and NOP counters and CRF move in every cycle as `CnmISA` prescribes for its command.
The detailed core computes them in several units (decoder, PC unit, interface unit, CRF)
from registered and combinational signals, the abstract one by one operator.
`ProgramsAssumption` says what the library's programs keep to: a JUMP leads to an
earlier entry and counts at least one repetition in its eleven bits, and arithmetic
writes to a general register. The decoder checks none of this.

*KernelRunProofs.* Hypothesis `AllWellFormed`: every kernel is `WellFormed`, a
property of the kernel as data. A phase's commands, each with its instruction, form
one straight line (`At`); the CRF holds that line from entry 0 on, either written by
this phase (`CodeInPlace`) or left by the phase before it (`Relies`); only the end of
the loop body is a JUMP, which leads back over the body and counts the host's loops
(`LoopCounts`); and the line ends with an EXIT or with the CRF (`LineOK`). Under it
`TypeCorrect`, `StaysInLockstep` and `ComesHome` are proved for any number of kernels
in any order. The inductive invariant has three parts: `Place` (the host is inside a
phase of a kernel), `Listing` (how much of the line is in the CRF) and `Together`
(the core's program counter is the host's place in the line, and its jump counter is
the iterations the host has left). Lockstep alone is not inductive: that the next
command finds its instruction after a JUMP depends on the counter, and after a phase
change on what the phase before left in the CRF. The lemmas `WalkOn` and `WalkJump`
say where one instruction takes the core.

`TermsTakenOnce` proves `EveryTermOnce` from a second hypothesis about the kernel as
data: each phase has an `Outline`, which says what has been summed at each place of its
line, agrees with itself where the loop leads back, and is complete where a result is
stored. `TakenInv` says that the core's accumulator is what the outline says at the place
`Together` gives. This takes the place of an induction over the iterations, which the
provers cannot do.

*NMClibProofs* and *LibraryProofs.* The hypotheses are discharged for all four kernels,
for every size of CRF and register file with which the constructor chooses the form
modelled (`~(CRF_ENTRIES < ...)` in the theorems is its condition), and a loop counter of
any width:
- `MMWellFormed`: matrix multiplication for every m, n and every number of column groups
  up to 2^IMM1_BITS.
- `VAWellFormed`: vector addition for every length whose full segments the two loops can
  count, with or without second loop and remainder, from eight CRF entries on (with fewer
  there is no segment of two blocks).
- `ConvWellFormed`: convolution, with and without ReLU, for one weight per output channel
  or at least as many as there are scalar registers, of which there is an even number:
  first pass from the bias, further passes, ReLU pass, peeling.
- `DPWellFormed`: dot product in both forms, R-limited and C-limited, for every length
  whose loop the counter can count, except those whose loop, peeling, JUMP and EXIT take
  exactly the CRF (`CRF_ENTRIES = DPNeeds(dims)`; in the build the multiples of 14).

The two exceptions are faults of the code that `kernel_lockstep` shows for some sizes;
`ConvFewWeights` and `DPFillingCRF` prove for all sizes that these kernels are *not* well
formed: the JUMP's distance is not the length of the loop, and the host does not issue the
EXIT that the program has. So the hypotheses of the positive theorems are exact.

`ProgramLockstep`, `ProgramStartsWellFormed` and `ProgramTermsOnce` put these together with
`KernelRunProofs`: a program of such calls, of any sizes, in any order and number
(`OnlySafeCalls`). `RoomInCRF` says that the CRF takes the bodies of the loops, the
register files have an even number of entries and a loop counter counts more than once (32
entries, 8 registers and 11 bits in the build). The kernels of the run `kernels` are such calls.

The argument: `Routine` is any phase with an initial part, a loop and a tail whose JUMP
leads back over its body; `RoutineOK` shows it safe if it fits the CRF together with JUMP and
EXIT. `SummingOK` is the loop that convolution and matrix multiplication share, and gives
its outline. `OneMorePhase` adds a phase to a kernel. A phase that writes only the end of its
program needs `PeelingRelies`: it keeps exactly the partial-result load and its first
products of the program before it.

*Only model-checked.*
- Liveness (`SyncReturns`, `WriteBackArrives`, `ChildTerminates`, `RequestRetried`,
  `RequestAnswered`, `RequestCompletes`): it depends on fairness and `ENABLED`.
- The data half of `ImplementsISA`: that the registers end up with what `CnmISA` computes.
  The mapping looks ahead through the pipelines; `core_isa` checks it for all pairs of
  instructions at the distances of `SafeGap`.

## 5. Not modelled

- Process start and death: `fork`, `execl`, a crash of the child. The code handles
  none of these.
- More than one simulated channel (`NUM_SIM_CHANNEL` is 1), more than one rank.
- Half-precision arithmetic: sums and products are terms.
- Rows and columns of operands, the values in the scalar registers, and the
  allocation of rows to kernels. The allocator (`cnm_kernel.h:52`) is listed as a
  hazard: it takes a kernel's last row from a start that is still 0.
- Atomic and functional accesses of the memory object, statistics, traces.
- The address mapping: see the plan.
- gem5 itself, the ordinary Ramulator standards, the applications, scripts: third
  party, or without state that other parts rely on. They are by far the largest
  part of the repository's text.

## 6. Plan

1. *Proofs*: the data half of `ImplementsISA`, starting with MOV and the register writes,
   which bypass the pipelines.
2. *KernelRows*: `allocateKernel`, the ordered list of kernels and their destructors,
   with disjointness of the rows of live kernels.
3. *AddressMap*: the slicing in `Memory.h` against the masks in `nmccores.cc` and
   `cnmExecAddress`, including the channel.
4. *Composition* of `RamulatorBridge` and `CoSim`: which orders and distances of
   commands the memory can produce, in place of the constants for pacing.
