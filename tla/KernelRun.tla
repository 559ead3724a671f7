------------------------------ MODULE KernelRun ------------------------------
(***************************************************************************)
(* The host executes kernels on a core, one after the other.  Host and     *)
(* core share no position: the host's loops count commands, the core's     *)
(* program counter and jump counter follow the program, and the result is  *)
(* right only as long as the two stay in step.  Nothing resets the core    *)
(* between phases or kernels.                                              *)
(***************************************************************************)
EXTENDS NMClib

CONSTANTS
    Kernels,              \* the kernels a program may execute: a sequence
    MaxKernels            \* bound: how many it executes

ASSUME KernelsAssumption == MaxKernels \in Nat

VARIABLES
    crf,                  \* the core's program
    ctl,                  \* its pc, jmp_act and jmp_cnt
    taken,                \* auxiliary: scalars multiplied since the last load
    ran,                  \* host: kernels started
    kern, phase,          \* kernel and phase being executed
    stage,                \* "idle", "write", or a part of the phase
    rep, iter, k          \* repetitions, iterations, steps of the part done

core == <<crf, ctl, taken>>
host == <<ran, kern, phase, stage, rep, iter, k>>
vars == <<core, host>>

Parts == {"init", "body", "tail"}
Steps(p, part) == Len(p[part])     \* commands of a part of a phase
Lines(p) == Len(p.code)            \* instructions it writes
Phases(kernel) == Len(kernel)
Current == Kernels[kern][phase]
Cmd == Current[stage][k + 1]
Issuing == stage \in Parts /\ k < Steps(Current, stage)

Init ==
    /\ crf = [n \in 0..(CRF_ENTRIES - 1) |-> Ctrl("NOP", 0, 0)]
    /\ ctl = [pc |-> 0, jmp_act |-> FALSE, jmp_cnt |-> 0]
    /\ taken = <<>>
    /\ ran = 0 /\ kern = 1 /\ phase = 1 /\ stage = "idle"
    /\ rep = 0 /\ iter = 0 /\ k = 0

(* executeSequence() of a kernel.  The mode switches around it leave the   *)
(* core's registers as they are (CoSim has the modes).                     *)
Start(n) ==
    /\ stage = "idle" /\ ran < MaxKernels
    /\ ran' = ran + 1
    /\ kern' = n /\ phase' = 1 /\ stage' = "write" /\ k' = 0
    /\ UNCHANGED <<core, rep, iter>>

(* One strData of the sequence that writeCRF made. *)
WriteInstr ==
    /\ stage = "write" /\ k < Lines(Current)
    /\ crf' = [crf EXCEPT ![Current.base + k] = Current.code[k + 1]]
    /\ k' = k + 1
    /\ UNCHANGED <<ctl, taken, ran, kern, phase, stage, rep, iter>>

BeginCommands ==
    /\ stage = "write" /\ k = Lines(Current)
    /\ stage' = "init" /\ k' = 0 /\ rep' = 0
    /\ UNCHANGED <<core, ran, kern, phase, iter>>

(* One ldrData or strData to a bank: the core executes the instruction at  *)
(* its pc, whatever the host meant.                                        *)
Take(i) ==
    CASE i.src1 = "SRF_M" /\ i.op = "MAC" -> Append(taken, i.n1)
      [] i.src1 = "SRF_M" /\ i.op = "MAD" -> <<i.n1>>
      [] i.op = "MOV" /\ i.src0 \in Banks -> <<>>
      [] OTHER -> taken

Command ==
    /\ Issuing
    /\ LET i == Fetch(crf, ctl.pc)
       IN ctl' = Walk(ctl, i) /\ taken' = Take(i)
    /\ k' = k + 1
    /\ UNCHANGED <<crf, ran, kern, phase, stage, rep, iter>>

(* The tests of the host's loops. *)
EnterLoop ==
    /\ stage = "init" /\ k = Steps(Current, "init")
    /\ stage' = IF Current.loops > 0 THEN "body" ELSE "tail"
    /\ iter' = 0 /\ k' = 0
    /\ UNCHANGED <<core, ran, kern, phase, rep>>

NextIteration ==
    /\ stage = "body" /\ k = Steps(Current, "body")
    /\ iter' = iter + 1 /\ k' = 0
    /\ stage' = IF iter + 1 < Current.loops THEN "body" ELSE "tail"
    /\ UNCHANGED <<core, ran, kern, phase, rep>>

NextRepetition ==
    /\ stage = "tail" /\ k = Steps(Current, "tail")
    /\ rep + 1 < Current.reps
    /\ rep' = rep + 1 /\ stage' = "init" /\ k' = 0
    /\ UNCHANGED <<core, ran, kern, phase, iter>>

NextPhase ==
    /\ stage = "tail" /\ k = Steps(Current, "tail")
    /\ rep + 1 >= Current.reps
    /\ IF phase < Phases(Kernels[kern])
       THEN phase' = phase + 1 /\ stage' = "write"
       ELSE phase' = phase /\ stage' = "idle"
    /\ k' = 0 /\ rep' = 0 /\ iter' = 0
    /\ UNCHANGED <<core, ran, kern>>

Next ==
    \/ \E n \in DOMAIN Kernels : Start(n)
    \/ WriteInstr \/ BeginCommands \/ Command
    \/ EnterLoop \/ NextIteration \/ NextRepetition \/ NextPhase

Spec == Init /\ [][Next]_vars

-----------------------------------------------------------------------------
(* Types: the host never writes beyond the CRF and the core never leaves   *)
(* it.                                                                     *)
TypeOK ==
    /\ DOMAIN crf = 0..(CRF_ENTRIES - 1)
    /\ ctl \in [pc : 0..(CRF_ENTRIES - 1), jmp_act : BOOLEAN,
               jmp_cnt : 0..(IMM1_Limit - 1)]
    /\ kern \in DOMAIN Kernels /\ phase \in DOMAIN Kernels[kern]
    /\ stage \in {"idle", "write"} \cup Parts
    /\ rep \in Nat /\ iter \in Nat /\ k \in Nat

(* Every command finds at the core's pc the instruction for which the host *)
(* issues it, and addresses the bank and the direction that instruction    *)
(* needs (the comments in the execute functions).                          *)
Fits(i, c) ==
    /\ \A b \in Banks : b \in {i.src0, i.src1} => c.cmd = "RD" /\ c.bank = b
    /\ i.dst \in Banks => c.cmd = "WR" /\ c.bank = i.dst

Lockstep ==
    Issuing => LET i == Fetch(crf, ctl.pc)
               IN i = Cmd.instr /\ Fits(i, Cmd)

(* Whenever the host rewrites the program, starts it again or is done, the *)
(* core stands at its first instruction and no jump is half counted.       *)
Home ==
    \/ stage \in {"idle", "write"}
    \/ stage = "init" /\ k = 0
    => ctl.pc = 0 /\ ~ctl.jmp_act

(* A result that is stored has taken every scalar of the phase once and in *)
(* order since its accumulator was loaded (the MACs of matrix              *)
(* multiplication and convolution, through all jumps).                     *)
EveryTermOnce ==
    Issuing /\ Cmd.cmd = "WR" =>
        taken = [n \in 1..Current.terms |-> n - 1]

-----------------------------------------------------------------------------
(* What makes a kernel safe to execute, stated of the kernel alone: the    *)
(* straight line of a phase's commands, each with its instruction, lies in *)
(* the CRF from entry 0 on; only the end of the loop body is a JUMP, it    *)
(* leads back over the body and counts the host's loops; and the line ends *)
(* with an EXIT or with the CRF.                                           *)

Length(p) == Steps(p, "init") + Steps(p, "body") + Steps(p, "tail")
LoopEnd(p) == Steps(p, "init") + Steps(p, "body")
At(p, n) ==
    IF n <= Steps(p, "init") THEN p.init[n]
    ELSE IF n <= LoopEnd(p) THEN p.body[n - Steps(p, "init")]
    ELSE p.tail[n - LoopEnd(p)]

CodeInPlace(p) ==
    /\ p.base \in Nat /\ Lines(p) \in Nat
    /\ p.base + Lines(p) \in Length(p)..CRF_ENTRIES
    /\ \A n \in 1..Length(p) :
           n > p.base => p.code[n - p.base] = At(p, n).instr

LoopCounts(p) ==
    /\ p.loops \in 0..IMM1_Limit
    /\ p.loops = 0 => Steps(p, "body") = 0
    /\ p.loops > 1 => /\ Steps(p, "body") > 0
                      /\ At(p, LoopEnd(p)).instr.imm0 = Steps(p, "body") - 1
                      /\ At(p, LoopEnd(p)).instr.imm1 = p.loops - 1

LineOK(p) ==
    /\ \A part \in Parts : Steps(p, part) \in Nat
    /\ Length(p) \in 1..CRF_ENTRIES
    /\ \A n \in 1..Length(p) :
          LET i == At(p, n).instr
          IN /\ (i.op = "JUMP") <=> (p.loops > 1 /\ n = LoopEnd(p))
             /\ i.op = "EXIT" => n = Length(p)
             /\ Fits(i, At(p, n))
    /\ Length(p) < CRF_ENTRIES => At(p, Length(p)).instr.op = "EXIT"

PhaseOK(p) == p.reps \in Nat /\ LineOK(p) /\ LoopCounts(p) /\ CodeInPlace(p)

(* A phase that writes only a part of its program relies on the phase      *)
(* before it for the rest.                                                 *)
Relies(p, before) ==
    /\ p.base <= Length(before)
    /\ \A n \in 1..Length(p) :
           n <= p.base => At(p, n).instr = At(before, n).instr

WellFormed(kernel) ==
    /\ Phases(kernel) \in Nat \ {0} /\ DOMAIN kernel = 1..Phases(kernel)
    /\ \A n \in DOMAIN kernel : PhaseOK(kernel[n])
    /\ kernel[1].base = 0
    /\ \A n \in DOMAIN kernel :
           n > 1 => Relies(kernel[n], kernel[n - 1])

(* Every kernel a program starts is of that kind: the hypothesis under     *)
(* which Lockstep is proved for kernels of every size.                     *)
StartedWellFormed ==
    stage = "write" /\ phase = 1 /\ k = 0 => WellFormed(Kernels[kern])
=============================================================================
