---------------------------- MODULE SessionProofs ----------------------------
(* Theorems about Session, for every width of the clock, every set of      *)
(* deadlines and every program.                                            *)
EXTENDS Session, TLAPS

(* A machine that is not running has run once more than it retired, unless *)
(* its process never got to run.                                           *)
OneBehind(m) == m.steps = IF m.clock = 0 THEN 0 ELSE m.clock - 1

(* Only a fatal instruction faults.                                        *)
FaultsAtFatal(m) == m.faulted => m.steps \in fatal

(* The machine in each phase of its process.                               *)
PhaseInv ==
  /\ phase = "loading" => machine = PowerOn
  /\ phase = "running" =>
       \/ machine.clock = machine.steps /\ machine.clock < ClockLimit - 1
       \/ machine.clock = ClockLimit - 1 /\ machine.steps = 0 /\ source = 0
  /\ phase = "running" /\ source = Bios => start = 0
  /\ phase = "exiting" => OneBehind(machine)

DumpInv ==
  \A k \in Dumps : disk[k].of.clock = k /\ OneBehind(disk[k].of)

FaultInv ==
  FaultsAtFatal(machine) /\ \A k \in Dumps : FaultsAtFatal(disk[k].of)

SessionInv == TypeOK /\ PhaseInv /\ DumpInv /\ FaultInv /\ DeadlineKept

(* Processes start without dumps and with a machine that has not run.      *)
LEMMA SessionInit == Init => SessionInv
<1> SUFFICES ASSUME Init PROVE SessionInv
  OBVIOUS
<1>1. PowerOn \in Machine
  BY SessionAssumption DEF PowerOn, Machine, Clock
<1>2. Dumps = {}
  BY DEF Dumps, Init, NoFile
<1>3. TypeOK
  <2>1. 0 \in 0..(ClockLimit - 2)
    BY SessionAssumption
  <2>2. NoFile \in File
    BY <1>1 DEF NoFile, File
  <2>3. disk \in [Clock -> File]
    BY <2>2 DEF Init
  <2>4. QED
    BY <1>1, <2>1, <2>3 DEF TypeOK, Init
<1>4. QED
  BY <1>2, <1>3 DEF SessionInv, PhaseInv, DumpInv, FaultInv, FaultsAtFatal,
     DeadlineKept, Init, PowerOn

(* What the clock counts stays a clock.                                    *)
LEMMA ClockSteps ==
  ASSUME NEW c \in Clock
  PROVE  /\ Succ(c) \in Clock /\ Pred(c) \in Clock
         /\ c < ClockLimit - 1 => Succ(c) = c + 1
         /\ Succ(ClockLimit - 1) = 0
         /\ c # 0 => Pred(c) = c - 1
         /\ Pred(0) = ClockLimit - 1
  BY SessionAssumption DEF Clock, Succ, Pred

(* A step that leaves the disk alone leaves the dumps alone.               *)
LEMMA SameDumps ==
  ASSUME SessionInv, UNCHANGED <<fatal, disk>>
  PROVE  /\ Dumps' = Dumps
         /\ DumpInv'
         /\ \A k \in Dumps' : FaultsAtFatal(disk[k].of)'
<1>1. Dumps' = Dumps /\ disk' = disk /\ fatal' = fatal
  BY DEF Dumps
<1>2. DumpInv'
  BY <1>1 DEF SessionInv, DumpInv, OneBehind
<1>3. \A k \in Dumps' : FaultsAtFatal(disk[k].of)'
  BY <1>1 DEF SessionInv, FaultInv, FaultsAtFatal
<1>4. QED
  BY <1>1, <1>2, <1>3

(* Every step keeps the machine and the dumps accounted for.               *)
LEMMA SessionStep == SessionInv /\ [Next]_vars => SessionInv'
<1> SUFFICES ASSUME SessionInv, [Next]_vars PROVE SessionInv'
  OBVIOUS
<1> USE DEF SessionInv
<1>0. PowerOn \in Machine /\ machine.clock \in Clock
  BY SessionAssumption DEF PowerOn, Machine, Clock, TypeOK
<1>1. CASE Launch
  <2>1. UNCHANGED <<fatal, disk>> /\ machine' = PowerOn /\ phase' = "loading"
    BY <1>1 DEF Launch
  <2>2. TypeOK'
    BY <1>0, <1>1, SessionAssumption DEF Launch, TypeOK, Clock
  <2>3. PhaseInv' /\ FaultsAtFatal(machine)' /\ DeadlineKept'
    BY <2>1 DEF PhaseInv, FaultsAtFatal, DeadlineKept, PowerOn
  <2>4. QED
    BY <2>1, <2>2, <2>3, SameDumps DEF FaultInv
<1>2. CASE LoadFails
  <2>1. TypeOK' /\ UNCHANGED <<fatal, disk>>
    BY <1>2 DEF LoadFails, TypeOK
  <2>2. PhaseInv' /\ FaultsAtFatal(machine)' /\ DeadlineKept'
    BY <1>2 DEF LoadFails, PhaseInv, FaultsAtFatal, DeadlineKept, OneBehind,
       PowerOn, TypeOK
  <2>3. QED
    BY <2>1, <2>2, SameDumps DEF FaultInv
<1>3. CASE LoadBios
  <2>1. TypeOK' /\ UNCHANGED <<fatal, disk>>
    BY <1>3 DEF LoadBios, TypeOK
  <2>2. PhaseInv' /\ FaultsAtFatal(machine)' /\ DeadlineKept'
    BY <1>3, SessionAssumption DEF LoadBios, PhaseInv, FaultsAtFatal,
       DeadlineKept, PowerOn, TypeOK
  <2>3. QED
    BY <2>1, <2>2, SameDumps DEF FaultInv
<1>4. CASE Restore
  <2>1. CASE source \in Dumps
    <3> DEFINE m == disk[source].of
    <3>1. /\ machine' = [m EXCEPT !.clock = Pred(@)]
          /\ start' = m.steps /\ phase' = "running"
          /\ UNCHANGED <<fatal, source, until, dump_on_exit, disk>>
      BY <1>4, <2>1 DEF Restore
    <3>2. m \in Machine /\ m.clock = source /\ OneBehind(m)
          /\ FaultsAtFatal(m) /\ source \in Clock
      BY <2>1 DEF TypeOK, File, Dumps, DumpInv, FaultInv
    <3>3. /\ machine' \in Machine
          /\ machine'.clock = Pred(m.clock) /\ machine'.steps = m.steps
          /\ machine'.faulted = m.faulted
      BY <3>1, <3>2, ClockSteps DEF Machine
    <3>4. TypeOK'
      BY <3>1, <3>2, <3>3 DEF TypeOK, Machine
    <3>5. PhaseInv'
      BY <3>1, <3>2, <3>3, ClockSteps, SessionAssumption
      DEF PhaseInv, OneBehind, Clock, Bios
    <3>6. FaultsAtFatal(machine)' /\ DeadlineKept'
      BY <3>1, <3>2, <3>3, SessionAssumption
      DEF FaultsAtFatal, DeadlineKept, Machine, TypeOK
    <3>7. QED
      BY <3>1, <3>4, <3>5, <3>6, SameDumps DEF FaultInv
  <2>2. CASE source \notin Dumps
    <3>1. /\ phase' = "off"
          /\ UNCHANGED <<machine, start, fatal, source, until, dump_on_exit,
                         disk>>
      BY <1>4, <2>2 DEF Restore
    <3>2. TypeOK' /\ PhaseInv' /\ FaultsAtFatal(machine)' /\ DeadlineKept'
      BY <3>1 DEF TypeOK, PhaseInv, FaultInv, FaultsAtFatal, DeadlineKept
    <3>3. QED
      BY <3>1, <3>2, SameDumps DEF FaultInv
  <2>3. QED
    BY <2>1, <2>2
<1>5. CASE Tick
  <2>1. /\ machine.clock = machine.steps /\ machine.clock < until
        /\ until <= ClockLimit - 2 /\ phase = "running"
    BY <1>5, SessionAssumption DEF Tick, PhaseInv, TypeOK
  <2>0. /\ Succ(machine.clock) = machine.clock + 1
        /\ machine.clock + 1 \in Clock
    <3>1. machine.clock \in Nat /\ until \in Nat
      BY <1>0, SessionAssumption DEF Clock, TypeOK
    <3>2. machine.clock < ClockLimit - 1
      BY <2>1, <3>1, SessionAssumption
    <3>3. machine.clock + 1 \in Clock
      BY <3>1, <3>2, SessionAssumption DEF Clock
    <3>4. QED
      BY <1>0, <3>2, <3>3, ClockSteps
  <2>2. /\ machine' = [machine EXCEPT !.clock = machine.clock + 1,
                                      !.steps = machine.steps + 1]
        /\ machine.steps \notin fatal
        /\ UNCHANGED <<fatal, phase, source, until, dump_on_exit, start, disk>>
    BY <1>5, <2>0 DEF Tick
  <2>3. /\ machine' \in Machine
        /\ machine'.clock = machine.clock + 1
        /\ machine'.steps = machine.steps + 1
        /\ machine'.faulted = machine.faulted
    <3>1. machine \in [clock : Clock, steps : Nat, faulted : BOOLEAN]
      BY DEF TypeOK, Machine
    <3>2. /\ machine' \in [clock : Clock, steps : Nat, faulted : BOOLEAN]
          /\ machine'.clock = machine.clock + 1
          /\ machine'.steps = machine.steps + 1
          /\ machine'.faulted = machine.faulted
      <4>1. machine.steps + 1 \in Nat
        BY <3>1
      <4>2. QED
        BY <2>0, <2>2, <3>1, <4>1
    <3>3. QED
      BY <3>2 DEF Machine
  <2>4. TypeOK'
    BY <2>2, <2>3 DEF TypeOK
  <2>5. PhaseInv'
    BY <1>0, <2>1, <2>2, <2>3, SessionAssumption DEF PhaseInv, Clock, TypeOK
  <2>6. FaultsAtFatal(machine)' /\ DeadlineKept'
    BY <1>0, <2>1, <2>2, <2>3, SessionAssumption
    DEF FaultInv, FaultsAtFatal, DeadlineKept, Clock, TypeOK, Machine
  <2>7. QED
    BY <2>2, <2>4, <2>5, <2>6, SameDumps DEF FaultInv
<1>6. CASE Fault
  <2>1. /\ machine.clock = machine.steps /\ machine.clock < until
        /\ until <= ClockLimit - 2 /\ machine.steps \in fatal
    BY <1>6, SessionAssumption DEF Fault, PhaseInv, TypeOK
  <2>0. /\ Succ(machine.clock) = machine.clock + 1
        /\ machine.clock + 1 \in Clock
    <3>1. machine.clock \in Nat /\ until \in Nat
      BY <1>0, SessionAssumption DEF Clock, TypeOK
    <3>2. machine.clock < ClockLimit - 1
      BY <2>1, <3>1, SessionAssumption
    <3>3. machine.clock + 1 \in Clock
      BY <3>1, <3>2, SessionAssumption DEF Clock
    <3>4. QED
      BY <1>0, <3>2, <3>3, ClockSteps
  <2>2. /\ machine' = [machine EXCEPT !.clock = machine.clock + 1,
                                      !.faulted = TRUE]
        /\ phase' = "exiting"
        /\ UNCHANGED <<fatal, source, until, dump_on_exit, start, disk>>
    BY <1>6, <2>0 DEF Fault
  <2>3. /\ machine' \in Machine
        /\ machine'.clock = machine.clock + 1
        /\ machine'.steps = machine.steps
        /\ machine'.faulted
    <3>1. machine \in [clock : Clock, steps : Nat, faulted : BOOLEAN]
      BY DEF TypeOK, Machine
    <3>3. /\ machine' \in [clock : Clock, steps : Nat, faulted : BOOLEAN]
          /\ machine'.clock = machine.clock + 1
          /\ machine'.steps = machine.steps
          /\ machine'.faulted = TRUE
      BY <2>0, <2>2, <3>1
    <3>4. QED
      BY <3>3 DEF Machine
  <2>4. TypeOK'
    BY <2>2, <2>3 DEF TypeOK
  <2>5. PhaseInv'
    BY <1>0, <2>1, <2>2, <2>3, SessionAssumption
    DEF PhaseInv, OneBehind, Clock, TypeOK
  <2>6. FaultsAtFatal(machine)' /\ DeadlineKept'
    BY <2>1, <2>2, <2>3, SessionAssumption
    DEF FaultsAtFatal, DeadlineKept, Machine
  <2>7. QED
    BY <2>2, <2>4, <2>5, <2>6, SameDumps DEF FaultInv
<1>7. CASE RunOut
  <2>1. /\ machine' = [machine EXCEPT !.clock = Succ(machine.clock)]
        /\ phase = "running" /\ phase' = "exiting" /\ machine.clock >= until
        /\ UNCHANGED <<fatal, source, until, dump_on_exit, start, disk>>
    BY <1>7 DEF RunOut
  <2>2. /\ machine' \in Machine
        /\ machine'.clock = Succ(machine.clock)
        /\ machine'.steps = machine.steps
        /\ machine'.faulted = machine.faulted
    BY <1>0, <2>1, ClockSteps DEF Machine, TypeOK
  <2>3. TypeOK'
    BY <2>1, <2>2 DEF TypeOK
  <2>4. PhaseInv'
    BY <1>0, <2>1, <2>2, ClockSteps, SessionAssumption
    DEF PhaseInv, OneBehind, Clock
  <2>5. FaultsAtFatal(machine)' /\ DeadlineKept'
    <3>1. FaultsAtFatal(machine)'
      BY <2>1, <2>2 DEF FaultInv, FaultsAtFatal
    <3>2. source = Bios => machine.clock = machine.steps /\ start = 0
      BY <2>1 DEF PhaseInv, Bios
    <3>3. source = Bios => machine.steps <= until /\ machine.steps >= until
      BY <1>0, <2>1, <3>2, SessionAssumption
      DEF DeadlineKept, TypeOK, Machine
    <3>4. source = Bios => machine.steps = until
      BY <3>3, SessionAssumption DEF TypeOK, Machine
    <3>5. QED
      BY <2>1, <2>2, <3>1, <3>4 DEF DeadlineKept
  <2>6. QED
    BY <2>1, <2>3, <2>4, <2>5, SameDumps DEF FaultInv
<1>8. CASE Exit
  <2>1. /\ phase = "exiting" /\ phase' = "off"
        /\ UNCHANGED <<fatal, source, until, dump_on_exit, machine, start>>
    BY <1>8 DEF Exit
  <2>2. PhaseInv' /\ FaultsAtFatal(machine)' /\ DeadlineKept'
    BY <2>1 DEF PhaseInv, FaultInv, FaultsAtFatal, DeadlineKept
  <2>3. CASE UNCHANGED disk
    <3>1. TypeOK'
      BY <2>1, <2>3 DEF TypeOK
    <3>2. QED
      BY <2>1, <2>2, <2>3, <3>1, SameDumps DEF FaultInv
  <2>4. ASSUME NEW file \in {Whole(machine), Truncated},
               disk' = [disk EXCEPT ![machine.clock] = file]
        PROVE  SessionInv'
    <3>1. file \in File
      BY <1>0, <2>4 DEF File, Whole, Truncated, TypeOK
    <3>2. TypeOK'
      BY <1>0, <2>1, <2>4, <3>1 DEF TypeOK
    <3>3. ASSUME NEW k \in Dumps'
          PROVE  \/ k \in Dumps /\ disk'[k] = disk[k]
                 \/ k = machine.clock /\ disk'[k].of = machine
      BY <1>0, <2>4 DEF Dumps, Truncated, Whole, TypeOK
    <3>4. DumpInv'
      BY <2>1, <3>3 DEF DumpInv, PhaseInv, OneBehind
    <3>5. \A k \in Dumps' : FaultsAtFatal(disk[k].of)'
      BY <2>1, <3>3 DEF FaultInv, FaultsAtFatal
    <3>6. QED
      BY <2>2, <3>2, <3>4, <3>5 DEF FaultInv
  <2>5. QED
    BY <1>8, <2>3, <2>4 DEF Exit
<1>9. CASE Killed
  <2>1. /\ phase' = "off"
        /\ UNCHANGED <<machine, start, fatal, source, until, dump_on_exit, disk>>
    BY <1>9 DEF Killed
  <2>2. TypeOK' /\ PhaseInv' /\ FaultsAtFatal(machine)' /\ DeadlineKept'
    BY <2>1 DEF TypeOK, PhaseInv, FaultInv, FaultsAtFatal, DeadlineKept
  <2>3. QED
    BY <2>1, <2>2, SameDumps DEF FaultInv
<1>10. CASE UNCHANGED vars
  <2>1. TypeOK' /\ PhaseInv' /\ FaultsAtFatal(machine)' /\ DeadlineKept'
    BY <1>10 DEF vars, TypeOK, PhaseInv, FaultInv, FaultsAtFatal, DeadlineKept,
       OneBehind
  <2>2. QED
    BY <1>10, <2>1, SameDumps DEF FaultInv, vars
<1>11. QED
  BY <1>1, <1>2, <1>3, <1>4, <1>5, <1>6, <1>7, <1>8, <1>9, <1>10 DEF Next, Process

(* The inductive invariant holds in every chain of processes.              *)
THEOREM SessionCorrect == Spec => []SessionInv
  BY SessionInit, SessionStep, PTL DEF Spec

(* The types of Session, for every clock, deadline and program.            *)
THEOREM TypeCorrect == Spec => []TypeOK
  BY SessionCorrect, PTL DEF SessionInv

(* Ticks are counted once through any chain of runs, dumps and crashes.    *)
THEOREM TicksAccountedCorrect == Spec => []TicksAccounted
<1>1. SessionInv => TicksAccounted
  BY DEF SessionInv, TicksAccounted, PhaseInv, DumpInv, OneBehind, Dumps
<1>2. QED
  BY <1>1, SessionCorrect, PTL

(* No process simulates more instructions than its ticks, and none that    *)
(* starts from the BIOS and ends by its deadline simulates fewer.          *)
THEOREM DeadlineKeptCorrect == Spec => []DeadlineKept
  BY SessionCorrect, PTL DEF SessionInv

(* A machine that died of an instruction never gets past it.               *)
THEOREM FatalStaysFatalCorrect == Spec => FatalStaysFatal
<1>1. SessionInv /\ [Next]_vars
        => [phase = "running" /\ machine.faulted
              => machine'.steps = machine.steps]_vars
  <2> SUFFICES ASSUME SessionInv, Next, phase = "running",
                      machine.faulted
               PROVE  machine'.steps = machine.steps
    OBVIOUS
  <2>1. machine.steps \in fatal /\ machine \in Machine
    BY DEF SessionInv, FaultInv, FaultsAtFatal, TypeOK
  <2>2. QED
    BY <2>1 DEF Next, Process, Launch, LoadFails, LoadBios, Restore, Tick, Fault,
       RunOut, Exit, Killed, Machine
<1>2. QED
  BY <1>1, SessionCorrect, PTL DEF Spec, FatalStaysFatal

(* Unless a dump is written, the saved ticks stay.                         *)
LEMMA SavedUnchanged == UNCHANGED disk => UNCHANGED SavedTicks
  BY DEF SavedTicks, Dumps

(* Every step of the processes is a step of the machine with checkpoints,  *)
(* or leaves it alone.                                                     *)
LEMMA CheckpointStep ==
  SessionInv /\ [Next]_vars => [C!Next]_<<machine.steps, SavedTicks>>
<1> SUFFICES ASSUME SessionInv, [Next]_vars
             PROVE  [C!Next]_<<machine.steps, SavedTicks>>
  OBVIOUS
<1>0. machine \in Machine
  BY DEF SessionInv, TypeOK
<1>1. CASE Launch
  BY <1>1, SavedUnchanged DEF Launch, PowerOn, C!Next, C!Resume
<1>2. CASE LoadFails \/ LoadBios \/ Killed \/ UNCHANGED vars
  BY <1>2, SavedUnchanged DEF LoadFails, LoadBios, Killed, vars
<1>3. CASE Restore
  <2>1. CASE source \in Dumps
    <3>1. disk[source].of \in Machine
      BY <2>1 DEF SessionInv, TypeOK, File, Dumps
    <3>2. machine'.steps = disk[source].of.steps /\ UNCHANGED disk
      BY <1>3, <2>1, <3>1 DEF Restore, Machine
    <3>3. machine'.steps \in SavedTicks
      BY <2>1, <3>2 DEF SavedTicks
    <3>4. QED
      BY <3>2, <3>3, SavedUnchanged DEF C!Next, C!Resume
  <2>2. CASE source \notin Dumps
    BY <1>3, <2>2, SavedUnchanged DEF Restore
  <2>3. QED
    BY <2>1, <2>2
<1>4. CASE Tick
  BY <1>0, <1>4, SavedUnchanged DEF Tick, Machine, C!Next, C!Advance
<1>5. CASE Fault \/ RunOut
  BY <1>0, <1>5, SavedUnchanged DEF Fault, RunOut, Machine
<1>6. CASE Exit
  <2>1. UNCHANGED machine
    BY <1>6 DEF Exit
  <2>2. CASE UNCHANGED disk
    BY <2>1, <2>2, SavedUnchanged
  <2>3. ASSUME NEW file \in {Whole(machine), Truncated},
               disk' = [disk EXCEPT ![machine.clock] = file]
        PROVE  SavedTicks' \subseteq SavedTicks \cup {machine.steps}
    <3>1. ASSUME NEW k \in Dumps'
          PROVE  \/ k \in Dumps /\ disk'[k] = disk[k]
                 \/ disk'[k].of = machine
      BY <1>0, <2>3 DEF Dumps, Truncated, Whole, SessionInv, TypeOK
    <3>2. QED
      BY <3>1 DEF SavedTicks
  <2>4. QED
    BY <1>6, <2>1, <2>2, <2>3 DEF Exit, C!Next, C!Save
<1>7. QED
  BY <1>1, <1>2, <1>3, <1>4, <1>5, <1>6 DEF Next, Process

(* Processes that dump, crash and restore implement the machine with       *)
(* checkpoints: no instruction is skipped, none is invented.               *)
THEOREM CheckpointsImplemented == Spec => ImplementsCheckpoints
<1>1. Init => C!Init
  BY DEF Init, C!Init, PowerOn, SavedTicks, Dumps, NoFile
<1>2. QED
  BY <1>1, CheckpointStep, SessionCorrect, PTL
  DEF Spec, ImplementsCheckpoints, C!Spec
=============================================================================
