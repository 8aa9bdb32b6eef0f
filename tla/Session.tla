------------------------------ MODULE Session --------------------------------
(***************************************************************************)
(* The life of the emulator as a process (src/src/main.cpp): it starts     *)
(* from a BIOS or from the dump of an earlier process, runs the loop of    *)
(* Cpu, ends by its deadline, by std::exit in the middle of an iteration   *)
(* or by a signal at any point, and may write a dump when it exits.        *)
(*                                                                         *)
(* Of the machine only the clock is kept, how many instructions it has     *)
(* retired since power on, and whether the current one ended a process.    *)
(***************************************************************************)
EXTENDS Integers

CONSTANTS
  ClockLimit,  \* the clock wraps here, 2^64 in the code
  Deadlines,   \* the values of --ticks
  Programs     \* the guest programs: the ticks whose instruction is fatal

ASSUME SessionAssumption ==
  /\ ClockLimit \in Nat /\ ClockLimit >= 2
  /\ Deadlines \subseteq 0..(ClockLimit - 2)
  /\ Programs \subseteq SUBSET Nat

Clock == 0..(ClockLimit - 1)

Machine == [clock : Clock, steps : Nat, faulted : BOOLEAN]

(* A file dump@<clock>, if there is one, holds a machine or the first part *)
(* of one.                                                                 *)
File == [kind : {"none", "truncated", "whole"}, of : Machine]

VARIABLES
  fatal,    \* the program of the guest
  phase,    \* "off", "loading", "running" or "exiting"
  source,   \* the file the process starts from: the BIOS or a dump
  until, dump_on_exit,
  machine,
  start,    \* history: the steps of the machine when the run began
  disk      \* the dump files, by the clock in their name

vars == <<fatal, phase, source, until, dump_on_exit, machine, start, disk>>

Bios == -1

PowerOn == [clock |-> 0, steps |-> 0, faulted |-> FALSE]

NoFile == [kind |-> "none", of |-> PowerOn]
Truncated == [kind |-> "truncated", of |-> PowerOn]
Whole(m) == [kind |-> "whole", of |-> m]

Dumps == {k \in Clock : disk[k].kind = "whole"}

(* Faulty variant: a clock that does not wrap.                             *)
Beyond(c) == c + 1

Succ(c) == IF c = ClockLimit - 1 THEN 0 ELSE c + 1

Pred(c) == IF c = 0 THEN ClockLimit - 1 ELSE c - 1
-----------------------------------------------------------------------------
(* The options are parsed: the input file has to exist.  The board is a    *)
(* static object, fresh in every process.                                  *)
Launch ==
  /\ phase = "off"
  /\ source' \in {Bios} \cup {k \in Clock : disk[k].kind # "none"}
  /\ until' \in Deadlines
  /\ dump_on_exit' \in BOOLEAN
  /\ machine' = PowerOn
  /\ phase' = "loading"
  /\ UNCHANGED <<fatal, start, disk>>

(* main returns 1 when the file cannot be opened, load_bios exits with 2   *)
(* when it is too short; the handler of exit is registered already.        *)
LoadFails ==
  /\ phase = "loading"
  /\ phase' = "exiting"
  /\ UNCHANGED <<fatal, source, until, dump_on_exit, machine, start, disk>>

LoadBios ==
  /\ phase = "loading" /\ source = Bios
  /\ phase' = "running"
  /\ start' = 0
  /\ UNCHANGED <<fatal, source, until, dump_on_exit, machine, disk>>

(* Faulty variants: the clock is restored as it was dumped; the end of the *)
(* file goes unnoticed and the rest of the machine is what it was.         *)
RestoreAsDumped ==
  /\ phase = "loading" /\ source # Bios
  /\ IF source \in Dumps
     THEN /\ machine' = disk[source].of
          /\ start' = disk[source].of.steps
          /\ phase' = "running"
     ELSE phase' = "off" /\ UNCHANGED <<machine, start>>
  /\ UNCHANGED <<fatal, source, until, dump_on_exit, disk>>

RestoreTruncated ==
  /\ phase = "loading" /\ source # Bios
  /\ machine' = IF source \in Dumps
                THEN [disk[source].of EXCEPT !.clock = Pred(@)]
                ELSE [PowerOn EXCEPT !.clock = Pred(source),
                                     !.steps = Pred(source)]
  /\ start' = machine'.steps
  /\ phase' = "running"
  /\ UNCHANGED <<fatal, source, until, dump_on_exit, disk>>

(* restore_board: the end of a truncated file throws, and nothing catches. *)
Restore ==
  /\ phase = "loading" /\ source # Bios
  /\ IF source \in Dumps
     THEN /\ machine' = [disk[source].of EXCEPT !.clock = Pred(@)]
          /\ start' = disk[source].of.steps
          /\ phase' = "running"
     ELSE phase' = "off" /\ UNCHANGED <<machine, start>>
  /\ UNCHANGED <<fatal, source, until, dump_on_exit, disk>>
-----------------------------------------------------------------------------
(* Faulty variant: one tick beyond the deadline.                           *)
TickLate ==
  /\ phase = "running" /\ machine.clock <= until
  /\ machine.steps \notin fatal
  /\ machine' = [machine EXCEPT !.clock = Succ(@), !.steps = @ + 1]
  /\ UNCHANGED <<fatal, phase, source, until, dump_on_exit, start, disk>>

(* One iteration of mips::run, which retires an instruction.               *)
Tick ==
  /\ phase = "running" /\ machine.clock < until
  /\ machine.steps \notin fatal
  /\ machine' = [machine EXCEPT !.clock = Succ(@), !.steps = @ + 1]
  /\ UNCHANGED <<fatal, phase, source, until, dump_on_exit, start, disk>>

(* Faulty variants: the fatal instruction retires before the process       *)
(* exits; the process waits at it.                                         *)
FaultRetires ==
  /\ phase = "running" /\ machine.clock < until
  /\ machine.steps \in fatal
  /\ machine' = [clock |-> Succ(machine.clock), steps |-> machine.steps + 1,
                 faulted |-> TRUE]
  /\ phase' = "exiting"
  /\ UNCHANGED <<fatal, source, until, dump_on_exit, start, disk>>

FaultWaits ==
  /\ phase = "running" /\ machine.clock < until
  /\ machine.steps \in fatal
  /\ UNCHANGED vars

(* std::exit in the middle of the iteration: the clock has moved, the      *)
(* instruction and its operands have not.                                  *)
Fault ==
  /\ phase = "running" /\ machine.clock < until
  /\ machine.steps \in fatal
  /\ machine' = [machine EXCEPT !.clock = Succ(@), !.faulted = TRUE]
  /\ phase' = "exiting"
  /\ UNCHANGED <<fatal, source, until, dump_on_exit, start, disk>>

(* The condition clock++ < until fails and counts once more.               *)
RunOut ==
  /\ phase = "running" /\ machine.clock >= until
  /\ machine' = [machine EXCEPT !.clock = Succ(@)]
  /\ phase' = "exiting"
  /\ UNCHANGED <<fatal, source, until, dump_on_exit, start, disk>>
-----------------------------------------------------------------------------
(* dump_on_exit: the file takes the name of the clock and replaces one of  *)
(* that name.  A full disk throws in the handler and leaves what was       *)
(* written; a file that cannot be opened is lost without a word, because   *)
(* failbit is not among the exceptions.                                    *)
Exit ==
  /\ phase = "exiting"
  /\ phase' = "off"
  /\ \/ UNCHANGED disk
     \/ /\ dump_on_exit
        /\ \E file \in {Whole(machine), Truncated} :
             disk' = [disk EXCEPT ![machine.clock] = file]
  /\ UNCHANGED <<fatal, source, until, dump_on_exit, machine, start>>

(* A signal, a failed assertion, an exception: no handler runs.            *)
Killed ==
  /\ phase \in {"loading", "running"}
  /\ phase' = "off"
  /\ UNCHANGED <<fatal, source, until, dump_on_exit, machine, start, disk>>

Init ==
  /\ fatal \in Programs
  /\ phase = "off"
  /\ source = Bios /\ until = 0 /\ dump_on_exit = FALSE
  /\ machine = PowerOn /\ start = 0
  /\ disk = [k \in Clock |-> NoFile]

(* What the process does of its own.                                       *)
Process == LoadFails \/ LoadBios \/ Restore \/ Tick \/ Fault \/ RunOut \/ Exit

Next == Launch \/ Process \/ Killed

(* The one thread of a process runs as long as the process does; nobody    *)
(* has to launch one.                                                      *)
Spec == Init /\ [][Next]_vars /\ WF_vars(Process)
-----------------------------------------------------------------------------
(* Properties                                                              *)

TypeOK ==
  /\ fatal \in Programs
  /\ phase \in {"off", "loading", "running", "exiting"}
  /\ source \in {Bios} \cup Clock
  /\ until \in 0..(ClockLimit - 2) /\ dump_on_exit \in BOOLEAN
  /\ machine \in Machine /\ start \in Nat
  /\ disk \in [Clock -> File]

(* The dump named after a clock holds the machine that has retired one     *)
(* instruction less, and a running machine one as many as its clock says,  *)
(* through any chain of runs, faults, kills and restores.  The exception   *)
(* is the dump of a process that never ran: its clock is 0, and restored   *)
(* it is the highest there is.                                             *)
TicksAccounted ==
  /\ \A k \in Dumps :
       /\ disk[k].of.clock = k
       /\ disk[k].of.steps = IF k = 0 THEN 0 ELSE k - 1
  /\ phase = "running" =>
       \/ machine.clock = machine.steps
       \/ machine.clock = ClockLimit - 1 /\ machine.steps = 0 /\ source = 0

(* No process simulates more instructions than its ticks, however old the  *)
(* machine it restored; and one that starts from the BIOS and neither      *)
(* fails to load it nor dies of an instruction simulates as many.          *)
DeadlineKept ==
  /\ phase = "running" => machine.steps - start <= until
  /\ phase = "exiting" /\ source = Bios /\ machine.clock > 0
       /\ ~machine.faulted => machine.steps = until

(* A machine that died of an instruction dies of it again: no restored     *)
(* dump of it gets past the instruction, however often it is tried.        *)
FatalStaysFatal ==
  [][phase = "running" /\ machine.faulted
       => machine'.steps = machine.steps]_vars

(* Every process ends, whatever the guest program, the state of the dump   *)
(* it starts from and the deadline: also one restored beyond its deadline. *)
ProcessEnds == phase # "off" ~> phase = "off"

SavedTicks == {disk[k].of.steps : k \in Dumps}

C == INSTANCE Checkpoints WITH tick <- machine.steps, saved <- SavedTicks

(* Processes, dumps and crashes implement a machine with checkpoints.      *)
ImplementsCheckpoints == C!Spec
=============================================================================
