-------------------------------- MODULE Labs --------------------------------
(***************************************************************************)
(* scripts/labctl.py over the files of one lab: install, reset and status, *)
(* file by file, with a learner who edits between commands, an interrupt   *)
(* that may end a command anywhere, half-way through a copy included, and  *)
(* starters that a git pull changes.                                       *)
(***************************************************************************)
EXTENDS Naturals

CONSTANTS
    Files,      \* how many files lab.yml lists
    MaxPulls    \* bound: new versions of the starters

ASSUME LabsAssumption == Files \in Nat /\ MaxPulls \in Nat

VARIABLES
    starter,    \* the version of each starter copy, or Missing
    target,     \* what is at each real path
    command,    \* the command that runs: [name, next], next the file it is at
    result,     \* how the last one ended
    discarded   \* history: by what the learner's work on each file was lost

labsVars == <<starter, target, command, result, discarded>>

File == 1..Files

(* A version of the starter, whatever a person wrote, a copy that was      *)
(* interrupted, or nothing.                                                *)
Missing == 0
Yours  == MaxPulls + 2
Cut    == MaxPulls + 3

LabsInit ==
    /\ starter = [f \in File |-> 1]
    /\ target = [f \in File |-> Missing]
    /\ command = [name |-> "none", next |-> 1] /\ result = "none"
    /\ discarded = [f \in File |-> "kept"]

-----------------------------------------------------------------------------
(* The learner, and the repository. *)

Edit(f) ==
    /\ command.name = "none" /\ target[f] # Missing
    /\ target' = [target EXCEPT ![f] = Yours]
    /\ UNCHANGED <<starter, command, result, discarded>>

Remove(f) ==
    /\ command.name = "none" /\ target[f] # Missing
    /\ target' = [target EXCEPT ![f] = Missing]
    /\ UNCHANGED <<starter, command, result, discarded>>

Pull(f) ==
    /\ command.name = "none" /\ starter[f] \in 1..MaxPulls
    /\ \E version \in {Missing, starter[f] + 1} : starter' = [starter EXCEPT ![f] = version]
    /\ UNCHANGED <<target, command, result, discarded>>

(* make lab, make reset, or labctl install --force. *)
Invoke(name) ==
    /\ command.name = "none"
    /\ command' = [name |-> name, next |-> 1]
    /\ result' = "none"
    /\ UNCHANGED <<starter, target, discarded>>

-----------------------------------------------------------------------------
(* install(lab, force): reset forces. *)

Stops(how) == command' = [name |-> "none", next |-> 1] /\ result' = how

(* Mutant: only a file that is the starter is left alone. *)
KeepsSame(f) == command.name = "install" /\ target[f] = starter[f]

(* What is there is kept, the starter or not. *)
Keeps(f) == command.name = "install" /\ target[f] # Missing

Copied(f, content) ==
    /\ target' = [target EXCEPT ![f] = content]
    /\ discarded' = [discarded EXCEPT ![f] = IF target[f] = Yours THEN command.name ELSE @]

(* A missing starter ends it: the files before are installed, the rest not.*)
InstallOne(f) ==
    /\ command.name # "none" /\ command.next = f
    /\ IF starter[f] = Missing
       THEN Stops("error") /\ UNCHANGED <<target, discarded>>
       ELSE /\ IF Keeps(f) THEN UNCHANGED <<target, discarded>> ELSE Copied(f, starter[f])
            /\ command' = [command EXCEPT !.next = f + 1] /\ UNCHANGED result
    /\ UNCHANGED starter

Done ==
    /\ command.name # "none" /\ command.next > Files
    /\ Stops("ok")
    /\ UNCHANGED <<starter, target, discarded>>

(* Ctrl-C: copyfile has opened the target for writing, or not yet. *)
Interrupt(f) ==
    /\ command.name # "none" /\ command.next = f
    /\ \/ UNCHANGED <<target, discarded>>
       \/ starter[f] # Missing /\ ~Keeps(f) /\ Copied(f, Cut)
    /\ Stops("interrupted")
    /\ UNCHANGED starter

LabsNext ==
    \/ \E f \in File : Edit(f) \/ Remove(f) \/ Pull(f) \/ InstallOne(f) \/ Interrupt(f)
    \/ \E name \in {"install", "force", "reset"} : Invoke(name)
    \/ Done

LabsSpec == LabsInit /\ [][LabsNext]_labsVars

(* status(): one line of what is said of the lab's files. *)
status(f) ==
    IF target[f] = Missing THEN "not installed"
    ELSE IF target[f] = starter[f] THEN "untouched starter" ELSE "edited"

-----------------------------------------------------------------------------
LabsTypeOK ==
    /\ starter \in [File -> 0..(MaxPulls + 1)]
    /\ target \in [File -> 0..Cut]
    /\ command \in [name : {"none", "install", "force", "reset"}, next : 1..(Files + 1)]
    /\ discarded \in [File -> {"kept", "force", "reset", "install"}]

(* "refusing to clobber your work" (labctl.py:93): whatever was missing or *)
(* interrupted before, and whatever the starters are now, only a reset or  *)
(* --force takes what a person wrote, and status calls nothing untouched   *)
(* that holds work; and a command that gets past a file has left it there. *)
WorkIsKept ==
    /\ \A f \in File : discarded[f] \in {"kept", "force", "reset"}
    /\ \A f \in File : status(f) # "edited" => target[f] # Yours
    /\ \A f \in File : command.name # "none" /\ command.next > f => target[f] # Missing

=============================================================================
