------------------------------- MODULE Flaky --------------------------------
(***************************************************************************)
(* The flaky-test detector (scripts/flaky.py) and the quarantine it feeds  *)
(* (scripts/flaky_fixture/conftest.py): sessions of Runs runs of a suite,  *)
(* whose tests do as they like, and the file one session leaves for the    *)
(* next.  A test is known by the id that JUnit has for it.                 *)
(***************************************************************************)
EXTENDS Naturals

CONSTANTS
    Tests,
    Excuses,   \* <<q, t>>: a line q of the quarantine marks the test t
    Runs,      \* --runs
    Sessions   \* bound: detections made one after the other

ASSUME FlakyAssumption ==
    /\ Runs \in Nat \ {0} /\ Sessions \in Nat
    /\ Excuses \subseteq Tests \X Tests

VARIABLES
    quarantine,  \* the test ids in quarantine.txt
    session,     \* how many have been started
    run,         \* runs of this one that are in
    seen,        \* the outcomes of each test in this session's JUnit files
    code,        \* exit code, Running before there is one
    truth,       \* history: what each test really did in this session's runs
    measured     \* history: and in those of the last session that reported

flakyVars == <<quarantine, session, run, seen, code, truth, measured>>

Outcomes == {"pass", "fail", "skip"}
Running  == 99

-----------------------------------------------------------------------------
(* The suite: a test passes, fails, is skipped, or is not collected at all.*)

Happening == [Tests -> Outcomes \union {"absent"}]

(* pytest_collection_modifyitems: which tests it marks as quarantined.     *)
(* The id of a line is JUnit's, and the name it is compared with is made   *)
(* of the node id: they are not alike for a method of a class, which no    *)
(* line marks, and a line marks its test's namesake of another folder.     *)
marked(FLAKY_DETECT) ==
    {t \in Tests : FLAKY_DETECT # "1" /\ \E q \in quarantine : <<q, t>> \in Excuses}

(* What JUnit says of it: the failure of a test that is marked is an       *)
(* xfail, which JUnit has as skipped, and its pass is a pass.              *)
junit(t, outcome, FLAKY_DETECT) ==
    IF outcome = "fail" /\ t \in marked(FLAKY_DETECT) THEN "skip" ELSE outcome

-----------------------------------------------------------------------------
(* flaky.py *)

None == [t \in Tests |-> {}]

classify(outcomes) == {t \in Tests : {"pass", "fail"} \subseteq outcomes[t] \ {"skip"}}

always_failing(outcomes) == {t \in Tests : outcomes[t] = {"fail"}}

FlakyInit ==
    /\ quarantine = {} /\ session = 0 /\ run = 0 /\ code = 0
    /\ seen = None /\ truth = None /\ measured = None

Detect ==
    /\ code # Running /\ session < Sessions
    /\ session' = session + 1 /\ run' = 0 /\ code' = Running
    /\ seen' = None /\ truth' = None
    /\ UNCHANGED <<quarantine, measured>>

(* `to` and what one run adds. *)
Adding(to, did) == [t \in Tests |-> to[t] \union ({did[t]} \ {"absent"})]

(* Mutant: the run is started in the detector's own environment. *)
RunUnset ==
    /\ code = Running /\ run < Runs
    /\ run' = run + 1
    /\ \E did \in Happening :
          /\ truth' = Adding(truth, did)
          /\ seen'  = Adding(seen, [t \in Tests |-> junit(t, did[t], "unset")])
    /\ UNCHANGED <<quarantine, session, code, measured>>

(* One run with FLAKY_DETECT=1, red or green, and its JUnit file. *)
Run ==
    /\ code = Running /\ run < Runs
    /\ run' = run + 1
    /\ \E did \in Happening :
          /\ truth' = Adding(truth, did)
          /\ seen'  = Adding(seen, [t \in Tests |-> junit(t, did[t], "1")])
    /\ UNCHANGED <<quarantine, session, code, measured>>

(* A run that ends the session with nothing written: 2 when it left no     *)
(* JUnit file, 1 when its command was not found or its file is cut short,  *)
(* for that is an exception.                                               *)
NoOutcomes ==
    /\ code = Running /\ run < Runs
    /\ code' \in {1, 2}
    /\ UNCHANGED <<quarantine, session, run, seen, truth, measured>>

(* The report, the quarantine file, the exit code. *)
Report ==
    /\ code = Running /\ run = Runs
    /\ quarantine' = classify(seen)
    /\ code' = IF classify(seen) # {} THEN 1 ELSE 0
    /\ measured' = truth
    /\ UNCHANGED <<session, run, seen, truth>>

FlakyNext == Detect \/ Run \/ NoOutcomes \/ Report

FlakySpec == FlakyInit /\ [][FlakyNext]_flakyVars

-----------------------------------------------------------------------------
FlakyTypeOK ==
    /\ quarantine \subseteq Tests
    /\ session \in 0..Sessions /\ run \in 0..Runs /\ code \in {0, 1, 2, Running}
    /\ seen \in [Tests -> SUBSET Outcomes] /\ truth \in [Tests -> SUBSET Outcomes]
    /\ measured \in [Tests -> SUBSET Outcomes]

Reported == session > 0 /\ run = Runs /\ code # Running

(* "A test is flaky when the same code gives it both outcomes"             *)
(* (flaky.py:4), and "a quarantined test still has to be measured"         *)
(* (flaky.py:18-19): whichever tests the file of an earlier session marks  *)
(* when the suite is run, the file has the tests that really did both in   *)
(* the last session that reported, and no other.  When every run of a      *)
(* session is in, its exit code says whether there are any, and no failure *)
(* is lost between its two lists, unless a skip hides that the test never  *)
(* passed (flaky.py:55-75).                                                *)
QuarantineIsMeasured ==
    /\ quarantine = {t \in Tests : "pass" \in measured[t] /\ "fail" \in measured[t]}
    /\ Reported =>
        /\ measured = truth
        /\ code = 1 <=> quarantine # {}
        /\ \A t \in Tests \ (quarantine \union always_failing(seen)) :
              "fail" \in truth[t] => truth[t] = {"fail", "skip"}

(* "Exit 1 when any test is flaky" (flaky.py:19), read as what exit 1      *)
(* means: refuted by a command that is not found (flaky.py:95).            *)
FlakyIsFlaky == session > 0 /\ code = 1 => quarantine # {}

(* Quarantined tests, and no other, cannot fail the build (conftest.py:1): *)
(* refuted for a method of a class and for a namesake, as in Excuses.      *)
QuarantineExcuses == marked("unset") = quarantine

=============================================================================
