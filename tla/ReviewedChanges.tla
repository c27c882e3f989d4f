-------------------------- MODULE ReviewedChanges --------------------------
(***************************************************************************)
(* What lab-09-terraform.yml promises of the environments, runs and jobs   *)
(* left out: each is changed by one reviewed change after the other.  A    *)
(* change is to what main asks for, is reviewed against the environment as *)
(* it is, is carried out on the environment as it was reviewed, and every  *)
(* change reviewed before then is void.  People and dying applies can do   *)
(* what they like, and from then on a change may find something else.      *)
(***************************************************************************)
CONSTANTS
    Env,      \* environments
    Value,    \* what an environment's configuration can say
    First,    \* what the environments are at first
    Half      \* what is there when a change stopped halfway

VARIABLES
    asked,     \* per environment: what main's commits ask for
    real,      \* per environment: what is there
    reviewed,  \* per environment: changes that may still be carried out
    offbook    \* environments changed without a review

vars == <<asked, real, reviewed, offbook>>

Init ==
    /\ asked = [e \in Env |-> {First[e]}]
    /\ real = First
    /\ reviewed = [e \in Env |-> {}]
    /\ offbook = {}

Merge ==
    /\ \E want \in [Env -> Value] : asked' = [e \in Env |-> asked[e] \cup {want[e]}]
    /\ UNCHANGED <<real, reviewed, offbook>>

Review(e) ==
    /\ \E v \in asked[e] :
          reviewed' = [reviewed EXCEPT ![e] = @ \cup {[from |-> real[e], to |-> v]}]
    /\ UNCHANGED <<asked, real, offbook>>

CarryOut(e, change) ==
    /\ e \notin offbook => real[e] = change.from
    /\ real' \in {[real EXCEPT ![e] = change.to], [real EXCEPT ![e] = Half]}
    /\ reviewed' = [reviewed EXCEPT ![e] = {}]
    /\ UNCHANGED <<asked, offbook>>

(* By hand, or an apply that dies: the state may know of it or not. *)
Upset(e) ==
    /\ \E v \in Value \cup {Half} : real' = [real EXCEPT ![e] = v]
    /\ reviewed' \in {reviewed, [reviewed EXCEPT ![e] = {}]}
    /\ offbook' = offbook \cup {e}
    /\ UNCHANGED asked

Next ==
    \/ Merge
    \/ \E e \in Env : \/ Review(e) \/ Upset(e)
                      \/ \E change \in reviewed[e] : CarryOut(e, change)

Spec == Init /\ [][Next]_vars

=============================================================================
