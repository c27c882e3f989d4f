------------------------------ MODULE Releases ------------------------------
(***************************************************************************)
(* What promote-dev.yml, promote.sh, rollback.sh and break-glass.sh        *)
(* promise together of the digests that environments declare, pull         *)
(* requests, branches, runs and their steps left out: a digest             *)
(* enters at Dev once it is published, goes on to an environment that the  *)
(* one before has declared it in, and comes back where it has been; only a *)
(* signed one may go straight to an environment.                           *)
(***************************************************************************)
CONSTANTS
    Env,         \* environments
    Dev,         \* the one digests enter at
    Promotions,  \* <<from, to>>
    Digest,      \* images there may ever be
    First        \* what every environment declares at first

VARIABLES
    published,  \* images in the registry
    signed,     \* and those of them that are signed
    now,        \* per environment: the digest it declares, and by what
    reached     \* per environment: every digest it has declared

vars == <<published, signed, now, reached>>

Init ==
    /\ published = {First} /\ signed = {First}
    /\ now = [e \in Env |-> [digest |-> First, by |-> "initial"]]
    /\ reached = [e \in Env |-> {First}]

Publish(d) ==
    /\ published' = published \union {d}
    /\ UNCHANGED <<signed, now, reached>>

Sign(d) ==
    /\ d \in published /\ signed' = signed \union {d}
    /\ UNCHANGED <<published, now, reached>>

Declare(e, d, how) ==
    /\ now' = [now EXCEPT ![e] = [digest |-> d, by |-> how]]
    /\ reached' = [reached EXCEPT ![e] = @ \union {d}]
    /\ UNCHANGED <<published, signed>>

Enter(d) == d \in published /\ Declare(Dev, d, "promote")

Promote(from, to, d) == d \in reached[from] /\ Declare(to, d, "promote")

Rollback(e, d) == d \in reached[e] /\ Declare(e, d, "rollback")

BreakGlass(e, d) == d \in signed /\ Declare(e, d, "breakglass")

Next ==
    \E d \in Digest :
        \/ Publish(d) \/ Sign(d) \/ Enter(d)
        \/ \E pair \in Promotions : Promote(pair[1], pair[2], d)
        \/ \E e \in Env : Rollback(e, d) \/ BreakGlass(e, d)

Spec == Init /\ [][Next]_vars

=============================================================================
