------------------------------ MODULE Terraform ------------------------------
(***************************************************************************)
(* .github/workflows/lab-09-terraform.yml on main: every push (or dispatch)*)
(* is a run that plans each environment, applies the nonprod ones, and     *)
(* after them, within prod's error budget and with a person's approval,    *)
(* prod.  Runs overlap: only the apply jobs of one environment exclude     *)
(* each other.  An apply job applies the plan its run saved.               *)
(***************************************************************************)
EXTENDS Integers, Sequences

CONSTANTS
    Env, Prod,
    Value,         \* what an environment's configuration can say
    First,         \* what the environments are at first
    Half,          \* what AWS holds after an apply that stopped halfway
    MaxMerges,     \* bound: pushes to main
    MaxRuns,       \* bound: runs, dispatched ones included
    MaxUpsets      \* bound: changes by hand, apply jobs that die, and times
                   \* the error budget is spent or recovers

ASSUME TerraformAssumption ==
    /\ Prod \in Env
    /\ First \in [Env -> Value]
    /\ Half \notin Value
    /\ MaxMerges \in Nat /\ MaxRuns \in Nat /\ MaxUpsets \in Nat

Nonprod == Env \ {Prod}

VARIABLES
    main,       \* commits: what each environment should be, and the
                \* reliability-fix label of the commit's pull request
    runs,       \* the runs, oldest first
    aws,        \* per environment: state serial, state lock, the resources
    spent,      \* prod's error budget is spent
    offbook,    \* history: environments changed without the state knowing
    upsets

vars == <<main, runs, aws, spent, offbook, upsets>>

Commit == [want : [Env -> Value], fix : BOOLEAN]
Plan   == [is : {"todo", "ok", "failed"}, serial : Nat, seen : Value \cup {Half}]
Job    == {"needs", "none", "queued", "running", "applying", "ok", "failed", "cancelled"}
Run    == [commit : 1..(MaxMerges + 1), plan : [Env -> Plan],
           gate : {"todo", "on", "off"}, budget : {"todo", "ok", "no"}, apply : [Env -> Job]]

TypeOK ==
    /\ main \in Seq(Commit) /\ Len(main) \in 1..(MaxMerges + 1)
    /\ runs \in Seq(Run) /\ Len(runs) <= MaxRuns
    /\ aws \in [Env -> [serial : Nat, locked : BOOLEAN, real : Value \cup {Half}]]
    /\ spent \in BOOLEAN
    /\ offbook \subseteq Env
    /\ upsets \in 0..MaxUpsets

Init ==
    /\ main = <<[want |-> First, fix |-> FALSE]>>
    /\ aws = [e \in Env |-> [serial |-> 0, locked |-> FALSE, real |-> First[e]]]
    /\ runs = <<>>
    /\ spent = FALSE
    /\ offbook = {}
    /\ upsets = 0

(* Mutant: the jobs check out main, and not their run's commit. *)
WantLast(r, e) == main[Len(main)].want[e]

Want(r, e)    == main[runs[r].commit].want[e]
Planned(r)    == \A e \in Env : runs[r].plan[e].is = "ok"
PlansOver(r)  == \A e \in Env : runs[r].plan[e].is # "todo"
Changes(r, e) == runs[r].plan[e].seen # Want(r, e)

-----------------------------------------------------------------------------
(* What happens around the pipeline. *)

NewRun(c) ==
    [commit |-> c,
     plan |-> [e \in Env |-> [is |-> "todo", serial |-> 0, seen |-> Half]],
     gate |-> "todo", budget |-> "todo", apply |-> [e \in Env |-> "needs"]]

(* A push: its run has a concurrency group of its own. *)
Merge ==
    /\ Len(main) <= MaxMerges /\ Len(runs) < MaxRuns
    /\ \E w \in [Env -> Value], f \in BOOLEAN :
          /\ w # main[Len(main)].want
          /\ main' = Append(main, [want |-> w, fix |-> f])
    /\ runs' = Append(runs, NewRun(Len(main) + 1))
    /\ UNCHANGED <<aws, spent, offbook, upsets>>

(* workflow_dispatch, as the drift issue suggests. *)
Dispatch ==
    /\ Len(runs) < MaxRuns
    /\ runs' = Append(runs, NewRun(Len(main)))
    /\ UNCHANGED <<main, aws, spent, offbook, upsets>>

(* Requests fail, or failures leave the window. *)
Traffic ==
    /\ upsets < MaxUpsets
    /\ spent' = ~spent
    /\ upsets' = upsets + 1
    /\ UNCHANGED <<main, runs, aws, offbook>>

(* A change in the console. *)
ByHand(e) ==
    /\ upsets < MaxUpsets
    /\ \E v \in Value \ {aws[e].real} : aws' = [aws EXCEPT ![e].real = v]
    /\ offbook' = offbook \cup {e}
    /\ upsets' = upsets + 1
    /\ UNCHANGED <<main, runs, spent>>

(* terraform force-unlock, after a job died. *)
Unlock(e) ==
    /\ aws[e].locked
    /\ \A r \in DOMAIN runs : runs[r].apply[e] # "applying"
    /\ aws' = [aws EXCEPT ![e].locked = FALSE]
    /\ UNCHANGED <<main, runs, spent, offbook, upsets>>

-----------------------------------------------------------------------------
(* The run. *)

(* plan (e): a saved plan of the state as it is, or a failure - an error,  *)
(* a policy violation, or the lock not free within its timeout.            *)
PlanEnv(r, e) ==
    /\ runs[r].plan[e].is = "todo"
    /\ \/ /\ ~aws[e].locked
          /\ runs' = [runs EXCEPT ![r].plan[e] =
                         [is |-> "ok", serial |-> aws[e].serial, seen |-> aws[e].real]]
       \/ runs' = [runs EXCEPT ![r].plan[e].is = "failed"]
    /\ UNCHANGED <<main, aws, spent, offbook, upsets>>

(* error-budget: a spent budget stops a change of prod unless it is the    *)
(* labelled fix.  Not being able to tell stops it too.                     *)
Budget(r) ==
    /\ runs[r].budget = "todo" /\ PlansOver(r)
    /\ \/ /\ Planned(r)
          /\ ~Changes(r, Prod) \/ ~spent \/ main[runs[r].commit].fix
          /\ runs' = [runs EXCEPT ![r].budget = "ok"]
       \/ runs' = [runs EXCEPT ![r].budget = "no"]
    /\ UNCHANGED <<main, aws, spent, offbook, upsets>>

(* gate: which environments have something to apply; none if static or a   *)
(* plan failed.                                                            *)
Gate(r) ==
    /\ runs[r].gate = "todo" /\ PlansOver(r)
    /\ \/ /\ Planned(r)
          /\ runs' = [runs EXCEPT ![r].gate = "on",
                        ![r].apply = [e \in Env |-> IF Changes(r, e) THEN "needs" ELSE "none"]]
       \/ runs' = [runs EXCEPT ![r].gate = "off", ![r].apply = [e \in Env |-> "none"]]
    /\ UNCHANGED <<main, aws, spent, offbook, upsets>>

Over == {"none", "ok", "failed", "cancelled"}

(* Mutant: always() without the results it was meant to be with. *)
NonprodOver(r) == \A e \in Nonprod : runs[r].apply[e] \in Over

(* needs.apply-nonprod.result is success or skipped. *)
NonprodDone(r) == \A e \in Nonprod : runs[r].apply[e] \in {"none", "ok"}

Needs(r, e) ==
    /\ runs[r].gate = "on" /\ runs[r].apply[e] = "needs"
    /\ e = Prod => NonprodDone(r) /\ runs[r].budget = "ok"

(* Mutant: one concurrency group for the run, a wait for approval included.*)
BusyRun(e) ==
    \E q \in DOMAIN runs, d \in Env : runs[q].apply[d] \in {"queued", "running", "applying"}

(* The group terraform-apply-<env> has a job in progress. *)
Busy(e) == \E q \in DOMAIN runs : runs[q].apply[e] \in {"running", "applying"}

(* The job enters its group and starts if that is free; prod waits for     *)
(* its approval.  A job that was pending there is superseded; one that     *)
(* only waits for approval may be.                                         *)
Enter(r, e) ==
    /\ Needs(r, e)
    /\ \E superseded \in IF e = Prod THEN BOOLEAN ELSE {TRUE} :
          runs' = [q \in DOMAIN runs |->
              IF q = r
              THEN [runs[r] EXCEPT !.apply[e] = IF e = Prod \/ Busy(e) THEN "queued" ELSE "running"]
              ELSE IF superseded /\ runs[q].apply[e] = "queued"
              THEN [runs[q] EXCEPT !.apply[e] = "cancelled"]
              ELSE runs[q]]
    /\ UNCHANGED <<main, aws, spent, offbook, upsets>>

(* The pending job starts; prod's when a person approves it. *)
Start(r, e) ==
    /\ runs[r].apply[e] = "queued" /\ ~Busy(e)
    /\ runs' = [runs EXCEPT ![r].apply[e] = "running"]
    /\ UNCHANGED <<main, aws, spent, offbook, upsets>>

(* A person rejects the deployment or cancels the run. *)
Reject(r) ==
    /\ runs[r].apply[Prod] = "queued"
    /\ runs' = [runs EXCEPT ![r].apply[Prod] = "cancelled"]
    /\ UNCHANGED <<main, aws, spent, offbook, upsets>>

(* apply-prod is skipped: the jobs it needs are over and not as it needs.  *)
SkipProd(r) ==
    /\ runs[r].gate = "on" /\ runs[r].apply[Prod] = "needs"
    /\ NonprodOver(r) /\ runs[r].budget # "todo"
    /\ ~Needs(r, Prod)
    /\ runs' = [runs EXCEPT ![r].apply[Prod] = "none"]
    /\ UNCHANGED <<main, aws, spent, offbook, upsets>>

(* Mutant: any plan of a state that was. *)
Older(r, e) == runs[r].plan[e].serial <= aws[e].serial

(* "Saved plan is stale" unless the state is the one planned from. *)
Current(r, e) == runs[r].plan[e].serial = aws[e].serial

(* terraform apply takes the lock and checks the saved plan; or the job    *)
(* fails - the artifact expired, the lock was not free in time.            *)
Begin(r, e) ==
    /\ runs[r].apply[e] = "running"
    /\ \/ /\ ~aws[e].locked /\ Current(r, e)
          /\ runs' = [runs EXCEPT ![r].apply[e] = "applying"]
          /\ aws' = [aws EXCEPT ![e].locked = TRUE]
       \/ /\ runs' = [runs EXCEPT ![r].apply[e] = "failed"]
          /\ UNCHANGED aws
    /\ UNCHANGED <<main, spent, offbook, upsets>>

(* The new state is written and the lock released. *)
Write(e, v) ==
    aws' = [aws EXCEPT ![e] = [serial |-> @.serial + 1, locked |-> FALSE, real |-> v]]

(* All of the plan, or up to an error.  Over resources that were changed   *)
(* by hand since, even all of it may leave them half right.                *)
Finish(r, e) ==
    /\ runs[r].apply[e] = "applying"
    /\ \/ /\ Write(e, Want(r, e))
          /\ runs' = [runs EXCEPT ![r].apply[e] = "ok"]
       \/ /\ aws[e].real # runs[r].plan[e].seen
          /\ Write(e, Half)
          /\ runs' = [runs EXCEPT ![r].apply[e] = "ok"]
       \/ /\ Write(e, Half)
          /\ runs' = [runs EXCEPT ![r].apply[e] = "failed"]
    /\ UNCHANGED <<main, spent, offbook, upsets>>

(* The job dies in the apply: locked, and half-written with or without the *)
(* state knowing.                                                          *)
Die(r, e) ==
    /\ runs[r].apply[e] = "applying" /\ upsets < MaxUpsets
    /\ \E n \in {0, 1} :
          aws' = [aws EXCEPT ![e] = [serial |-> @.serial + n, locked |-> TRUE, real |-> Half]]
    /\ runs' = [runs EXCEPT ![r].apply[e] = "failed"]
    /\ offbook' = offbook \cup {e}
    /\ upsets' = upsets + 1
    /\ UNCHANGED <<main, spent>>

-----------------------------------------------------------------------------
ApplyJob(r, e) == Enter(r, e) \/ Begin(r, e) \/ Finish(r, e)

Next ==
    \/ Merge \/ Dispatch \/ Traffic
    \/ \E e \in Env : ByHand(e) \/ Unlock(e)
    \/ \E r \in DOMAIN runs :
          \/ Budget(r) \/ Gate(r) \/ Reject(r) \/ SkipProd(r)
          \/ \E e \in Env : PlanEnv(r, e) \/ ApplyJob(r, e) \/ Start(r, e) \/ Die(r, e)

(* GitHub runs what can run.  Nobody has to approve, unlock or dispatch.   *)
Spec ==
    /\ Init /\ [][Next]_vars
    /\ \A r \in 1..MaxRuns :
          /\ WF_vars(r \in DOMAIN runs /\ (Budget(r) \/ SkipProd(r)))
          /\ WF_vars(r \in DOMAIN runs /\ Gate(r))
          /\ \A e \in Env :
                /\ WF_vars(r \in DOMAIN runs /\ PlanEnv(r, e))
                /\ WF_vars(r \in DOMAIN runs /\ ApplyJob(r, e))
                /\ e # Prod => WF_vars(r \in DOMAIN runs /\ Start(r, e))

-----------------------------------------------------------------------------
(* Properties. *)

(* "Prod runs if every nonprod apply succeeded or there was nothing to     *)
(* apply, and never after a failed one" (lab-09-terraform.yml:498-499).    *)
ProdAfterNonprod ==
    \A r \in DOMAIN runs :
        runs[r].apply[Prod] \in {"queued", "running", "applying", "ok", "failed"} =>
            \A e \in Nonprod : \/ runs[r].apply[e] = "ok"
                               \/ runs[r].apply[e] = "none" /\ ~Changes(r, e)

(* What was reviewed is what is applied (docs/TERRAFORM-CI.md:58): while   *)
(* an apply runs, the resources are those its plan showed, unless someone  *)
(* changed them behind the state's back.                                   *)
AppliesWhatWasSeen ==
    \A r \in DOMAIN runs, e \in Env :
        runs[r].apply[e] = "applying" /\ e \notin offbook =>
            aws[e].real = runs[r].plan[e].seen

(* An approval nobody gives holds up no other environment (the comment at  *)
(* lab-09-terraform.yml:22-29): every apply of a nonprod environment ends. *)
NonprodNeverHeld ==
    \A r \in 1..MaxRuns, e \in Nonprod :
        (r \in DOMAIN runs) ~> (r \in DOMAIN runs /\ runs[r].apply[e] \in Over)

(* "a budget spent after the merge still holds the apply" (lab-09-         *)
(* terraform.yml:319-320): no apply to prod starts on a spent budget but   *)
(* the labelled fix.                                                       *)
SpentHoldsProd ==
    [][\A r \in DOMAIN runs :
          runs[r].apply[Prod] = "running" /\ runs'[r].apply[Prod] = "applying" =>
              ~spent \/ main[runs[r].commit].fix]_vars

(* Every job of the run did what it was for.                               *)
Green(r) ==
    /\ runs[r].gate = "on"
    /\ \A e \in Env : runs[r].apply[e] = IF Changes(r, e) THEN "ok" ELSE "none"

(* "A plan that is not empty means AWS no longer matches main: someone     *)
(* changed something by hand, or an apply failed halfway" (terraform-      *)
(* drift.yml:3-5): if every run was green and nobody changed anything by   *)
(* hand, AWS is what main's last commit says.                              *)
DriftIsByHandOrHalfway ==
    runs # <<>> /\ (\A r \in DOMAIN runs : Green(r)) =>
        \A e \in Env : e \in offbook \/ aws[e].real = main[Len(main)].want[e]

-----------------------------------------------------------------------------
(* What is asked of an environment, and the reviewed changes of it that    *)
(* would still be carried out: the saved plans that are of its state.      *)
AskedOf(e) == {main[c].want[e] : c \in DOMAIN main}

ReviewedOf(e) ==
    {[from |-> runs[r].plan[e].seen, to |-> Want(r, e)] :
        r \in {q \in DOMAIN runs : runs[q].plan[e].is = "ok" /\ Current(q, e)}}

Asked    == [e \in Env |-> AskedOf(e)]
Reviewed == [e \in Env |-> ReviewedOf(e)]
Real     == [e \in Env |-> aws[e].real]

R == INSTANCE ReviewedChanges WITH asked <- Asked, real <- Real, reviewed <- Reviewed

(* "What was reviewed is what is applied" (docs/TERRAFORM-CI.md:58) across *)
(* all runs: whatever overlaps, an environment goes from one reviewed      *)
(* change to the next.  A change is to what a commit of main says, it is   *)
(* carried out on the resources it was reviewed against, at most once, and *)
(* it voids every other one reviewed before.                               *)
OnlyReviewedChanges == R!Spec

=============================================================================
