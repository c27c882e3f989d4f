-------------------------------- MODULE Argo --------------------------------
(***************************************************************************)
(* GitOps delivery, the cluster's side: Argo CD makes one environment run  *)
(* what its file on main declares, through the waves of                    *)
(* k8s/overlays/eks, while people edit the cluster and pods come and go.   *)
(*                                                                         *)
(*   wave -2   the ConfigMap, whose name is a hash of its content          *)
(*   wave -1   the pre-flight Job: the new image with the new config       *)
(*   wave  0   the Deployment                                              *)
(*   last      prune: delete what Git no longer has (PruneLast=true)       *)
(*                                                                         *)
(* A release is an image and a config.  Kyverno lets a pod run only if the *)
(* image of its containers is signed.                                      *)
(***************************************************************************)
EXTENDS Naturals

CONSTANTS
    Image, Config,
    Signed,        \* images this repository's CI signed
    Fits,          \* releases that pass the pre-flight checks
    Ready,         \* releases whose pods become ready: /readyz asks nothing
                   \* of the table, so not only the ones that fit
    None,          \* no Deployment yet
    Pod,           \* the replicas
    Retries,       \* bound: retries of a failed sync (5 in Argo CD)
    MaxCommits,    \* bound: changes of the environment's file
    MaxUpsets      \* bound: edits of the cluster and pods that die

Release == [image : Image, config : Config]

ASSUME ArgoAssumption ==
    /\ Signed \subseteq Image
    /\ Ready \subseteq Release /\ Fits \subseteq Release
    /\ None \notin Release
    /\ Retries \in Nat /\ MaxCommits \in Nat /\ MaxUpsets \in Nat

VARIABLES
    git,        \* the release the file on main declares
    rev,        \* commits that changed it
    template,   \* the Deployment's pod template
    maps,       \* the ConfigMaps in the namespace
    pods,       \* per replica: the release it runs, and whether it is up
    op,         \* the sync operation
    last,       \* status.operationState: the last commit synced, and how
    touched,    \* history: someone edited what no sync has put right since
    upsets      \* edits and pod deaths so far

gitVars  == <<git, rev>>
syncVars == <<op, last, touched>>
vars     == <<gitVars, template, maps, pods, syncVars, upsets>>

Idle == [step |-> "idle", target |-> None, rev |-> 0, tries |-> 0]

TypeOK ==
    /\ git \in Release
    /\ rev \in 0..MaxCommits
    /\ template \in Release \cup {None}
    /\ maps \subseteq Config
    /\ pods \in [Pod -> [rel : Release \cup {None}, up : BOOLEAN]]
    /\ op \in [step : {"idle", "config", "preflight", "deploy", "health", "prune", "heal"},
               target : Release \cup {None}, rev : 0..MaxCommits, tries : 0..Retries]
    /\ last \in [rev : 0..MaxCommits, ok : BOOLEAN]
    /\ touched \in BOOLEAN
    /\ upsets \in 0..MaxUpsets

Good(r) == r \in Fits /\ r \in Ready /\ r.image \in Signed

(* Either the environment runs what Git declares, or the cluster is new    *)
(* and the first commit has yet to be synced.                              *)
Init ==
    /\ git \in Release
    /\ \/ /\ Good(git) /\ rev = 0
          /\ template = git /\ maps = {git.config}
          /\ pods = [p \in Pod |-> [rel |-> git, up |-> TRUE]]
       \/ /\ rev = 1 /\ MaxCommits >= 1
          /\ template = None /\ maps = {}
          /\ pods = [p \in Pod |-> [rel |-> None, up |-> FALSE]]
    /\ op = Idle
    /\ last = [rev |-> 0, ok |-> TRUE]
    /\ touched = FALSE
    /\ upsets = 0

-----------------------------------------------------------------------------
(* Git, and people with kubectl. *)

(* A promotion, a rollback, a break-glass or a change of config lands.     *)
Commit ==
    /\ rev < MaxCommits
    /\ rev' = rev + 1
    /\ git' \in Release \ {git}
    /\ UNCHANGED <<template, maps, pods, syncVars, upsets>>

(* kubectl edit, set image, rollout undo. *)
Edit ==
    /\ upsets < MaxUpsets /\ template # None
    /\ upsets' = upsets + 1
    /\ template' \in Release \ {template}
    /\ touched' = TRUE
    /\ UNCHANGED <<gitVars, maps, pods, op, last>>

-----------------------------------------------------------------------------
(* Pods. *)

(* A pod of r gets past admission and finds its ConfigMap.  Kyverno        *)
(* verifies images.containers, so the image of a release is that of its    *)
(* containers; what an edit adds beside them is not modelled.              *)
Admitted(r) == r # None /\ r.image \in Signed /\ r.config \in maps

(* RollingUpdate with maxUnavailable 0: a pod of the template replaces one *)
(* of another release once it is ready.                                    *)
Roll(p) ==
    /\ pods[p].rel # template
    /\ Admitted(template) /\ template \in Ready
    /\ pods' = [pods EXCEPT ![p] = [rel |-> template, up |-> TRUE]]
    /\ UNCHANGED <<gitVars, template, maps, syncVars, upsets>>

(* A pod crashes, is evicted, or its node dies ... *)
Die(p) ==
    /\ upsets < MaxUpsets /\ pods[p].up
    /\ upsets' = upsets + 1
    /\ pods' = [pods EXCEPT ![p].up = FALSE]
    /\ UNCHANGED <<gitVars, template, maps, syncVars>>

(* ... and its ReplicaSet starts another of the same release. *)
Restart(p) ==
    /\ ~pods[p].up /\ Admitted(pods[p].rel)
    /\ pods' = [pods EXCEPT ![p].up = TRUE]
    /\ UNCHANGED <<gitVars, template, maps, syncVars, upsets>>

-----------------------------------------------------------------------------
(* Argo CD. *)

Begin(step) == op' = [step |-> step, target |-> git, rev |-> rev, tries |-> 0]

(* A poll of Git finds a commit not tried yet.  One whose sync failed is   *)
(* not tried again.                                                        *)
Sync ==
    /\ op = Idle /\ last.rev # rev
    /\ Begin("config")
    /\ UNCHANGED <<gitVars, template, maps, pods, last, touched, upsets>>

(* Mutant: selfHeal: false. *)
SelfHealOff == FALSE

(* selfHeal: the commit was synced and the Deployment is not what it says. *)
SelfHeal ==
    /\ op = Idle /\ last = [rev |-> rev, ok |-> TRUE] /\ template # git
    /\ Begin("heal")
    /\ UNCHANGED <<gitVars, template, maps, pods, last, touched, upsets>>

(* Mutant: without PruneLast, what Git no longer has goes first. *)
ApplyConfigAndPrune ==
    /\ op.step = "config"
    /\ maps' = {op.target.config}
    /\ op' = [op EXCEPT !.step = "preflight"]
    /\ UNCHANGED <<gitVars, template, pods, last, touched, upsets>>

ApplyConfig ==
    /\ op.step = "config"
    /\ maps' = maps \cup {op.target.config}
    /\ op' = [op EXCEPT !.step = "preflight"]
    /\ UNCHANGED <<gitVars, template, pods, last, touched, upsets>>

(* Mutant: one retry too many. *)
FailLate ==
    IF op.tries <= Retries
    THEN op' = [op EXCEPT !.step = "config", !.tries = @ + 1] /\ UNCHANGED last
    ELSE op' = Idle /\ last' = [rev |-> op.rev, ok |-> FALSE]

(* The sync fails: the same commit again, or give up on it. *)
Fail ==
    IF op.tries < Retries
    THEN op' = [op EXCEPT !.step = "config", !.tries = @ + 1] /\ UNCHANGED last
    ELSE op' = Idle /\ last' = [rev |-> op.rev, ok |-> FALSE]

(* Mutant: the smoke test after the traffic has moved. *)
PreflightLater ==
    /\ op.step = "preflight"
    /\ op' = [op EXCEPT !.step = "deploy"]
    /\ UNCHANGED <<gitVars, template, maps, pods, last, touched, upsets>>

(* The Job's pod has the same image and config as the Deployment's. *)
Preflight ==
    /\ op.step = "preflight"
    /\ IF Admitted(op.target) /\ op.target \in Fits
       THEN op' = [op EXCEPT !.step = "deploy"] /\ UNCHANGED last
       ELSE Fail
    /\ UNCHANGED <<gitVars, template, maps, pods, touched, upsets>>

(* A self-heal applies the Deployment alone, without the hook. *)
Deploy ==
    /\ op.step \in {"deploy", "heal"}
    /\ template' = op.target
    /\ op' = [op EXCEPT !.step = "health"]
    /\ UNCHANGED <<gitVars, maps, pods, last, touched, upsets>>

Rolled == \A p \in Pod : pods[p].rel = template /\ pods[p].up

(* progressDeadlineSeconds pass while no pod of the template can start. *)
Stuck ==
    /\ \E p \in Pod : pods[p].rel # template
    /\ ~(Admitted(template) /\ template \in Ready)

(* Wait until the Deployment, as it is now, is healthy. *)
Health ==
    /\ op.step = "health"
    /\ \/ /\ Rolled
          /\ op' = [op EXCEPT !.step = "prune"]
          /\ touched' = (touched /\ template # op.target)
          /\ UNCHANGED last
       \/ Stuck /\ Fail /\ UNCHANGED touched
    /\ UNCHANGED <<gitVars, template, maps, pods, upsets>>

Prune ==
    /\ op.step = "prune"
    /\ maps' = {op.target.config}
    /\ op' = Idle
    /\ last' = [rev |-> op.rev, ok |-> TRUE]
    /\ UNCHANGED <<gitVars, template, pods, touched, upsets>>

ArgoCD == Sync \/ SelfHeal \/ ApplyConfig \/ Preflight \/ Deploy \/ Health \/ Prune

-----------------------------------------------------------------------------
Next ==
    \/ Commit
    \/ Edit
    \/ \E p \in Pod : Roll(p) \/ Die(p) \/ Restart(p)
    \/ ArgoCD

(* Argo CD polls and its operations go on; Kubernetes' controllers and     *)
(* kubelets act.  Nobody has to commit, edit or die.                       *)
Spec == Init /\ [][Next]_vars
             /\ WF_vars(ArgoCD)
             /\ \A p \in Pod : WF_vars(Roll(p)) /\ WF_vars(Restart(p))

-----------------------------------------------------------------------------
(* Properties. *)

(* A pod that dies can be started again: the ConfigMap of its release is   *)
(* there, whatever sync is going on and however it was turned away - the   *)
(* bug of docs/CAPSTONE-C.md, where a rejected release had the ConfigMap   *)
(* of the running one pruned.                                              *)
Restartable ==
    touched \/ \A p \in Pod : pods[p].rel # None => pods[p].rel.config \in maps

(* "A bad release is turned away before it takes traffic"                  *)
(* (preflight.yaml:14-15): what Argo CD rolled out passed the pre-flight.  *)
OnlyTested ==
    touched \/ \A p \in Pod : pods[p].rel # None => pods[p].rel \in Fits

(* Once Git and people stop changing things, every pod runs the release    *)
(* Git declares, if it is one that works: promotions arrive, a rollback    *)
(* undoes a bad release, and an edit is put back.  It takes no more edits  *)
(* than retries: a sync they make fail one time too many is given up.      *)
Converges ==
    <>[](Good(git) => \A p \in Pod : pods[p] = [rel |-> git, up |-> TRUE])

=============================================================================
