----------------------------- MODULE ArgoProofs -----------------------------
(* Proofs about Argo, for any images, configs, replicas, retries, commits  *)
(* and edits: type correctness, that a pod which dies can be started       *)
(* again, and that only what was tested runs.                              *)
EXTENDS Argo, TLAPS

-----------------------------------------------------------------------------
(* Type correctness. *)

(* A sync under way has a release to sync. *)
HasTarget == op.step # "idle" => op.target \in Release

TypeInv == TypeOK /\ HasTarget

LEMMA InitTypeInv == Init => TypeInv
<1> SUFFICES ASSUME Init PROVE TypeInv
  OBVIOUS
<1>1. git \in Release /\ git.config \in Config
  BY DEF Init, Release
<1>2. rev \in 0..MaxCommits /\ upsets \in 0..MaxUpsets /\ touched \in BOOLEAN
  <2>1. (rev = 0 \/ (rev = 1 /\ MaxCommits >= 1)) /\ upsets = 0 /\ touched = FALSE
    BY DEF Init
  <2>2. rev \in 0..MaxCommits /\ upsets \in 0..MaxUpsets
    BY <2>1, ArgoAssumption
  <2>3. touched \in BOOLEAN
    BY <2>1
  <2> QED BY <2>2, <2>3
<1>3. template \in Release \cup {None} /\ maps \subseteq Config
  BY <1>1 DEF Init
<1>4. pods \in [Pod -> [rel : Release \cup {None}, up : BOOLEAN]]
  <2>1. \A r \in Release \cup {None}, b \in BOOLEAN :
          [p \in Pod |-> [rel |-> r, up |-> b]]
            \in [Pod -> [rel : Release \cup {None}, up : BOOLEAN]]
    OBVIOUS
  <2>2. CASE pods = [p \in Pod |-> [rel |-> git, up |-> TRUE]]
    BY <1>1, <2>1, <2>2
  <2>3. CASE pods = [p \in Pod |-> [rel |-> None, up |-> FALSE]]
    BY <2>1, <2>3
  <2> QED BY <2>2, <2>3 DEF Init
<1>5. op = Idle /\ last \in [rev : 0..MaxCommits, ok : BOOLEAN]
  BY ArgoAssumption DEF Init
<1>6. op \in [step : {"idle", "config", "preflight", "deploy", "health", "prune", "heal"},
              target : Release \cup {None}, rev : 0..MaxCommits, tries : 0..Retries]
  BY <1>5, ArgoAssumption DEF Idle
<1>7. HasTarget
  BY <1>5 DEF HasTarget, Idle
<1> QED BY <1>1, <1>2, <1>3, <1>4, <1>5, <1>6, <1>7 DEF TypeInv, TypeOK

(* Giving up on a sync, or trying it again, keeps the operation typed.     *)
LEMMA FailTyped ==
  ASSUME TypeInv, op.step # "idle", Fail
  PROVE  /\ op' \in [step : {"idle", "config"}, target : Release \cup {None},
                     rev : 0..MaxCommits, tries : 0..Retries]
         /\ last' \in [rev : 0..MaxCommits, ok : BOOLEAN]
         /\ op'.step # "idle" => op'.target = op.target
<1>1. /\ op.target \in Release /\ op.rev \in 0..MaxCommits /\ op.tries \in 0..Retries
      /\ last \in [rev : 0..MaxCommits, ok : BOOLEAN]
  BY DEF TypeInv, TypeOK, HasTarget
<1>2. CASE op.tries < Retries
  <2>1. op' = [op EXCEPT !.step = "config", !.tries = @ + 1] /\ last' = last
    BY <1>2 DEF Fail
  <2>2. op' = [step |-> "config", target |-> op.target, rev |-> op.rev, tries |-> op.tries + 1]
    BY <2>1 DEF TypeInv, TypeOK
  <2>3. op.tries + 1 \in 0..Retries
    BY <1>1, <1>2, ArgoAssumption
  <2> QED BY <1>1, <2>1, <2>2, <2>3
<1>3. CASE ~(op.tries < Retries)
  <2>1. op' = Idle /\ last' = [rev |-> op.rev, ok |-> FALSE]
    BY <1>3 DEF Fail
  <2>2. op' = [step |-> "idle", target |-> None, rev |-> 0, tries |-> 0]
    BY <2>1 DEF Idle
  <2>3. last' \in [rev : 0..MaxCommits, ok : BOOLEAN]
    BY <1>1, <2>1
  <2> QED BY <2>2, <2>3, ArgoAssumption
<1> QED BY <1>2, <1>3

LEMMA NextTypeInv == TypeInv /\ [Next]_vars => TypeInv'
<1> SUFFICES ASSUME TypeInv, [Next]_vars PROVE TypeInv'
  OBVIOUS
<1> USE ArgoAssumption DEF TypeInv, TypeOK, HasTarget
<1>1. CASE Commit
  <2>1. git' \in Release /\ rev' = rev + 1 /\ rev < MaxCommits
    BY <1>1 DEF Commit
  <2>2. UNCHANGED <<template, maps, pods, op, last, touched, upsets>>
    BY <1>1 DEF Commit, syncVars
  <2> QED BY <2>1, <2>2
<1>2. CASE Edit
  <2>1. /\ template' \in Release /\ touched' = TRUE
        /\ upsets' = upsets + 1 /\ upsets < MaxUpsets
    BY <1>2 DEF Edit
  <2>2. UNCHANGED <<git, rev, maps, pods, op, last>>
    BY <1>2 DEF Edit, gitVars
  <2> QED BY <2>1, <2>2
<1>3. CASE \E p \in Pod : Roll(p)
  BY <1>3 DEF Roll, gitVars, syncVars
<1>a. ASSUME NEW p \in Pod, NEW b \in BOOLEAN, pods' = [pods EXCEPT ![p].up = b]
      PROVE  pods' \in [Pod -> [rel : Release \cup {None}, up : BOOLEAN]]
  BY <1>a
<1>4. CASE \E p \in Pod : Die(p)
  <2>1. PICK p \in Pod : Die(p)
    BY <1>4
  <2>2. /\ upsets' = upsets + 1 /\ upsets < MaxUpsets
        /\ pods' = [pods EXCEPT ![p].up = FALSE]
        /\ UNCHANGED <<git, rev, template, maps, op, last, touched>>
    BY <2>1 DEF Die, gitVars, syncVars
  <2>3. pods' \in [Pod -> [rel : Release \cup {None}, up : BOOLEAN]]
    BY <2>2, <1>a
  <2> QED BY <2>2, <2>3
<1>5. CASE \E p \in Pod : Restart(p)
  <2>1. PICK p \in Pod : Restart(p)
    BY <1>5
  <2>2. /\ pods' = [pods EXCEPT ![p].up = TRUE]
        /\ UNCHANGED <<git, rev, template, maps, op, last, touched, upsets>>
    BY <2>1 DEF Restart, gitVars, syncVars
  <2>3. pods' \in [Pod -> [rel : Release \cup {None}, up : BOOLEAN]]
    BY <2>2, <1>a
  <2> QED BY <2>2, <2>3
<1>6. CASE Sync
  BY <1>6 DEF Sync, Begin, gitVars
<1>7. CASE SelfHeal
  BY <1>7 DEF SelfHeal, Begin, gitVars
<1>8. CASE ApplyConfig
  BY <1>8 DEF ApplyConfig, gitVars, Release
<1>9. CASE Preflight
  <2>1. CASE Admitted(op.target) /\ op.target \in Fits
    BY <1>9, <2>1 DEF Preflight, gitVars
  <2>2. CASE ~(Admitted(op.target) /\ op.target \in Fits)
    BY <1>9, <2>2, FailTyped DEF Preflight, gitVars
  <2> QED BY <2>1, <2>2
<1>10. CASE Deploy
  BY <1>10 DEF Deploy, gitVars
<1>11. CASE Health
  <2>1. CASE Rolled /\ op' = [op EXCEPT !.step = "prune"]
             /\ touched' = (touched /\ template # op.target) /\ UNCHANGED last
    BY <1>11, <2>1 DEF Health, gitVars
  <2>2. CASE Stuck /\ Fail /\ UNCHANGED touched
    BY <1>11, <2>2, FailTyped DEF Health, gitVars
  <2> QED BY <1>11, <2>1, <2>2 DEF Health
<1>12. CASE Prune
  BY <1>12 DEF Prune, Idle, gitVars, Release
<1>13. CASE UNCHANGED vars
  BY <1>13 DEF vars, gitVars, syncVars
<1> QED
  BY <1>1, <1>2, <1>3, <1>4, <1>5, <1>6, <1>7, <1>8, <1>9, <1>10, <1>11, <1>12, <1>13
  DEF Next, ArgoCD

(* Every variable stays in its type: the sync never counts past its        *)
(* retries and always has a release to apply.                              *)
THEOREM TypeCorrect == Spec => []TypeOK
<1>1. TypeInv => TypeOK
  BY DEF TypeInv
<1> QED BY <1>1, InitTypeInv, NextTypeInv, PTL DEF Spec

-----------------------------------------------------------------------------
(* The pre-flight gate, and pruning last. *)

(* A release whose pods can run: it passed the pre-flight and its          *)
(* ConfigMap is in the namespace.                                          *)
Sound(r, m) == r # None => r \in Fits /\ r.config \in m

(* An operation applies the commit it started from. *)
TargetInv ==
    /\ op.rev <= rev /\ last.rev <= rev
    /\ op.step # "idle" /\ op.rev = rev => op.target = git

(* What a step of an operation may rely on: past the config wave the       *)
(* target's ConfigMap is there, and past the pre-flight it is tested.      *)
StepInv ==
    /\ op.step \in {"preflight", "deploy", "health", "prune", "heal"}
          => op.target.config \in maps
    /\ op.step \in {"deploy", "health", "prune", "heal"} => op.target \in Fits

(* A commit that was synced can be healed to without the gate. *)
SyncedInv ==
    op.step = "idle" /\ last = [rev |-> rev, ok |-> TRUE] => Sound(git, maps)

(* Untouched, the Deployment and every pod have a sound release ... *)
RunInv ==
    ~touched => /\ Sound(template, maps)
                /\ \A p \in Pod : Sound(pods[p].rel, maps)

(* ... and before the prune they all have the one the sync applied. *)
RolledInv ==
    /\ ~touched /\ op.step \in {"health", "prune"} => template = op.target
    /\ ~touched /\ op.step = "prune" => \A p \in Pod : pods[p].rel = template

GateInv == TargetInv /\ StepInv /\ SyncedInv /\ RunInv /\ RolledInv

LEMMA InitGateInv == Init => GateInv
<1> SUFFICES ASSUME Init PROVE GateInv
  OBVIOUS
<1>1. git \in Release /\ op = Idle /\ op.step = "idle" /\ op.rev = 0 /\ last.rev = 0
  BY DEF Init, Idle
<1>2. TargetInv /\ StepInv /\ RolledInv
  BY <1>1, ArgoAssumption DEF Init, TargetInv, StepInv, RolledInv
<1>3. CASE /\ Good(git) /\ rev = 0 /\ template = git /\ maps = {git.config}
           /\ pods = [p \in Pod |-> [rel |-> git, up |-> TRUE]]
  <2>1. Sound(git, maps)
    BY <1>3, ArgoAssumption DEF Good, Sound
  <2> QED BY <1>2, <1>3, <2>1 DEF GateInv, SyncedInv, RunInv
<1>4. CASE /\ rev = 1 /\ template = None
           /\ pods = [p \in Pod |-> [rel |-> None, up |-> FALSE]]
  <2>1. RunInv
    BY <1>4 DEF RunInv, Sound
  <2>2. SyncedInv
    BY <1>1, <1>4 DEF SyncedInv
  <2> QED BY <1>2, <2>1, <2>2 DEF GateInv
<1> QED BY <1>3, <1>4 DEF Init

(* A larger set of ConfigMaps keeps what runs sound. *)
LEMMA SoundGrows ==
  ASSUME NEW r, NEW m, NEW n, m \subseteq n, Sound(r, m)
  PROVE  Sound(r, n)
BY DEF Sound

(* Trying again or giving up relies on nothing but the commit. *)
LEMMA FailGate ==
  ASSUME TypeInv, GateInv, op.step # "idle", Fail, UNCHANGED <<git, rev>>
  PROVE  TargetInv' /\ StepInv' /\ SyncedInv' /\ RolledInv'
<1>1. /\ op.rev \in Nat /\ last.rev \in Nat /\ rev \in Nat
      /\ op \in [step : {"idle", "config", "preflight", "deploy", "health", "prune", "heal"},
                 target : Release \cup {None}, rev : 0..MaxCommits, tries : 0..Retries]
  BY ArgoAssumption DEF TypeInv, TypeOK
<1>2. CASE op.tries < Retries
  <2>1. op' = [op EXCEPT !.step = "config", !.tries = @ + 1] /\ last' = last
    BY <1>2 DEF Fail
  <2>2. op'.step = "config" /\ op'.target = op.target /\ op'.rev = op.rev
    BY <1>1, <2>1
  <2> QED
    BY <2>1, <2>2 DEF GateInv, TargetInv, StepInv, SyncedInv, RolledInv
<1>3. CASE ~(op.tries < Retries)
  <2>1. op' = Idle /\ last' = [rev |-> op.rev, ok |-> FALSE]
    BY <1>3 DEF Fail
  <2>2. op'.step = "idle" /\ op'.rev = 0 /\ last'.rev = op.rev /\ last'.ok = FALSE
    BY <2>1 DEF Idle
  <2>3. last' # [rev |-> rev, ok |-> TRUE]
    BY <2>2
  <2> QED
    BY <1>1, <2>2, <2>3 DEF GateInv, TargetInv, StepInv, SyncedInv, RolledInv
<1> QED BY <1>2, <1>3

LEMMA NextGateInv == TypeInv /\ GateInv /\ [Next]_vars => GateInv'
<1> SUFFICES ASSUME TypeInv, GateInv, [Next]_vars PROVE GateInv'
  OBVIOUS
<1>0. /\ op \in [step : {"idle", "config", "preflight", "deploy", "health", "prune", "heal"},
                 target : Release \cup {None}, rev : 0..MaxCommits, tries : 0..Retries]
      /\ pods \in [Pod -> [rel : Release \cup {None}, up : BOOLEAN]]
      /\ git \in Release /\ rev \in Nat /\ op.rev \in Nat /\ last.rev \in Nat
      /\ touched \in BOOLEAN /\ HasTarget
  BY ArgoAssumption DEF TypeInv, TypeOK
<1> USE DEF GateInv
<1>1. CASE Commit
  <2>1. rev' = rev + 1 /\ UNCHANGED <<template, maps, pods, op, last, touched>>
    BY <1>1 DEF Commit, syncVars
  <2>2. op.rev < rev' /\ last.rev < rev'
    BY <1>0, <2>1 DEF TargetInv
  <2>3. last' # [rev |-> rev', ok |-> TRUE]
    BY <1>0, <2>1, <2>2
  <2> QED
    BY <1>0, <2>1, <2>2, <2>3 DEF TargetInv, StepInv, SyncedInv, RunInv, RolledInv
<1>2. CASE Edit
  <2>1. touched' /\ UNCHANGED <<git, rev, maps, pods, op, last>>
    BY <1>2 DEF Edit, gitVars
  <2> QED BY <2>1 DEF TargetInv, StepInv, SyncedInv, RunInv, RolledInv
<1>3. CASE \E p \in Pod : Roll(p)
  <2>1. PICK p \in Pod : Roll(p)
    BY <1>3
  <2>2. /\ pods[p].rel # template
        /\ pods' = [pods EXCEPT ![p] = [rel |-> template, up |-> TRUE]]
        /\ UNCHANGED <<git, rev, template, maps, op, last, touched>>
    BY <2>1 DEF Roll, gitVars, syncVars
  <2>3. \A q \in Pod : pods'[q].rel = template \/ pods'[q].rel = pods[q].rel
    BY <1>0, <2>2
  <2>4. RunInv'
    BY <2>2, <2>3 DEF RunInv
  <2>5. RolledInv'
    BY <2>2, <2>3 DEF RolledInv
  <2> QED BY <2>2, <2>4, <2>5 DEF TargetInv, StepInv, SyncedInv
<1>4. CASE \E p \in Pod : Die(p) \/ Restart(p)
  <2>1. \A q \in Pod : pods'[q].rel = pods[q].rel
    BY <1>0, <1>4 DEF Die, Restart
  <2>2. UNCHANGED <<git, rev, template, maps, op, last, touched>>
    BY <1>4 DEF Die, Restart, gitVars, syncVars
  <2> QED BY <2>1, <2>2 DEF TargetInv, StepInv, SyncedInv, RunInv, RolledInv
<1>5. CASE Sync
  <2>1. /\ op' = [step |-> "config", target |-> git, rev |-> rev, tries |-> 0]
        /\ UNCHANGED <<git, rev, template, maps, pods, last, touched>>
    BY <1>5 DEF Sync, Begin, gitVars
  <2> QED BY <1>0, <2>1 DEF TargetInv, StepInv, SyncedInv, RunInv, RolledInv
<1>6. CASE SelfHeal
  <2>1. /\ op' = [step |-> "heal", target |-> git, rev |-> rev, tries |-> 0]
        /\ op = Idle /\ last = [rev |-> rev, ok |-> TRUE]
        /\ UNCHANGED <<git, rev, template, maps, pods, last, touched>>
    BY <1>6 DEF SelfHeal, Begin, gitVars
  <2>2. Sound(git, maps) /\ git # None
    BY <1>0, <2>1, ArgoAssumption DEF SyncedInv, Idle
  <2>3. git \in Fits /\ git.config \in maps
    BY <2>2 DEF Sound
  <2> QED BY <1>0, <2>1, <2>3 DEF TargetInv, StepInv, SyncedInv, RunInv, RolledInv
<1>7. CASE ApplyConfig
  <2>1. /\ op.step = "config" /\ op' = [op EXCEPT !.step = "preflight"]
        /\ maps' = maps \cup {op.target.config}
        /\ UNCHANGED <<git, rev, template, pods, last, touched>>
    BY <1>7 DEF ApplyConfig, gitVars
  <2>2. op'.step = "preflight" /\ op'.target = op.target /\ op'.rev = op.rev
    BY <1>0, <2>1
  <2>3. RunInv'
    BY <2>1 DEF RunInv, Sound
  <2> QED BY <2>1, <2>2, <2>3 DEF TargetInv, StepInv, SyncedInv, RolledInv
<1>8. CASE Preflight
  <2>1. op.step = "preflight" /\ UNCHANGED <<git, rev, template, maps, pods, touched>>
    BY <1>8 DEF Preflight, gitVars
  <2>2. RunInv'
    BY <2>1 DEF RunInv
  <2>3. CASE Admitted(op.target) /\ op.target \in Fits
    <3>1. op' = [op EXCEPT !.step = "deploy"] /\ last' = last
      BY <1>8, <2>3 DEF Preflight
    <3>2. op'.step = "deploy" /\ op'.target = op.target /\ op'.rev = op.rev
      BY <1>0, <3>1
    <3> QED
      BY <2>1, <2>2, <2>3, <3>1, <3>2 DEF TargetInv, StepInv, SyncedInv, RolledInv
  <2>4. CASE ~(Admitted(op.target) /\ op.target \in Fits)
    BY <1>8, <2>1, <2>2, <2>4, FailGate DEF Preflight
  <2> QED BY <2>3, <2>4
<1>9. CASE Deploy
  <2>1. /\ op.step \in {"deploy", "heal"} /\ op' = [op EXCEPT !.step = "health"]
        /\ template' = op.target
        /\ UNCHANGED <<git, rev, maps, pods, last, touched>>
    BY <1>9 DEF Deploy, gitVars
  <2>2. op'.step = "health" /\ op'.target = op.target /\ op'.rev = op.rev
    BY <1>0, <2>1
  <2>3. Sound(op.target, maps)
    BY <2>1 DEF StepInv, Sound
  <2>4. RunInv'
    BY <2>1, <2>3 DEF RunInv
  <2> QED BY <2>1, <2>2, <2>4 DEF TargetInv, StepInv, SyncedInv, RolledInv
<1>10. CASE Health
  <2>1. op.step = "health" /\ UNCHANGED <<git, rev, template, maps, pods>>
    BY <1>10 DEF Health, gitVars
  <2>2. Sound(op.target, maps)
    BY <2>1 DEF StepInv, Sound
  <2>3. CASE Rolled /\ op' = [op EXCEPT !.step = "prune"]
             /\ touched' = (touched /\ template # op.target) /\ UNCHANGED last
    <3>1. op'.step = "prune" /\ op'.target = op.target /\ op'.rev = op.rev
      BY <1>0, <2>3
    <3>2. \A p \in Pod : pods[p].rel = template
      BY <2>3 DEF Rolled
    <3>3. ~touched' => template = op.target
      BY <2>1, <2>3 DEF RolledInv
    <3>4. RunInv'
      BY <2>1, <2>2, <3>2, <3>3 DEF RunInv
    <3>5. RolledInv'
      BY <2>1, <3>1, <3>2, <3>3 DEF RolledInv
    <3> QED BY <2>1, <2>3, <3>1, <3>4, <3>5 DEF TargetInv, StepInv, SyncedInv
  <2>4. CASE Stuck /\ Fail /\ UNCHANGED touched
    <3>1. RunInv'
      BY <2>1, <2>4 DEF RunInv
    <3> QED BY <2>1, <2>4, <3>1, FailGate
  <2> QED BY <1>10, <2>3, <2>4 DEF Health
<1>11. CASE Prune
  <2>1. /\ op.step = "prune" /\ op' = Idle /\ maps' = {op.target.config}
        /\ last' = [rev |-> op.rev, ok |-> TRUE]
        /\ UNCHANGED <<git, rev, template, pods, touched>>
    BY <1>11 DEF Prune, gitVars
  <2>2. op'.step = "idle" /\ op'.rev = 0 /\ last'.rev = op.rev
    BY <2>1 DEF Idle
  <2>3. Sound(op.target, maps')
    BY <2>1 DEF StepInv, Sound
  <2>4. last' = [rev |-> rev, ok |-> TRUE] => op.rev = rev
    BY <2>2
  <2>5. SyncedInv'
    BY <2>1, <2>3, <2>4 DEF SyncedInv, TargetInv
  <2>6. RunInv'
    BY <2>1, <2>3 DEF RunInv, RolledInv
  <2> QED BY <1>0, <2>1, <2>2, <2>5, <2>6 DEF TargetInv, StepInv, RolledInv
<1>12. CASE UNCHANGED vars
  BY <1>12 DEF vars, gitVars, syncVars, TargetInv, StepInv, SyncedInv, RunInv, RolledInv
<1> QED
  BY <1>1, <1>2, <1>3, <1>4, <1>5, <1>6, <1>7, <1>8, <1>9, <1>10, <1>11, <1>12
  DEF Next, ArgoCD

(* Whatever release was turned away, and at whatever step, a pod that dies *)
(* finds its ConfigMap: nothing it needs is pruned before a sync is done.  *)
THEOREM PodsRestart == Spec => []Restartable
<1>1. GateInv => Restartable
  BY DEF GateInv, RunInv, Sound, Restartable
<1> QED BY <1>1, InitTypeInv, NextTypeInv, InitGateInv, NextGateInv, PTL DEF Spec

(* Nobody but a person with kubectl puts a release in front of traffic     *)
(* that has not passed the pre-flight Job.                                 *)
THEOREM RunsOnlyTested == Spec => []OnlyTested
<1>1. GateInv => OnlyTested
  BY DEF GateInv, RunInv, Sound, OnlyTested
<1> QED BY <1>1, InitTypeInv, NextTypeInv, InitGateInv, NextGateInv, PTL DEF Spec

=============================================================================
