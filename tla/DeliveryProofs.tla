--------------------------- MODULE DeliveryProofs ---------------------------
(***************************************************************************)
(* Delivery's safety properties, for any environments, any chain of        *)
(* promotions, any number of commits and any of the Events.                *)
(***************************************************************************)
EXTENDS Delivery, FiniteSetTheorems, TLAPS

(* Every environment's log starts with the initial commit, which no        *)
(* rollback reverts: so there is always an entry before the one reverted.  *)
TypeInv ==
    /\ TypeOK
    /\ \A e \in Env : log[e][1].by = "initial"

LEMMA DeclaredInLog ==
  ASSUME TypeInv, NEW e \in Env
  PROVE  /\ Len(log[e]) \in Nat \ {0}
         /\ Last(e) = log[e][Len(log[e])]
         /\ Last(e) \in Entry
         /\ Declared(e) \in Digests(e)
         /\ Declared(e) \in Digest
         /\ Last(e).by # "initial" => /\ Len(log[e]) > 1
                                      /\ log[e][Len(log[e]) - 1] \in Entry
                                      /\ log[e][Len(log[e]) - 1].digest \in Digests(e)
<1>1. log[e] \in Seq(Entry) /\ Len(log[e]) \in Nat \ {0} /\ log[e][1].by = "initial"
  BY DEF TypeInv, TypeOK
<1>2. Last(e) = log[e][Len(log[e])] /\ Last(e) \in Entry
  BY <1>1 DEF Last
<1>3. Last(e).by # "initial" => Len(log[e]) > 1
  BY <1>1, <1>2
<1>4. \A i \in 1..Len(log[e]) : log[e][i] \in Entry /\ log[e][i].digest \in Digests(e)
  BY <1>1 DEF Digests
<1>5. Len(log[e]) \in 1..Len(log[e])
  BY <1>1
<1>6. Declared(e) \in Digests(e) /\ Declared(e) \in Digest
  BY <1>2, <1>4, <1>5 DEF Declared, Entry
<1>7. Last(e).by # "initial" => Len(log[e]) - 1 \in 1..Len(log[e])
  BY <1>1, <1>3
<1>8. QED
  BY <1>1, <1>2, <1>3, <1>4, <1>6, <1>7

(* A step lands at most one commit, and only moves an image towards        *)
(* signed.                                                                 *)
LEMMA LandType ==
  ASSUME TypeOK, Land
  PROVE  /\ Tip \in Nat /\ Tip + 1 \in Digest
         /\ commits' \in Seq(Commits) /\ Len(commits') <= MaxCommits
         /\ Len(commits') = Tip + 1
         /\ \A c \in 1..Tip : commits'[c] = commits[c]
  BY DeliveryAssumption DEF Land, TypeOK, Tip, Digest, Commits

LEMMA CommitType ==
  ASSUME TypeOK, NEW c \in 1..Tip
  PROVE  /\ commits[c] \in Commits
         /\ \A x \in Commits :
               /\ [commits EXCEPT ![c] = x] \in Seq(Commits)
               /\ Len([commits EXCEPT ![c] = x]) = Tip
  BY DEF TypeOK, Tip

LEMMA DeclareType ==
  ASSUME TypeInv, NEW e \in Env, NEW d \in Digest,
         NEW how \in {"promote", "rollback", "breakglass"},
         Tip + 1 \in Digest, Declare(e, d, how)
  PROVE  /\ log' \in [Env -> Seq(Entry)]
         /\ \A x \in Env : Len(log'[x]) > 0 /\ log'[x][1].by = "initial"
         /\ Len(log'[e]) = Len(log[e]) + 1
         /\ log'[e][Len(log[e]) + 1] = [digest |-> d, at |-> Tip + 1, by |-> how]
         /\ \A i \in 1..Len(log[e]) : log'[e][i] = log[e][i]
         /\ \A x \in Env \ {e} : log'[x] = log[x]
<1> DEFINE entry == [digest |-> d, at |-> Tip + 1, by |-> how]
<1>1. entry \in Entry
  BY DEF Entry
<1>2. log \in [Env -> Seq(Entry)] /\ log' = [log EXCEPT ![e] = Append(@, entry)]
  BY DEF TypeInv, TypeOK, Declare
<1>3. log[e] \in Seq(Entry) /\ Len(log[e]) > 0 /\ log[e][1].by = "initial"
  BY DEF TypeInv, TypeOK
<1>4. log'[e] = Append(log[e], entry) /\ \A x \in Env \ {e} : log'[x] = log[x]
  BY <1>2
<1>5. log'[e] \in Seq(Entry) /\ Len(log'[e]) = Len(log[e]) + 1
  BY <1>1, <1>3, <1>4
<1>6. /\ log'[e][Len(log[e]) + 1] = entry
      /\ \A i \in 1..Len(log[e]) : log'[e][i] = log[e][i]
  BY <1>3, <1>4
<1>7. log' \in [Env -> Seq(Entry)]
  BY <1>1, <1>2
<1>8. \A x \in Env : Len(log'[x]) > 0 /\ log'[x][1].by = "initial"
  <2>1. Len(log'[e]) > 0 /\ log'[e][1].by = "initial"
    BY <1>3, <1>5, <1>6
  <2>2. \A x \in Env : Len(log[x]) > 0 /\ log[x][1].by = "initial"
    BY DEF TypeInv, TypeOK
  <2>3. QED
    BY <1>4, <2>1, <2>2
<1>9. QED
  BY <1>4, <1>5, <1>6, <1>7, <1>8

(* What a pull request proposes and a merge makes of it are digests.       *)
LEMMA ResultType ==
  ASSUME TypeInv, NEW p \in prs
  PROVE  /\ p \in Pr /\ p.branch.env \in Env /\ p.branch \in Branch
         /\ p.branch.kind \in {"promote", "rollback"}
         /\ Result(p) \in Digest
         /\ Declared(p.branch.env) \in Digest
<1>1. p \in Pr /\ p.branch.env \in Env /\ p.branch \in Branch /\ p.new \in Digest
  BY DEF TypeInv, TypeOK, Pr, Branch
<1>2. QED
  BY <1>1, DeclaredInLog DEF Result, Branch

LEMMA TypeInit == Init => TypeInv
<1> SUFFICES ASSUME Init PROVE TypeInv
  OBVIOUS
<1>1. [digest |-> 0, at |-> 0, by |-> "initial"] \in Entry
  BY DeliveryAssumption DEF Entry, Digest
<1>2. <<[digest |-> 0, at |-> 0, by |-> "initial"]>> \in Seq(Entry)
  BY <1>1
<1>3. Nobody \in Run /\ NoRun \in Queued
  BY DeliveryAssumption DEF Nobody, NoRun, Run, Queued, Digest
<1>4. commits \in Seq(Commits) /\ Len(commits) <= MaxCommits
  BY DeliveryAssumption DEF Init
<1>5. QED
  BY <1>1, <1>2, <1>3, <1>4 DEF Init, TypeInv, TypeOK

LEMMA StartedType ==
  ASSUME NEW q \in Queued
  PROVE  Nobody \in Run /\ NoRun \in Queued /\ Started(q) \in Run
<1>1. Nobody \in Run /\ NoRun \in Queued
  BY DeliveryAssumption DEF Nobody, NoRun, Run, Queued, Digest
<1>2. q.sha \in Digest
  BY DEF Queued
<1>3. QED
  BY <1>1, <1>2 DEF Started, Run

LEMMA EnterType ==
  ASSUME TypeOK, NEW q \in Queued, Enter(q)
  PROVE  run' \in Run /\ pending' \in Queued
  BY StartedType DEF Enter, TypeOK

LEMMA ReleaseType ==
  ASSUME TypeOK, Release
  PROVE  run' \in Run /\ pending' \in Queued
  BY StartedType DEF Release, TypeOK

LEMMA ProposeType ==
  ASSUME TypeInv, NEW b \in Branch, NEW e \in Env, NEW d \in Digest, Propose(b, e, d)
  PROVE  TypeInv'
<1>1. [branch |-> b, base |-> Declared(e), new |-> d] \in Pr
  BY DeclaredInLog DEF Pr
<1>2. QED
  BY <1>1 DEF Propose, TypeInv, TypeOK

(* What a listing returns and what it leaves out are together all there is. *)
LEMMA ListStep ==
  ASSUME TypeOK, List
  PROVE  /\ run' \in Run /\ run'.pc = "close" /\ run'.sha = run.sha
         /\ missed \subseteq missed' /\ missed' \subseteq Branch
         /\ \A p \in DevPromotions : p.branch \in run'.victims \cup missed'
         /\ UNCHANGED <<commits, log, prs, branches, pending>>
<1> DEFINE all == {p.branch : p \in DevPromotions}
           listing(v) == [run EXCEPT !.pc = "close", !.victims = v]
<1>1. all \subseteq Branch
  BY DEF TypeOK, DevPromotions, Pr
<1>2. \A v \in SUBSET Branch :
         listing(v) \in Run /\ listing(v).pc = "close" /\ listing(v).sha = run.sha
         /\ listing(v).victims = v
  BY DEF TypeOK, Run
<1>3. \E v \in IF "unlisted" \in May THEN SUBSET all ELSE {all} :
         run' = listing(v) /\ missed' = missed \cup (all \ v)
  BY DEF List
<1>4. \A p \in DevPromotions : p.branch \in all
  OBVIOUS
<1>5. missed \subseteq Branch /\ UNCHANGED <<commits, log, prs, branches, pending>>
  BY DEF List, TypeOK
<1> HIDE DEF all, listing
<1>6. PICK v \in SUBSET all : run' = listing(v) /\ missed' = missed \cup (all \ v)
  BY <1>3
<1>7. QED
  BY <1>1, <1>2, <1>4, <1>5, <1>6

-----------------------------------------------------------------------------
LEMMA TypeStep == TypeInv /\ [Next]_vars => TypeInv'
<1> SUFFICES ASSUME TypeInv, [Next]_vars PROVE TypeInv'
  OBVIOUS
<1>t. TypeOK
  BY DEF TypeInv
<1>r. \A q \in Queued : Started(q) \in Run
  BY StartedType
<1>c. \A c \in 1..Tip : c \in Digest /\ Tip \in Digest
  BY <1>t, DeliveryAssumption DEF TypeOK, Tip, Digest
<1>1. CASE CodeCommit
  BY <1>1, <1>t, LandType DEF CodeCommit, gitVars, TypeInv, TypeOK
<1>2. ASSUME NEW c \in 1..Tip, Publish(c) PROVE TypeInv'
  <2>1. PICK img \in {"pushed", "signed"} : commits' = [commits EXCEPT ![c].image = img]
    BY <1>2 DEF Publish
  <2>2. [commits[c] EXCEPT !.image = img] \in Commits
    BY <1>t, CommitType DEF Commits
  <2>3. commits' \in Seq(Commits) /\ Len(commits') <= MaxCommits
    BY <2>1, <2>2, <1>t, CommitType DEF TypeOK, Tip
  <2>4. QED
    BY <1>2, <2>3 DEF Publish, gitVars, TypeInv, TypeOK
<1>3. ASSUME NEW c \in 1..Tip, NEW ok \in BOOLEAN, CiDone(c, ok) PROVE TypeInv'
  <2>1. [sha |-> c, ok |-> ok] \in Queued
    BY <1>3, <1>c DEF Queued
  <2>2. run' \in Run /\ pending' \in Queued
    BY <1>3, <2>1, <1>t, EnterType DEF CiDone
  <2>3. \A v \in {"passed", "failed"} : [commits[c] EXCEPT !.ci = v] \in Commits
    BY <1>t, CommitType DEF Commits
  <2>4. PICK v \in {"passed", "failed"} : commits' = [commits EXCEPT ![c].ci = v]
    BY <1>3 DEF CiDone
  <2>5. commits' \in Seq(Commits) /\ Len(commits') <= MaxCommits
    BY <2>3, <2>4, <1>t, CommitType DEF TypeOK, Tip
  <2>6. QED
    BY <1>3, <2>2, <2>5 DEF CiDone, gitVars, TypeInv, TypeOK
<1>4. CASE Dispatch
  <2>1. [sha |-> Tip, ok |-> TRUE] \in Queued
    BY <1>4, <1>t, DeliveryAssumption DEF Dispatch, Queued, Digest, Tip, TypeOK
  <2>2. QED
    BY <1>4, <2>1, <1>t, EnterType DEF Dispatch, gitVars, TypeInv, TypeOK
<1>5. CASE PromoteDev
  <2>d. Declared(Dev) \in Digest
    BY DeclaredInLog, DeliveryAssumption
  <2>b. run.sha \in Digest /\ run.base \in Digest /\ DevBranch(run.sha) \in Branch
    BY <1>t, DeliveryAssumption DEF TypeOK, Run, DevBranch, Branch
  <2>1. CASE Skip
    BY <2>1, <1>t, ReleaseType DEF Skip, gitVars, TypeInv, TypeOK
  <2>2. CASE Find
    <3>1. [run EXCEPT !.pc = "list", !.base = Declared(Dev)] \in Run
      BY <1>t, <2>d DEF TypeOK, Run
    <3>2. run' \in Run /\ pending' \in Queued
      BY <2>2, <3>1, <1>t, ReleaseType DEF Find, TypeOK
    <3>3. QED
      BY <2>2, <3>2 DEF Find, gitVars, TypeInv, TypeOK
  <2>3. CASE List
    BY <2>3, <1>t, ListStep DEF TypeInv, TypeOK
  <2>4. ASSUME NEW b \in run.victims, Close(b) PROVE TypeInv'
    <3>1. [run EXCEPT !.victims = @ \ {b}] \in Run
      BY <1>t DEF TypeOK, Run
    <3>2. run' \in Run /\ pending' \in Queued
      BY <2>4, <3>1, <1>t, ReleaseType DEF Close, TypeOK
    <3>3. QED
      BY <2>4, <3>2 DEF Close, TypeInv, TypeOK
  <2>5. CASE Push
    <3>1. [run EXCEPT !.pc = "open"] \in Run
      BY <1>t DEF TypeOK, Run
    <3>2. run' \in Run /\ pending' \in Queued
      BY <2>5, <3>1, <1>t, ReleaseType DEF Push, TypeOK
    <3>3. QED
      BY <2>5, <3>2, <2>b DEF Push, TypeInv, TypeOK
  <2>6. CASE Open
    <3>1. [branch |-> DevBranch(run.sha), base |-> run.base, new |-> run.sha] \in Pr
      BY <2>b DEF Pr
    <3>2. QED
      BY <2>6, <3>1, <1>t, ReleaseType DEF Open, TypeInv, TypeOK
  <2>7. CASE Die
    BY <2>7, <1>t, ReleaseType DEF Die, gitVars, TypeInv, TypeOK
  <2>8. QED
    BY <1>5, <2>1, <2>2, <2>3, <2>4, <2>5, <2>6, <2>7 DEF PromoteDev
<1>6. ASSUME NEW pair \in Promotions, Promote(pair[1], pair[2]) PROVE TypeInv'
  <2>1. pair[1] \in Env /\ pair[2] \in Env
    BY DeliveryAssumption
  <2>2. Declared(pair[1]) \in Digest
    BY <2>1, DeclaredInLog
  <2>3. [kind |-> "promote", env |-> pair[2], n |-> Declared(pair[1])] \in Branch
    BY <2>1, <2>2 DEF Branch
  <2>4. QED
    BY <1>6, <2>1, <2>2, <2>3, ProposeType DEF Promote
<1>7. ASSUME NEW e \in Env, Rollback(e) PROVE TypeInv'
  <2>1. Last(e).at \in Digest /\ log[e][Len(log[e]) - 1].digest \in Digest
    BY <1>7, DeclaredInLog DEF Rollback, Entry
  <2>2. [kind |-> "rollback", env |-> e, n |-> Last(e).at] \in Branch
    BY <2>1 DEF Branch
  <2>3. QED
    BY <1>7, <2>1, <2>2, ProposeType DEF Rollback
<1>8. ASSUME NEW e \in Env, NEW d \in 0..Tip, BreakGlass(e, d) PROVE TypeInv'
  <2>1. d \in Digest
    BY <1>t, DeliveryAssumption DEF TypeOK, Tip, Digest
  <2>2. Tip + 1 \in Digest /\ commits' \in Seq(Commits) /\ Len(commits') <= MaxCommits
    BY <1>8, <1>t, LandType DEF BreakGlass
  <2>3. QED
    BY <1>8, <2>1, <2>2, DeclareType DEF BreakGlass, TypeInv, TypeOK
<1>9. ASSUME NEW p \in prs, Merge(p) PROVE TypeInv'
  <2>1. Tip + 1 \in Digest /\ commits' \in Seq(Commits) /\ Len(commits') <= MaxCommits
    BY <1>9, <1>t, LandType DEF Merge
  <2>2. /\ log' \in [Env -> Seq(Entry)]
        /\ \A x \in Env : Len(log'[x]) > 0 /\ log'[x][1].by = "initial"
    <3>1. CASE UNCHANGED log
      BY <3>1 DEF TypeInv, TypeOK
    <3>2. CASE Declare(p.branch.env, Result(p), p.branch.kind)
      BY <3>2, <2>1, ResultType, DeclareType
    <3>3. QED
      BY <1>9, <3>1, <3>2 DEF Merge
  <2>3. QED
    BY <1>9, <2>1, <2>2 DEF Merge, TypeInv, TypeOK
<1>10. ASSUME NEW p \in prs, Update(p) PROVE TypeInv'
  <2>1. [p EXCEPT !.base = Declared(p.branch.env), !.new = Result(p)] \in Pr
    BY ResultType DEF Pr
  <2>2. QED
    BY <1>10, <2>1 DEF Update, TypeInv, TypeOK
<1>11. CASE UNCHANGED vars
  BY <1>11 DEF vars, TypeInv, TypeOK
<1>12. QED
  BY <1>1, <1>2, <1>3, <1>4, <1>5, <1>6, <1>7, <1>8, <1>9, <1>10, <1>11 DEF Next

(* The type invariant of Delivery.                                         *)
THEOREM TypeCorrect == Spec => []TypeOK
<1>1. TypeInv => TypeOK
  BY DEF TypeInv
<1>2. QED
  BY <1>1, TypeInit, TypeStep, PTL DEF Spec

-----------------------------------------------------------------------------
(* Why there is never a second open promotion for dev but one that a       *)
(* listing left out: every one there is, a run that is closing has listed  *)
(* or missed, and nothing but a run in its group opens one.  A branch has  *)
(* one pull request: so what the run opens was never missed itself.        *)
Known == {p \in DevPromotions : p.branch \notin missed}

OneInv ==
    /\ TypeInv
    /\ \A p \in prs : p.branch \in branches
    /\ \A p, q \in prs : p.branch = q.branch => p = q
    /\ \A p, q \in Known : p = q
    /\ run.pc = "close" => \A p \in Known : p.branch \in run.victims
    /\ run.pc = "open" =>
          /\ Known = {} /\ DevBranch(run.sha) \in branches
          /\ \A p \in prs : p.branch # DevBranch(run.sha)

LEMMA ReleasePc == Release => run'.pc \in {"idle", "skip", "find"}
  BY DEF Release, Started, Nobody

LEMMA EnterPc ==
  ASSUME NEW q, Enter(q)
  PROVE  run' = run \/ run'.pc \in {"skip", "find"}
  BY DEF Enter, Started, Nobody

(* A pull request that is not CI's: its branch is not a promotion to dev.  *)
LEMMA ProposeOne ==
  ASSUME OneInv, TypeInv', NEW b, NEW e, NEW d, ~(b.kind = "promote" /\ b.env = Dev),
         Propose(b, e, d)
  PROVE  OneInv'
<1>1. Known' = Known /\ UNCHANGED run /\ b \notin branches /\ branches' = branches \cup {b}
  BY DEF Propose, DevPromotions, Known
<1> DEFINE r == [branch |-> b, base |-> Declared(e), new |-> d]
<1>2. prs' = prs \cup {r} /\ r.branch = b
  BY DEF Propose
<1> HIDE DEF r
<1>3. /\ \A p \in prs' : p.branch \in branches'
      /\ \A p, q \in prs' : p.branch = q.branch => p = q
  BY <1>1, <1>2 DEF OneInv
<1>4. run'.pc = "open" => /\ DevBranch(run'.sha) \in branches'
                          /\ \A p \in prs' : p.branch # DevBranch(run'.sha)
  BY <1>1, <1>2 DEF OneInv
<1>5. QED
  BY <1>1, <1>3, <1>4 DEF OneInv

(* Fewer pull requests, and as many branches fewer.                        *)
LEMMA FewerOne ==
  ASSUME OneInv, TypeInv', NEW b, missed' = missed, branches' = branches \ {b},
         prs' = {p \in prs : p.branch # b},
         \/ UNCHANGED run
         \/ run'.pc = "close" /\ run.pc = "close" /\ run.victims \ {b} \subseteq run'.victims,
         run.pc = "open" => \E p \in prs : p.branch = b
  PROVE  OneInv'
<1>1. Known' = {p \in Known : p.branch # b}
  BY DEF DevPromotions, Known
<1>2. /\ \A p \in prs' : p.branch \in branches'
      /\ \A p, q \in prs' : p.branch = q.branch => p = q
  BY DEF OneInv
<1>3. QED
  BY <1>1, <1>2 DEF OneInv

LEMMA OneStep == OneInv /\ [Next]_vars => OneInv'
<1> SUFFICES ASSUME OneInv, [Next]_vars PROVE OneInv'
  OBVIOUS
<1>t. TypeInv'
  BY TypeStep DEF OneInv
<1>s. ASSUME UNCHANGED <<prs, branches, missed>>,
             \/ UNCHANGED run
             \/ run'.pc \in {"idle", "skip", "find", "list"}
             \/ run'.pc = "close" /\ \A p \in Known : p.branch \in run'.victims
             \/ run'.pc = run.pc /\ run'.sha = run.sha /\ run'.victims = run.victims
      PROVE  OneInv'
  BY <1>s, <1>t DEF OneInv, Known, DevPromotions
<1>1. CASE CodeCommit
  BY <1>1, <1>s DEF CodeCommit, gitVars
<1>2. ASSUME NEW c \in 1..Tip, Publish(c) PROVE OneInv'
  BY <1>2, <1>s DEF Publish, gitVars
<1>3. ASSUME NEW c \in 1..Tip, NEW ok \in BOOLEAN, CiDone(c, ok) PROVE OneInv'
  BY <1>3, <1>s, EnterPc DEF CiDone, gitVars
<1>4. CASE Dispatch
  BY <1>4, <1>s, EnterPc DEF Dispatch, gitVars
<1>5. CASE PromoteDev
  <2>0. run \in Run
    BY DEF OneInv, TypeInv, TypeOK
  <2>1. CASE Skip
    BY <2>1, <1>s, ReleasePc DEF Skip, gitVars
  <2>2. CASE Find
    <3>1. run'.pc \in {"idle", "skip", "find", "list"}
      BY <2>0, <2>2, ReleasePc DEF Find, Run
    <3>2. QED
      BY <2>2, <3>1, <1>s DEF Find, gitVars
  <2>3. CASE List
    <3>1. /\ run'.pc = "close" /\ missed \subseteq missed' /\ UNCHANGED <<prs, branches>>
          /\ \A p \in DevPromotions : p.branch \in run'.victims \cup missed'
      BY <2>3, ListStep DEF OneInv, TypeInv
    <3>2. Known' \subseteq Known /\ \A p \in Known' : p.branch \in run'.victims
      BY <3>1 DEF Known, DevPromotions
    <3>3. QED
      BY <3>1, <3>2, <1>t DEF OneInv
  <2>4. ASSUME NEW b \in run.victims, Close(b) PROVE OneInv'
    <3>1. CASE b \in {p.branch : p \in prs}
      <4>1. run'.pc = "close" /\ run'.victims = run.victims \ {b} /\ run.pc = "close"
        BY <2>0, <2>4, <3>1 DEF Close, Run
      <4>2. /\ prs' = {p \in prs : p.branch # b}
            /\ branches' = branches \ {b} /\ missed' = missed
        BY <2>4, <3>1 DEF Close
      <4>3. QED
        BY <4>1, <4>2, <1>t, FewerOne
    <3>2. CASE b \notin {p.branch : p \in prs}
      BY <2>4, <3>2, <1>s, ReleasePc DEF Close
    <3>3. QED
      BY <3>1, <3>2
  <2>5. CASE Push
    <3>1. CASE DevBranch(run.sha) \in branches
      BY <2>5, <3>1, <1>s, ReleasePc DEF Push
    <3>2. CASE DevBranch(run.sha) \notin branches
      <4>1. run'.pc = "open" /\ run'.sha = run.sha
        BY <2>0, <2>5, <3>2 DEF Push, Run
      <4>2. /\ UNCHANGED <<prs, missed>> /\ branches' = branches \cup {DevBranch(run.sha)}
            /\ run.pc = "close" /\ run.victims = {}
        BY <2>5, <3>2 DEF Push
      <4>3. Known' = Known /\ Known = {}
        BY <4>2 DEF OneInv, Known, DevPromotions
      <4>4. DevBranch(run'.sha) = DevBranch(run.sha)
        BY <4>1 DEF DevBranch
      <4>5. \A p \in prs' : p.branch # DevBranch(run'.sha)
        BY <3>2, <4>2, <4>4 DEF OneInv
      <4>6. QED
        BY <4>1, <4>2, <4>3, <4>4, <4>5, <1>t DEF OneInv
    <3>3. QED
      BY <3>1, <3>2
  <2>6. CASE Open
    <3> DEFINE own == [branch |-> DevBranch(run.sha), base |-> run.base, new |-> run.sha]
    <3>1. /\ prs' = prs \cup {own} /\ missed' = missed \ {DevBranch(run.sha)}
          /\ UNCHANGED branches /\ run.pc = "open" /\ run'.pc \in {"idle", "skip", "find"}
      BY <2>6, ReleasePc DEF Open
    <3>2. own.branch = DevBranch(run.sha)
      OBVIOUS
    <3> HIDE DEF own
    <3>3. Known' \subseteq {own}
      BY <3>1, <3>2 DEF OneInv, Known, DevPromotions
    <3>4. /\ \A p \in prs' : p.branch \in branches'
          /\ \A p, q \in prs' : p.branch = q.branch => p = q
      BY <3>1, <3>2 DEF OneInv
    <3>5. QED
      BY <3>1, <3>3, <3>4, <1>t DEF OneInv
  <2>7. CASE Die
    BY <2>7, <1>s, ReleasePc DEF Die, gitVars
  <2>8. QED
    BY <1>5, <2>1, <2>2, <2>3, <2>4, <2>5, <2>6, <2>7 DEF PromoteDev
<1>6. ASSUME NEW pair \in Promotions, Promote(pair[1], pair[2]) PROVE OneInv'
  <2>1. pair[2] # Dev
    BY DeliveryAssumption
  <2>2. QED
    BY <1>6, <1>t, <2>1, ProposeOne DEF Promote
<1>7. ASSUME NEW e \in Env, Rollback(e) PROVE OneInv'
  BY <1>7, <1>t, ProposeOne DEF Rollback
<1>8. ASSUME NEW e \in Env, NEW d \in 0..Tip, BreakGlass(e, d) PROVE OneInv'
  BY <1>8, <1>s DEF BreakGlass
<1>9. ASSUME NEW p \in prs, Merge(p) PROVE OneInv'
  <2>1. prs' = {q \in prs : q.branch # p.branch}
    BY <1>9 DEF Merge, OneInv
  <2>2. branches' = branches \ {p.branch} /\ missed' = missed /\ UNCHANGED run
    BY <1>9 DEF Merge
  <2>3. QED
    BY <1>t, <2>1, <2>2, FewerOne
<1>10. ASSUME NEW p \in prs, Update(p) PROVE OneInv'
  <2> DEFINE q == [p EXCEPT !.base = Declared(p.branch.env), !.new = Result(p)]
  <2>1. q.branch = p.branch
    BY ResultType DEF OneInv, Pr
  <2>2. prs' = (prs \ {p}) \cup {q} /\ UNCHANGED <<run, branches, missed>>
    BY <1>10 DEF Update
  <2> HIDE DEF q
  <2>3. /\ \A r \in prs' : r.branch \in branches'
        /\ \A r, x \in prs' : r.branch = x.branch => r = x
    BY <2>1, <2>2 DEF OneInv
  <2>4. run'.pc = "open" => /\ DevBranch(run'.sha) \in branches'
                            /\ \A r \in prs' : r.branch # DevBranch(run'.sha)
    BY <2>1, <2>2 DEF OneInv
  <2>5. CASE p \in Known
    <3>1. Known' = {q}
      BY <2>1, <2>2, <2>5 DEF Known, DevPromotions, OneInv
    <3>2. QED
      BY <2>1, <2>2, <2>3, <2>4, <2>5, <3>1, <1>t DEF OneInv
  <2>6. CASE p \notin Known
    <3>1. Known' = Known
      BY <2>1, <2>2, <2>6 DEF Known, DevPromotions
    <3>2. QED
      BY <2>2, <2>3, <2>4, <3>1, <1>t DEF OneInv
  <2>7. QED
    BY <2>5, <2>6
<1>11. CASE UNCHANGED vars
  BY <1>11, <1>s DEF vars
<1>12. QED
  BY <1>1, <1>2, <1>3, <1>4, <1>5, <1>6, <1>7, <1>8, <1>9, <1>10, <1>11 DEF Next

(* OneOpenPromotion, whatever order CI completes in, wherever a run dies,  *)
(* whatever a listing leaves out, whoever starts a run by hand and         *)
(* whatever people merge meanwhile: beside those that were left out there  *)
(* is never a second one.                                                  *)
THEOREM AtMostOneOpenPromotion == Spec => []OneOpenPromotion
<1>1. Init => OneInv
  BY TypeInit DEF Init, OneInv, Known, DevPromotions, Nobody
<1>2. OneInv => OneOpenPromotion
  <2> SUFFICES ASSUME OneInv PROVE Cardinality(Known) <= 1
    BY DEF OneOpenPromotion, Known
  <2>1. CASE Known = {}
    BY <2>1, FS_EmptySet
  <2>2. ASSUME NEW p \in Known PROVE Cardinality(Known) <= 1
    <3>1. Known = {p}
      BY <2>2 DEF OneInv
    <3>2. Cardinality({p}) = 1
      BY FS_Singleton
    <3>3. QED
      BY <3>1, <3>2
  <2>3. QED
    BY <2>1, <2>2
<1>3. QED
  BY <1>1, <1>2, OneStep, PTL DEF Spec

-----------------------------------------------------------------------------
(* Signed, of any list of commits. *)
SignedIn(cs, d) == d = 0 \/ (d \in 1..Len(cs) /\ cs[d].image = "signed")

(* How a step can change a log, and where an open pull request can come    *)
(* from.                                                                   *)
LEMMA LogStep ==
  ASSUME TypeInv, [Next]_vars
  PROVE  \/ UNCHANGED log
         \/ /\ Tip + 1 \in Digest
            /\ \/ \E e \in Env, d \in Digest :
                     /\ SignedIn(commits, d) /\ Declare(e, d, "breakglass")
                     /\ UNCHANGED prs
               \/ \E p \in prs :
                     /\ p.base # p.new /\ Declare(p.branch.env, p.new, p.branch.kind)
                     /\ prs' \subseteq prs
<1>t. TypeOK
  BY DEF TypeInv
<1>1. ASSUME NEW e \in Env, NEW d \in 0..Tip, BreakGlass(e, d)
      PROVE  Tip + 1 \in Digest /\ d \in Digest /\ SignedIn(commits, d)
             /\ Declare(e, d, "breakglass") /\ UNCHANGED prs
  BY <1>1, <1>t, LandType, DeliveryAssumption DEF BreakGlass, TypeOK, Tip, Digest, Signed, SignedIn
<1>2. ASSUME NEW p \in prs, Merge(p), log' # log
      PROVE  Tip + 1 \in Digest /\ p.base # p.new
             /\ Declare(p.branch.env, p.new, p.branch.kind) /\ prs' \subseteq prs
  BY <1>2, <1>t, LandType DEF Merge, Result
<1>3. ASSUME PromoteDev PROVE UNCHANGED log
  BY <1>3 DEF PromoteDev, Skip, Find, List, Close, Push, Open, Die, gitVars
<1>4. QED
  BY <1>1, <1>2, <1>3
  DEF Next, vars, CodeCommit, Publish, CiDone, Dispatch, Promote, Rollback, Propose, Update, gitVars

LEMMA PrStep ==
  ASSUME TypeInv, [Next]_vars, NEW p \in prs'
  PROVE  \/ p \in prs
         \/ \E q \in prs : p = [q EXCEPT !.base = Declared(q.branch.env), !.new = Result(q)]
         \/ run.pc = "open" /\ p.branch = DevBranch(run.sha) /\ p.new = run.sha
         \/ \E pair \in Promotions : /\ p.branch.kind = "promote" /\ p.branch.env = pair[2]
                                     /\ p.new = Declared(pair[1])
         \/ \E e \in Env : /\ p.branch.kind = "rollback" /\ p.branch.env = e
                           /\ p.new \in Digests(e)
<1>1. ASSUME PromoteDev, p \notin prs
      PROVE  run.pc = "open" /\ p.branch = DevBranch(run.sha) /\ p.new = run.sha
  <2>1. ~List
    BY <1>1 DEF List
  <2>2. QED
    BY <1>1, <2>1 DEF PromoteDev, Skip, Find, Close, Push, Open, Die, gitVars
<1>2. ASSUME NEW e \in Env, Rollback(e), p \notin prs
      PROVE  p.branch.kind = "rollback" /\ p.branch.env = e /\ p.new \in Digests(e)
  BY <1>2, DeclaredInLog DEF Rollback, Propose
<1>3. ASSUME NEW pair \in Promotions, Promote(pair[1], pair[2]), p \notin prs
      PROVE  p.branch.kind = "promote" /\ p.branch.env = pair[2] /\ p.new = Declared(pair[1])
  BY <1>3 DEF Promote, Propose
<1>4. ASSUME NEW q \in prs, Update(q), p \notin prs
      PROVE  p = [q EXCEPT !.base = Declared(q.branch.env), !.new = Result(q)]
  BY <1>4 DEF Update
<1>5. QED
  BY <1>1, <1>2, <1>3, <1>4
  DEF Next, vars, CodeCommit, Publish, CiDone, Dispatch, BreakGlass, Merge, gitVars

LEMMA DigestsGrow ==
  ASSUME TypeInv, [Next]_vars, NEW e \in Env
  PROVE  Digests(e) \subseteq Digests(e)'
<1>0. Len(log[e]) \in Nat
  BY DEF TypeInv, TypeOK
<1>1. ASSUME NEW x \in Env, NEW d \in Digest, NEW how \in {"promote", "rollback", "breakglass"},
             Tip + 1 \in Digest, Declare(x, d, how)
      PROVE  Digests(e) \subseteq Digests(e)'
  <2>1. Len(log'[e]) \in Nat /\ Len(log'[e]) >= Len(log[e])
        /\ \A i \in 1..Len(log[e]) : log'[e][i] = log[e][i]
    <3>1. CASE x = e
      <4>1. Len(log'[x]) = Len(log[x]) + 1 /\ \A i \in 1..Len(log[x]) : log'[x][i] = log[x][i]
        BY <1>1, DeclareType
      <4>2. QED
        BY <1>0, <3>1, <4>1
    <3>2. CASE x # e
      <4>1. log'[e] = log[e]
        BY <1>1, <3>2, DeclareType
      <4>2. QED
        BY <1>0, <4>1
    <3>3. QED
      BY <3>1, <3>2
  <2>2. QED
    BY <1>0, <2>1 DEF Digests
<1>2. \A p \in prs : p.new \in Digest /\ p.branch.env \in Env
                     /\ p.branch.kind \in {"promote", "rollback"}
  BY DEF TypeInv, TypeOK, Pr, Branch
<1>3. QED
  BY <1>1, <1>2, LogStep DEF Digests

(* Digests(e)' has the digest of every new entry.                          *)
LEMMA PathLog ==
  ASSUME TypeInv, NEW e \in Env, NEW i \in 1..Len(log[e])
  PROVE  log[e][i] \in Entry /\ log[e][i].digest \in Digests(e)
  BY DEF TypeInv, TypeOK, Digests

-----------------------------------------------------------------------------
(* A stage is promoted to from one stage only.                             *)
OneSource == \A p, q \in Promotions : p[2] = q[2] => p = q

(* Why a promotion goes through the stages and a rollback goes back.  What *)
(* an open pull request declares was declared there before it was opened.  *)
(* Updating its branch can change that only to what its own environment    *)
(* declares now - and then merging it changes nothing.                     *)
Proposed(p) ==
    \/ p.base = p.new
    \/ /\ p.branch.kind = "promote" /\ OneSource =>
             \A pair \in Promotions : pair[2] = p.branch.env => p.new \in Digests(pair[1])
       /\ p.branch.kind = "rollback" => p.new \in Digests(p.branch.env)

StagesLog == OneSource =>
    \A pair \in Promotions : \A i \in 2..Len(log[pair[2]]) :
        log[pair[2]][i].by = "promote" => log[pair[2]][i].digest \in Digests(pair[1])

PathInv ==
    /\ TypeInv
    /\ \A p \in prs : Proposed(p)
    /\ StagesLog
    /\ RollbackGoesBack

LEMMA ProposedStep ==
  ASSUME PathInv, [Next]_vars
  PROVE  \A p \in prs' : Proposed(p)'
<1> SUFFICES ASSUME NEW p \in prs' PROVE Proposed(p)'
  OBVIOUS
<1>g. \A e \in Env : Digests(e) \subseteq Digests(e)'
  BY DigestsGrow DEF PathInv
<1>p. \A pair \in Promotions : pair[1] \in Env /\ pair[2] \in Env /\ pair[2] # Dev
  BY DeliveryAssumption
<1>b. \A q \in prs : q \in Pr /\ q.branch.env \in Env
  BY DEF PathInv, TypeInv, TypeOK, Pr, Branch
<1>1. CASE p \in prs
  BY <1>1, <1>g, <1>p, <1>b DEF PathInv, Proposed
<1>2. ASSUME NEW q \in prs, p = [q EXCEPT !.base = Declared(q.branch.env), !.new = Result(q)]
      PROVE  Proposed(p)'
  <2>1. p.branch = q.branch /\ p.base = Declared(q.branch.env) /\ p.new = Result(q)
    BY <1>2, <1>b DEF Pr
  <2>2. CASE q.base = q.new
    BY <2>1, <2>2 DEF Result, Proposed
  <2>3. CASE q.base # q.new
    <3>1. p.new = q.new /\ Proposed(q)
      BY <2>1, <2>3 DEF Result, PathInv
    <3>2. QED
      BY <2>1, <2>3, <3>1, <1>g, <1>p, <1>b DEF Proposed
  <2>4. QED
    BY <2>2, <2>3
<1>3. CASE run.pc = "open" /\ p.branch = DevBranch(run.sha) /\ p.new = run.sha
  BY <1>3, <1>p DEF DevBranch, Proposed
<1>4. ASSUME NEW pair \in Promotions, p.branch.kind = "promote", p.branch.env = pair[2],
             p.new = Declared(pair[1])
      PROVE  Proposed(p)'
  <2>1. p.new \in Digests(pair[1])'
    BY <1>4, <1>g, <1>p, DeclaredInLog DEF PathInv
  <2>2. QED
    BY <1>4, <2>1 DEF Proposed, OneSource
<1>5. ASSUME NEW e \in Env, p.branch.kind = "rollback", p.branch.env = e, p.new \in Digests(e)
      PROVE  Proposed(p)'
  BY <1>5, <1>g DEF Proposed
<1>6. QED
  BY <1>1, <1>2, <1>3, <1>4, <1>5, PrStep DEF PathInv

LEMMA PathLogStep ==
  ASSUME PathInv, [Next]_vars
  PROVE  StagesLog' /\ RollbackGoesBack'
<1>t. TypeInv /\ TypeInv'
  BY TypeStep DEF PathInv
<1>g. \A e \in Env : Digests(e) \subseteq Digests(e)'
  BY <1>t, DigestsGrow
<1>p. \A pair \in Promotions : pair[1] \in Env /\ pair[2] \in Env
  BY DeliveryAssumption
<1>l. \A e \in Env : Len(log[e]) \in Nat \ {0}
  BY <1>t, DeclaredInLog
<1>1. CASE UNCHANGED log
  BY <1>1 DEF PathInv, StagesLog, RollbackGoesBack, Digests
<1>2. ASSUME NEW e \in Env, NEW d \in Digest, NEW how \in {"promote", "rollback", "breakglass"},
             Tip + 1 \in Digest, Declare(e, d, how),
             how = "promote" /\ OneSource =>
                 \A pair \in Promotions : pair[2] = e => d \in Digests(pair[1]),
             how = "rollback" => d \in Digests(e)
      PROVE  StagesLog' /\ RollbackGoesBack'
  <2> DEFINE n == Len(log[e])
  <2>0. n \in Nat \ {0}
    BY <1>l
  <2>1. /\ Len(log'[e]) = n + 1
        /\ log'[e][n + 1] = [digest |-> d, at |-> Tip + 1, by |-> how]
        /\ \A i \in 1..n : log'[e][i] = log[e][i]
        /\ \A x \in Env \ {e} : log'[x] = log[x]
    BY <1>2, <1>t, DeclareType
  <2>2. log'[e][n + 1].digest = d /\ log'[e][n + 1].by = how
    BY <2>1
  <2> HIDE DEF n
  <2>3. StagesLog'
    <3> SUFFICES ASSUME OneSource, NEW pair \in Promotions, NEW i \in 2..Len(log'[pair[2]]),
                        log'[pair[2]][i].by = "promote"
                 PROVE  log'[pair[2]][i].digest \in Digests(pair[1])'
      BY DEF StagesLog
    <3>1. CASE pair[2] = e /\ i = n + 1
      BY <3>1, <1>2, <2>2, <1>g, <1>p
    <3>2. CASE ~(pair[2] = e /\ i = n + 1)
      <4>1. i \in 2..Len(log[pair[2]]) /\ log'[pair[2]][i] = log[pair[2]][i]
        BY <3>2, <2>0, <2>1, <1>p DEF n
      <4>2. log[pair[2]][i].digest \in Digests(pair[1])
        BY <4>1 DEF PathInv, StagesLog
      <4>3. QED
        BY <4>1, <4>2, <1>g, <1>p
    <3>3. QED
      BY <3>1, <3>2
  <2>4. RollbackGoesBack'
    <3> SUFFICES ASSUME NEW x \in Env, NEW i \in 1..Len(log'[x]), log'[x][i].by = "rollback"
                 PROVE  \E j \in 1..(i - 1) : log'[x][j].digest = log'[x][i].digest
      BY DEF RollbackGoesBack
    <3>1. CASE x = e /\ i = n + 1
      <4>1. PICK j \in 1..n : log[e][j].digest = d
        BY <3>1, <1>2, <2>2 DEF Digests, n
      <4>2. QED
        BY <3>1, <4>1, <2>0, <2>1, <2>2
    <3>2. CASE ~(x = e /\ i = n + 1)
      <4>1. i \in 1..Len(log[x]) /\ Len(log[x]) \in Nat
            /\ \A j \in 1..Len(log[x]) : log'[x][j] = log[x][j]
        BY <3>2, <2>0, <2>1, <1>l DEF n
      <4>2. PICK j \in 1..(i - 1) : log[x][j].digest = log[x][i].digest
        BY <4>1 DEF PathInv, RollbackGoesBack
      <4>3. QED
        BY <4>1, <4>2
    <3>3. QED
      BY <3>1, <3>2
  <2>5. QED
    BY <2>3, <2>4
<1>3. \A p \in prs : /\ p.new \in Digest /\ p.branch.env \in Env
                     /\ p.branch.kind \in {"promote", "rollback"} /\ Proposed(p)
  BY <1>t DEF PathInv, TypeInv, TypeOK, Pr, Branch
<1>4. QED
  BY <1>1, <1>2, <1>3, <1>t, LogStep DEF Proposed

LEMMA PathInductive == Spec => []PathInv
<1>1. Init => PathInv
  BY TypeInit, DeliveryAssumption DEF Init, PathInv, StagesLog, RollbackGoesBack
<1>2. PathInv /\ [Next]_vars => PathInv'
  <2> SUFFICES ASSUME PathInv, [Next]_vars PROVE PathInv'
    OBVIOUS
  <2>1. TypeInv'
    BY TypeStep DEF PathInv
  <2>2. QED
    BY <2>1, ProposedStep, PathLogStep DEF PathInv
<1>3. QED
  BY <1>1, <1>2, PTL DEF Spec

(* ThroughStages, for any chain: an environment reaches a digest by        *)
(* promotion only after its one source has declared it.                    *)
THEOREM PromotionsGoThroughStages ==
  ASSUME OneSource
  PROVE  Spec => []ThroughStages
<1>1. PathInv => ThroughStages
  <2> SUFFICES ASSUME PathInv, NEW pair \in Promotions, NEW i \in 1..MaxCommits,
                      i < Len(log[pair[2]]), log[pair[2]][i + 1].by = "promote"
               PROVE  log[pair[2]][i + 1].digest \in Digests(pair[1])
    BY DEF ThroughStages
  <2>1. Len(log[pair[2]]) \in Nat
    BY DeliveryAssumption, DeclaredInLog DEF PathInv
  <2>2. i + 1 \in 2..Len(log[pair[2]])
    BY <2>1, DeliveryAssumption
  <2>3. QED
    BY <2>2 DEF PathInv, StagesLog
<1>2. QED
  BY <1>1, PathInductive, PTL

(* RollbackGoesBack, for any chain: a rollback, merged however late, only  *)
(* declares what its environment has declared before.                      *)
THEOREM RollbacksGoBack == Spec => []RollbackGoesBack
<1>1. PathInv => RollbackGoesBack
  BY DEF PathInv
<1>2. QED
  BY <1>1, PathInductive, PTL

-----------------------------------------------------------------------------
(* What CI signed stays signed.                                            *)
LEMMA SignedStays ==
  ASSUME TypeInv, [Next]_vars, NEW d, SignedIn(commits, d)
  PROVE  SignedIn(commits', d)
<1>t. TypeOK
  BY DEF TypeInv
<1>1. ASSUME Land PROVE SignedIn(commits', d)
  BY <1>1, <1>t, LandType DEF SignedIn, Tip
<1>2. ASSUME NEW c \in 1..Tip, Publish(c) PROVE SignedIn(commits', d)
  <2> DEFINE n == Len(commits)
  <2>1. PICK img \in {"pushed", "signed"} :
           /\ commits' = [commits EXCEPT ![c] = [commits[c] EXCEPT !.image = img]]
           /\ commits[c].image = "signed" => img = "signed"
    BY <1>2 DEF Publish
  <2>2. commits \in Seq(Commits) /\ n \in Nat /\ c \in 1..n
    BY <1>t DEF TypeOK, Tip
  <2>3. [commits[c] EXCEPT !.image = img].image = img
    BY <2>2 DEF Commits
  <2>4. Len(commits') = n /\ \A i \in 1..n : commits'[i] = IF i = c THEN [commits[c] EXCEPT !.image = img] ELSE commits[i]
    BY <2>1, <2>2
  <2>5. \A i \in 1..n : commits[i].image = "signed" => commits'[i].image = "signed"
    BY <2>1, <2>3, <2>4
  <2>6. QED
    BY <2>4, <2>5 DEF SignedIn
<1>3. ASSUME NEW c \in 1..Tip, NEW ok \in BOOLEAN, CiDone(c, ok) PROVE SignedIn(commits', d)
  BY <1>3, <1>t DEF CiDone, SignedIn, Tip, TypeOK, Commits
<1>4. ASSUME UNCHANGED commits PROVE SignedIn(commits', d)
  BY <1>4 DEF SignedIn
<1>5. ASSUME PromoteDev PROVE UNCHANGED commits
  BY <1>5 DEF PromoteDev, Skip, Find, List, Close, Push, Open, Die
<1>6. QED
  BY <1>1, <1>2, <1>3, <1>4, <1>5
  DEF Next, vars, CodeCommit, Dispatch, Promote, Rollback, Propose, BreakGlass, Merge, Update

Working == {"find", "list", "close", "push", "open"}

(* Everything a declaration can come from is signed: what was declared,    *)
(* what open pull requests propose, the commit a run works on and the one  *)
(* the waiting run would.                                                  *)
SignedInv ==
    /\ TypeInv
    /\ \A e \in Env : \A i \in 1..Len(log[e]) : SignedIn(commits, log[e][i].digest)
    /\ \A p \in prs : SignedIn(commits, p.new)
    /\ run.pc \in Working => SignedIn(commits, run.sha)
    /\ pending.ok => SignedIn(commits, pending.sha)

LEMMA SignedRelease ==
  ASSUME SignedInv, Release, [Next]_vars
  PROVE  /\ run'.pc \in Working => SignedIn(commits', run'.sha)
         /\ pending'.ok => SignedIn(commits', pending'.sha)
<1>1. CASE pending = NoRun
  BY <1>1 DEF Release, Nobody, NoRun, Working
<1>2. CASE pending # NoRun
  <2>1. run' = Started(pending) /\ pending' = NoRun
    BY <1>2 DEF Release
  <2>2. run'.pc = (IF pending.ok THEN "find" ELSE "skip") /\ run'.sha = pending.sha
    BY <2>1 DEF Started, Nobody
  <2>3. pending.ok => SignedIn(commits', pending.sha)
    BY SignedStays DEF SignedInv
  <2>4. QED
    BY <2>1, <2>2, <2>3 DEF NoRun, Working
<1>3. QED
  BY <1>1, <1>2

LEMMA SignedQueue ==
  ASSUME "dispatch" \notin May, SignedInv, [Next]_vars
  PROVE  /\ run'.pc \in Working => SignedIn(commits', run'.sha)
         /\ pending'.ok => SignedIn(commits', pending'.sha)
<1>t. TypeOK
  BY DEF SignedInv, TypeInv
<1>s. \A d : SignedIn(commits, d) => SignedIn(commits', d)
  BY SignedStays DEF SignedInv
<1>1. ASSUME UNCHANGED <<run, pending>>
      PROVE  /\ run'.pc \in Working => SignedIn(commits', run'.sha)
             /\ pending'.ok => SignedIn(commits', pending'.sha)
  BY <1>1, <1>s DEF SignedInv
<1>2. ASSUME NEW c \in 1..Tip, NEW ok \in BOOLEAN, CiDone(c, ok)
      PROVE  /\ run'.pc \in Working => SignedIn(commits', run'.sha)
             /\ pending'.ok => SignedIn(commits', pending'.sha)
  <2> DEFINE q == [sha |-> c, ok |-> ok]
  <2>1. q.ok => SignedIn(commits', q.sha)
    <3>1. ok => SignedIn(commits, c)
      BY <1>2, <1>t DEF CiDone, Signed, SignedIn, Tip
    <3>2. QED
      BY <3>1, <1>s
  <2>2. /\ Started(q).pc = (IF q.ok THEN "find" ELSE "skip")
        /\ Started(q).sha = q.sha
    BY DEF Started, Nobody
  <2>3. CASE run = Nobody
    <3>1. run' = Started(q) /\ UNCHANGED pending
      BY <1>2, <2>3 DEF CiDone, Enter
    <3>2. QED
      BY <3>1, <2>1, <2>2, <1>s DEF SignedInv, Working
  <2>4. CASE run # Nobody
    <3>1. pending' = q /\ UNCHANGED run
      BY <1>2, <2>4 DEF CiDone, Enter
    <3>2. QED
      BY <3>1, <2>1, <1>s DEF SignedInv, Working
  <2>5. QED
    BY <2>3, <2>4
<1>3. ASSUME PromoteDev
      PROVE  /\ run'.pc \in Working => SignedIn(commits', run'.sha)
             /\ pending'.ok => SignedIn(commits', pending'.sha)
  <2>1. Release \/ (/\ UNCHANGED pending /\ run'.sha = run.sha
                    /\ run.pc \in Working)
    BY <1>3, <1>t DEF PromoteDev, Skip, Find, List, Close, Push, Open, Die, TypeOK, Run, Working
  <2>2. CASE Release
    BY <2>2, SignedRelease
  <2>3. CASE UNCHANGED pending /\ run'.sha = run.sha /\ run.pc \in Working
    BY <2>3, <1>s DEF SignedInv
  <2>4. QED
    BY <2>1, <2>2, <2>3
<1>4. QED
  BY <1>1, <1>2, <1>3
  DEF Next, vars, CodeCommit, Publish, Dispatch, Promote, Rollback, Propose, BreakGlass, Merge, Update

LEMMA SignedStep ==
  ASSUME "dispatch" \notin May, SignedInv, [Next]_vars
  PROVE  SignedInv'
<1>t. TypeInv /\ TypeInv'
  BY TypeStep DEF SignedInv
<1>s. \A d : SignedIn(commits, d) => SignedIn(commits', d)
  BY <1>t, SignedStays
<1>d. \A e \in Env : \A d \in Digests(e) : SignedIn(commits, d)
  BY DEF SignedInv, Digests
<1>1. \A p \in prs' : SignedIn(commits', p.new)
  <2> SUFFICES ASSUME NEW p \in prs' PROVE SignedIn(commits, p.new)
    BY <1>s
  <2>1. CASE p \in prs
    BY <2>1 DEF SignedInv
  <2>2. ASSUME NEW q \in prs, p = [q EXCEPT !.base = Declared(q.branch.env), !.new = Result(q)]
        PROVE  SignedIn(commits, p.new)
    <3>1. p.new = Result(q)
      BY <2>2, <1>t, ResultType DEF Pr
    <3>2. SignedIn(commits, q.new) /\ SignedIn(commits, Declared(q.branch.env))
      BY <1>t, <1>d, ResultType, DeclaredInLog DEF SignedInv
    <3>3. QED
      BY <3>1, <3>2 DEF Result
  <2>3. CASE run.pc = "open" /\ p.new = run.sha
    BY <2>3 DEF SignedInv, Working
  <2>4. ASSUME NEW pair \in Promotions, p.new = Declared(pair[1])
        PROVE  SignedIn(commits, p.new)
    BY <2>4, <1>t, <1>d, DeclaredInLog, DeliveryAssumption
  <2>5. ASSUME NEW e \in Env, p.new \in Digests(e) PROVE SignedIn(commits, p.new)
    BY <2>5, <1>d
  <2>6. QED
    BY <1>t, <2>1, <2>2, <2>3, <2>4, <2>5, PrStep
<1>2. \A e \in Env : \A i \in 1..Len(log'[e]) : SignedIn(commits', log'[e][i].digest)
  <2>1. CASE UNCHANGED log
    BY <2>1, <1>s DEF SignedInv
  <2>2. ASSUME NEW x \in Env, NEW d \in Digest, SignedIn(commits, d), Tip + 1 \in Digest,
               NEW how \in {"promote", "rollback", "breakglass"}, Declare(x, d, how),
               NEW e \in Env, NEW i \in 1..Len(log'[e])
        PROVE  SignedIn(commits, log'[e][i].digest)
    <3>0. Len(log[x]) \in Nat
      BY <1>t, DeclaredInLog
    <3>a. /\ Len(log'[x]) = Len(log[x]) + 1
          /\ log'[x][Len(log[x]) + 1] = [digest |-> d, at |-> Tip + 1, by |-> how]
          /\ \A j \in 1..Len(log[x]) : log'[x][j] = log[x][j]
          /\ \A y \in Env \ {x} : log'[y] = log[y]
      BY <2>2, <1>t, DeclareType
    <3>1. log'[x][Len(log[x]) + 1].digest = d
      BY <3>a
    <3>2. CASE e = x /\ i = Len(log[x]) + 1
      BY <3>1, <3>2, <2>2
    <3>3. CASE ~(e = x /\ i = Len(log[x]) + 1)
      <4>1. i \in 1..Len(log[e]) /\ log'[e][i] = log[e][i]
        BY <3>0, <3>a, <3>3
      <4>2. QED
        BY <4>1 DEF SignedInv
    <3>4. QED
      BY <3>2, <3>3
  <2>3. \A p \in prs : /\ p.new \in Digest /\ p.branch.env \in Env /\ SignedIn(commits, p.new)
                       /\ p.branch.kind \in {"promote", "rollback"}
    BY <1>t DEF SignedInv, TypeInv, TypeOK, Pr, Branch
  <2>4. QED
    BY <1>s, <1>t, <2>1, <2>2, <2>3, LogStep
<1>3. QED
  BY <1>t, <1>1, <1>2, SignedQueue DEF SignedInv

(* DeclaredIsSigned, when nobody starts promote-dev by hand: what CI had   *)
(* not signed is never declared, so admission never refuses what Git says. *)
THEOREM DeclaredSigned ==
  ASSUME "dispatch" \notin May
  PROVE  Spec => []DeclaredIsSigned
<1>1. Init => SignedInv
  BY TypeInit DEF Init, SignedInv, SignedIn, Nobody, NoRun, Working
<1>2. SignedInv => DeclaredIsSigned
  BY DeclaredInLog DEF SignedInv, SignedIn, DeclaredIsSigned, Declared, Signed, Tip
<1>3. SignedInv /\ [Next]_vars => SignedInv'
  BY SignedStep
<1>4. QED
  BY <1>1, <1>2, <1>3, PTL DEF Spec

-----------------------------------------------------------------------------
(* Why dev never moves backwards when CI completes in commit order: what   *)
(* was promoted, the promotion that is open, the run, the one that waits   *)
(* and the commits CI still works on are of ever newer commits.  Those     *)
(* that a listing left out are older than all that follows them.  A        *)
(* promotion that would change nothing has no place in that order, and     *)
(* gets none later: updating its branch leaves it one.                     *)
Merged(d) ==
    \A i \in 1..Len(log[Dev]) : log[Dev][i].by = "promote" => log[Dev][i].digest < d

Coming(d) == \A p \in DevPromotions : p.base # p.new => p.new < d

Ahead(d) == Merged(d) /\ Coming(d) /\ run.sha < d /\ pending.sha < d

(* A dev promotion that changes something brings the commit its branch is  *)
(* named for; one that no listing left out is newer than all others.       *)
Named == \A p \in DevPromotions : p.base # p.new => p.branch = DevBranch(p.new)

Newest == \A p \in Known : p.base # p.new =>
            /\ Merged(p.new)
            /\ \A q \in DevPromotions : q.base # q.new /\ q # p => q.new < p.new

OrderInv ==
    /\ OneInv
    /\ DevNeverBackwards
    /\ Named /\ Newest
    /\ run # Nobody => Merged(run.sha) /\ Coming(run.sha)
    /\ pending # NoRun => /\ Merged(pending.sha) /\ Coming(pending.sha)
                          /\ run # Nobody /\ run.sha < pending.sha
    /\ \A c \in 1..Tip : commits[c].ci = "running" => Ahead(c)
    /\ Ahead(Tip + 1)

Numbers ==
    /\ Tip \in Nat /\ run.sha \in Nat /\ pending.sha \in Nat
    /\ Len(log[Dev]) \in Nat
    /\ \A i \in 1..Len(log[Dev]) : log[Dev][i] \in Entry /\ log[Dev][i].digest \in Nat
    /\ \A p \in prs : /\ p \in Pr /\ p.new \in Nat /\ p.new \in Digest
                     /\ p.branch.env \in Env /\ p.branch.kind \in {"promote", "rollback"}

LEMMA OrderTypes == TypeInv => Numbers
<1> SUFFICES ASSUME TypeInv PROVE Numbers
  OBVIOUS
<1>1. Tip \in Nat /\ run.sha \in Nat /\ pending.sha \in Nat
  BY DeliveryAssumption DEF TypeInv, TypeOK, Tip, Run, Queued, Digest
<1>2. log[Dev] \in Seq(Entry)
  BY DeliveryAssumption DEF TypeInv, TypeOK
<1>3. \A i \in 1..Len(log[Dev]) : log[Dev][i] \in Entry
  BY <1>2
<1>4. \A x \in Entry : x.digest \in Nat
  BY DeliveryAssumption DEF Entry, Digest
<1>5. \A p \in prs : p \in Pr
  BY DEF TypeInv, TypeOK
<1>6. \A p \in Pr : /\ p.new \in Nat /\ p.new \in Digest
                    /\ p.branch.env \in Env /\ p.branch.kind \in {"promote", "rollback"}
  BY DeliveryAssumption DEF Pr, Branch, Digest
<1>7. QED
  BY <1>1, <1>2, <1>3, <1>4, <1>5, <1>6 DEF Numbers

LEMMA OrderTypesNext == TypeInv' => Numbers'
  BY OrderTypes, PTL

LEMMA Later ==
  ASSUME TypeInv, NEW d \in Nat, NEW x \in Nat, d <= x
  PROVE  /\ Merged(d) => Merged(x)
         /\ Coming(d) => Coming(x)
         /\ Ahead(d) => Ahead(x)
<1>1. Merged(d) => Merged(x)
  BY OrderTypes DEF Merged, Numbers
<1>2. Coming(d) => Coming(x)
  BY OrderTypes DEF Coming, DevPromotions, Numbers
<1>3. QED
  BY <1>1, <1>2, OrderTypes DEF Ahead, Numbers

(* A step adds nothing to the promotions of dev, or merges an open one.    *)
SamePromotions ==
    \A i \in 1..Len(log'[Dev]) : log'[Dev][i].by = "promote" =>
        i \in 1..Len(log[Dev]) /\ log'[Dev][i] = log[Dev][i]

LEMMA DevLogStep ==
  ASSUME OneInv, [Next]_vars
  PROVE  \/ SamePromotions
         \/ /\ Tip + 1 \in Digest /\ missed' = missed
            /\ \E p \in DevPromotions :
                  /\ p.base # p.new /\ Declare(Dev, p.new, "promote")
                  /\ DevPromotions' = DevPromotions \ {p}
<1>t. TypeInv
  BY DEF OneInv
<1>1. CASE UNCHANGED log
  BY <1>1 DEF SamePromotions
<1>2. ASSUME NEW e \in Env, NEW d \in Digest, NEW how \in {"promote", "rollback", "breakglass"},
             Tip + 1 \in Digest, Declare(e, d, how), ~(e = Dev /\ how = "promote")
      PROVE  SamePromotions
  <2>1. CASE e # Dev
    <3>1. log'[Dev] = log[Dev]
      BY <1>2, <1>t, <2>1, DeclareType, DeliveryAssumption
    <3>2. QED
      BY <3>1 DEF SamePromotions
  <2>2. CASE e = Dev /\ how # "promote"
    <3> DEFINE n == Len(log[Dev])
    <3>1. /\ Len(log'[Dev]) = n + 1 /\ n \in Nat
          /\ log'[Dev][n + 1] = [digest |-> d, at |-> Tip + 1, by |-> how]
          /\ \A i \in 1..n : log'[Dev][i] = log[Dev][i]
      BY <1>2, <1>t, <2>2, DeclareType, OrderTypes DEF Numbers
    <3>2. log'[Dev][n + 1].by # "promote"
      BY <2>2, <3>1
    <3>3. QED
      BY <3>1, <3>2 DEF SamePromotions
  <2>3. QED
    BY <1>2, <2>1, <2>2
<1>3. ASSUME NEW p \in prs, Merge(p), log' # log,
             p.branch.env = Dev /\ p.branch.kind = "promote"
      PROVE  /\ Tip + 1 \in Digest /\ missed' = missed /\ p \in DevPromotions
             /\ p.base # p.new /\ Declare(Dev, p.new, "promote")
             /\ DevPromotions' = DevPromotions \ {p}
  <2>1. p \in DevPromotions /\ DevPromotions' = DevPromotions \ {p}
    BY <1>3 DEF Merge, DevPromotions
  <2>2. Tip + 1 \in Digest /\ p.base # p.new /\ Declare(Dev, p.new, "promote")
    BY <1>3, <1>t, LandType DEF Merge, Result, TypeInv
  <2>3. QED
    BY <1>3, <2>1, <2>2 DEF Merge
<1>4. ASSUME NEW p \in prs, Merge(p), log' # log,
             ~(p.branch.env = Dev /\ p.branch.kind = "promote")
      PROVE  SamePromotions
  <2>1. Tip + 1 \in Digest /\ Declare(p.branch.env, p.new, p.branch.kind)
    BY <1>4, <1>t, LandType DEF Merge, Result, TypeInv
  <2>2. QED
    BY <1>2, <1>4, <1>t, <2>1, OrderTypes DEF Numbers
<1>5. ASSUME NEW e \in Env, NEW d \in 0..Tip, BreakGlass(e, d)
      PROVE  SamePromotions
  <2>1. Tip + 1 \in Digest /\ d \in Digest /\ Declare(e, d, "breakglass")
    BY <1>5, <1>t, LandType, DeliveryAssumption DEF BreakGlass, TypeInv, TypeOK, Tip, Digest
  <2>2. QED
    BY <1>2, <2>1
<1>6. ASSUME PromoteDev PROVE UNCHANGED log
  BY <1>6 DEF PromoteDev, Skip, Find, List, Close, Push, Open, Die, gitVars
<1>7. QED
  BY <1>1, <1>3, <1>4, <1>5, <1>6
  DEF Next, vars, CodeCommit, Publish, CiDone, Dispatch, Promote, Rollback, Propose, Update, gitVars

LEMMA SameMerged == SamePromotions => \A d : Merged(d) => Merged(d)'
  BY DEF SamePromotions, Merged

(* What was left out stays so, until its branch is opened anew.            *)
LEMMA MissedStep ==
  ASSUME TypeInv, [Next]_vars, NEW b \in missed \ missed'
  PROVE  run.pc = "open" /\ b = DevBranch(run.sha)
<1>1. CASE PromoteDev
  <2>1. CASE List
    BY <2>1, ListStep DEF TypeInv
  <2>2. CASE Open
    BY <2>2 DEF Open
  <2>3. QED
    BY <1>1, <2>1, <2>2 DEF PromoteDev, Skip, Find, Close, Push, Die, gitVars
<1>2. QED
  BY <1>1 DEF Next, vars, CodeCommit, Publish, CiDone, Dispatch, Promote, Rollback, Propose,
              BreakGlass, Merge, Update, gitVars

(* An open promotion that changes something was there, or is the run's.    *)
LEMMA DevPrStep ==
  ASSUME OneInv, [Next]_vars, NEW p \in DevPromotions', p.base # p.new
  PROVE  \/ \E q \in DevPromotions : q.base # q.new /\ q.new = p.new /\ q.branch = p.branch
         \/ run.pc = "open" /\ p.new = run.sha /\ p.branch = DevBranch(run.sha)
<1>t. TypeInv
  BY DEF OneInv
<1>p. p \in prs' /\ p.branch.kind = "promote" /\ p.branch.env = Dev
  BY DEF DevPromotions
<1>1. CASE p \in prs
  BY <1>1, <1>p DEF DevPromotions
<1>2. ASSUME NEW q \in prs, p = [q EXCEPT !.base = Declared(q.branch.env), !.new = Result(q)]
      PROVE  q \in DevPromotions /\ q.base # q.new /\ q.new = p.new /\ q.branch = p.branch
  <2>1. p.branch = q.branch /\ p.base = Declared(q.branch.env) /\ p.new = Result(q)
    BY <1>2, <1>t, OrderTypes DEF Pr, Numbers
  <2>2. QED
    BY <1>p, <2>1 DEF DevPromotions, Result
<1>3. ASSUME NEW pair \in Promotions PROVE p.branch.env # pair[2]
  BY <1>p, DeliveryAssumption
<1>4. QED
  BY <1>1, <1>2, <1>3, <1>p, <1>t, PrStep

(* One that no listing left out was so before: its branch was not opened   *)
(* anew, for it has one pull request.                                      *)
LEMMA KnownStep ==
  ASSUME OneInv, [Next]_vars, NEW p \in Known', p.base # p.new
  PROVE  \/ \E q \in Known : q.base # q.new /\ q.new = p.new /\ q.branch = p.branch
         \/ run.pc = "open" /\ p.new = run.sha /\ p.branch = DevBranch(run.sha)
<1>1. p \in DevPromotions' /\ p.branch \notin missed'
  BY DEF Known
<1>2. ASSUME NEW q \in DevPromotions, q.branch = p.branch PROVE q.branch \notin missed
  <2>1. q.branch \in missed => run.pc = "open" /\ q.branch = DevBranch(run.sha)
    BY <1>1, <1>2, MissedStep DEF OneInv
  <2>2. QED
    BY <2>1 DEF OneInv, DevPromotions
<1>3. QED
  BY <1>1, <1>2, DevPrStep DEF Known

LEMMA MergeBehind ==
  ASSUME TypeInv, Tip + 1 \in Digest, NEW x \in Digest, Declare(Dev, x, "promote"),
         NEW d \in Nat, x < d, Merged(d)
  PROVE  Merged(d)'
<1> DEFINE n == Len(log[Dev])
<1>1. /\ Len(log'[Dev]) = n + 1 /\ n \in Nat
      /\ log'[Dev][n + 1] = [digest |-> x, at |-> Tip + 1, by |-> "promote"]
      /\ \A i \in 1..n : log'[Dev][i] = log[Dev][i]
  BY DeclareType, OrderTypes, DeliveryAssumption DEF Numbers
<1>2. \A i \in 1..n : log'[Dev][i].by = "promote" => log'[Dev][i].digest < d
  BY <1>1 DEF Merged
<1>3. 1..Len(log'[Dev]) = 1..n \cup {n + 1} /\ log'[Dev][n + 1].digest < d
  BY <1>1
<1>4. QED
  BY <1>2, <1>3 DEF Merged

(* What is ahead of all there was, and of the run that opens its own, is   *)
(* ahead of all there is.                                                  *)
LEMMA StaysAhead ==
  ASSUME OneInv, [Next]_vars, NEW d \in Nat, Merged(d), Coming(d)
  PROVE  Merged(d)' /\ ((run.pc = "open" => run.sha < d) => Coming(d)')
<1>1. Merged(d)'
  <2>1. ASSUME NEW p \in DevPromotions, p.base # p.new PROVE p.new \in Digest /\ p.new < d
    BY <2>1, OrderTypes DEF Coming, DevPromotions, OneInv, Numbers
  <2>2. QED
    BY <2>1, DevLogStep, SameMerged, MergeBehind DEF OneInv
<1>2. ASSUME run.pc = "open" => run.sha < d PROVE Coming(d)'
  BY <1>2, DevPrStep DEF Coming
<1>3. QED
  BY <1>1, <1>2

(* The run, and the one that waits: CI adds one, or the group moves on.    *)
LEMMA QueueStep ==
  ASSUME TypeInv, "dispatch" \notin May, [Next]_vars
  PROVE  \/ UNCHANGED <<run, pending>>
         \/ /\ run # Nobody /\ run' # Nobody /\ run'.sha = run.sha
            /\ run.pc # "open" /\ UNCHANGED pending
         \/ run # Nobody /\ Release
         \/ \E c \in 1..Tip, ok \in BOOLEAN : CiDone(c, ok)
<1>1. ASSUME PromoteDev
      PROVE  \/ /\ run # Nobody /\ run' # Nobody /\ run'.sha = run.sha
                /\ run.pc # "open" /\ UNCHANGED pending
             \/ run # Nobody /\ Release
  <2>1. run \in Run
    BY DEF TypeInv, TypeOK
  <2>2. run.pc # "idle"
    <3>1. List => run.pc # "idle"
      BY DEF List
    <3>2. QED
      BY <1>1, <3>1 DEF PromoteDev, Skip, Find, Close, Push, Open, Die
  <2>3. \/ Release
        \/ run'.pc # "idle" /\ run'.sha = run.sha /\ run.pc # "open" /\ UNCHANGED pending
    <3>1. CASE List
      <4>1. run.pc = "list"
        BY <3>1 DEF List
      <4>2. QED
        BY <3>1, <4>1, ListStep DEF TypeInv
    <3>2. QED
      BY <1>1, <2>1, <3>1 DEF PromoteDev, Skip, Find, Close, Push, Open, Die, Run
  <2>4. QED
    BY <2>2, <2>3 DEF Nobody
<1>2. QED
  BY <1>1 DEF Next, vars, CodeCommit, Publish, Dispatch, Promote, Rollback, Propose,
              BreakGlass, Merge, Update

LEMMA StartedSha == \A q : Started(q).sha = q.sha /\ Started(q) # Nobody
  BY DEF Started, Nobody

(* The commits CI works on: the same, one more, one less.                  *)
LEMMA CiStep ==
  ASSUME TypeInv, [Next]_vars
  PROVE  /\ Tip' \in Nat /\ Tip <= Tip'
         /\ \A c \in 1..Tip' : commits'[c].ci = "running" =>
               c = Tip + 1 \/ (c \in 1..Tip /\ commits[c].ci = "running")
<1>t. TypeOK /\ Tip \in Nat
  BY OrderTypes DEF TypeInv, Numbers
<1>1. ASSUME Land
      PROVE  /\ Tip' = Tip + 1
             /\ \A c \in 1..Tip : commits'[c] = commits[c]
  BY <1>1, <1>t, LandType DEF Tip
<1>2. ASSUME NEW c \in 1..Tip, Publish(c)
      PROVE  Tip' = Tip /\ \A b \in 1..Tip : commits'[b].ci = commits[b].ci
  <2>1. PICK v \in {"pushed", "signed"} : commits' = [commits EXCEPT ![c].image = v]
    BY <1>2 DEF Publish
  <2>2. commits[c] \in Commits
    BY <1>2, <1>t, CommitType
  <2>3. [commits[c] EXCEPT !.image = v].ci = commits[c].ci
    BY <2>2 DEF Commits
  <2>4. QED
    BY <1>t, <2>1, <2>3 DEF Tip, TypeOK
<1>3. ASSUME NEW c \in 1..Tip, NEW ok \in BOOLEAN, CiDone(c, ok)
      PROVE  Tip' = Tip /\ \A b \in 1..Tip : commits'[b].ci = "running" => commits[b].ci = "running"
  BY <1>3, <1>t DEF CiDone, Tip, TypeOK, Commits
<1>4. ASSUME UNCHANGED commits PROVE Tip' = Tip
  BY <1>4 DEF Tip
<1>5. ASSUME PromoteDev PROVE UNCHANGED commits
  BY <1>5 DEF PromoteDev, Skip, Find, List, Close, Push, Open, Die
<1>6. \/ Land
      \/ \E c \in 1..Tip : Publish(c) \/ \E ok \in BOOLEAN : CiDone(c, ok)
      \/ UNCHANGED commits
  BY <1>5 DEF Next, vars, CodeCommit, Dispatch, Promote, Rollback, Propose, BreakGlass, Merge, Update
<1>7. CASE Land
  BY <1>1, <1>7, <1>t
<1>8. CASE \E c \in 1..Tip : Publish(c) \/ \E ok \in BOOLEAN : CiDone(c, ok)
  BY <1>2, <1>3, <1>8, <1>t
<1>9. CASE UNCHANGED commits
  BY <1>4, <1>9, <1>t
<1>10. QED
  BY <1>6, <1>7, <1>8, <1>9

LEMMA CiDoneRunning ==
  ASSUME TypeInv, "disorder" \notin May, NEW c \in 1..Tip, NEW ok \in BOOLEAN, CiDone(c, ok)
  PROVE  /\ commits[c].ci = "running" /\ Tip' = Tip
         /\ \A b \in 1..Tip : commits'[b].ci = "running" => c < b
<1>t. TypeOK /\ Tip \in Nat
  BY OrderTypes DEF TypeInv, Numbers
<1>1. /\ commits[c].ci = "running"
      /\ \A b \in 1..(c - 1) : commits[b].ci # "running"
  BY DEF CiDone
<1>2. PICK v \in {"passed", "failed"} : commits' = [commits EXCEPT ![c].ci = v]
  BY DEF CiDone
<1>3. /\ Tip' = Tip /\ commits'[c].ci # "running"
      /\ \A b \in 1..Tip : b # c => commits'[b] = commits[b]
  BY <1>2, <1>t DEF TypeOK, Tip, Commits
<1>4. QED
  BY <1>1, <1>3, <1>t

LEMMA OrderStep ==
  ASSUME "disorder" \notin May, "dispatch" \notin May, OrderInv, [Next]_vars
  PROVE  OrderInv'
<1>t. OneInv /\ TypeInv /\ OneInv' /\ TypeInv'
  BY OneStep, TypeStep DEF OrderInv, OneInv
<1>n. /\ Tip \in Nat /\ run.sha \in Nat /\ pending.sha \in Nat
      /\ Tip' \in Nat /\ run'.sha \in Nat /\ pending'.sha \in Nat
  BY <1>t, OrderTypes, OrderTypesNext DEF Numbers
<1>k. PICK r \in Nat, w \in Nat, t \in Nat, rr \in Nat, ww \in Nat, tt \in Nat :
         /\ r = run.sha /\ w = pending.sha /\ t = Tip
         /\ rr = run'.sha /\ ww = pending'.sha /\ tt = Tip'
  BY <1>n
<1>o. run.pc = "open" => run # Nobody
  BY DEF Nobody
<1>m. run.pc = "open" => Merged(run.sha) /\ Coming(run.sha)
  BY <1>o DEF OrderInv
<1>1. DevNeverBackwards'
  <2>1. CASE SamePromotions
    <3> SUFFICES ASSUME NEW i \in 1..Len(log'[Dev]), NEW j \in 1..Len(log'[Dev]), i < j,
                        log'[Dev][i].by = "promote", log'[Dev][j].by = "promote",
                        DevBranch(log'[Dev][j].digest) \notin missed'
                 PROVE  log'[Dev][i].digest < log'[Dev][j].digest
      BY DEF DevNeverBackwards, DevBranch
    <3>1. /\ i \in 1..Len(log[Dev]) /\ log'[Dev][i] = log[Dev][i]
          /\ j \in 1..Len(log[Dev]) /\ log'[Dev][j] = log[Dev][j]
      BY <2>1 DEF SamePromotions
    <3>2. DevBranch(log[Dev][j].digest) \notin missed
      <4>1. DevBranch(log[Dev][j].digest) # DevBranch(run.sha) \/ log[Dev][j].digest = run.sha
        BY DEF DevBranch
      <4>2. run.pc = "open" => log[Dev][j].digest # run.sha
        BY <1>m, <1>t, <3>1, OrderTypes DEF Merged, Numbers
      <4>3. QED
        BY <1>t, <3>1, <4>1, <4>2, MissedStep
    <3>3. QED
      BY <3>1, <3>2 DEF OrderInv, DevNeverBackwards
  <2>2. ASSUME Tip + 1 \in Digest, missed' = missed, NEW p \in DevPromotions, p.base # p.new,
               Declare(Dev, p.new, "promote")
        PROVE  DevNeverBackwards'
    <3> DEFINE n == Len(log[Dev])
    <3>1. p.new \in Digest /\ (DevBranch(p.new) \notin missed => Merged(p.new))
      BY <2>2, <1>t, OrderTypes DEF OrderInv, Named, Newest, Known, DevPromotions, Numbers
    <3>2. /\ Len(log'[Dev]) = n + 1 /\ n \in Nat
          /\ log'[Dev][n + 1] = [digest |-> p.new, at |-> Tip + 1, by |-> "promote"]
          /\ \A i \in 1..n : log'[Dev][i] = log[Dev][i]
      BY <2>2, <3>1, <1>t, DeclareType, OrderTypes, DeliveryAssumption DEF Numbers
    <3>3. log'[Dev][n + 1].digest = p.new
      BY <3>2
    <3> SUFFICES ASSUME NEW i \in 1..(n + 1), NEW j \in 1..(n + 1), i < j,
                        log'[Dev][i].by = "promote", log'[Dev][j].by = "promote",
                        DevBranch(log'[Dev][j].digest) \notin missed
                 PROVE  log'[Dev][i].digest < log'[Dev][j].digest
      BY <2>2, <3>2 DEF DevNeverBackwards, DevBranch
    <3>4. i \in 1..n
      BY <3>2
    <3>5. CASE j = n + 1
      BY <3>1, <3>2, <3>3, <3>4, <3>5 DEF Merged
    <3>6. CASE j # n + 1
      <4>1. j \in 1..n
        BY <3>2, <3>6
      <4>2. QED
        BY <3>2, <3>4, <4>1 DEF OrderInv, DevNeverBackwards
    <3>7. QED
      BY <3>5, <3>6
  <2>3. QED
    BY <1>t, <2>1, <2>2, DevLogStep
<1>a. Named'
  <2> SUFFICES ASSUME NEW p \in DevPromotions', p.base # p.new
               PROVE  p.branch = DevBranch(p.new)
    BY DEF Named, DevBranch
  <2>1. QED
    BY <1>t, DevPrStep DEF OrderInv, Named
<1>2. Newest'
  <2> SUFFICES ASSUME NEW p \in Known', p.base # p.new
               PROVE  /\ Merged(p.new)'
                      /\ \A x \in DevPromotions' : x.base # x.new /\ x # p => x.new < p.new
    BY DEF Newest
  <2>p. p \in DevPromotions' /\ p.new \in Nat
    BY <1>t, OrderTypesNext DEF Known, DevPromotions, Numbers
  <2>u. \A x \in DevPromotions' : x.branch = p.branch => x = p
    BY <1>t, <2>p DEF OneInv, DevPromotions
  <2>1. CASE run.pc = "open" /\ p.new = run.sha /\ p.branch = DevBranch(run.sha)
    <3>1. Merged(p.new)'
      BY <1>m, <1>t, <2>1, <2>p, StaysAhead
    <3>2. ASSUME NEW x \in DevPromotions', x.base # x.new, x # p PROVE x.new < p.new
      <4>1. x.branch # DevBranch(run.sha)
        BY <2>1, <2>u, <3>2
      <4>2. PICK y \in DevPromotions : y.base # y.new /\ y.new = x.new
        BY <1>t, <3>2, <4>1, DevPrStep
      <4>3. QED
        BY <1>m, <2>1, <4>2 DEF Coming
    <3>3. QED
      BY <3>1, <3>2
  <2>2. ASSUME NEW q \in Known, q.base # q.new, q.new = p.new, q.branch = p.branch
        PROVE  /\ Merged(p.new)'
               /\ \A x \in DevPromotions' : x.base # x.new /\ x # p => x.new < p.new
    <3>1. /\ Merged(q.new) /\ run.pc # "open" /\ q \in DevPromotions
          /\ \A y \in DevPromotions : y.base # y.new /\ y # q => y.new < q.new
      BY <1>t, <2>2 DEF OrderInv, Newest, OneInv, Known
    <3>2. Merged(p.new)'
      <4>1. CASE SamePromotions
        BY <2>2, <3>1, <4>1, SameMerged
      <4>2. ASSUME Tip + 1 \in Digest, NEW mine \in DevPromotions, mine.base # mine.new,
                   Declare(Dev, mine.new, "promote"), DevPromotions' = DevPromotions \ {mine}
            PROVE  Merged(p.new)'
        <5>1. p \in DevPromotions /\ p # mine
          BY <2>p, <4>2
        <5>2. p = q
          BY <1>t, <2>2, <3>1, <5>1 DEF OneInv, DevPromotions
        <5>3. mine.new < p.new
          BY <3>1, <4>2, <5>1, <5>2
        <5>4. mine.new \in Digest
          BY <1>t, <4>2, OrderTypes DEF DevPromotions, Numbers
        <5>5. QED
          BY <1>t, <2>2, <2>p, <3>1, <4>2, <5>3, <5>4, MergeBehind
      <4>3. QED
        BY <1>t, <4>1, <4>2, DevLogStep
    <3>3. ASSUME NEW x \in DevPromotions', x.base # x.new, x # p PROVE x.new < p.new
      <4>1. PICK y \in DevPromotions : y.base # y.new /\ y.new = x.new /\ y.branch = x.branch
        BY <1>t, <3>1, <3>3, DevPrStep
      <4>2. y # q
        BY <2>2, <2>u, <3>3, <4>1
      <4>3. QED
        BY <2>2, <3>1, <4>1, <4>2
    <3>4. QED
      BY <3>2, <3>3
  <2>3. QED
    BY <1>t, <2>1, <2>2, KnownStep
<1>3. ASSUME NEW d \in Nat, Ahead(d), run'.sha < d, pending'.sha < d PROVE Ahead(d)'
  BY <1>3, <1>t, StaysAhead DEF Ahead
<1>r. run # Nobody => Merged(r)'
  BY <1>k, <1>t, StaysAhead DEF OrderInv
<1>w. pending # NoRun => Merged(w)' /\ Coming(w)'
  BY <1>k, <1>t, StaysAhead DEF OrderInv
<1>g. ASSUME run' # Nobody => Merged(rr)' /\ Coming(rr)',
             pending' # NoRun => /\ Merged(ww)' /\ Coming(ww)'
                                 /\ run' # Nobody /\ rr < ww,
             \A c \in 1..tt : commits'[c].ci = "running" => Ahead(c)',
             Ahead(tt + 1)'
      PROVE  OrderInv'
  BY <1>1, <1>a, <1>2, <1>g, <1>k, <1>t DEF OrderInv, Ahead, Merged, Coming
<1>4. CASE \E c \in 1..Tip, ok \in BOOLEAN : CiDone(c, ok)
  <2>1. PICK c \in 1..Tip, ok \in BOOLEAN : CiDone(c, ok)
    BY <1>4
  <2> DEFINE q == [sha |-> c, ok |-> ok]
  <2>2. /\ commits[c].ci = "running" /\ tt = t /\ c \in Nat
        /\ \A b \in 1..t : commits'[b].ci = "running" => c < b
    BY <2>1, <1>k, <1>t, CiDoneRunning
  <2>3. Ahead(c) /\ q.sha = c
    BY <2>2 DEF OrderInv
  <2>4. Merged(c)' /\ Coming(c)'
    BY <2>2, <2>3, <1>t, StaysAhead DEF Ahead
  <2>5. \/ run = Nobody /\ run' = Started(q) /\ pending' = pending /\ pending = NoRun
        \/ run # Nobody /\ run' = run /\ pending' = q
    BY <2>1 DEF CiDone, Enter, OrderInv
  <2>6. NoRun.sha = 0 /\ Started(q).sha = c /\ Started(q) # Nobody
    BY StartedSha DEF NoRun
  <2>7. /\ run' # Nobody /\ Merged(rr)' /\ Coming(rr)'
        /\ rr <= c /\ ww <= c
        /\ pending' # NoRun => Merged(ww)' /\ Coming(ww)' /\ rr < ww
    <3>1. CASE run = Nobody
      <4>1. run' # Nobody /\ rr = c /\ ww = 0 /\ pending' = NoRun
        BY <1>k, <2>5, <2>6, <3>1
      <4>2. QED
        BY <2>2, <2>4, <4>1
    <3>2. CASE run # Nobody
      <4>1. /\ run' # Nobody /\ rr = r /\ ww = c /\ r < c
        BY <1>k, <2>3, <2>5, <3>2 DEF Ahead
      <4>2. DevPromotions' = DevPromotions
        BY <2>1 DEF CiDone, gitVars, DevPromotions
      <4>3. Coming(r)'
        BY <1>k, <3>2, <4>2 DEF OrderInv, Coming
      <4>4. QED
        BY <1>r, <2>2, <2>4, <3>2, <4>1, <4>3
    <3>3. QED
      BY <3>1, <3>2
  <2>8. ASSUME NEW b \in 1..tt, commits'[b].ci = "running" PROVE Ahead(b)'
    <3>1. b \in Nat /\ c < b /\ rr < b /\ ww < b
      BY <2>2, <2>7, <2>8
    <3>2. Ahead(b)
      BY <2>2, <2>3, <3>1, <1>t, Later
    <3>3. QED
      BY <1>3, <1>k, <3>1, <3>2
  <2>9. Ahead(tt + 1)'
    <3>1. rr < tt + 1 /\ ww < tt + 1 /\ Ahead(tt + 1)
      BY <1>k, <2>2, <2>7 DEF OrderInv
    <3>2. QED
      BY <1>3, <1>k, <3>1
  <2>10. QED
    BY <1>g, <2>7, <2>8, <2>9
<1>5. ASSUME rr <= r \/ rr <= w, ww <= w
      PROVE  /\ \A c \in 1..tt : commits'[c].ci = "running" => Ahead(c)'
             /\ Ahead(tt + 1)'
  <2>1. ASSUME NEW d \in Nat, Ahead(d) PROVE Ahead(d)'
    <3>1. run'.sha < d /\ pending'.sha < d
      BY <1>5, <1>k, <2>1 DEF Ahead
    <3>2. QED
      BY <1>3, <2>1, <3>1
  <2>2. t <= tt /\ \A c \in 1..tt : commits'[c].ci = "running" => Ahead(c)
    BY <1>k, <1>t, CiStep DEF OrderInv
  <2>3. Ahead(tt + 1)
    BY <1>k, <1>t, <2>2, Later DEF OrderInv
  <2>4. QED
    BY <2>1, <2>2, <2>3
<1>6. ASSUME run' # Nobody, run # Nobody, rr = r, run.pc # "open" \/ run' = run
      PROVE  Coming(rr)'
  <2>1. ASSUME NEW p \in DevPromotions', p.base # p.new PROVE p.new < r
    <3>1. run.pc = "open" => p.branch # DevBranch(run.sha)
      BY <1>6, <1>t, <2>1 DEF OneInv, DevPromotions
    <3>2. \E x \in DevPromotions : x.base # x.new /\ x.new = p.new
      BY <1>t, <2>1, <3>1, DevPrStep
    <3>3. QED
      BY <1>6, <1>k, <3>2 DEF OrderInv, Coming
  <2>2. QED
    BY <1>6, <2>1 DEF Coming
<1>7. CASE UNCHANGED <<run, pending>>
  <2>1. rr = r /\ ww = w
    BY <1>7, <1>k
  <2>2. run' # Nobody => Merged(rr)' /\ Coming(rr)'
    BY <1>6, <1>7, <1>r, <2>1
  <2>3. pending' # NoRun => /\ Merged(ww)' /\ Coming(ww)'
                            /\ run' # Nobody /\ rr < ww
    BY <1>7, <1>k, <1>w, <2>1 DEF OrderInv
  <2>4. QED
    BY <1>5, <1>g, <2>1, <2>2, <2>3
<1>8. CASE run # Nobody /\ run' # Nobody /\ run'.sha = run.sha /\ run.pc # "open"
           /\ UNCHANGED pending
  <2>1. rr = r /\ ww = w
    BY <1>8, <1>k
  <2>2. Merged(rr)' /\ Coming(rr)'
    BY <1>6, <1>8, <1>r, <2>1
  <2>3. pending' # NoRun => /\ Merged(ww)' /\ Coming(ww)'
                            /\ run' # Nobody /\ rr < ww
    BY <1>8, <1>k, <1>w, <2>1 DEF OrderInv
  <2>4. QED
    BY <1>5, <1>g, <2>1, <2>2, <2>3
<1>9. CASE run # Nobody /\ Release
  <2>1. NoRun.sha = 0 /\ Nobody.sha = 0
    BY DEF NoRun, Nobody
  <2>2. pending' = NoRun /\ (run' # Nobody => run'.sha = pending.sha /\ pending # NoRun)
        /\ (run' = Nobody \/ run'.sha = pending.sha)
    BY <1>9, StartedSha DEF Release
  <2>3. ww = 0 /\ (rr = 0 \/ rr = w) /\ (run' # Nobody => rr = w /\ pending # NoRun)
    BY <1>k, <2>1, <2>2
  <2>4. run' # Nobody => Merged(rr)' /\ Coming(rr)'
    BY <1>w, <2>3
  <2>5. (rr <= r \/ rr <= w) /\ ww <= w
    BY <2>3
  <2>6. QED
    BY <1>5, <1>g, <2>2, <2>4, <2>5
<1>10. QED
  BY <1>4, <1>7, <1>8, <1>9, <1>t, QueueStep

(* DevNeverBackwards, for any environments and promotions between them,    *)
(* whatever fails, dies, is rolled back, updated or broken the glass for:  *)
(* what it takes is that CI runs of main complete in order and that nobody *)
(* starts promote-dev by hand (promote-dev.yml:90-91).  Only a promotion   *)
(* that a listing left out can still come after a newer one.               *)
THEOREM DevMovesForwards ==
  ASSUME "disorder" \notin May, "dispatch" \notin May
  PROVE  Spec => []DevNeverBackwards
<1>1. Init => OrderInv
  <2> SUFFICES ASSUME Init PROVE OrderInv
    OBVIOUS
  <2>1. /\ OneInv /\ DevPromotions = {} /\ run = Nobody /\ pending = NoRun /\ Tip = 0
        /\ run.sha = 0 /\ pending.sha = 0
    BY TypeInit DEF Init, OneInv, Known, DevPromotions, Nobody, NoRun, Tip
  <2>2. Len(log[Dev]) = 1 /\ log[Dev][1].by = "initial"
    BY DeliveryAssumption DEF Init
  <2>3. QED
    BY <2>1, <2>2 DEF OrderInv, DevNeverBackwards, Named, Newest, Known, Ahead, Merged, Coming
<1>2. OrderInv => DevNeverBackwards
  BY DEF OrderInv
<1>3. OrderInv /\ [Next]_vars => OrderInv'
  BY OrderStep
<1>4. QED
  BY <1>1, <1>2, <1>3, PTL DEF Spec

-----------------------------------------------------------------------------
(* Delivery implements Releases: the initial states are initial states,    *)
(* and every step is a step or none.                                       *)

(* The registry, of any list of commits: R's published and signed.         *)
PublishedIn(cs, d) == d = 0 \/ (d \in 1..Len(cs) /\ cs[d].image # "none")

Pushed(cs) == {d \in Digest : PublishedIn(cs, d)}
Verified(cs) == {d \in Digest : SignedIn(cs, d)}

LEMMA Registry ==
  /\ Pushed(commits) = {d \in Digest : Published(d)}
  /\ Verified(commits) = {d \in Digest : Signed(d)}
  BY DEF Pushed, Verified, PublishedIn, SignedIn, Published, Signed, Tip

(* A commit that lands has no image.                                       *)
LEMMA RegistryLand ==
  ASSUME TypeInv, Land
  PROVE  Pushed(commits') = Pushed(commits) /\ Verified(commits') = Verified(commits)
<1>1. /\ Tip \in Nat /\ Len(commits') = Tip + 1
      /\ \A c \in 1..Tip : commits'[c] = commits[c]
  BY LandType DEF TypeInv
<1>2. commits'[Tip + 1].image = "none"
  BY DEF Land, TypeInv, TypeOK, Tip
<1>3. QED
  BY <1>1, <1>2 DEF Pushed, Verified, PublishedIn, SignedIn, Tip

(* A step that lands none pushes an image, signs one, or does neither.     *)
LEMMA RegistryPublish ==
  ASSUME TypeInv, NEW c \in 1..Tip, Publish(c)
  PROVE  \/ /\ Pushed(commits') = Pushed(commits) \union {c}
            /\ Verified(commits') = Verified(commits)
         \/ /\ c \in Pushed(commits)
            /\ Pushed(commits') = Pushed(commits)
            /\ Verified(commits') = Verified(commits) \union {c}
<1>t. /\ commits \in Seq(Commits) /\ Tip \in Nat /\ Tip = Len(commits)
      /\ c \in Digest /\ c # 0
  BY DeliveryAssumption DEF TypeInv, TypeOK, Tip, Digest
<1>1. ASSUME NEW image \in {"pushed", "signed"}, commits' = [commits EXCEPT ![c].image = image]
      PROVE  /\ Len(commits') = Tip /\ commits'[c].image = image
             /\ \A d \in 1..Tip \ {c} : commits'[d] = commits[d]
  BY <1>t, <1>1 DEF Commits
<1>2. CASE commits[c].image = "none"
  <2>1. commits' = [commits EXCEPT ![c].image = "pushed"]
    BY <1>2 DEF Publish
  <2>2. /\ Len(commits') = Tip /\ commits'[c].image = "pushed"
        /\ \A d \in 1..Tip \ {c} : commits'[d] = commits[d]
    BY <1>1, <2>1
  <2>3. QED
    BY <1>t, <1>2, <2>2 DEF Pushed, Verified, PublishedIn, SignedIn
<1>3. CASE commits[c].image = "pushed"
  <2>1. commits' = [commits EXCEPT ![c].image = "signed"]
    BY <1>3 DEF Publish
  <2>2. /\ Len(commits') = Tip /\ commits'[c].image = "signed"
        /\ \A d \in 1..Tip \ {c} : commits'[d] = commits[d]
    BY <1>1, <2>1
  <2>3. QED
    BY <1>t, <1>3, <2>2 DEF Pushed, Verified, PublishedIn, SignedIn
<1>4. QED
  BY <1>2, <1>3 DEF Publish

LEMMA RegistryCiDone ==
  ASSUME TypeInv, NEW c \in 1..Tip, NEW ok \in BOOLEAN, CiDone(c, ok)
  PROVE  Pushed(commits') = Pushed(commits) /\ Verified(commits') = Verified(commits)
<1>1. commits \in Seq(Commits) /\ Tip \in Nat /\ Tip = Len(commits)
  BY DEF TypeInv, TypeOK, Tip
<1>2. commits' = [commits EXCEPT ![c].ci = IF ok THEN "passed" ELSE "failed"]
  BY DEF CiDone
<1>3. Len(commits') = Tip /\ \A d \in 1..Tip : commits'[d].image = commits[d].image
  BY <1>1, <1>2 DEF Commits
<1>4. QED
  BY <1>1, <1>3 DEF Pushed, Verified, PublishedIn, SignedIn

(* So the registry changes only when the log does not, and only grows.     *)
LEMMA RegistryStep ==
  ASSUME TypeInv, [Next]_vars
  PROVE  \/ Pushed(commits') = Pushed(commits) /\ Verified(commits') = Verified(commits)
         \/ /\ UNCHANGED log
            /\ \E c \in Digest :
                  \/ /\ Pushed(commits') = Pushed(commits) \union {c}
                     /\ Verified(commits') = Verified(commits)
                  \/ /\ c \in Pushed(commits)
                     /\ Pushed(commits') = Pushed(commits)
                     /\ Verified(commits') = Verified(commits) \union {c}
<1>1. ASSUME NEW c \in 1..Tip, Publish(c) PROVE c \in Digest /\ UNCHANGED log
  BY <1>1, DeliveryAssumption DEF Publish, gitVars, TypeInv, TypeOK, Tip, Digest
<1>2. ASSUME PromoteDev PROVE UNCHANGED commits
  BY <1>2 DEF PromoteDev, Skip, Find, List, Close, Push, Open, Die
<1>3. ASSUME UNCHANGED commits
      PROVE  Pushed(commits') = Pushed(commits) /\ Verified(commits') = Verified(commits)
  BY <1>3
<1>4. QED
  BY <1>1, <1>2, <1>3, RegistryLand, RegistryPublish, RegistryCiDone
  DEF Next, vars, CodeCommit, Dispatch, Promote, Rollback, Propose, BreakGlass, Merge, Update

LEMMA PushedGrows ==
  ASSUME TypeInv, [Next]_vars
  PROVE  Pushed(commits) \subseteq Pushed(commits')
  BY RegistryStep

-----------------------------------------------------------------------------
(* Where the digest of an open pull request comes from; and a run of       *)
(* promote-dev has found the image it proposes.                            *)
Comes(p) ==
    \/ p.base = p.new
    \/ p.branch.kind = "rollback" /\ p.new \in Digests(p.branch.env)
    \/ /\ p.branch.kind = "promote"
       /\ \/ p.branch.env = Dev /\ p.new \in Pushed(commits)
          \/ \E pair \in Promotions : pair[2] = p.branch.env /\ p.new \in Digests(pair[1])

ComesInv ==
    /\ TypeInv
    /\ \A p \in prs : Comes(p)
    /\ run.pc \in {"list", "close", "open"} => run.sha \in Pushed(commits)

LEMMA ComesRun ==
  ASSUME ComesInv, [Next]_vars, run'.pc \in {"list", "close", "open"}
  PROVE  run'.sha \in Pushed(commits')
<1>t. TypeOK
  BY DEF ComesInv, TypeInv
<1>g. Pushed(commits) \subseteq Pushed(commits')
  BY PushedGrows DEF ComesInv
<1>1. CASE UNCHANGED run
  BY <1>1, <1>g DEF ComesInv
<1>2. ASSUME NEW q, Enter(q) PROVE UNCHANGED run
  BY <1>2, EnterPc
<1>3. CASE PromoteDev
  <2>1. ~Release
    BY ReleasePc
  <2>2. CASE Find
    <3>1. Published(run.sha) /\ run'.sha = run.sha /\ run.sha \in Digest
      BY <2>1, <2>2, <1>t DEF Find, TypeOK, Run
    <3>2. QED
      BY <3>1, <1>g, Registry
  <2>3. CASE List \/ (\E b \in run.victims : Close(b)) \/ Push
    <3>1. run.pc \in {"list", "close"} /\ run'.sha = run.sha
      BY <2>1, <2>3, <1>t DEF List, Close, Push, TypeOK, Run
    <3>2. QED
      BY <3>1, <1>g DEF ComesInv
  <2>4. QED
    BY <1>3, <2>1, <2>2, <2>3 DEF PromoteDev, Skip, Open, Die
<1>4. QED
  BY <1>1, <1>2, <1>3
  DEF Next, vars, CodeCommit, Publish, CiDone, Dispatch, Promote, Rollback, Propose,
      BreakGlass, Merge, Update

LEMMA ComesPrs ==
  ASSUME ComesInv, [Next]_vars, NEW p \in prs'
  PROVE  Comes(p)'
<1>t. TypeInv
  BY DEF ComesInv
<1>g. Pushed(commits) \subseteq Pushed(commits') /\ \A e \in Env : Digests(e) \subseteq Digests(e)'
  BY <1>t, PushedGrows, DigestsGrow
<1>p. \A pair \in Promotions : pair[1] \in Env /\ pair[2] \in Env
  BY DeliveryAssumption
<1>b. \A q \in prs : q \in Pr /\ q.branch.env \in Env
  BY <1>t DEF TypeInv, TypeOK, Pr, Branch
<1>0. ASSUME NEW q \in prs, q.branch = p.branch, q.new = p.new, q.base # q.new
      PROVE  Comes(p)'
  BY <1>0, <1>g, <1>p, <1>b DEF ComesInv, Comes
<1>1. CASE p \in prs
  BY <1>1, <1>0 DEF Comes
<1>2. ASSUME NEW q \in prs, p = [q EXCEPT !.base = Declared(q.branch.env), !.new = Result(q)]
      PROVE  Comes(p)'
  <2>1. p.branch = q.branch /\ p.base = Declared(q.branch.env) /\ p.new = Result(q)
    BY <1>2, <1>b DEF Pr
  <2>2. CASE q.base = q.new
    BY <2>1, <2>2 DEF Result, Comes
  <2>3. CASE q.base # q.new
    <3>1. p.new = q.new
      BY <2>1, <2>3 DEF Result
    <3>2. QED
      BY <2>1, <2>3, <3>1, <1>0
  <2>4. QED
    BY <2>2, <2>3
<1>3. CASE run.pc = "open" /\ p.branch = DevBranch(run.sha) /\ p.new = run.sha
  BY <1>3, <1>g DEF DevBranch, Comes, ComesInv
<1>4. ASSUME NEW pair \in Promotions, p.branch.kind = "promote", p.branch.env = pair[2],
             p.new = Declared(pair[1])
      PROVE  Comes(p)'
  <2>1. p.new \in Digests(pair[1])'
    BY <1>4, <1>g, <1>p, <1>t, DeclaredInLog
  <2>2. QED
    BY <1>4, <2>1 DEF Comes
<1>5. ASSUME NEW e \in Env, p.branch.kind = "rollback", p.branch.env = e, p.new \in Digests(e)
      PROVE  Comes(p)'
  BY <1>5, <1>g DEF Comes
<1>6. QED
  BY <1>t, <1>1, <1>2, <1>3, <1>4, <1>5, PrStep

LEMMA ComesStep == ComesInv /\ [Next]_vars => ComesInv'
  BY TypeStep, ComesRun, ComesPrs DEF ComesInv

-----------------------------------------------------------------------------
(* An entry of the log is a Declare of Releases.                           *)
LEMMA DeclareStep ==
  ASSUME TypeInv, NEW e \in Env, NEW d \in Digest,
         NEW how \in {"promote", "rollback", "breakglass"},
         Tip + 1 \in Digest, Declare(e, d, how),
         Pushed(commits') = Pushed(commits), Verified(commits') = Verified(commits)
  PROVE  R!Declare(e, d, how)
<1> DEFINE n == Len(log[e])
           Now == [x \in Env |-> [digest |-> Declared(x), by |-> Last(x).by]]
           Reached == [x \in Env |-> Digests(x)]
<1>0. n \in Nat \ {0}
  BY DeclaredInLog
<1>1. /\ Len(log'[e]) = n + 1
      /\ log'[e][n + 1] = [digest |-> d, at |-> Tip + 1, by |-> how]
      /\ \A i \in 1..n : log'[e][i] = log[e][i]
      /\ \A x \in Env \ {e} : log'[x] = log[x]
  BY DeclareType
<1> HIDE DEF n
<1>2. Last(e)' = [digest |-> d, at |-> Tip + 1, by |-> how]
  BY <1>1 DEF Last
<1>3. Digests(e)' = Digests(e) \union {d}
  <2>1. Digests(e)' = {log'[e][i].digest : i \in 1..(n + 1)}
    BY <1>1 DEF Digests
  <2>2. Digests(e) = {log[e][i].digest : i \in 1..n}
    BY DEF Digests, n
  <2>3. 1..(n + 1) = (1..n) \union {n + 1}
    BY <1>0
  <2>4. log'[e][n + 1].digest = d
    BY <1>1
  <2>5. QED
    BY <1>1, <2>1, <2>2, <2>3, <2>4
<1>4. \A x \in Env \ {e} : Last(x)' = Last(x) /\ Digests(x)' = Digests(x)
  BY <1>1 DEF Last, Digests
<1>5. Now' = [Now EXCEPT ![e] = [digest |-> d, by |-> how]]
  <2>1. Declared(e)' = d /\ Last(e).by' = how
    BY <1>2 DEF Declared
  <2>2. \A x \in Env \ {e} : Declared(x)' = Declared(x) /\ Last(x).by' = Last(x).by
    BY <1>4 DEF Declared
  <2>3. Now' = [x \in Env |-> [digest |-> Declared(x)', by |-> Last(x).by']]
    OBVIOUS
  <2>4. QED
    BY <2>1, <2>2, <2>3
<1>6. Reached' = [Reached EXCEPT ![e] = @ \union {d}]
  BY <1>3, <1>4
<1>7. UNCHANGED <<{x \in Digest : Published(x)}, {x \in Digest : Signed(x)}>>
  BY Registry DEF Pushed, Verified, PublishedIn, SignedIn, Published, Signed, Tip
<1>8. QED
  BY <1>5, <1>6, <1>7 DEF R!Declare

LEMMA StepSimulation ==
  ASSUME ComesInv, [Next]_vars
  PROVE  [R!Next]_(R!vars)
<1>t. TypeInv
  BY DEF ComesInv
<1>r. /\ {d \in Digest : Published(d)} = Pushed(commits)
      /\ {d \in Digest : Signed(d)} = Verified(commits)
      /\ {d \in Digest : Published(d)}' = Pushed(commits')
      /\ {d \in Digest : Signed(d)}' = Verified(commits')
  BY Registry DEF Pushed, Verified, PublishedIn, SignedIn, Published, Signed, Tip
<1>1. CASE UNCHANGED log
  <2>1. /\ [e \in Env |-> [digest |-> Declared(e), by |-> Last(e).by]]'
             = [e \in Env |-> [digest |-> Declared(e), by |-> Last(e).by]]
        /\ [e \in Env |-> Digests(e)]' = [e \in Env |-> Digests(e)]
    BY <1>1 DEF Declared, Last, Digests
  <2>2. CASE Pushed(commits') = Pushed(commits) /\ Verified(commits') = Verified(commits)
    BY <1>r, <2>1, <2>2 DEF R!vars
  <2>3. ASSUME NEW c \in Digest, Pushed(commits') = Pushed(commits) \union {c},
               Verified(commits') = Verified(commits)
        PROVE  R!Next
    BY <1>r, <2>1, <2>3 DEF R!Next, R!Publish
  <2>4. ASSUME NEW c \in Digest, c \in Pushed(commits), Pushed(commits') = Pushed(commits),
               Verified(commits') = Verified(commits) \union {c}
        PROVE  R!Next
    BY <1>r, <2>1, <2>4 DEF R!Next, R!Sign
  <2>5. QED
    BY <1>t, <2>2, <2>3, <2>4, RegistryStep
<1>2. CASE log' # log
  <2>1. Pushed(commits') = Pushed(commits) /\ Verified(commits') = Verified(commits)
    BY <1>t, <1>2, RegistryStep
  <2>2. ASSUME NEW e \in Env, NEW d \in Digest, SignedIn(commits, d), Tip + 1 \in Digest,
               Declare(e, d, "breakglass")
        PROVE  R!Next
    <3>1. R!Declare(e, d, "breakglass")
      BY <1>t, <2>1, <2>2, DeclareStep
    <3>2. d \in {x \in Digest : Signed(x)}
      BY <1>r, <2>2 DEF Verified
    <3>3. QED
      BY <3>1, <3>2 DEF R!Next, R!BreakGlass
  <2>3. ASSUME NEW p \in prs, Tip + 1 \in Digest, p.base # p.new,
               Declare(p.branch.env, p.new, p.branch.kind)
        PROVE  R!Next
    <3>1. /\ p.new \in Digest /\ p.branch.env \in Env
          /\ p.branch.kind \in {"promote", "rollback"} /\ Comes(p)
      BY <1>t DEF ComesInv, TypeInv, TypeOK, Pr, Branch
    <3>2. R!Declare(p.branch.env, p.new, p.branch.kind)
      BY <1>t, <2>1, <2>3, <3>1, DeclareStep
    <3>3. CASE p.branch.kind = "rollback" /\ p.new \in Digests(p.branch.env)
      <4>1. p.new \in [e \in Env |-> Digests(e)][p.branch.env]
        BY <3>1, <3>3
      <4>2. R!Rollback(p.branch.env, p.new)
        BY <3>2, <3>3, <4>1 DEF R!Rollback
      <4>3. QED
        BY <3>1, <4>2 DEF R!Next
    <3>4. CASE p.branch.kind = "promote" /\ p.branch.env = Dev /\ p.new \in Pushed(commits)
      BY <1>r, <3>1, <3>2, <3>4 DEF R!Next, R!Enter
    <3>5. ASSUME p.branch.kind = "promote", NEW pair \in Promotions,
                 pair[2] = p.branch.env, p.new \in Digests(pair[1])
          PROVE  R!Next
      <4>1. p.new \in [e \in Env |-> Digests(e)][pair[1]]
        BY <3>5, DeliveryAssumption
      <4>2. R!Promote(pair[1], pair[2], p.new)
        BY <3>2, <3>5, <4>1 DEF R!Promote
      <4>3. QED
        BY <3>1, <4>2 DEF R!Next
    <3>6. QED
      BY <2>3, <3>1, <3>3, <3>4, <3>5 DEF Comes
  <2>4. QED
    BY <1>t, <1>2, <2>2, <2>3, LogStep
<1>3. QED
  BY <1>1, <1>2

(* ImplementsReleases: whatever CI, the workflow, the scripts and merges   *)
(* do, the digests declared change as Releases allows.                     *)
THEOREM DeliveryImplementsReleases == Spec => ImplementsReleases
<1>1. Init => ComesInv
  BY TypeInit DEF Init, ComesInv, Nobody
<1>2. Init => R!Init
  <2> SUFFICES ASSUME Init PROVE R!Init
    OBVIOUS
  <2>1. \A e \in Env : Last(e) = [digest |-> 0, at |-> 0, by |-> "initial"] /\ Digests(e) = {0}
    BY DEF Init, Last, Digests
  <2>2. {d \in Digest : Published(d)} = {0} /\ {d \in Digest : Signed(d)} = {0}
    BY DeliveryAssumption DEF Init, Published, Signed, Tip, Digest
  <2>3. QED
    BY <2>1, <2>2 DEF R!Init, Declared
<1>3. ComesInv /\ [Next]_vars => [R!Next]_(R!vars)
  BY StepSimulation
<1>4. QED
  BY <1>1, <1>2, <1>3, ComesStep, PTL DEF Spec, ImplementsReleases, R!Spec

=============================================================================
