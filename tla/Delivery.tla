------------------------------ MODULE Delivery ------------------------------
(***************************************************************************)
(* GitOps delivery, the repository's side: which digest every environment  *)
(* declares on main, and everything that changes it -                      *)
(*                                                                         *)
(*   .github/workflows/lab-03-ci.yml     builds an image per commit        *)
(*   .github/workflows/promote-dev.yml   proposes it for dev               *)
(*   scripts/promote.sh                  copies a digest one stage on      *)
(*   scripts/rollback.sh                 reverts an environment's commit   *)
(*   scripts/break-glass.sh              pushes a signed digest to main    *)
(*   GitHub                              merges pull requests              *)
(*                                                                         *)
(* A digest is named by the commit it was built from: 0 is what every      *)
(* environment declares at first, c > 0 the image of the c-th commit.      *)
(* An environment's file is its one digest line; the other lines of the    *)
(* file are separate hunks to a merge.                                     *)
(***************************************************************************)
EXTENDS Naturals, Sequences, FiniteSets

CONSTANTS
    Env,          \* environments
    Dev,          \* the one CI promotes to
    Promotions,   \* <<from, to>>: how people run promote.sh (RUNBOOK.md)
    MaxCommits,   \* bound: commits on main
    May           \* what else may happen, of Events below

(* Things that happen on some days: CI runs of main complete out of commit *)
(* order; CI fails; promote-dev is started by hand; a promote-dev run dies *)
(* between two steps; its gh pr list fails, or there are more than the 30  *)
(* pull requests it returns; someone breaks the glass; someone presses     *)
(* "Update branch".                                                        *)
Events == {"disorder", "red", "dispatch", "death", "unlisted", "breakglass", "update"}

ASSUME DeliveryAssumption ==
    /\ Dev \in Env
    /\ Promotions \subseteq Env \X (Env \ {Dev})
    /\ MaxCommits \in Nat
    /\ May \subseteq Events

VARIABLES
    commits,   \* main after the initial commit: CI state and image of each
    log,       \* per environment: the commits that changed its file
    prs,       \* open pull requests
    branches,  \* promotion and rollback branches on GitHub
    run,       \* the promote-dev run that holds the concurrency group
    pending,   \* the run that waits for the group
    missed     \* history: branches whose open pull request a listing left out

gitVars == <<log, prs, branches, missed>>
vars    == <<commits, log, prs, branches, run, pending, missed>>

Digest == 0..MaxCommits
Commits == [ci : {"running", "passed", "failed"},
            image : {"none", "pushed", "signed"}]
Entry   == [digest : Digest, at : Digest,
            by : {"initial", "promote", "rollback", "breakglass"}]
Branch  == [kind : {"promote", "rollback"}, env : Env, n : Digest]
Pr      == [branch : Branch, base : Digest, new : Digest]
Queued  == [sha : Digest, ok : BOOLEAN]
Run     == [pc : {"idle", "skip", "find", "list", "close", "push", "open"},
            sha : Digest, base : Digest, victims : SUBSET Branch]
Nobody  == [pc |-> "idle", sha |-> 0, base |-> 0, victims |-> {}]
NoRun   == [sha |-> 0, ok |-> FALSE]

TypeOK ==
    /\ commits \in Seq(Commits) /\ Len(commits) <= MaxCommits
    /\ log \in [Env -> Seq(Entry)]
    /\ \A e \in Env : Len(log[e]) > 0
    /\ prs \subseteq Pr
    /\ branches \subseteq Branch
    /\ run \in Run
    /\ pending \in Queued
    /\ missed \subseteq Branch

Init ==
    /\ commits = <<>>
    /\ log = [e \in Env |-> <<[digest |-> 0, at |-> 0, by |-> "initial"]>>]
    /\ prs = {}
    /\ branches = {}
    /\ run = Nobody
    /\ pending = NoRun
    /\ missed = {}

-----------------------------------------------------------------------------
(* Reading main. *)

Tip == Len(commits)

Last(e) == log[e][Len(log[e])]

(* git show origin/main:<file> | awk '/digest: sha256:/' *)
Declared(e) == Last(e).digest

Published(d) == d = 0 \/ (d \in 1..Tip /\ commits[d].image # "none")
Signed(d)    == d = 0 \/ (d \in 1..Tip /\ commits[d].image = "signed")

(* A commit lands on main; lab-03-ci starts for it, in a concurrency group *)
(* of its own.                                                             *)
Land == /\ Tip < MaxCommits
        /\ commits' = Append(commits, [ci |-> "running", image |-> "none"])

(* Mutant: records the commit after the one that lands. *)
DeclareNextCommit(e, d, how) ==
    log' = [log EXCEPT ![e] = Append(@, [digest |-> d, at |-> Tip + 2, by |-> how])]

(* ... and changes one environment's digest line. *)
Declare(e, d, how) ==
    log' = [log EXCEPT ![e] = Append(@, [digest |-> d, at |-> Tip + 1, by |-> how])]

-----------------------------------------------------------------------------
(* CI on main. *)

(* A commit that leaves deploy/envs alone. *)
CodeCommit == Land /\ UNCHANGED <<gitVars, run, pending>>

(* The image job pushes by tag, then signs the digest it pushed. *)
Publish(c) ==
    /\ commits[c].ci = "running"
    /\ \/ commits[c].image = "none"   /\ commits' = [commits EXCEPT ![c].image = "pushed"]
       \/ commits[c].image = "pushed" /\ commits' = [commits EXCEPT ![c].image = "signed"]
    /\ UNCHANGED <<gitVars, run, pending>>

(* Mutant: without the job's `if`, CI need not have succeeded. *)
StartedAnyway(q) == [Nobody EXCEPT !.pc = "find", !.sha = q.sha]

Started(q) == [Nobody EXCEPT !.pc = IF q.ok THEN "find" ELSE "skip", !.sha = q.sha]

(* A promote-dev run enters its concurrency group: it starts if the group  *)
(* is free, otherwise it waits, in the place of any run that waited.  The  *)
(* group belongs to the workflow, so a run whose only job will be skipped  *)
(* enters it too.                                                          *)
Enter(q) ==
    IF run = Nobody
    THEN run' = Started(q) /\ UNCHANGED pending
    ELSE pending' = q /\ UNCHANGED run

(* CI of a commit completes, and the workflow_run event starts a run. *)
CiDone(c, ok) ==
    /\ commits[c].ci = "running"
    /\ IF ok THEN commits[c].image = "signed" ELSE "red" \in May
    /\ "disorder" \notin May => \A b \in 1..(c - 1) : commits[b].ci # "running"
    /\ commits' = [commits EXCEPT ![c].ci = IF ok THEN "passed" ELSE "failed"]
    /\ Enter([sha |-> c, ok |-> ok])
    /\ UNCHANGED gitVars

-----------------------------------------------------------------------------
(* promote-dev.yml *)

(* workflow_dispatch on main *)
Dispatch ==
    /\ "dispatch" \in May /\ Tip > 0
    /\ Enter([sha |-> Tip, ok |-> TRUE])
    /\ UNCHANGED <<commits, gitVars>>

(* The run ends, however it ends, and the waiting one starts. *)
Release ==
    /\ run' = IF pending = NoRun THEN Nobody ELSE Started(pending)
    /\ pending' = NoRun

(* The job's `if` is false: CI had not succeeded. *)
Skip ==
    /\ run.pc = "skip"
    /\ Release
    /\ UNCHANGED <<commits, gitVars>>

(* Mutant: promotes the commit whether or not its image is there. *)
FindBlind ==
    /\ run.pc = "find"
    /\ IF run.sha # Declared(Dev)
       THEN /\ run' = [run EXCEPT !.pc = "list", !.base = Declared(Dev)]
            /\ UNCHANGED pending
       ELSE Release
    /\ UNCHANGED <<commits, gitVars>>

(* Check out main, find the digest of sha-<sha>, compare with dev's. *)
Find ==
    /\ run.pc = "find"
    /\ IF Published(run.sha) /\ run.sha # Declared(Dev)
       THEN /\ run' = [run EXCEPT !.pc = "list", !.base = Declared(Dev)]
            /\ UNCHANGED pending
       ELSE Release
    /\ UNCHANGED <<commits, gitVars>>

DevPromotions == {p \in prs : p.branch.kind = "promote" /\ p.branch.env = Dev}

DevBranch(sha) == [kind |-> "promote", env |-> Dev, n |-> sha]

(* gh pr list: once, before the loop.  It stands in the word list of a     *)
(* `for`, where `set -e` does not see it fail: the loop then runs over     *)
(* nothing, and the run goes on.  It returns the newest 30 pull requests   *)
(* of any kind; which of them these are is left open.                      *)
List ==
    /\ run.pc = "list"
    /\ LET all == {p.branch : p \in DevPromotions}
       IN \E listed \in IF "unlisted" \in May THEN SUBSET all ELSE {all} :
             /\ run' = [run EXCEPT !.pc = "close", !.victims = listed]
             /\ missed' = missed \cup (all \ listed)
    /\ UNCHANGED <<commits, log, prs, branches, pending>>

(* gh pr close --delete-branch, one per older promotion.  One that merged  *)
(* since it was listed cannot be closed: gh fails, and the run with it.    *)
Close(b) ==
    /\ run.pc = "close" /\ b \in run.victims
    /\ IF b \in {p.branch : p \in prs}
       THEN /\ prs' = {p \in prs : p.branch # b}
            /\ branches' = branches \ {b}
            /\ run' = [run EXCEPT !.victims = @ \ {b}]
            /\ UNCHANGED pending
       ELSE Release /\ UNCHANGED <<prs, branches>>
    /\ UNCHANGED <<commits, log, missed>>

(* Mutant: opens its own before the older ones are closed, and leaves that *)
(* for later.                                                              *)
PushFirst ==
    /\ run.pc = "close"
    /\ DevBranch(run.sha) \notin branches
    /\ branches' = branches \cup {DevBranch(run.sha)}
    /\ run' = [run EXCEPT !.pc = "open"]
    /\ UNCHANGED <<commits, log, prs, pending, missed>>

(* git push of the new branch; refused if the branch is there already. *)
Push ==
    /\ run.pc = "close" /\ run.victims = {}
    /\ IF DevBranch(run.sha) \in branches
       THEN Release /\ UNCHANGED branches
       ELSE /\ branches' = branches \cup {DevBranch(run.sha)}
            /\ run' = [run EXCEPT !.pc = "open"]
            /\ UNCHANGED pending
    /\ UNCHANGED <<commits, log, prs, missed>>

(* gh pr create and gh pr merge --auto. *)
Open ==
    /\ run.pc = "open"
    /\ prs' = prs \cup {[branch |-> DevBranch(run.sha), base |-> run.base, new |-> run.sha]}
    /\ missed' = missed \ {DevBranch(run.sha)}
    /\ Release
    /\ UNCHANGED <<commits, log, branches>>

(* The runner is lost, a command other than gh pr list fails, the 10       *)
(* minutes are over.                                                       *)
Die ==
    /\ "death" \in May /\ run.pc \notin {"idle", "skip"}
    /\ Release
    /\ UNCHANGED <<commits, gitVars>>

-----------------------------------------------------------------------------
(* What people run. *)

(* Push a branch made from origin/main and open its pull request. *)
Propose(b, e, d) ==
    /\ b \notin branches
    /\ branches' = branches \cup {b}
    /\ prs' = prs \cup {[branch |-> b, base |-> Declared(e), new |-> d]}
    /\ UNCHANGED <<commits, log, run, pending, missed>>

(* Mutant: the newest image in the registry, not what <from> declares. *)
PromoteNewest(from, to) ==
    \E d \in 1..Tip :
        /\ Signed(d) /\ d # Declared(to)
        /\ Propose([kind |-> "promote", env |-> to, n |-> d], to, d)

(* promote.sh <from> <to> *)
Promote(from, to) ==
    /\ Declared(from) # Declared(to)
    /\ Propose([kind |-> "promote", env |-> to, n |-> Declared(from)], to, Declared(from))

(* Mutant: another published image, whether or not it ever ran there. *)
RollbackToOther(e) ==
    /\ Last(e).by # "initial"
    /\ \E d \in 1..Tip :
          /\ Published(d) /\ d # Declared(e)
          /\ Propose([kind |-> "rollback", env |-> e, n |-> Last(e).at], e, d)

(* rollback.sh <env>: revert the last commit that changed the file.  The   *)
(* initial commit changed other files too, and is refused.                 *)
Rollback(e) ==
    /\ Last(e).by # "initial"
    /\ Propose([kind |-> "rollback", env |-> e, n |-> Last(e).at], e,
               log[e][Len(log[e]) - 1].digest)

(* break-glass.sh <env> <digest>: verified with cosign, committed on top   *)
(* of origin/main, pushed without --force, so only if main has not moved.  *)
BreakGlass(e, d) ==
    /\ "breakglass" \in May
    /\ Signed(d) /\ d # Declared(e)
    /\ Land
    /\ Declare(e, d, "breakglass")
    /\ UNCHANGED <<prs, branches, run, pending, missed>>

-----------------------------------------------------------------------------
(* GitHub: a three-way merge of one line. *)

Clean(p)  == Declared(p.branch.env) \in {p.base, p.new} \/ p.base = p.new
Result(p) == IF p.base = p.new THEN Declared(p.branch.env) ELSE p.new

(* Squash and delete the branch, once approved and checked. *)
Merge(p) ==
    /\ Clean(p)
    /\ Land
    /\ IF Result(p) = Declared(p.branch.env) THEN UNCHANGED log
       ELSE Declare(p.branch.env, Result(p), p.branch.kind)
    /\ prs' = prs \ {p}
    /\ branches' = branches \ {p.branch}
    /\ UNCHANGED <<run, pending, missed>>

(* "Update branch": merge main into the branch. *)
Update(p) ==
    /\ "update" \in May
    /\ Clean(p) /\ p.base # Declared(p.branch.env)
    /\ prs' = (prs \ {p}) \cup
                {[p EXCEPT !.base = Declared(p.branch.env), !.new = Result(p)]}
    /\ UNCHANGED <<commits, log, branches, run, pending, missed>>

-----------------------------------------------------------------------------
PromoteDev == Skip \/ Find \/ List \/ (\E b \in run.victims : Close(b)) \/ Push \/ Open \/ Die

Next ==
    \/ CodeCommit
    \/ \E c \in 1..Tip : Publish(c) \/ \E ok \in BOOLEAN : CiDone(c, ok)
    \/ Dispatch
    \/ PromoteDev
    \/ \E pair \in Promotions : Promote(pair[1], pair[2])
    \/ \E e \in Env : Rollback(e) \/ \E d \in 0..Tip : BreakGlass(e, d)
    \/ \E p \in prs : Merge(p) \/ Update(p)

Spec == Init /\ [][Next]_vars

-----------------------------------------------------------------------------
(* Properties. *)

(* "One open dev promotion at a time" (promote-dev.yml:90), whatever order *)
(* CI completes in, wherever a run dies, however many runs are started by  *)
(* hand: beside those that a listing left out.  Without "unlisted" it is   *)
(* the comment's claim; with it, gh pr list failing once leaves two open,  *)
(* and any one that was listed is still the only one.                      *)
OneOpenPromotion == Cardinality({p \in DevPromotions : p.branch \notin missed}) <= 1

Digests(e) == {log[e][i].digest : i \in 1..Len(log[e])}

(* What every environment declares is an image CI signed, so the cluster's *)
(* admission policy lets it run - unless promote-dev is started by hand on *)
(* a commit whose CI has not finished.                                     *)
DeclaredIsSigned == \A e \in Env : Signed(Declared(e))

(* An environment reaches a digest by promotion only after the one before  *)
(* it has declared it, however old the pull request that merges.           *)
ThroughStages ==
    \A pair \in Promotions, i \in 1..MaxCommits :
        i < Len(log[pair[2]]) /\ log[pair[2]][i + 1].by = "promote"
            => log[pair[2]][i + 1].digest \in Digests(pair[1])

(* A rollback never declares what its environment had not declared before. *)
RollbackGoesBack ==
    \A e \in Env : \A i \in 1..Len(log[e]) :
        log[e][i].by = "rollback" =>
            \E j \in 1..(i - 1) : log[e][j].digest = log[e][i].digest

(* "merging it after this one would move dev backwards"                    *)
(* (promote-dev.yml:90-91): a promotion of an older commit never follows   *)
(* that of a newer one, unless a listing left it out.  It does when CI     *)
(* runs complete out of order.                                             *)
DevNeverBackwards ==
    \A i, j \in 1..Len(log[Dev]) :
        /\ i < j /\ log[Dev][i].by = "promote" /\ log[Dev][j].by = "promote"
        /\ DevBranch(log[Dev][j].digest) \notin missed
        => log[Dev][i].digest < log[Dev][j].digest

(* What is declared, whatever is open, waits or runs, changes as Releases  *)
(* says: every step of CI, the workflow, the scripts and GitHub is one of  *)
(* its steps or none.  A promotion proposed long ago, updated, merged      *)
(* after a rollback or while its run died still brings only what was       *)
(* published, or had been declared one stage before, and says so.          *)
R == INSTANCE Releases WITH
         First     <- 0,
         published <- {d \in Digest : Published(d)},
         signed    <- {d \in Digest : Signed(d)},
         now       <- [e \in Env |-> [digest |-> Declared(e), by |-> Last(e).by]],
         reached   <- [e \in Env |-> Digests(e)]

ImplementsReleases == R!Spec

(* "When it succeeds, this opens a pull request changing deploy/envs/dev   *)
(* to that commit's digest" (promote-dev.yml:3-5): once CI and the         *)
(* workflow are idle, the newest commit CI passed has been proposed.  A    *)
(* failed CI run's promote-dev run takes its place in the group.           *)
NewestIsProposed ==
    /\ run = Nobody
    /\ \A c \in 1..Tip : commits[c].ci # "running"
    => \A c \in 1..Tip :
          /\ commits[c].ci = "passed"
          /\ \A b \in (c + 1)..Tip : commits[b].ci # "passed"
          => c \in Digests(Dev) \/ \E p \in DevPromotions : p.new = c

=============================================================================
