-------------------------------- MODULE Dora --------------------------------
(***************************************************************************)
(* Change failure and time to restore as scripts/dora.py reads them from   *)
(* the log of deploy/envs/prod and from GitHub's deployments, over the     *)
(* histories that promote.sh, break-glass.sh, rollback.sh and GitHub's own *)
(* revert button can leave.  The script never sees what a commit undid:    *)
(* only its subject.                                                       *)
(***************************************************************************)
EXTENDS Naturals, Sequences, FiniteSets, FiniteSetsExt

CONSTANTS
    Digests,    \* what prod is promoted to
    MaxLog,     \* bound: commits of the log
    MaxApplies  \* bound: Terraform deployments

VARIABLES
    log,     \* commits of the prod file on main, oldest first:
             \* [subject, undoes]; history: undoes, 0 for none
    applies  \* the last status of each deployment to infra-prod, or "none"

doraVars == <<log, applies>>

Index == 1..Len(log)

Subject(i) == log[i].subject

(* A subject is its wording and what it names; a merged pull request's     *)
(* has its number, which no other has.                                     *)
Numbered(wording, what) == <<wording, what, Len(log) + 1>>

Land(subject, undoes) == log' = Append(log, [subject |-> subject, undoes |-> undoes])

(* What commit i changed is what prod still has: no commit undid it that   *)
(* was not undone itself.                                                  *)
Stands == LET f[i \in Index] == \A j \in i + 1..Len(log) : log[j].undoes = i => ~f[j] IN f

-----------------------------------------------------------------------------
(* The log. *)

Promote(d) == Land(Numbered("Promote", d), 0)

(* Pushed to main, no pull request: the digest is all its subject has.     *)
BreakGlass(d) == Land(<<"Break-glass", d>>, 0)

(* A revert lands as the subject git gave it or, when "Update branch" put  *)
(* a second commit on its pull request, as the title rollback.sh gave it;  *)
(* git from 2.43 calls the revert of a revert "Reapply".                   *)
Undo(i) ==
    /\ Stands[i]
    /\ \/ Land(Numbered("Revert", Subject(i)), i)
       \/ Land(Numbered("Roll back", Subject(i)), i)
       \/ Subject(i)[1] = "Revert" /\ Land(Numbered("Reapply", Subject(i)[2]), i)

Apply(status) == applies' = Append(applies, status)

DoraInit == log = <<>> /\ applies = <<>>

DoraNext ==
    \/ /\ Len(log) < MaxLog
       /\ \/ \E d \in Digests : Promote(d) \/ BreakGlass(d)
          \/ \E i \in Index : Undo(i)
       /\ UNCHANGED applies
    \/ /\ Len(applies) < MaxApplies
       /\ \E s \in {"success", "failure", "error", "none"} : Apply(s)
       /\ UNCHANGED log

DoraSpec == DoraInit /\ [][DoraNext]_doraVars

-----------------------------------------------------------------------------
(* dora.py *)

IsRevert(i) == Subject(i)[1] = "Revert"

(* Mutant: the newest of several reverts wins. *)
reverted_by_newest(subject) == Max({i \in Index : IsRevert(i) /\ Subject(i)[2] = subject})

(* The log is read newest first and a later entry replaces an earlier one: *)
(* the oldest of several reverts of the same subject.                      *)
reverted_by(subject) == Min({i \in Index : IsRevert(i) /\ Subject(i)[2] = subject})

Reverted(subject) == \E i \in Index : IsRevert(i) /\ Subject(i)[2] = subject

gitops_deploys ==
    {[path |-> "gitops", ref |-> i, failed |-> Reverted(Subject(i)),
      restored_at |-> IF Reverted(Subject(i)) THEN reverted_by(Subject(i)) ELSE 0] : i \in Index}

(* Deployments without a status, or that never reached prod, are left out. *)
terraform_deploys ==
    {[path |-> "terraform", ref |-> i, failed |-> applies[i] = "failure", restored_at |-> 0] :
        i \in {k \in DOMAIN applies : applies[k] \in {"success", "failure"}}}

metrics(deploys) ==
    LET failures == {d \in deploys : d.failed}
        restores == {d \in failures : d.restored_at # 0}
    IN  [deployments    |-> Cardinality(deploys),
         failed_changes |-> Cardinality(failures),
         unrestored     |-> Cardinality(failures) - Cardinality(restores)]

-----------------------------------------------------------------------------
DoraTypeOK ==
    /\ \A i \in Index : log[i].undoes \in 0..(i - 1)
    /\ applies \in Seq({"success", "failure", "error", "none"})

(* "a prod change that a later `Revert "..."` commit undid" (dora.py:29),  *)
(* restored by "the deployment that undid it" (31): of the changes whose   *)
(* subject no other has, those and only those count as failed, each from   *)
(* the revert that undid it first, whatever was reapplied, rolled back     *)
(* under another title, or undone again.  So a failure that both delivery  *)
(* paths together leave unrestored is one of Terraform's.  Two break-glass *)
(* commits of one digest share a subject, and there the rest is refuted.   *)
FailedWereUndone ==
    /\ \A d \in gitops_deploys :
          LET i == d.ref
              undone == {j \in Index : log[j].undoes = i /\ IsRevert(j)}
          IN  (\A k \in Index \ {i} : Subject(k) # Subject(i)) =>
                  /\ d.failed <=> undone # {}
                  /\ d.failed => d.restored_at = Min(undone)
    /\ metrics(terraform_deploys \union gitops_deploys).unrestored =
          Cardinality({k \in DOMAIN applies : applies[k] = "failure"})

=============================================================================
