------------------------------ MODULE Previews ------------------------------
(***************************************************************************)
(* A pull request's preview: the images that preview.yml builds and        *)
(* deletes in a concurrency group with cancel-in-progress, the reaper that *)
(* is in no group, and Argo CD's ApplicationSet, which follows the pull    *)
(* request and not the events.                                             *)
(*                                                                         *)
(* GitHub starts no run for a pull request that conflicts with its base,   *)
(* or whose head commit says [skip ci], and preview.yml does nothing for   *)
(* one from a fork; the ApplicationSet asks for the label alone.           *)
(*                                                                         *)
(* Pull requests share the package they are tagged in, by number, and the  *)
(* nodes, so one is modelled, whose pod may find the nodes full.           *)
(***************************************************************************)
EXTENDS Naturals, FiniteSets

CONSTANTS
    MaxPushes,  \* bound: pushes after the first commit
    MaxEvents,  \* bound: what people do to the pull request
    MaxReaps    \* bound: nights the reaper finds it too old

ASSUME PreviewsAssumption == MaxPushes \in Nat /\ MaxEvents \in Nat /\ MaxReaps \in Nat

VARIABLES
    open, merged,  \* the pull request's state
    label,         \* it has the label `preview`
    head,          \* its head commit
    same,          \* its head repository is this one, not a fork
    conflict,      \* it cannot be merged into its base
    skips,         \* its head's message says [skip ci]
    tags,          \* commits that have an image pr-<number>-<commit>
    build,         \* the run in the group preview-<number>
    reaper,        \* the reaper's job
    app,           \* the commit of Application pr-<number>, NoCommit, or Gone
    preview,       \* the commit that runs in namespace pr-<number>, or NoCommit
    pending,       \* the new pod has found no node
    events, reaps, \* so far
    stray,         \* history: why a tag may be left that nothing wants
    gap            \* history: why the image that is wanted may be missing

previewsVars ==
    <<open, merged, label, head, same, conflict, skips, tags, build, reaper,
      app, preview, pending, events, reaps, stray, gap>>

PullRequest == <<open, merged, head, same, conflict, skips, events>>
Cluster     == <<app, preview, pending>>

Commit   == 0..MaxPushes
NoCommit == MaxPushes + 1
Gone     == MaxPushes + 2  \* the Application waits for its finalizer

(* A run's job: "image", "list" (delete-images before the versions are     *)
(* read), "delete" with the versions it has yet to delete, or none.        *)
NoJob         == [job |-> "none", sha |-> NoCommit, ids |-> {}]
Deleting(ids) == [job |-> "delete", sha |-> NoCommit, ids |-> ids]

PreviewsTypeOK ==
    /\ open \in BOOLEAN /\ merged \in BOOLEAN /\ label \in BOOLEAN
    /\ same \in BOOLEAN /\ conflict \in BOOLEAN /\ skips \in BOOLEAN
    /\ head \in Commit /\ tags \subseteq Commit
    /\ app \in Commit \union {NoCommit, Gone} /\ preview \in Commit \union {NoCommit}
    /\ pending \in BOOLEAN
    /\ build \in [job : {"none", "image", "list", "delete"}, sha : Commit \union {NoCommit},
                  ids : SUBSET Commit]
    /\ build.job # "delete" => build.ids = {}
    /\ build.job = "image" <=> build.sha # NoCommit
    /\ reaper \in [job : {"none", "label", "list", "delete"}, sha : {NoCommit}, ids : SUBSET Commit]
    /\ events \in 0..MaxEvents /\ reaps \in 0..MaxReaps
    /\ stray \subseteq {"cancelled", "failed", "late", "unheard"}
    /\ gap \subseteq {"failed", "reaped", "unheard"}

-----------------------------------------------------------------------------
(* preview.yml *)

Wants == open /\ label
Heard == ~conflict /\ ~skips

(* image *)
ImageIf(closed, labelled) == ~closed /\ labelled /\ same

(* Mutant: removing the label deletes nothing. *)
DeleteIfClosed(closed, removed) == same /\ closed

(* delete-images *)
DeleteIf(closed, removed) == same /\ (closed \/ removed)

(* The job of the run for an activity; closed: it is `closed`, removed: it *)
(* is `unlabeled`, of preview.                                             *)
JobOn(closed, removed, labelled) ==
    IF ImageIf(closed, labelled) THEN "image" ELSE IF DeleteIf(closed, removed) THEN "list" ELSE "none"

Starts(job, sha) == [job |-> job, sha |-> IF job = "image" THEN sha ELSE NoCommit, ids |-> {}]

(* The pull request has been opened. *)
PreviewsInit ==
    /\ open = TRUE /\ merged = FALSE /\ label \in BOOLEAN /\ head = 0
    /\ same \in BOOLEAN /\ conflict \in BOOLEAN /\ skips \in BOOLEAN
    /\ build = IF Heard THEN Starts(JobOn(FALSE, FALSE, label), 0) ELSE NoJob
    /\ gap = IF ~Heard /\ JobOn(FALSE, FALSE, label) = "image" THEN {"unheard"} ELSE {}
    /\ tags = {} /\ stray = {} /\ reaper = NoJob
    /\ app = NoCommit /\ preview = NoCommit /\ pending = FALSE
    /\ events = 0 /\ reaps = 0

(* An activity starts a run, and the run that was in the group is          *)
(* cancelled, whatever the new one has to do; or GitHub starts none.       *)
StartRun(job, sha) ==
    /\ build' = Starts(job, sha)
    /\ stray' = IF build.job \in {"list", "delete"} THEN stray \union {"cancelled"} ELSE stray
    /\ UNCHANGED gap

StartNone(job) ==
    /\ stray' = IF job = "list" THEN stray \union {"unheard"} ELSE stray
    /\ gap' = IF job = "image" THEN gap \union {"unheard"} ELSE gap
    /\ UNCHANGED build

(* Mutant: the commit that was the head before the event is built. *)
EventStale(closed, removed) ==
    LET job == JobOn(closed, removed, label') IN
    /\ events < MaxEvents /\ events' = events + 1
    /\ IF Heard' THEN StartRun(job, head) ELSE StartNone(job)
    /\ UNCHANGED <<same, tags, reaper, reaps, Cluster>>

(* What an activity does to the group, once `head` and `label` are new.    *)
Event(closed, removed) ==
    LET job == JobOn(closed, removed, label') IN
    /\ events < MaxEvents /\ events' = events + 1
    /\ IF Heard' THEN StartRun(job, head') ELSE StartNone(job)
    /\ UNCHANGED <<same, tags, reaper, reaps, Cluster>>

Push ==
    /\ open /\ head < MaxPushes
    /\ head' = head + 1 /\ conflict' \in BOOLEAN /\ skips' \in BOOLEAN
    /\ UNCHANGED <<open, merged, label>>
    /\ Event(FALSE, FALSE)

Close ==
    /\ open /\ open' = FALSE /\ merged' \in BOOLEAN /\ (merged' => ~conflict)
    /\ UNCHANGED <<label, head, conflict, skips>>
    /\ Event(TRUE, FALSE)

Reopen ==
    /\ ~open /\ ~merged /\ open' = TRUE
    /\ UNCHANGED <<merged, label, head, conflict, skips>>
    /\ Event(FALSE, FALSE)

(* Labels are set and removed on a closed pull request, too. *)
AddLabel ==
    /\ ~label /\ label' = TRUE
    /\ UNCHANGED <<open, merged, head, conflict, skips>>
    /\ Event(FALSE, FALSE)

RemoveLabel ==
    /\ label /\ label' = FALSE
    /\ UNCHANGED <<open, merged, head, conflict, skips>>
    /\ Event(FALSE, TRUE)

(* Any other label is added or removed. *)
OtherLabel ==
    /\ UNCHANGED <<open, merged, label, head, conflict, skips>>
    /\ Event(FALSE, FALSE)

(* Something else is merged: the conflict comes or goes, without an event. *)
MainMoves ==
    /\ ~merged /\ conflict' = ~conflict
    /\ UNCHANGED <<open, merged, label, head, same, skips, tags, build, reaper,
                   events, reaps, stray, gap, Cluster>>

-----------------------------------------------------------------------------
(* The jobs of the run. *)

(* The image is pushed, to the version that had the tag or to another, or  *)
(* it is not; the pull request may have no use for it by now.              *)
Build ==
    /\ build.job = "image"
    /\ build' = NoJob
    /\ \/ /\ tags' = tags \union {build.sha}
          /\ reaper' \in {reaper, [reaper EXCEPT !.ids = @ \ {build.sha}]}
          /\ gap' = IF build.sha = head THEN {} ELSE gap
          /\ stray' = IF Wants THEN stray ELSE stray \union {"late"}
       \/ /\ gap' = gap \union {"failed"}
          /\ UNCHANGED <<tags, reaper, stray>>
    /\ UNCHANGED <<label, reaps, PullRequest, Cluster>>

(* The versions whose tags are all this pull request's, or an error.       *)
List ==
    /\ build.job = "list"
    /\ \/ build' = Deleting(tags) /\ stray' = {}
       \/ build' = NoJob /\ stray' = stray \union {"failed"}
    /\ UNCHANGED <<label, tags, reaper, reaps, gap, PullRequest, Cluster>>

(* One DELETE: a version that is gone already fails like any other error,  *)
(* and set -e ends the loop.                                               *)
DeleteOne(ids, id) == id \in ids /\ id \in tags /\ tags' = tags \ {id}
Fails == UNCHANGED tags /\ stray' = stray \union {"failed"}

DeleteImages ==
    /\ build.job = "delete"
    /\ \/ /\ \E id \in build.ids :
                DeleteOne(build.ids, id) /\ build' = Deleting(build.ids \ {id})
          /\ UNCHANGED stray
       \/ build.ids # {} /\ Fails /\ build' = NoJob
       \/ build.ids = {} /\ build' = NoJob /\ UNCHANGED <<tags, stray>>
    /\ UNCHANGED <<label, reaper, reaps, gap, PullRequest, Cluster>>

-----------------------------------------------------------------------------
(* preview-reaper.yml *)

(* The list of open pull requests with the label, and this one is too old. *)
Reap ==
    /\ reaper.job = "none" /\ reaps < MaxReaps /\ Wants
    /\ reaper' = [NoJob EXCEPT !.job = "label"] /\ reaps' = reaps + 1
    /\ UNCHANGED <<label, tags, build, stray, gap, PullRequest, Cluster>>

(* gh pr edit --remove-label: with GITHUB_TOKEN, so no event. *)
ReapLabel ==
    /\ reaper.job = "label"
    /\ label' = FALSE
    /\ reaper' = [reaper EXCEPT !.job = "list"]
    /\ UNCHANGED <<tags, build, reaps, stray, gap, PullRequest, Cluster>>

ReapList ==
    /\ reaper.job = "list"
    /\ reaper' = Deleting(tags)
    /\ stray' = {}
    /\ UNCHANGED <<label, tags, build, reaps, gap, PullRequest, Cluster>>

ReapDelete ==
    /\ reaper.job = "delete"
    /\ \/ \E id \in reaper.ids :
             /\ DeleteOne(reaper.ids, id)
             /\ reaper' = Deleting(reaper.ids \ {id})
             /\ gap' = IF id = head THEN gap \union {"reaped"} ELSE gap
             /\ UNCHANGED stray
       \/ reaper.ids # {} /\ Fails /\ reaper' = NoJob /\ UNCHANGED gap
       \/ reaper.ids = {} /\ reaper' = NoJob /\ UNCHANGED <<tags, stray, gap>>
    /\ UNCHANGED <<label, build, reaps, PullRequest, Cluster>>

(* The job dies before it has read the versions. *)
ReapDies ==
    /\ reaper.job \in {"label", "list"}
    /\ reaper' = NoJob
    /\ stray' = IF reaper.job = "list" THEN stray \union {"failed"} ELSE stray
    /\ UNCHANGED <<label, tags, build, reaps, gap, PullRequest, Cluster>>

-----------------------------------------------------------------------------
(* previews.yaml *)

(* Every two minutes Argo CD asks for the open pull requests with the      *)
(* label; an Application that is being deleted is not made again yet.      *)
Poll ==
    /\ \/ Wants /\ app \notin {head, Gone} /\ app' = head
       \/ ~Wants /\ app \in Commit /\ app' = Gone
    /\ pending' = FALSE
    /\ UNCHANGED <<label, tags, build, reaper, preview, reaps, stray, gap, PullRequest>>

(* The pod of the new image starts, or no node has room for it.            *)
Deploy ==
    /\ app \in tags /\ preview # app /\ ~pending
    /\ \/ preview' = app /\ UNCHANGED pending
       \/ pending' = TRUE /\ UNCHANGED preview
    /\ UNCHANGED <<label, tags, build, reaper, app, reaps, stray, gap, PullRequest>>

(* Another preview ends, and the pod that waits has a node. *)
Schedule ==
    /\ pending /\ app \in tags
    /\ preview' = app /\ pending' = FALSE
    /\ UNCHANGED <<label, tags, build, reaper, app, reaps, stray, gap, PullRequest>>

(* The finalizer deletes what the Application made, then the Application.  *)
Finalize ==
    /\ app = Gone
    /\ app' = NoCommit /\ preview' = NoCommit
    /\ UNCHANGED <<label, tags, build, reaper, pending, reaps, stray, gap, PullRequest>>

-----------------------------------------------------------------------------
PreviewsNext ==
    \/ Push \/ Close \/ Reopen \/ AddLabel \/ RemoveLabel \/ OtherLabel \/ MainMoves
    \/ Build \/ List \/ DeleteImages
    \/ Reap \/ ReapLabel \/ ReapList \/ ReapDelete \/ ReapDies
    \/ Poll \/ Deploy \/ Schedule \/ Finalize

(* A build ends (timeout-minutes), Argo CD polls and finalizes, kubelets   *)
(* pull.  A job that deletes may take as long as it likes, and nobody need *)
(* make room for a pod.                                                    *)
PreviewsFairness ==
    /\ WF_previewsVars(Build) /\ WF_previewsVars(Poll)
    /\ WF_previewsVars(Deploy) /\ WF_previewsVars(Finalize)

PreviewsSpec == PreviewsInit /\ [][PreviewsNext]_previewsVars /\ PreviewsFairness

-----------------------------------------------------------------------------
(* Properties. *)

AtRest == build.job = "none" /\ reaper.job = "none"

(* "Closing the pull request or removing the label deletes the tags"       *)
(* (preview.yml:5-6): a tag is left that nothing wants only when the       *)
(* deletion failed or a later event cancelled it, when GitHub started no   *)
(* run for the event, or when the image was still being built as the       *)
(* reaper took the label or the event went unheard, or was built for a     *)
(* label of a closed pull request; and until the next deletion at most.    *)
StraysHaveAReason == AtRest /\ ~Wants /\ tags # {} => stray # {}

(* A labelled pull request "gets api:pr-<number>-<head sha> in GHCR,       *)
(* rebuilt on every push" (preview.yml:3-4): whatever cancelled what, at   *)
(* rest the head of one from this repository has its image, unless the     *)
(* build failed, GitHub started none, or the reaper deletes what it had    *)
(* listed before the label came back.                                      *)
WantedHasItsImage == AtRest /\ Wants /\ same => head \in tags \/ gap # {}

(* "The trigger is the pull request's state, not an event, so a missed     *)
(* webhook cannot strand a preview" (previews.yaml:6-7): in the end the    *)
(* namespace is gone if nothing wants it, though events were missed, the   *)
(* pull request came back while it was being deleted, or the image never   *)
(* was there; else it runs the head, when there is an image of it and a    *)
(* node for it.                                                            *)
PreviewFollows ==
    <>[](IF Wants THEN preview = head \/ pending \/ gap # {} \/ ~same
         ELSE preview = NoCommit)

=============================================================================
