--------------------------- MODULE ProgramsProofs --------------------------
(***************************************************************************)
(* The safety of the previews, of the orders and of the labs, and that of  *)
(* MCPrograms: whichever program a behaviour is of, all of them are safe.  *)
(***************************************************************************)
EXTENDS MCPrograms, WorkerProofs, ReportsProofs

(* The previews.                                                           *)

(* While a pull request of this repository wants its preview, the run      *)
(* builds its head, or nothing runs and the image is there, or there is a  *)
(* reason that it may be missing.                                          *)
HeadIsBuilt ==
    Wants /\ same => \/ gap # {}
                     \/ build.job = "image" /\ build.sha = head
                     \/ build.job = "none" /\ head \in tags

NothingOfAFork == ~same => tags = {} /\ build.job = "none"

(* While nothing wants what is tagged, either there is a reason for it, or *)
(* the run or the reaper will read the versions, or has read all of them.  *)
Deletes(j) == j.job = "list" \/ (j.job = "delete" /\ tags \subseteq j.ids)

TagsAreDeleted == ~Wants /\ stray = {} /\ tags # {} => Deletes(build) \/ Deletes(reaper)

PreviewsInv == PreviewsTypeOK /\ HeadIsBuilt /\ NothingOfAFork /\ TagsAreDeleted

BuildType  == [job : {"none", "image", "list", "delete"}, sha : Commit \union {NoCommit},
               ids : SUBSET Commit]
ReaperType == [job : {"none", "label", "list", "delete"}, sha : {NoCommit}, ids : SUBSET Commit]

LEMMA NoJobType ==
  /\ NoJob.job = "none" /\ NoJob.sha = NoCommit /\ NoJob.ids = {}
  /\ NoCommit \notin Commit /\ NoCommit \in Nat
  BY PreviewsAssumption DEF NoJob, NoCommit, Commit

LEMMA JobTypes ==
  ASSUME NEW ids \in SUBSET Commit
  PROVE  /\ NoJob.job = "none" /\ NoJob.sha = NoCommit /\ NoJob.ids = {}
         /\ NoJob \in BuildType /\ NoJob \in ReaperType
         /\ Deleting(ids).job = "delete" /\ Deleting(ids).sha = NoCommit /\ Deleting(ids).ids = ids
         /\ Deleting(ids) \in BuildType /\ Deleting(ids) \in ReaperType
  BY DEF NoJob, Deleting, BuildType, ReaperType

(* A run that starts has the job and builds the commit.                    *)
LEMMA StartsType ==
  ASSUME NEW todo \in {"none", "image", "list"}, NEW sha \in Commit
  PROVE  /\ Starts(todo, sha).job = todo /\ Starts(todo, sha).ids = {}
         /\ todo = "image" => Starts(todo, sha).sha = sha
         /\ Starts(todo, sha).job = "image" <=> Starts(todo, sha).sha # NoCommit
         /\ Starts(todo, sha) \in BuildType
<1>1. Starts(todo, sha) = [job |-> todo, sha |-> IF todo = "image" THEN sha ELSE NoCommit, ids |-> {}]
  BY DEF Starts
<1>2. QED
  BY <1>1, NoJobType DEF BuildType

LEMMA JobOnIs ==
  ASSUME NEW closed \in BOOLEAN, NEW removed \in BOOLEAN, NEW labelled \in BOOLEAN
  PROVE  /\ JobOn(closed, removed, labelled) \in {"none", "image", "list"}
         /\ ~same => JobOn(closed, removed, labelled) = "none"
         /\ same /\ ~closed /\ labelled => JobOn(closed, removed, labelled) = "image"
         /\ same /\ ~(~closed /\ labelled) /\ (closed \/ removed) =>
               JobOn(closed, removed, labelled) = "list"
  BY DEF JobOn, ImageIf, DeleteIf

(* An event: a run with the job of the event starts, or none and that is   *)
(* a reason.                                                               *)
LEMMA EventIs ==
  ASSUME PreviewsTypeOK, head' \in Commit, label' \in BOOLEAN,
         open' \in BOOLEAN, merged' \in BOOLEAN, conflict' \in BOOLEAN, skips' \in BOOLEAN,
         NEW closed \in BOOLEAN, NEW removed \in BOOLEAN, Event(closed, removed)
  PROVE  /\ PreviewsTypeOK'
         /\ UNCHANGED <<same, tags, reaper>>
         /\ \/ /\ build'.job = JobOn(closed, removed, label')
               /\ build'.job = "image" => build'.sha = head'
               /\ stray' = {} => stray = {} /\ build.job \notin {"list", "delete"}
               /\ gap' = gap
            \/ /\ build' = build
               /\ stray' = {} => stray = {} /\ JobOn(closed, removed, label') # "list"
               /\ gap' = {} => gap = {} /\ JobOn(closed, removed, label') # "image"
<1> DEFINE todo == JobOn(closed, removed, label')
<1>1. todo \in {"none", "image", "list"}
  BY JobOnIs
<1>2. /\ UNCHANGED <<same, tags, reaper, reaps>> /\ UNCHANGED <<app, preview, pending>>
      /\ events' \in 0..MaxEvents
  BY PreviewsAssumption DEF Event, PreviewsTypeOK, Cluster
<1>3. StartRun(todo, head') \/ StartNone(todo)
  BY DEF Event
<1> HIDE DEF todo
<1>4. CASE StartRun(todo, head')
  <2>1. /\ build' = Starts(todo, head') /\ gap' = gap
        /\ stray' = IF build.job \in {"list", "delete"} THEN stray \union {"cancelled"} ELSE stray
    BY <1>4 DEF StartRun
  <2>2. /\ build' \in BuildType /\ build'.ids = {} /\ build'.job = todo
        /\ build'.job = "image" => build'.sha = head'
        /\ build'.job = "image" <=> build'.sha # NoCommit
    BY <1>1, <2>1, StartsType
  <2>3. PreviewsTypeOK'
    BY <1>2, <2>1, <2>2 DEF PreviewsTypeOK, BuildType
  <2>4. stray' = {} => stray = {} /\ build.job \notin {"list", "delete"}
    BY <2>1
  <2>5. QED
    BY <1>2, <2>1, <2>2, <2>3, <2>4 DEF todo
<1>5. CASE StartNone(todo)
  <2>1. /\ build' = build
        /\ stray' = IF todo = "list" THEN stray \union {"unheard"} ELSE stray
        /\ gap' = IF todo = "image" THEN gap \union {"unheard"} ELSE gap
    BY <1>5 DEF StartNone
  <2>2. PreviewsTypeOK'
    BY <1>2, <2>1 DEF PreviewsTypeOK
  <2>3. /\ stray' = {} => stray = {} /\ todo # "list"
        /\ gap' = {} => gap = {} /\ todo # "image"
    BY <2>1
  <2>4. QED
    BY <1>2, <2>1, <2>2, <2>3 DEF todo
<1>6. QED
  BY <1>3, <1>4, <1>5

(* Whatever people do to the pull request.                                 *)
People == Push \/ Close \/ Reopen \/ AddLabel \/ RemoveLabel \/ OtherLabel

LEMMA PeopleStep == PreviewsInv /\ People => PreviewsInv'
<1> SUFFICES ASSUME PreviewsInv, People PROVE PreviewsInv'
  OBVIOUS
<1>t. /\ PreviewsTypeOK /\ open \in BOOLEAN /\ label \in BOOLEAN /\ merged \in BOOLEAN
      /\ head \in Commit /\ conflict \in BOOLEAN /\ skips \in BOOLEAN /\ same \in BOOLEAN
  BY DEF PreviewsInv, PreviewsTypeOK
<1>1. PICK closed \in BOOLEAN, removed \in BOOLEAN :
         /\ Event(closed, removed) /\ head' \in Commit
         /\ open' \in BOOLEAN /\ merged' \in BOOLEAN /\ label' \in BOOLEAN
         /\ conflict' \in BOOLEAN /\ skips' \in BOOLEAN
         /\ closed => ~open'
         /\ Wants /\ ~Wants' => closed \/ removed
         /\ removed => ~label'
  <2>1. CASE Push
    <3>1. head + 1 \in Commit
      BY <1>t, <2>1, PreviewsAssumption DEF Push, Commit
    <3>2. QED
      BY <1>t, <2>1, <3>1 DEF Push, Wants
  <2>2. CASE Close
    BY <1>t, <2>2 DEF Close, Wants
  <2>3. CASE Reopen \/ AddLabel \/ OtherLabel
    BY <1>t, <2>3 DEF Reopen, AddLabel, OtherLabel, Wants
  <2>4. CASE RemoveLabel
    BY <1>t, <2>4 DEF RemoveLabel, Wants
  <2>5. QED
    BY <2>1, <2>2, <2>3, <2>4 DEF People
<1> DEFINE todo == JobOn(closed, removed, label')
<1>2. PreviewsTypeOK' /\ UNCHANGED <<same, tags, reaper>>
  BY <1>t, <1>1, EventIs
<1>3. \/ /\ build'.job = todo
         /\ build'.job = "image" => build'.sha = head'
         /\ stray' = {} => stray = {} /\ build.job \notin {"list", "delete"}
         /\ gap' = gap
      \/ /\ build' = build
         /\ stray' = {} => stray = {} /\ todo # "list"
         /\ gap' = {} => gap = {} /\ todo # "image"
  BY <1>t, <1>1, EventIs
<1>4. /\ ~same => todo = "none"
      /\ same /\ ~closed /\ label' => todo = "image"
      /\ same /\ ~(~closed /\ label') /\ (closed \/ removed) => todo = "list"
  BY <1>1, JobOnIs
<1> HIDE DEF todo
<1>5. HeadIsBuilt'
  <2>1. Wants' => ~closed /\ label'
    BY <1>1 DEF Wants
  <2>2. QED
    BY <1>2, <1>3, <1>4, <2>1 DEF HeadIsBuilt
<1>6. NothingOfAFork'
  BY <1>2, <1>3, <1>4 DEF PreviewsInv, NothingOfAFork
<1>7. TagsAreDeleted'
  <2> SUFFICES ASSUME ~Wants', stray' = {}, tags' # {}, ~Deletes(reaper)'
               PROVE  Deletes(build)'
    BY DEF TagsAreDeleted
  <2>1. tags' = tags /\ ~Deletes(reaper) /\ same /\ stray = {}
    BY <1>2, <1>3 DEF Deletes, PreviewsInv, NothingOfAFork
  <2>2. Wants => ~(~closed /\ label') /\ (closed \/ removed)
    BY <1>1, <1>t DEF Wants
  <2>3. Wants => todo = "list"
    BY <1>4, <2>1, <2>2
  <2>4. ~Wants => Deletes(build)
    BY <2>1 DEF PreviewsInv, TagsAreDeleted
  <2>5. CASE Wants
    BY <1>3, <2>3, <2>5 DEF Deletes
  <2>6. CASE ~Wants
    BY <1>3, <2>1, <2>4, <2>6 DEF Deletes
  <2>7. QED
    BY <2>5, <2>6
<1>8. QED
  BY <1>2, <1>5, <1>6, <1>7 DEF PreviewsInv

(* The run's job.                                                          *)
LEMMA BuildStep == PreviewsInv /\ Build => PreviewsInv'
<1> SUFFICES ASSUME PreviewsInv, Build PROVE PreviewsInv'
  OBVIOUS
<1>t. PreviewsTypeOK /\ HeadIsBuilt /\ NothingOfAFork /\ TagsAreDeleted
  BY DEF PreviewsInv
<1>b. /\ build' = NoJob /\ build.job = "image" /\ build.sha \in Commit
      /\ UNCHANGED <<label, reaps, PullRequest, Cluster>>
  BY <1>t DEF Build, PreviewsTypeOK
<1>u. UNCHANGED <<open, head, same>>
  BY <1>b DEF PullRequest
<1>j. build'.job = "none" /\ build'.sha = NoCommit /\ build'.ids = {} /\ build' \in BuildType
  BY <1>b, JobTypes
<1>w. same /\ (Wants' <=> Wants) /\ (Wants => gap # {} \/ build.sha = head)
  BY <1>b, <1>t, <1>u DEF Wants, HeadIsBuilt, NothingOfAFork
<1>r. reaper \in ReaperType /\ tags \subseteq Commit /\ label \in BOOLEAN
  BY <1>t DEF PreviewsTypeOK, ReaperType
<1>1. ASSUME tags' = tags \union {build.sha},
             reaper' \in {reaper, [reaper EXCEPT !.ids = @ \ {build.sha}]},
             gap' = IF build.sha = head THEN {} ELSE gap,
             stray' = IF Wants THEN stray ELSE stray \union {"late"}
      PROVE  PreviewsInv'
  <2>0. reaper' \in ReaperType
    BY <1>r, <1>1 DEF ReaperType
  <2>1. PreviewsTypeOK'
    BY <1>b, <1>j, <1>r, <1>t, <1>1, <2>0 DEF PreviewsTypeOK, BuildType, ReaperType, PullRequest, Cluster
  <2>2. HeadIsBuilt'
    BY <1>u, <1>j, <1>w, <1>1 DEF HeadIsBuilt
  <2>3. TagsAreDeleted'
    BY <1>w, <1>1 DEF TagsAreDeleted
  <2>4. QED
    BY <1>u, <1>w, <2>1, <2>2, <2>3 DEF PreviewsInv, NothingOfAFork
<1>2. ASSUME gap' = gap \union {"failed"}, UNCHANGED <<tags, reaper, stray>>
      PROVE  PreviewsInv'
  <2>1. PreviewsTypeOK'
    BY <1>b, <1>j, <1>t, <1>2 DEF PreviewsTypeOK, BuildType, PullRequest, Cluster
  <2>2. HeadIsBuilt'
    BY <1>2 DEF HeadIsBuilt
  <2>3. TagsAreDeleted'
    BY <1>b, <1>t, <1>w, <1>2 DEF TagsAreDeleted, Deletes
  <2>4. QED
    BY <1>u, <1>w, <2>1, <2>2, <2>3 DEF PreviewsInv, NothingOfAFork
<1>3. QED
  BY <1>1, <1>2 DEF Build

LEMMA ListStep == PreviewsInv /\ List => PreviewsInv'
<1> SUFFICES ASSUME PreviewsInv, List PROVE PreviewsInv'
  OBVIOUS
<1>t. PreviewsTypeOK /\ HeadIsBuilt /\ NothingOfAFork /\ tags \subseteq Commit
  BY DEF PreviewsInv, PreviewsTypeOK
<1>1. /\ build.job = "list"
      /\ \/ build' = Deleting(tags) /\ stray' = {}
         \/ build' = NoJob /\ stray' = stray \union {"failed"}
      /\ UNCHANGED <<label, tags, reaper, reaps, gap, PullRequest, Cluster>>
  BY DEF List
<1>u. UNCHANGED <<open, label, head, same, tags, reaper, gap>>
  BY <1>1 DEF PullRequest
<1>2. build' \in BuildType /\ build'.sha = NoCommit /\ build'.job \in {"none", "delete"}
      /\ (build'.job = "none" => build'.ids = {})
  BY <1>t, <1>1, JobTypes
<1>s. /\ build'.job # "delete" => build'.ids = {}
      /\ build'.job = "image" <=> build'.sha # NoCommit
      /\ stray' \subseteq {"cancelled", "failed", "late", "unheard"}
  BY <1>t, <1>1, <1>2 DEF PreviewsTypeOK
<1>3. PreviewsTypeOK'
  BY <1>t, <1>1, <1>2, <1>s DEF PreviewsTypeOK, BuildType, PullRequest, Cluster
<1>4. same /\ HeadIsBuilt'
  BY <1>t, <1>1, <1>u DEF HeadIsBuilt, NothingOfAFork, Wants
<1>5. TagsAreDeleted'
  <2>1. CASE build' = Deleting(tags)
    <3>1. build'.job = "delete" /\ build'.ids = tags
      BY <1>t, <2>1, JobTypes
    <3>2. QED
      BY <1>u, <3>1 DEF TagsAreDeleted, Deletes
  <2>2. CASE stray' = stray \union {"failed"}
    BY <2>2 DEF TagsAreDeleted
  <2>3. QED
    BY <1>1, <2>1, <2>2
<1>6. QED
  BY <1>3, <1>4, <1>5, <1>u DEF PreviewsInv, NothingOfAFork

LEMMA DeleteImagesStep == PreviewsInv /\ DeleteImages => PreviewsInv'
<1> SUFFICES ASSUME PreviewsInv, DeleteImages PROVE PreviewsInv'
  OBVIOUS
<1>t. PreviewsTypeOK /\ HeadIsBuilt /\ NothingOfAFork /\ TagsAreDeleted
  BY DEF PreviewsInv
<1>1. /\ build.job = "delete" /\ build.ids \in SUBSET Commit /\ tags \subseteq Commit
      /\ UNCHANGED <<label, reaper, reaps, gap, PullRequest, Cluster>>
  BY <1>t DEF DeleteImages, PreviewsTypeOK
<1>u. UNCHANGED <<open, label, head, same, reaper, gap>>
  BY <1>1 DEF PullRequest
<1>2. same /\ NothingOfAFork' /\ HeadIsBuilt' /\ (Wants' <=> Wants)
  BY <1>t, <1>1, <1>u DEF HeadIsBuilt, NothingOfAFork, Wants
<1>3. ASSUME NEW id \in build.ids, DeleteOne(build.ids, id), build' = Deleting(build.ids \ {id}),
             UNCHANGED stray
      PROVE  PreviewsInv'
  <2>1. tags' = tags \ {id}
    BY <1>3 DEF DeleteOne
  <2>2. /\ build'.job = "delete" /\ build'.sha = NoCommit /\ build'.ids = build.ids \ {id}
        /\ build' \in BuildType
    BY <1>1, <1>3, JobTypes
  <2>3. PreviewsTypeOK'
    BY <1>t, <1>1, <1>3, <2>1, <2>2 DEF PreviewsTypeOK, BuildType, PullRequest, Cluster
  <2>4. TagsAreDeleted'
    BY <1>t, <1>1, <1>u, <1>2, <1>3, <2>1, <2>2 DEF TagsAreDeleted, Deletes
  <2>5. QED
    BY <1>2, <2>3, <2>4 DEF PreviewsInv
<1>4. ASSUME build' = NoJob, UNCHANGED tags,
             \/ stray' = stray \union {"failed"}
             \/ build.ids = {} /\ UNCHANGED stray
      PROVE  PreviewsInv'
  <2>1. build'.job = "none" /\ build'.sha = NoCommit /\ build'.ids = {} /\ build' \in BuildType
    BY <1>4, JobTypes
  <2>s. stray' \subseteq {"cancelled", "failed", "late", "unheard"}
    BY <1>t, <1>4 DEF PreviewsTypeOK
  <2>2. PreviewsTypeOK'
    BY <1>t, <1>1, <1>4, <2>1, <2>s DEF PreviewsTypeOK, BuildType, PullRequest, Cluster
  <2>3. TagsAreDeleted'
    BY <1>t, <1>1, <1>u, <1>2, <1>4 DEF TagsAreDeleted, Deletes
  <2>4. QED
    BY <1>2, <2>2, <2>3 DEF PreviewsInv
<1>5. QED
  BY <1>3, <1>4 DEF DeleteImages, Fails

(* The reaper.                                                             *)
LEMMA ReaperStep ==
  PreviewsInv /\ (Reap \/ ReapLabel \/ ReapList \/ ReapDelete \/ ReapDies) => PreviewsInv'
<1> SUFFICES ASSUME PreviewsInv, Reap \/ ReapLabel \/ ReapList \/ ReapDelete \/ ReapDies
             PROVE  PreviewsInv'
  OBVIOUS
<1>t. PreviewsTypeOK /\ HeadIsBuilt /\ NothingOfAFork /\ TagsAreDeleted
  BY DEF PreviewsInv
<1>u. /\ UNCHANGED <<build, open, merged, head, same, conflict, skips>>
      /\ UNCHANGED <<events, app, preview, pending>>
  BY DEF Reap, ReapLabel, ReapList, ReapDelete, ReapDies, PullRequest, Cluster
<1>r. /\ reaper.ids \in SUBSET Commit /\ tags \subseteq Commit
      /\ reaper \in ReaperType
  BY <1>t DEF PreviewsTypeOK, ReaperType
<1>f. tags' \subseteq tags => NothingOfAFork'
  BY <1>t, <1>u DEF NothingOfAFork
<1>1. CASE Reap
  <2>1. /\ reaper' = [NoJob EXCEPT !.job = "label"] /\ reaps' = reaps + 1 /\ reaps < MaxReaps /\ Wants
        /\ UNCHANGED <<label, tags, stray, gap>>
    BY <1>1 DEF Reap
  <2>2. reaper' \in ReaperType
    BY <2>1 DEF NoJob, ReaperType
  <2>3. reaps' \in 0..MaxReaps
    BY <1>t, <2>1, PreviewsAssumption DEF PreviewsTypeOK, ReaperType
  <2>4. PreviewsTypeOK'
    BY <1>t, <1>u, <2>1, <2>2, <2>3 DEF PreviewsTypeOK, ReaperType
  <2>5. QED
    BY <1>t, <1>u, <1>f, <2>1, <2>4 DEF PreviewsInv, HeadIsBuilt, TagsAreDeleted, Wants
<1>2. CASE ReapLabel
  <2>1. /\ label' = FALSE /\ reaper' = [reaper EXCEPT !.job = "list"]
        /\ UNCHANGED <<tags, stray, gap, reaps>>
    BY <1>2 DEF ReapLabel
  <2>2. /\ reaper'.job = "list"
        /\ reaper' \in ReaperType
    BY <1>r, <2>1 DEF ReaperType
  <2>3. PreviewsTypeOK'
    BY <1>t, <1>u, <2>1, <2>2 DEF PreviewsTypeOK, ReaperType
  <2>4. QED
    BY <1>f, <2>1, <2>2, <2>3 DEF PreviewsInv, HeadIsBuilt, TagsAreDeleted, Wants, Deletes
<1>3. CASE ReapList
  <2>1. /\ reaper' = Deleting(tags) /\ stray' = {}
        /\ UNCHANGED <<label, tags, gap, reaps>>
    BY <1>3 DEF ReapList
  <2>2. /\ reaper'.job = "delete" /\ reaper'.ids = tags
        /\ reaper' \in ReaperType
    BY <1>r, <2>1, JobTypes
  <2>3. PreviewsTypeOK'
    BY <1>t, <1>u, <2>1, <2>2 DEF PreviewsTypeOK, ReaperType
  <2>4. QED
    BY <1>t, <1>u, <1>f, <2>1, <2>2, <2>3 DEF PreviewsInv, HeadIsBuilt, TagsAreDeleted, Wants, Deletes
<1>4. CASE ReapDelete
  <2>1. /\ reaper.job = "delete" /\ UNCHANGED <<label, reaps>> /\ (Wants' <=> Wants)
    BY <1>4, <1>u DEF ReapDelete, Wants
  <2>2. ASSUME NEW id \in reaper.ids, DeleteOne(reaper.ids, id),
               reaper' = Deleting(reaper.ids \ {id}),
               gap' = IF id = head THEN gap \union {"reaped"} ELSE gap, UNCHANGED stray
        PROVE  PreviewsInv'
    <3>1. tags' = tags \ {id}
      BY <2>2 DEF DeleteOne
    <3>2. /\ reaper'.job = "delete" /\ reaper'.ids = reaper.ids \ {id}
          /\ reaper' \in ReaperType
      BY <1>r, <2>2, JobTypes
    <3>3. PreviewsTypeOK'
      BY <1>t, <1>u, <2>1, <2>2, <3>1, <3>2 DEF PreviewsTypeOK, ReaperType
    <3>4. HeadIsBuilt'
      BY <1>t, <1>u, <2>1, <2>2, <3>1 DEF HeadIsBuilt
    <3>5. TagsAreDeleted'
      BY <1>t, <1>u, <2>1, <2>2, <3>1, <3>2 DEF TagsAreDeleted, Deletes
    <3>6. QED
      BY <1>f, <3>1, <3>3, <3>4, <3>5 DEF PreviewsInv
  <2>3. ASSUME reaper' = NoJob, UNCHANGED <<tags, gap>>,
               \/ stray' = stray \union {"failed"}
               \/ reaper.ids = {} /\ UNCHANGED stray
        PROVE  PreviewsInv'
    <3>1. reaper' \in ReaperType
      BY <2>3, JobTypes
    <3>2. PreviewsTypeOK'
      BY <1>t, <1>u, <2>1, <2>3, <3>1 DEF PreviewsTypeOK, ReaperType
    <3>3. HeadIsBuilt'
      BY <1>t, <1>u, <2>1, <2>3 DEF HeadIsBuilt
    <3>4. TagsAreDeleted'
      BY <1>t, <1>u, <2>1, <2>3 DEF TagsAreDeleted, Deletes
    <3>5. QED
      BY <1>f, <2>3, <3>2, <3>3, <3>4 DEF PreviewsInv
  <2>4. QED
    BY <1>4, <2>2, <2>3 DEF ReapDelete, Fails
<1>5. CASE ReapDies
  <2>1. /\ reaper' = NoJob /\ reaper.job \in {"label", "list"}
        /\ stray' = IF reaper.job = "list" THEN stray \union {"failed"} ELSE stray
        /\ UNCHANGED <<label, tags, gap, reaps>>
    BY <1>5 DEF ReapDies
  <2>2. reaper' \in ReaperType
    BY <2>1, JobTypes
  <2>3. PreviewsTypeOK'
    BY <1>t, <1>u, <2>1, <2>2 DEF PreviewsTypeOK, ReaperType
  <2>4. HeadIsBuilt' /\ TagsAreDeleted'
    BY <1>t, <1>u, <2>1 DEF HeadIsBuilt, TagsAreDeleted, Deletes, Wants
  <2>5. QED
    BY <1>f, <2>1, <2>3, <2>4 DEF PreviewsInv
<1>6. QED
  BY <1>1, <1>2, <1>3, <1>4, <1>5

LEMMA PreviewsStep == PreviewsInv /\ [PreviewsNext]_previewsVars => PreviewsInv'
<1> SUFFICES ASSUME PreviewsInv, [PreviewsNext]_previewsVars PROVE PreviewsInv'
  OBVIOUS
<1>1. CASE Poll \/ Deploy \/ Schedule \/ Finalize
  <2>1. /\ app' \in Commit \union {NoCommit, Gone} /\ preview' \in Commit \union {NoCommit}
        /\ pending' \in BOOLEAN
    BY <1>1 DEF Poll, Deploy, Schedule, Finalize, PreviewsInv, PreviewsTypeOK
  <2>2. UNCHANGED <<label, tags, build, reaper, reaps, stray, gap>> /\ UNCHANGED PullRequest
    BY <1>1 DEF Poll, Deploy, Schedule, Finalize
  <2>3. UNCHANGED <<open, merged, head, same, conflict, skips, events>>
    BY <2>2 DEF PullRequest
  <2>4. QED
    BY <2>1, <2>2, <2>3
    DEF PreviewsInv, PreviewsTypeOK, HeadIsBuilt, NothingOfAFork, TagsAreDeleted, Deletes, Wants
<1>2. CASE MainMoves
  <2>1. /\ UNCHANGED <<open, merged, label, head, same, skips, tags, build, reaper>>
        /\ UNCHANGED <<events, reaps, stray, gap, app, preview, pending>> /\ conflict' \in BOOLEAN
    BY <1>2 DEF MainMoves, Cluster, PreviewsInv, PreviewsTypeOK
  <2>2. QED
    BY <2>1
    DEF PreviewsInv, PreviewsTypeOK, HeadIsBuilt, NothingOfAFork, TagsAreDeleted, Deletes, Wants
<1>3. CASE UNCHANGED previewsVars
  BY <1>3 DEF previewsVars, PreviewsInv, PreviewsTypeOK, HeadIsBuilt, NothingOfAFork,
              TagsAreDeleted, Deletes, Wants
<1>4. QED
  BY <1>1, <1>2, <1>3, PeopleStep, BuildStep, ListStep, DeleteImagesStep, ReaperStep
  DEF PreviewsNext, People

LEMMA PreviewsStart == PreviewsInit => PreviewsInv
<1> SUFFICES ASSUME PreviewsInit PROVE PreviewsInv
  OBVIOUS
<1> DEFINE todo == JobOn(FALSE, FALSE, label)
<1>1. 0 \in Commit /\ label \in BOOLEAN /\ open = TRUE /\ tags = {} /\ head = 0
  BY PreviewsAssumption DEF Commit, PreviewsInit
<1>2. todo \in {"none", "image", "list"} /\ (~same => todo = "none") /\ (same /\ label => todo = "image")
  BY <1>1, JobOnIs
<1>3. /\ build = IF Heard THEN Starts(todo, 0) ELSE NoJob
      /\ gap = IF ~Heard /\ todo = "image" THEN {"unheard"} ELSE {}
  BY DEF PreviewsInit
<1> HIDE DEF todo
<1>4. /\ Starts(todo, 0) \in BuildType /\ Starts(todo, 0).ids = {} /\ Starts(todo, 0).job = todo
      /\ todo = "image" => Starts(todo, 0).sha = 0
      /\ Starts(todo, 0).job = "image" <=> Starts(todo, 0).sha # NoCommit
  BY <1>1, <1>2, StartsType
<1>5. /\ build \in BuildType /\ build.ids = {} /\ (build.job = "image" <=> build.sha # NoCommit)
      /\ Heard => build.job = todo
      /\ build.job = "image" => build.sha = 0
      /\ ~Heard => build.job = "none"
  <2>1. CASE Heard
    BY <1>3, <1>4, <2>1
  <2>2. CASE ~Heard
    BY <1>3, <2>2, NoJobType, JobTypes
  <2>3. QED
    BY <2>1, <2>2
<1>6. /\ reaper \in ReaperType /\ events \in 0..MaxEvents /\ reaps \in 0..MaxReaps
      /\ gap \subseteq {"failed", "reaped", "unheard"}
  <2>1. NoJob \in ReaperType
    BY NoJobType DEF ReaperType, NoJob
  <2>2. gap \subseteq {"failed", "reaped", "unheard"}
    BY <1>3
  <2>3. reaper = NoJob /\ events \in 0..MaxEvents /\ reaps \in 0..MaxReaps
    BY PreviewsAssumption DEF PreviewsInit
  <2>4. QED
    BY <2>1, <2>2, <2>3
<1>7. PreviewsTypeOK
  BY <1>1, <1>5, <1>6 DEF PreviewsInit, PreviewsTypeOK, BuildType, ReaperType
<1>8. HeadIsBuilt
  BY <1>1, <1>2, <1>3, <1>5 DEF HeadIsBuilt, Wants
<1>9. NothingOfAFork
  BY <1>1, <1>2, <1>5 DEF NothingOfAFork
<1>10. QED
  BY <1>1, <1>7, <1>8, <1>9 DEF PreviewsInv, TagsAreDeleted

(* The pull request, its tags and the jobs on them keep their type         *)
(* (preview.yml, preview-reaper.yml).                                      *)
THEOREM PreviewsTypeCorrect == PreviewsSpec => []PreviewsTypeOK
<1>1. PreviewsInv => PreviewsTypeOK
  BY DEF PreviewsInv
<1>2. QED
  BY <1>1, PreviewsStart, PreviewsStep, PTL DEF PreviewsSpec

(* StraysHaveAReason: whatever people do to the pull request, whatever     *)
(* cancels, dies or fails, and whenever the reaper comes, a tag that       *)
(* nothing wants is being deleted, or there is a reason (preview.yml:5-6). *)
THEOREM NoUnexplainedStrays == PreviewsSpec => []StraysHaveAReason
<1>1. PreviewsInv => StraysHaveAReason
  BY DEF PreviewsInv, TagsAreDeleted, Deletes, StraysHaveAReason, AtRest
<1>2. QED
  BY <1>1, PreviewsStart, PreviewsStep, PTL DEF PreviewsSpec

(* WantedHasItsImage: whatever cancelled what, at rest the head that is    *)
(* wanted has its image, or there is a reason (preview.yml:3-4).           *)
THEOREM WantedIsBuilt == PreviewsSpec => []WantedHasItsImage
<1>1. PreviewsInv => WantedHasItsImage
  BY DEF PreviewsInv, HeadIsBuilt, WantedHasItsImage, AtRest
<1>2. QED
  BY <1>1, PreviewsStart, PreviewsStep, PTL DEF PreviewsSpec

-----------------------------------------------------------------------------
(* The orders.                                                             *)

(* A pod that serves has its table, until DynamoDB restarts; an order is   *)
(* in the store only once its handler has answered.                        *)
Stored(p, amounts) == <<p, [q \in Part |-> <<"Decimal", amounts[q]>>]>>

IsAmounts(amounts) == amounts = [p \in Part |-> amounts[p]]

OrdersInv ==
    /\ table \in BOOLEAN /\ restarted \in BOOLEAN
    /\ create \in [ApiPods -> {"list", "create", "done"}]
    /\ request.pc \in {"idle", "priced", "answered"} /\ request.pod \in ApiPods
    /\ request.order \in Order /\ request.code \in {0, 201, 422, 500}
    /\ request.refused \in BOOLEAN
    /\ IsAmounts(request.amounts)
    /\ \A o \in orders : o = Stored(request.pod, request.amounts)
    /\ ~restarted => \A p \in ApiPods : create[p] = "done" => table
    /\ request.pc = "priced" => create[request.pod] = "done"
    /\ request.pc # "answered" => request.code = 0 /\ ~request.refused /\ orders = {}
    /\ request.pc # "idle" /\ request.code # 422 =>
          Valid(request.order) /\ request.amounts \in price_order(request.order)
    /\ request.code = 201 /\ ~restarted => orders # {}
    /\ request.refused => restarted
    /\ request.code = 422 \/ request.refused => orders = {}

LEMMA IdleIs == Idle = Request("idle", Idle.pod, <<>>, NoAmounts, 0, FALSE) /\ Idle.pod \in ApiPods
<1> DEFINE p == CHOOSE p \in ApiPods : TRUE
<1>1. p \in ApiPods
  BY OrdersAssumption
<1>2. Idle = Request("idle", p, <<>>, NoAmounts, 0, FALSE)
  BY DEF Idle
<1>3. Idle.pod = p
  BY <1>2 DEF Request
<1> QED BY <1>1, <1>2, <1>3

LEMMA NothingIsAnOrder == <<>> \in Order
<1>1. <<>> \in [1..0 -> Line]
  OBVIOUS
<1>2. 0 \in 0..MaxLines
  BY OrdersAssumption
<1> QED BY <1>1, <1>2 DEF Order

(* What is put is what to_dynamo makes of floats. *)
LEMMA PutsDecimals ==
  ASSUME NEW p, NEW amounts, NEW item, item = to_dynamo(As("float", amounts))
  PROVE  /\ <<p, item>> = Stored(p, amounts)
         /\ \A q \in Part : item[q][1] # "float"
<1>1. item = [q \in Part |-> <<"Decimal", amounts[q]>>]
  BY DEF to_dynamo, As
<1> QED BY <1>1 DEF Stored

LEMMA OrdersStart == OrdersInit => OrdersInv
<1> SUFFICES ASSUME OrdersInit PROVE OrdersInv
  OBVIOUS
<1>1. request = Request("idle", Idle.pod, <<>>, NoAmounts, 0, FALSE) /\ Idle.pod \in ApiPods
  BY IdleIs DEF OrdersInit
<1>2. /\ request.pc = "idle" /\ request.pod \in ApiPods /\ request.order \in Order
      /\ request.amounts = NoAmounts /\ request.code = 0 /\ request.refused \in BOOLEAN /\ ~request.refused
  BY <1>1, NothingIsAnOrder DEF Request
<1>3. IsAmounts(request.amounts)
  BY <1>2 DEF NoAmounts, IsAmounts
<1>4. /\ table = FALSE /\ orders = {} /\ restarted = FALSE
      /\ create = [p \in ApiPods |-> "list"]
  BY DEF OrdersInit
<1>5. ~restarted => \A p \in ApiPods : create[p] = "done" => table
  BY <1>4
<1>6. /\ table \in BOOLEAN /\ restarted \in BOOLEAN
      /\ create \in [ApiPods -> {"list", "create", "done"}]
      /\ \A o \in orders : o = Stored(request.pod, request.amounts)
  BY <1>4
<1> QED BY <1>2, <1>3, <1>4, <1>5, <1>6 DEF OrdersInv

LEMMA PodStep ==
  ASSUME OrdersInv, NEW p \in ApiPods, ListTables(p) \/ CreateTable(p) \/ PodAgain(p)
  PROVE  OrdersInv'
<1>1. UNCHANGED <<request, orders, restarted>>
  BY DEF ListTables, CreateTable, PodAgain
<1>2. /\ table' \in BOOLEAN /\ create' \in [ApiPods -> {"list", "create", "done"}]
      /\ table => table'
      /\ \A q \in ApiPods : create'[q] = "done" => create[q] = "done" \/ table'
  <2>1. CASE ListTables(p)
    BY <2>1 DEF OrdersInv, ListTables
  <2>2. CASE CreateTable(p)
    BY <2>2 DEF OrdersInv, CreateTable
  <2>3. CASE PodAgain(p)
    BY <2>3 DEF OrdersInv, PodAgain
  <2> QED BY <2>1, <2>2, <2>3
<1>3. request.pc = "priced" => create'[request.pod] = "done"
  BY DEF OrdersInv, ListTables, CreateTable, PodAgain
<1> QED BY <1>1, <1>2, <1>3 DEF OrdersInv

LEMMA PostStep ==
  ASSUME OrdersInv, NEW p \in ApiPods, NEW o \in Order, Post(p, o)
  PROVE  OrdersInv'
<1>0. \E pc \in {"priced", "answered"}, reply \in {0, 422} : \E amounts :
        /\ request' = Request(pc, p, o, amounts, reply, FALSE)
        /\ IsAmounts(amounts)
        /\ pc = "priced" => reply = 0
        /\ reply # 422 => Valid(o) /\ amounts \in price_order(o)
  <2>1. CASE Valid(o)
    <3>1. PICK amounts \in price_order(o) :
            request' = Request("priced", p, o, amounts, 0, FALSE)
      BY <2>1 DEF Post
    <3>2. IsAmounts(amounts)
      BY DEF price_order, Part, IsAmounts
    <3> QED BY <2>1, <3>1, <3>2
  <2>2. CASE ~Valid(o)
    <3>1. IsAmounts(NoAmounts)
      BY DEF NoAmounts, IsAmounts
    <3> QED BY <2>2, <3>1 DEF Post
  <2> QED BY <2>1, <2>2
<1>p. PICK pc \in {"priced", "answered"}, reply \in {0, 422} : \E amounts :
        /\ request' = Request(pc, p, o, amounts, reply, FALSE)
        /\ IsAmounts(amounts)
        /\ pc = "priced" => reply = 0
        /\ reply # 422 => Valid(o) /\ amounts \in price_order(o)
  BY <1>0
<1>1. PICK amounts :
        /\ request' = Request(pc, p, o, amounts, reply, FALSE)
        /\ IsAmounts(amounts)
        /\ pc = "priced" => reply = 0
        /\ reply # 422 => Valid(o) /\ amounts \in price_order(o)
  BY <1>p
<1>2. /\ request'.pc = pc /\ request'.pod = p /\ request'.order = o
      /\ request'.amounts = amounts /\ request'.code = reply /\ request'.refused \in BOOLEAN /\ ~request'.refused
  BY <1>1 DEF Request
<1>3. /\ create[p] = "done" /\ orders = {}
      /\ UNCHANGED <<table, orders, create, restarted>>
  BY DEF Post, OrdersInv
<1>4. /\ IsAmounts(request'.amounts)
      /\ request'.pc = "priced" => create'[request'.pod] = "done"
      /\ \A kept \in orders' : kept = Stored(request'.pod, request'.amounts)
  BY <1>1, <1>2, <1>3
<1>5. /\ table' \in BOOLEAN /\ restarted' \in BOOLEAN
      /\ create' \in [ApiPods -> {"list", "create", "done"}]
      /\ ~restarted' => \A q \in ApiPods : create'[q] = "done" => table'
  BY <1>3 DEF OrdersInv
<1>6. /\ request'.pc \in {"idle", "priced", "answered"} /\ request'.code \in {0, 201, 422, 500}
      /\ request'.pc # "answered" => request'.code = 0 /\ ~request'.refused /\ orders' = {}
      /\ request'.code # 201 /\ request'.pod \in ApiPods /\ request'.order \in Order
  <2>1. request'.pc \in {"idle", "priced", "answered"} /\ request'.code \in {0, 201, 422, 500}
    <3>1. request'.pc = pc /\ request'.code = reply
      BY <1>2
    <3>2. pc \in {"idle", "priced", "answered"} /\ reply \in {0, 201, 422, 500}
      BY <1>p
    <3> QED BY <3>1, <3>2
  <2>2. request'.pc # "answered" => request'.code = 0
    <3>1. pc = "priced" => reply = 0
      BY <1>1
    <3> QED BY <3>1, <1>p, <1>2
  <2>3. request'.code # 201
    <3>1. reply # 201
      BY <1>p
    <3> QED BY <3>1, <1>2
  <2>4. request'.pod \in ApiPods /\ request'.order \in Order
    BY <1>2
  <2>5. orders' = {}
    BY <1>3
  <2>6. ~request'.refused
    BY <1>2
  <2> QED BY <2>1, <2>2, <2>3, <2>4, <2>5, <2>6
<1>7. request'.code # 422 => Valid(request'.order) /\ request'.amounts \in price_order(request'.order)
  <2>1. reply # 422 => Valid(o) /\ amounts \in price_order(o)
    BY <1>1
  <2>2. request'.code = reply /\ request'.order = o /\ request'.amounts = amounts
    BY <1>2
  <2> QED BY <2>1, <2>2
<1> QED BY <1>2, <1>3, <1>4, <1>5, <1>6, <1>7 DEF OrdersInv

LEMMA PutStep == ASSUME OrdersInv, Put PROVE OrdersInv'
<1> DEFINE item == to_dynamo(As("float", request.amounts))
           takes == table /\ \A p \in Part : item[p][1] # "float"
<1>1. /\ <<request.pod, item>> = Stored(request.pod, request.amounts)
      /\ \A q \in Part : item[q][1] # "float"
  BY PutsDecimals
<1>2. /\ create[request.pod] = "done" /\ orders = {} /\ request.pod \in ApiPods
      /\ UNCHANGED <<table, create, restarted>>
  BY DEF Put, OrdersInv
<1> DEFINE Answers(reply, refused) ==
             request' = Request("answered", request.pod, request.order, request.amounts, reply, refused)
<1>3. /\ request.pod \in ApiPods /\ request.order \in Order /\ IsAmounts(request.amounts)
      /\ Valid(request.order) /\ request.amounts \in price_order(request.order)
      /\ table \in BOOLEAN /\ restarted \in BOOLEAN
      /\ create \in [ApiPods -> {"list", "create", "done"}]
      /\ ~restarted => \A p \in ApiPods : create[p] = "done" => table
  BY DEF Put, OrdersInv
<1>4. ASSUME NEW reply \in {201, 500}, Answers(reply, FALSE), orders' = {<<request.pod, item>>}
      PROVE  OrdersInv'
  <2>1. /\ request'.pc = "answered" /\ request'.pod = request.pod /\ request'.order = request.order
        /\ request'.amounts = request.amounts /\ request'.code = reply
        /\ request'.refused \in BOOLEAN /\ ~request'.refused
    BY <1>4 DEF Request
  <2>2. (\A o \in orders' : o = Stored(request'.pod, request'.amounts)) /\ orders' # {}
    BY <1>1, <1>4, <2>1
  <2>3. request'.code \in {0, 201, 422, 500} /\ request'.code # 422
    BY <2>1
  <2>4. ~request'.refused
    BY <2>1
  <2> HIDE DEF item
  <2> QED BY <1>2, <1>3, <2>1, <2>2, <2>3, <2>4 DEF OrdersInv
<1>5. ASSUME Answers(500, TRUE), orders' = orders, ~takes PROVE OrdersInv'
  <2>1. /\ request'.pc = "answered" /\ request'.pod = request.pod /\ request'.order = request.order
        /\ request'.amounts = request.amounts /\ request'.code = 500
        /\ request'.refused \in BOOLEAN
    BY <1>5 DEF Request
  <2>2. restarted' /\ orders' = {}
    BY <1>1, <1>2, <1>3, <1>5
  <2>3. \A o \in orders' : o = Stored(request'.pod, request'.amounts)
    BY <2>2
  <2>4. request'.code \in {0, 201, 422, 500} /\ request'.code # 201
    BY <2>1
  <2> HIDE DEF item
  <2> QED BY <1>2, <1>3, <2>1, <2>2, <2>3, <2>4 DEF OrdersInv
<1>6. \/ /\ orders' = orders \union {<<request.pod, item>>}
         /\ Answers(201, FALSE) \/ Answers(500, FALSE)
      \/ ~takes /\ orders' = orders /\ Answers(500, TRUE)
  BY DEF Put, Answered
<1>7. orders \union {<<request.pod, item>>} = {<<request.pod, item>>}
  BY <1>2
<1> HIDE DEF item, takes, Answers
<1>8. CASE orders' = {<<request.pod, item>>} /\ Answers(201, FALSE)
  BY <1>4, <1>8
<1>9. CASE orders' = {<<request.pod, item>>} /\ Answers(500, FALSE)
  BY <1>4, <1>9
<1>10. CASE ~takes /\ orders' = orders /\ Answers(500, TRUE)
  BY <1>5, <1>10
<1>11. \/ orders' = {<<request.pod, item>>} /\ (Answers(201, FALSE) \/ Answers(500, FALSE))
       \/ ~takes /\ orders' = orders /\ Answers(500, TRUE)
  BY <1>6, <1>7
<1> QED BY <1>8, <1>9, <1>10, <1>11

LEMMA OrdersStep == OrdersInv /\ [OrdersNext]_ordersVars => OrdersInv'
<1> SUFFICES ASSUME OrdersInv, [OrdersNext]_ordersVars PROVE OrdersInv'
  OBVIOUS
<1>1. CASE UNCHANGED ordersVars
  BY <1>1 DEF OrdersInv, ordersVars
<1>2. CASE DynamoRestarts
  <2>1. /\ table' = FALSE /\ orders' = {} /\ restarted' = TRUE
        /\ create' = create /\ request' = request
    BY <1>2 DEF DynamoRestarts
  <2>2. table' \in BOOLEAN /\ restarted' \in BOOLEAN /\ restarted'
    BY <2>1
  <2>3. UNCHANGED <<create, request>> /\ orders' = {}
    BY <2>1
  <2> QED BY <2>2, <2>3 DEF OrdersInv
<1> QED BY <1>1, <1>2, PodStep, PostStep, PutStep DEF OrdersNext

LEMMA OrdersInvariant == OrdersSpec => []OrdersInv
  BY OrdersStart, OrdersStep, PTL DEF OrdersSpec

LEMMA OrdersTypes == OrdersInv => OrdersTypeOK
<1> SUFFICES ASSUME OrdersInv PROVE OrdersTypeOK
  OBVIOUS
<1>1. \A o \in orders : o = Stored(request.pod, request.amounts)
  BY DEF OrdersInv
<1>2. \A o \in orders : o[1] \in ApiPods /\ \A p \in Part : o[2][p][1] = "Decimal"
  BY <1>1 DEF OrdersInv, Stored
<1> QED BY <1>2 DEF OrdersInv, OrdersTypeOK

(* The table, the pods and the request keep their type, and nothing in the *)
(* table is a float (store.py:24-45).                                      *)
THEOREM OrdersTypeCorrect == OrdersSpec => []OrdersTypeOK
  BY OrdersTypes, OrdersInvariant, PTL

(* ReadBackAsAnswered, for any pods, quantities and prices: whatever the   *)
(* init containers do and whenever DynamoDB restarts (store.py:24-45,      *)
(* 76-90).                                                                 *)
THEOREM OrdersAreReadBack == OrdersSpec => []ReadBackAsAnswered
<1>1. OrdersInv => ReadBackAsAnswered
  <2> SUFFICES ASSUME OrdersInv PROVE ReadBackAsAnswered
    OBVIOUS
  <2>1. ASSUME request.code = 201, ~restarted
        PROVE  {[p \in Part |-> item[p][2]] : item \in get_order(request.pod)} = {request.amounts}
    <3> DEFINE a == request.amounts
               stored == [q \in Part |-> <<"Decimal", a[q]>>]
               back == from_dynamo(stored)
    <3>1. orders = {<<request.pod, stored>>}
      <4>1. orders # {} /\ \A o \in orders : o = Stored(request.pod, request.amounts)
        BY <2>1 DEF OrdersInv
      <4>2. Stored(request.pod, request.amounts) = <<request.pod, stored>>
        BY DEF Stored
      <4> QED BY <4>1, <4>2
    <3>2. get_order(request.pod) = {back}
      <4>1. {x \in orders : x[1] = request.pod} = {<<request.pod, stored>>}
        BY <3>1
      <4>2. get_order(request.pod) = {from_dynamo(o[2]) : o \in {<<request.pod, stored>>}}
        BY <4>1 DEF get_order
      <4> QED BY <4>2
    <3>3. \A p \in Part : back[p][2] = a[p]
      BY DEF from_dynamo
    <3>4. a = [p \in Part |-> a[p]]
      BY DEF OrdersInv, IsAmounts
    <3> HIDE DEF back, a
    <3>5. [p \in Part |-> back[p][2]] = a
      BY <3>3, <3>4
    <3> QED BY <3>2, <3>5 DEF a
  <2> QED BY <2>1 DEF OrdersInv, ReadBackAsAnswered
<1> QED BY <1>1, OrdersInvariant, PTL

-----------------------------------------------------------------------------
Amount(o) == [i \in DOMAIN o |-> o[i].quantity * o[i].unit_price]

ExactAmount(o) ==
    [i \in DOMAIN o |-> o[i].quantity * o[i].unit_price *
                              (IF o[i].quantity < 10 THEN 10 ELSE 9)]

Bulk(o, some) == {i \in some : o[i].quantity >= 10}

LEMMA OrderIs ==
  ASSUME NEW o \in Order, Valid(o)
  PROVE  /\ IsFiniteSet(DOMAIN o)
         /\ \A i \in DOMAIN o : o[i].quantity \in Nat /\ o[i].unit_price \in Nat
         /\ \A i \in DOMAIN o : Amount(o)[i] \in Nat /\ ExactAmount(o)[i] \in Nat
<1>1. PICK n \in 0..MaxLines : o \in [1..n -> Line]
  BY DEF Order
<1>2. n \in Nat /\ DOMAIN o = 1..n
  BY <1>1, OrdersAssumption
<1>3. IsFiniteSet(DOMAIN o)
  BY <1>2, FS_Interval
<1>4. ASSUME NEW i \in DOMAIN o
      PROVE  o[i].quantity \in Nat /\ o[i].unit_price \in Nat
  <2>1. o[i] \in Line /\ o[i].quantity > 0
    BY <1>1, <1>2 DEF Valid
  <2>2. o[i].quantity \in Quantities /\ o[i].unit_price \in Prices
    BY <2>1 DEF Line
  <2>3. o[i].quantity \in Int /\ o[i].unit_price \in Nat
    BY <2>2, OrdersAssumption
  <2> QED BY <2>1, <2>3
<1>5. \A a, b \in Nat : a * b \in Nat /\ a * b * 10 \in Nat /\ a * b * 9 \in Nat
  OBVIOUS
<1>6. ASSUME NEW i \in DOMAIN o PROVE Amount(o)[i] \in Nat /\ ExactAmount(o)[i] \in Nat
  BY <1>4, <1>5 DEF Amount, ExactAmount
<1> QED BY <1>3, <1>4, <1>6

LEMMA LinesAre ==
  ASSUME NEW o \in Order, Valid(o), NEW some \in SUBSET DOMAIN o
  PROVE  Lines(o, some) = Count(Amount(o), some)
<1> DEFINE P(h) == h = [s \in SUBSET some |->
                           IF s = {} THEN 0
                           ELSE o[CHOOSE x \in s : TRUE].quantity * o[CHOOSE x \in s : TRUE].unit_price
                                  + h[s \ {CHOOSE x \in s : TRUE}]]
<1>1. Lines(o, some) = (CHOOSE h : P(h))[some]
  BY DEF Lines, MapThenSumSet, MapThenFoldSet
<1>2. ASSUME NEW h PROVE P(h) <=> IsFold(h, Amount(o), some)
  <2>1. ASSUME NEW s \in SUBSET some, s # {}
        PROVE  Amount(o)[CHOOSE x \in s : TRUE]
                 = o[CHOOSE x \in s : TRUE].quantity * o[CHOOSE x \in s : TRUE].unit_price
    BY <2>1 DEF Amount
  <2> QED BY <2>1 DEF IsFold
<1> HIDE DEF P
<1>3. IsFiniteSet(some) /\ \A x \in some : Amount(o)[x] \in Nat
  BY OrderIs, FS_Subset
<1>4. P(CHOOSE h : P(h))
  BY <1>2, <1>3, CountIsFold
<1> QED BY <1>1, <1>2, <1>3, <1>4, FoldIsCount

LEMMA ExactIs ==
  ASSUME NEW o \in Order, Valid(o)
  PROVE  Exact(o) = Count(ExactAmount(o), DOMAIN o)
<1> DEFINE P(h) == h = [s \in SUBSET DOMAIN o |->
                           IF s = {} THEN 0
                           ELSE o[CHOOSE x \in s : TRUE].quantity * o[CHOOSE x \in s : TRUE].unit_price
                                  * (IF o[CHOOSE x \in s : TRUE].quantity < 10 THEN 10 ELSE 9)
                                  + h[s \ {CHOOSE x \in s : TRUE}]]
<1>1. Exact(o) = (CHOOSE h : P(h))[DOMAIN o]
  BY DEF Exact, MapThenSumSet, MapThenFoldSet
<1>2. ASSUME NEW h PROVE P(h) <=> IsFold(h, ExactAmount(o), DOMAIN o)
  <2>1. ASSUME NEW s \in SUBSET DOMAIN o, s # {}
        PROVE  ExactAmount(o)[CHOOSE x \in s : TRUE]
                 = o[CHOOSE x \in s : TRUE].quantity * o[CHOOSE x \in s : TRUE].unit_price
                                  * (IF o[CHOOSE x \in s : TRUE].quantity < 10 THEN 10 ELSE 9)
    BY <2>1 DEF ExactAmount
  <2> QED BY <2>1 DEF IsFold
<1> HIDE DEF P
<1>3. IsFiniteSet(DOMAIN o) /\ \A x \in DOMAIN o : ExactAmount(o)[x] \in Nat
  BY OrderIs
<1>4. P(CHOOSE h : P(h))
  BY <1>2, <1>3, CountIsFold
<1> QED BY <1>1, <1>2, <1>3, <1>4, FoldIsCount

(* The discount taken line by line is a tenth of the lines it is taken of. *)
LEMMA ExactSplits ==
  ASSUME NEW o \in Order, Valid(o)
  PROVE  Count(ExactAmount(o), DOMAIN o) =
           10 * Count(Amount(o), DOMAIN o) - Count(Amount(o), Bulk(o, DOMAIN o))
<1> DEFINE Agree(s) == Count(ExactAmount(o), s) = 10 * Count(Amount(o), s) - Count(Amount(o), Bulk(o, s))
           Wrong == {s \in SUBSET DOMAIN o : ~Agree(s)}
           N == {Cardinality(s) : s \in Wrong}
<1> SUFFICES ASSUME Wrong # {} PROVE FALSE
  OBVIOUS
<1>0. /\ IsFiniteSet(DOMAIN o)
      /\ \A i \in DOMAIN o : o[i].quantity \in Nat /\ o[i].unit_price \in Nat
      /\ \A i \in DOMAIN o : Amount(o)[i] \in Nat /\ ExactAmount(o)[i] \in Nat
  BY OrderIs
<1>1. \A s \in SUBSET DOMAIN o : IsFiniteSet(s) /\ Cardinality(s) \in Nat
  BY <1>0, FS_Subset, FS_CardinalityType
<1>2. N # {} /\ N \subseteq Nat
  BY <1>1
<1>3. PICK n \in N : \A m \in N : n <= m
  <2> HIDE DEF N
  <2> QED BY <1>2, Least
<1>4. PICK s \in Wrong : Cardinality(s) = n
  OBVIOUS
<1>5. s # {}
  <2>1. Bulk(o, {}) = {}
    BY DEF Bulk
  <2> QED BY <1>4, <2>1, CountOfNone
<1>6. PICK c \in s : TRUE
  BY <1>5
<1> DEFINE t == s \ {c}
<1>7. t \in SUBSET DOMAIN o /\ Cardinality(t) = Cardinality(s) - 1
  <2>1. IsFiniteSet(s)
    BY <1>1, <1>4
  <2> QED BY <1>6, <2>1, FS_RemoveElement
<1>8. Agree(t)
  <2>1. Cardinality(t) \notin N
    BY <1>1, <1>2, <1>3, <1>4, <1>7
  <2> QED BY <1>7, <2>1
<1>9. /\ Count(ExactAmount(o), s) = ExactAmount(o)[c] + Count(ExactAmount(o), t)
      /\ Count(Amount(o), s) = Amount(o)[c] + Count(Amount(o), t)
  BY <1>0, <1>1, <1>4, <1>6, CountWith
<1>10. Count(Amount(o), Bulk(o, s)) =
         (IF o[c].quantity >= 10 THEN Amount(o)[c] ELSE 0) + Count(Amount(o), Bulk(o, t))
  <2>1. CASE o[c].quantity >= 10
    <3>1. c \in Bulk(o, s) /\ Bulk(o, s) \ {c} = Bulk(o, t)
      BY <2>1, <1>6 DEF Bulk
    <3>2. Bulk(o, s) \in SUBSET DOMAIN o
      BY <1>4 DEF Bulk
    <3>3. IsFiniteSet(Bulk(o, s)) /\ \A x \in Bulk(o, s) : Amount(o)[x] \in Nat
      BY <3>2, <1>0, <1>1
    <3>4. Count(Amount(o), Bulk(o, s)) = Amount(o)[c] + Count(Amount(o), Bulk(o, s) \ {c})
      BY <3>1, <3>3, CountWith
    <3> QED BY <2>1, <3>1, <3>4
  <2>2. CASE ~(o[c].quantity >= 10)
    <3>1. Bulk(o, s) = Bulk(o, t)
      BY <2>2, <1>6 DEF Bulk
    <3>2. Count(Amount(o), Bulk(o, t)) \in Nat
      <4>1. Bulk(o, t) \in SUBSET DOMAIN o
        BY <1>7 DEF Bulk
      <4> QED BY <4>1, <1>0, <1>1, CountType
    <3> QED BY <2>2, <3>1, <3>2
  <2> QED BY <2>1, <2>2
<1>11. ExactAmount(o)[c] = 10 * Amount(o)[c] - (IF o[c].quantity >= 10 THEN Amount(o)[c] ELSE 0)
  <2>1. c \in DOMAIN o /\ o[c].quantity \in Nat /\ o[c].unit_price \in Nat
    BY <1>0, <1>4, <1>6
  <2>2. PICK a \in Nat : a = o[c].quantity * o[c].unit_price
    BY <2>1
  <2>3. Amount(o)[c] = a /\ ExactAmount(o)[c] = a * (IF o[c].quantity < 10 THEN 10 ELSE 9)
    BY <2>1, <2>2 DEF Amount, ExactAmount
  <2> QED BY <2>1, <2>2, <2>3
<1>12. /\ Amount(o)[c] \in Nat /\ ExactAmount(o)[c] \in Nat
       /\ Count(ExactAmount(o), t) \in Nat /\ Count(Amount(o), t) \in Nat
       /\ Count(Amount(o), Bulk(o, t)) \in Nat
  <2>1. Bulk(o, t) \in SUBSET DOMAIN o
    BY <1>7 DEF Bulk
  <2> QED BY <2>1, <1>0, <1>1, <1>4, <1>6, <1>7, CountType
<1>13. Agree(s)
  <2> HIDE DEF t
  <2> QED BY <1>8, <1>9, <1>10, <1>11, <1>12
<1> QED BY <1>4, <1>13

LEMMA PriceIsClose ==
  ASSUME NEW o \in Order, Valid(o), NEW amounts \in price_order(o)
  PROVE  LET shown == amounts.subtotal - amounts.discount
         IN  /\ 100 * shown - Exact(o) \in (-100)..100
             /\ amounts.total = shown + (IF shown <= 5000 THEN 499 ELSE 0)
<1>1. PICK s \in subtotal(o), d \in discount(o) :
        amounts = [subtotal |-> s, discount |-> d, shipping |-> shipping(s - d),
                   total |-> s - d + shipping(s - d)]
  BY DEF price_order
<1> DEFINE A == Count(Amount(o), DOMAIN o)
           B == Count(Amount(o), Bulk(o, DOMAIN o))
<1>2. A \in Nat /\ B \in Nat
  <2>1. Bulk(o, DOMAIN o) \in SUBSET DOMAIN o
    BY DEF Bulk
  <2> QED BY <2>1, OrderIs, CountType, FS_Subset
<1>3. subtotal(o) = Rounded(A, 10) /\ discount(o) = Rounded(B, 100)
  <2>1. Bulk(o, DOMAIN o) \in SUBSET DOMAIN o
    BY DEF Bulk
  <2> QED BY <2>1, LinesAre DEF subtotal, discount, Bulk
<1>4. Exact(o) = 10 * A - B
  BY ExactIs, ExactSplits
<1> HIDE DEF A, B
<1>5. s \in Int /\ d \in Int /\ 2 * (s * 10 - A) \in (-10)..10 /\ 2 * (d * 100 - B) \in (-100)..100
  BY <1>2, <1>3 DEF Rounded
<1>6. 100 * (s - d) - Exact(o) \in (-100)..100
  BY <1>2, <1>4, <1>5
<1>7. s - d + shipping(s - d) = (s - d) + (IF s - d <= 5000 THEN 499 ELSE 0)
  BY <1>5 DEF shipping
<1> QED BY <1>1, <1>6, <1>7

(* PricedToTheCent, for any number of lines, and any quantities and prices *)
(* (orders.py:15-59).                                                      *)
THEOREM PricesAreToTheCent == OrdersSpec => []PricedToTheCent
<1>1. OrdersInv => PricedToTheCent
  <2> DEFINE shown == request.amounts.subtotal - request.amounts.discount
             close == /\ 100 * shown - Exact(request.order) \in (-100)..100
                      /\ request.amounts.total = shown + (IF shown <= 5000 THEN 499 ELSE 0)
  <2>0. PricedToTheCent <=> (request.code = 201 => close)
    BY DEF PricedToTheCent
  <2> HIDE DEF close
  <2> SUFFICES ASSUME OrdersInv, request.code = 201 PROVE close
    BY <2>0
  <2>1. /\ request.order \in Order /\ Valid(request.order)
        /\ request.amounts \in price_order(request.order)
    BY DEF OrdersInv
  <2> PICK o, a : o = request.order /\ a = request.amounts
    OBVIOUS
  <2>2. /\ 100 * (a.subtotal - a.discount) - Exact(o) \in (-100)..100
        /\ a.total = (a.subtotal - a.discount) + (IF a.subtotal - a.discount <= 5000 THEN 499 ELSE 0)
    BY <2>1, PriceIsClose
  <2> QED BY <2>2 DEF close
<1> QED BY <1>1, OrdersInvariant, PTL

-----------------------------------------------------------------------------
(* labctl.py                                                               *)

LabsInv ==
    /\ LabsTypeOK
    /\ \A f \in File : discarded[f] # "install"
    /\ \A f \in File : command.name # "none" /\ command.next > f => target[f] # Missing

LEMMA LabsStart == LabsInit => LabsInv
  BY LabsAssumption DEF LabsInit, LabsInv, LabsTypeOK, File, Missing, Cut

LEMMA StopsIs ==
  ASSUME NEW how, Stops(how)
  PROVE  /\ command'.name = "none"
         /\ command' \in [name : {"none", "install", "force", "reset"}, next : 1..(Files + 1)]
  BY LabsAssumption DEF Stops

(* What a copy leaves: the file, and whose command lost the learner's work.*)
LEMMA CopiedIs ==
  ASSUME LabsInv, NEW f \in File, command.name # "none", ~Keeps(f),
         NEW content \in 0..Cut, Copied(f, content)
  PROVE  /\ target' \in [File -> 0..Cut] /\ target'[f] = content
         /\ \A g \in File \ {f} : target'[g] = target[g]
         /\ discarded' \in [File -> {"kept", "force", "reset", "install"}]
         /\ \A g \in File : discarded'[g] # "install"
<1>t. /\ target \in [File -> 0..Cut]
      /\ discarded \in [File -> {"kept", "force", "reset", "install"}]
      /\ \A g \in File : discarded[g] # "install"
      /\ command.name \in {"install", "force", "reset"}
  BY DEF LabsInv, LabsTypeOK
<1>1. target[f] = Yours => command.name \in {"force", "reset"}
  BY <1>t, LabsAssumption DEF Keeps, Yours, Missing
<1>2. /\ target' = [target EXCEPT ![f] = content]
      /\ discarded' = [discarded EXCEPT ![f] = IF target[f] = Yours THEN command.name ELSE discarded[f]]
  BY DEF Copied
<1>3. (IF target[f] = Yours THEN command.name ELSE discarded[f]) \in {"kept", "force", "reset"}
  BY <1>t, <1>1
<1>4. QED
  BY <1>t, <1>2, <1>3

LEMMA LabsStep == LabsInv /\ [LabsNext]_labsVars => LabsInv'
<1> SUFFICES ASSUME LabsInv, [LabsNext]_labsVars PROVE LabsInv'
  OBVIOUS
<1>t. /\ starter \in [File -> 0..(MaxPulls + 1)] /\ target \in [File -> 0..Cut]
      /\ command \in [name : {"none", "install", "force", "reset"}, next : 1..(Files + 1)]
      /\ discarded \in [File -> {"kept", "force", "reset", "install"}]
      /\ \A f \in File : discarded[f] # "install"
      /\ \A f \in File : command.name # "none" /\ command.next > f => target[f] # Missing
  BY DEF LabsInv, LabsTypeOK
<1>n. /\ Yours \in 0..Cut /\ Missing \in 0..Cut /\ Cut \in 0..Cut /\ Cut # Missing
      /\ 0..(MaxPulls + 1) \subseteq 0..Cut
  BY LabsAssumption DEF Yours, Missing, Cut
<1>1. ASSUME NEW f \in File, Edit(f) \/ Remove(f) PROVE LabsInv'
  <2>1. target' \in [File -> 0..Cut] /\ command.name = "none"
    BY <1>1, <1>t, <1>n DEF Edit, Remove
  <2>2. UNCHANGED <<starter, command, discarded>>
    BY <1>1 DEF Edit, Remove
  <2>3. QED
    BY <1>t, <2>1, <2>2 DEF LabsInv, LabsTypeOK
<1>2. ASSUME NEW f \in File, Pull(f) PROVE LabsInv'
  <2>1. starter' \in [File -> 0..(MaxPulls + 1)]
    <3>1. PICK version \in {Missing, starter[f] + 1} : starter' = [starter EXCEPT ![f] = version]
      BY <1>2 DEF Pull
    <3>2. version \in 0..(MaxPulls + 1)
      BY <1>2, LabsAssumption DEF Pull, Missing
    <3>3. QED
      BY <1>t, <3>1, <3>2
  <2>2. UNCHANGED <<target, command, discarded>>
    BY <1>2 DEF Pull
  <2>3. QED
    BY <1>t, <2>1, <2>2 DEF LabsInv, LabsTypeOK
<1>3. ASSUME NEW name \in {"install", "force", "reset"}, Invoke(name) PROVE LabsInv'
  <2>1. /\ command' = [name |-> name, next |-> 1]
        /\ UNCHANGED <<starter, target, discarded>>
    BY <1>3 DEF Invoke
  <2>2. command' \in [name : {"none", "install", "force", "reset"}, next : 1..(Files + 1)]
        /\ command'.next = 1
    BY <2>1, LabsAssumption
  <2>3. \A f \in File : ~(command'.next > f)
    BY <2>2, LabsAssumption DEF File
  <2>4. QED
    BY <1>t, <2>1, <2>2, <2>3 DEF LabsInv, LabsTypeOK
<1>4. ASSUME NEW f \in File, InstallOne(f) PROVE LabsInv'
  <2>c. command.name # "none" /\ command.next = f /\ UNCHANGED starter
    BY <1>4 DEF InstallOne
  <2>1. CASE starter[f] = Missing
    <3>1. Stops("error") /\ UNCHANGED <<target, discarded>>
      BY <1>4, <2>1 DEF InstallOne
    <3>2. QED
      BY <1>t, <2>c, <3>1, StopsIs DEF LabsInv, LabsTypeOK
  <2>2. CASE starter[f] # Missing
    <3>1. command' = [command EXCEPT !.next = f + 1]
      BY <1>4, <2>2 DEF InstallOne
    <3>f. f \in Nat /\ f + 1 \in 1..(Files + 1)
      BY LabsAssumption DEF File
    <3>2. /\ command' \in [name : {"none", "install", "force", "reset"}, next : 1..(Files + 1)]
          /\ command'.next = f + 1 /\ command'.name = command.name
      BY <1>t, <3>1, <3>f
    <3>3. \A g \in File : f + 1 > g => g = f \/ f > g
      BY <3>f DEF File
    <3>4. CASE Keeps(f)
      <4>1. UNCHANGED <<target, discarded>> /\ target[f] # Missing
        BY <1>4, <2>2, <3>4 DEF InstallOne, Keeps
      <4>2. QED
        BY <1>t, <2>c, <3>2, <3>f, <3>3, <4>1 DEF LabsInv, LabsTypeOK
    <3>5. CASE ~Keeps(f)
      <4>1. Copied(f, starter[f]) /\ starter[f] \in 0..Cut
        BY <1>4, <1>n, <1>t, <2>2, <3>5 DEF InstallOne
      <4>2. /\ target' \in [File -> 0..Cut] /\ target'[f] = starter[f]
            /\ \A g \in File \ {f} : target'[g] = target[g]
            /\ discarded' \in [File -> {"kept", "force", "reset", "install"}]
            /\ \A g \in File : discarded'[g] # "install"
        BY <2>c, <3>5, <4>1, CopiedIs
      <4>3. QED
        BY <1>t, <2>c, <2>2, <3>2, <3>f, <3>3, <4>2 DEF LabsInv, LabsTypeOK
    <3>6. QED
      BY <3>4, <3>5
  <2>3. QED
    BY <2>1, <2>2
<1>5. ASSUME NEW f \in File, Interrupt(f) PROVE LabsInv'
  <2>c. command.name # "none" /\ UNCHANGED starter /\ Stops("interrupted")
    BY <1>5 DEF Interrupt
  <2>1. CASE UNCHANGED <<target, discarded>>
    BY <1>t, <2>c, <2>1, StopsIs DEF LabsInv, LabsTypeOK
  <2>2. CASE ~Keeps(f) /\ Copied(f, Cut)
    <3>1. /\ target' \in [File -> 0..Cut]
          /\ discarded' \in [File -> {"kept", "force", "reset", "install"}]
          /\ \A g \in File : discarded'[g] # "install"
      BY <1>n, <2>c, <2>2, CopiedIs
    <3>2. QED
      BY <1>t, <2>c, <3>1, StopsIs DEF LabsInv, LabsTypeOK
  <2>3. QED
    BY <1>5, <2>1, <2>2 DEF Interrupt
<1>6. CASE Done
  BY <1>t, <1>6, StopsIs DEF Done, LabsInv, LabsTypeOK
<1>7. CASE UNCHANGED labsVars
  BY <1>t, <1>7 DEF labsVars, LabsInv, LabsTypeOK
<1>8. QED
  BY <1>1, <1>2, <1>3, <1>4, <1>5, <1>6, <1>7 DEF LabsNext

(* WorkIsKept, for any number of files and of new starters: whatever was   *)
(* missing, interrupted or pulled before (labctl.py:93).                   *)
THEOREM LearnersWorkIsKept == LabsSpec => []WorkIsKept
<1>1. LabsInv => WorkIsKept
  <2> SUFFICES ASSUME LabsInv, NEW f \in File
               PROVE  /\ discarded[f] \in {"kept", "force", "reset"}
                      /\ status(f) # "edited" => target[f] # Yours
                      /\ command.name # "none" /\ command.next > f => target[f] # Missing
    BY DEF WorkIsKept
  <2>1. discarded[f] \in {"kept", "force", "reset"}
    BY DEF LabsInv, LabsTypeOK
  <2>2. starter[f] # Yours
    BY LabsAssumption DEF LabsInv, LabsTypeOK, Yours
  <2>3. status(f) # "edited" => target[f] # Yours
    BY <2>2, LabsAssumption DEF status, Yours, Missing
  <2>4. QED
    BY <2>1, <2>3 DEF LabsInv
<1>2. QED
  BY <1>1, LabsStart, LabsStep, PTL DEF LabsSpec

-----------------------------------------------------------------------------
(* All of them.                                                            *)

(* A step of a behaviour is a step of each program, or none of it.         *)
LEMMA EachMoves ==
  ASSUME [Next]_vars
  PROVE  /\ [WorkerNext]_workerVars /\ [OrdersNext]_ordersVars /\ [RetryNext]_retryVars
         /\ [FlakyNext]_flakyVars /\ [DoraNext]_doraVars /\ [BudgetNext]_budgetVars
         /\ [PipelineNext]_pipelineVars /\ [CostNext]_costVars /\ [LabsNext]_labsVars
         /\ [PreviewsNext]_previewsVars
  BY DEF Next, vars

ProgramsInv ==
    /\ WorkerInv /\ OrdersInv /\ RetryInv /\ FlakyInv /\ DoraInv
    /\ BudgetInv /\ PipelineInv /\ CostInv /\ LabsInv /\ PreviewsInv

LEMMA ProgramsInvariant == Spec => []ProgramsInv
<1>1. Init => ProgramsInv
  BY WorkerInit_Inv, OrdersStart, RetryStart, FlakyStart, DoraStart, BudgetStart,
     PipelineStart, CostStart, LabsStart, PreviewsStart
     DEF Init, ProgramsInv
<1>2. ProgramsInv /\ [Next]_vars => ProgramsInv'
  BY EachMoves, WorkerStep, OrdersStep, RetryStep, FlakyStep, DoraStep, BudgetStep,
     PipelineStep, CostStep, LabsStep, PreviewsStep
     DEF ProgramsInv
<1> QED BY <1>1, <1>2, PTL DEF Spec

(* Whichever program a behaviour is of, its state keeps its type and so    *)
(* does that of the others, which do not move (the ten programs above).    *)
THEOREM ProgramsTypeCorrect == Spec => []TypeOK
<1>1. ProgramsInv => TypeOK
  BY WorkerTypes, OrdersTypes, DoraTypes, PipelineTypes, CostTypes
     DEF ProgramsInv, RetryInv, FlakyInv, BudgetInv, LabsInv, PreviewsInv, TypeOK
<1> QED BY <1>1, ProgramsInvariant, PTL

(* What TLC checks of the programs in one run.                             *)
Safe ==
    /\ CompleteMeansAll /\ NothingCutInHalf /\ FailsOnlyWhenUpset /\ RetriesOnlyTransient
    /\ PricedToTheCent /\ ReadBackAsAnswered
    /\ QuarantineIsMeasured /\ FailedWereUndone /\ SpentIsNotCalledLeft
    /\ FeedbackIsTheWait /\ WeeksMeet /\ WorkIsKept
    /\ StraysHaveAReason /\ WantedHasItsImage

(* Whichever program a behaviour is of, every invariant of all ten holds   *)
(* in it: none of them depends on what the others do (the theorems above). *)
THEOREM ProgramsAreSafe == Spec => []Safe
<1>1. Init => /\ OrdersInit /\ RetryInit /\ FlakyInit /\ DoraInit
              /\ BudgetInit /\ PipelineInit /\ CostInit /\ LabsInit
  BY DEF Init
<1>2. [Next]_vars => /\ [OrdersNext]_ordersVars /\ [RetryNext]_retryVars
                     /\ [FlakyNext]_flakyVars /\ [DoraNext]_doraVars
                     /\ [BudgetNext]_budgetVars /\ [PipelineNext]_pipelineVars
                     /\ [CostNext]_costVars /\ [LabsNext]_labsVars
  BY EachMoves
<1>3. Spec => /\ OrdersSpec /\ RetrySpec /\ FlakySpec /\ DoraSpec
              /\ BudgetSpec /\ PipelineSpec /\ CostSpec /\ LabsSpec
  BY <1>1, <1>2, PTL
     DEF Spec, OrdersSpec, RetrySpec, FlakySpec, DoraSpec, BudgetSpec, PipelineSpec,
         CostSpec, LabsSpec
<1>4. ProgramsInv => /\ CompleteMeansAll /\ NothingCutInHalf /\ FailsOnlyWhenUpset
                     /\ StraysHaveAReason /\ WantedHasItsImage
  <2>1. WorkerInv => CompleteMeansAll /\ NothingCutInHalf /\ FailsOnlyWhenUpset
    BY DEF WorkerInv, NothingCutInHalf, PodInv
  <2>2. PreviewsInv => StraysHaveAReason /\ WantedHasItsImage
    BY DEF PreviewsInv, TagsAreDeleted, HeadIsBuilt, Deletes, StraysHaveAReason,
           WantedHasItsImage, AtRest
  <2> QED BY <2>1, <2>2 DEF ProgramsInv
<1> QED BY <1>3, <1>4, ProgramsInvariant, OnlyTransientIsRetried, PricesAreToTheCent,
           OrdersAreReadBack, QuarantineIsWhatHappened, ChangesAreBlamedRight,
           BudgetAnswersHaveAReason, WaitIsFeedback, DigestsMeet, LearnersWorkIsKept, PTL
        DEF Safe

=============================================================================
