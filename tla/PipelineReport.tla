--------------------------- MODULE PipelineReport ---------------------------
(***************************************************************************)
(* scripts/pipeline_report.py over the workflow runs of one commit of a    *)
(* pull request: runs that are created, queue, are held for approval, have *)
(* their job skipped, finish and are re-run while the report pages through *)
(* them, newest first, and then reads the jobs of each.  A run has one job *)
(* here, which is what its jobs together are: the first start and the last *)
(* completion.                                                             *)
(***************************************************************************)
EXTENDS Naturals, Sequences, FiniteSets, FiniteSetsExt

CONSTANTS
    Workflows,    \* those that run on a pull request
    PerPage,      \* runs on a page of the Actions API
    MaxTime,      \* bound: the clock, in minutes
    MaxAttempts   \* bound: attempts of a run

ASSUME PipelineAssumption ==
    /\ Workflows # {} /\ IsFiniteSet(Workflows) /\ PerPage \in Nat \ {0}
    /\ MaxTime \in Nat /\ MaxAttempts \in Nat \ {0}

VARIABLES
    now,
    runs,    \* the run of each workflow: [state, attempt, created]
    jobs,    \* the job of each of its attempts: [started, completed]
    order,   \* the runs there are, newest first
    report,  \* the script: [pc, offset, raw]
    spent,   \* history: minutes all attempts of each run have taken
    asked,   \* history: when the commit's first run was created
    told,    \* history: when the last first attempt that ran was done
    known    \* history: the runs there were when the first page was read

worldVars    == <<now, runs, jobs, order, spent, asked, told>>
pipelineVars == <<now, runs, jobs, order, report, spent, asked, told, known>>

Never == MaxTime + 1

Times(started, completed)      == [started |-> started, completed |-> completed]
Now(state, attempt, created)   == [state |-> state, attempt |-> attempt, created |-> created]
Reading(pc, offset, raw)       == [pc |-> pc, offset |-> offset, raw |-> raw]

PipelineInit ==
    /\ now = 0 /\ asked = Never /\ told = 0 /\ known = {}
    /\ runs  = [w \in Workflows |-> Now("none", 1, 0)]
    /\ jobs  = [w \in Workflows |-> [a \in 1..MaxAttempts |-> Times(Never, Never)]]
    /\ spent = [w \in Workflows |-> 0]
    /\ order = <<>>
    /\ report = Reading("list", 0, <<>>)

-----------------------------------------------------------------------------
(* The runs. *)

Becomes(w, state) == runs' = [runs EXCEPT ![w].state = state]

(* The push creates the run; one of an outside contributor's is held.      *)
Create(w) ==
    /\ runs[w].state = "none"
    /\ \E state \in {"queued", "action_required"} :
          runs' = [runs EXCEPT ![w] = Now(state, 1, now)]
    /\ order' = <<w>> \o order
    /\ asked' = IF asked = Never THEN now ELSE asked
    /\ UNCHANGED <<now, jobs, report, spent, told, known>>

StartJob(w) ==
    /\ runs[w].state = "queued"
    /\ Becomes(w, "in_progress")
    /\ jobs' = [jobs EXCEPT ![w][runs[w].attempt] = Times(now, Never)]
    /\ UNCHANGED <<now, order, report, spent, asked, told, known>>

(* The run's condition is false: its job is skipped, at once. *)
SkipJob(w) ==
    /\ runs[w].state = "queued"
    /\ Becomes(w, "skipped")
    /\ UNCHANGED <<now, jobs, order, report, spent, asked, told, known>>

CompleteJob(w) ==
    LET started == jobs[w][runs[w].attempt].started IN
    /\ runs[w].state = "in_progress"
    /\ Becomes(w, "completed")
    /\ jobs'  = [jobs EXCEPT ![w][runs[w].attempt] = Times(started, now)]
    /\ spent' = [spent EXCEPT ![w] = @ + (now - started)]
    /\ told'  = IF runs[w].attempt = 1 THEN now ELSE told
    /\ UNCHANGED <<now, order, report, asked, known>>

(* A maintainer approves: nothing is left that says the run has waited.    *)
Approve(w) ==
    /\ runs[w].state = "action_required"
    /\ Becomes(w, "queued")
    /\ UNCHANGED <<now, jobs, order, report, spent, asked, told, known>>

(* Re-run all jobs: the run keeps its id and when it was created.  Bound:  *)
(* one of the runs is re-run.                                              *)
Rerun(w) ==
    /\ runs[w].state = "completed" /\ runs[w].attempt < MaxAttempts
    /\ \A v \in Workflows \ {w} : runs[v].attempt = 1
    /\ runs' = [runs EXCEPT ![w] = Now("queued", @.attempt + 1, @.created)]
    /\ UNCHANGED <<now, jobs, order, report, spent, asked, told, known>>

Minute ==
    /\ now < MaxTime
    /\ now' = now + 1
    /\ UNCHANGED <<runs, jobs, order, report, spent, asked, told, known>>

-----------------------------------------------------------------------------
(* fetch: the pages are read by number, and then the jobs of each listed   *)
(* run, by eight threads in any order.  A call that fails ends the script. *)

(* A run has a conclusion when it is done, or held. *)
Conclusion(w) == IF runs[w].state \in {"queued", "in_progress"} THEN "none" ELSE runs[w].state

(* A run as the list has it; `read` says that its jobs have been asked for. *)
Row(w) ==
    [run |-> w, conclusion |-> Conclusion(w), attempt |-> runs[w].attempt,
     created |-> runs[w].created, read |-> FALSE, job |-> Times(Never, Never)]

(* The page after the first report.offset runs, and its last may be short. *)
PageSize == IF report.offset + PerPage <= Len(order) THEN PerPage
            ELSE IF report.offset <= Len(order) THEN Len(order) - report.offset ELSE 0

Page == [k \in 1..PageSize |-> Row(order[report.offset + k])]

ListPage ==
    /\ report.pc = "list"
    /\ report' = Reading(IF PageSize < PerPage THEN "jobs" ELSE "list",
                        report.offset + PerPage, report.raw \o Page)
    /\ known' = IF report.offset = 0 THEN {w \in Workflows : runs[w].state # "none"} ELSE known
    /\ UNCHANGED worldVars

(* The jobs of the attempt that was listed, whatever the run is at by now. *)
ReadJobs(i) ==
    LET row == report.raw[i] IN
    /\ report.pc = "jobs" /\ ~row.read
    /\ report' = [report EXCEPT !.raw[i] =
                     [row EXCEPT !.read = TRUE, !.job = jobs[row.run][row.attempt]]]
    /\ UNCHANGED <<worldVars, known>>

raw == report.raw

Fetched == report.pc = "jobs" /\ \A i \in DOMAIN raw : raw[i].read

(* Bound: when the script has all it reads, no run does anything more. *)
PipelineNext ==
    \/ /\ ~Fetched
       /\ \/ \E w \in Workflows :
                Create(w) \/ Approve(w) \/ StartJob(w) \/ SkipJob(w) \/ CompleteJob(w) \/ Rerun(w)
          \/ Minute
    \/ ListPage
    \/ \E i \in DOMAIN report.raw : ReadJobs(i)

PipelineSpec == PipelineInit /\ [][PipelineNext]_pipelineVars

-----------------------------------------------------------------------------
(* The report, once everything has been read. *)

(* Jobs that have started and completed; a skipped one has done neither.   *)
HasJobs(i) == raw[i].job.completed # Never

minutes(i) == IF HasJobs(i) THEN raw[i].job.completed - raw[i].job.started ELSE 0

Rows(w) == {i \in DOMAIN raw : raw[i].run = w}

(* workflow -> minutes *)
minutes_by_workflow ==
    [w \in {raw[i].run : i \in DOMAIN raw} |-> MapThenSumSet(minutes, Rows(w))]

(* The runs of the commit that were not re-run, and those of them that ran.*)
FirstRuns == {i \in DOMAIN raw : raw[i].attempt = 1}

Ran == {i \in FirstRuns : HasJobs(i)}

NoRow == Ran = {} \/ \E i \in FirstRuns : raw[i].conclusion = "action_required"

queue_wait == Max({raw[i].job.started - raw[i].created : i \in Ran})

(* Mutant: the clock starts with the first job, not with the push. *)
feedbackFromStart ==
    IF NoRow THEN {}
    ELSE {[ttf |-> Max({raw[i].job.completed : i \in Ran}) - Min({raw[i].job.started : i \in Ran}),
           queue |-> queue_wait]}

(* The commit's row: none when it was held, or when nothing ran. *)
feedback ==
    IF NoRow THEN {}
    ELSE {[ttf |-> Max({raw[i].job.completed : i \in Ran}) - Min({raw[i].created : i \in Ran}),
           queue |-> queue_wait]}

-----------------------------------------------------------------------------
States == {"none", "action_required", "queued", "in_progress", "completed", "skipped"}

PipelineTypeOK ==
    /\ now \in 0..MaxTime /\ spent \in [Workflows -> Nat]
    /\ asked \in 0..Never /\ told \in 0..MaxTime /\ known \subseteq Workflows
    /\ runs \in [Workflows -> [state : States, attempt : 1..MaxAttempts, created : 0..MaxTime]]
    /\ jobs \in [Workflows -> [1..MaxAttempts -> [started : 0..Never, completed : 0..Never]]]
    /\ order \in Seq(Workflows)
    /\ report.pc \in {"list", "jobs"} /\ report.offset \in Nat
    /\ raw \in Seq([run : Workflows, conclusion : States, attempt : 1..MaxAttempts, created : 0..MaxTime,
                     read : BOOLEAN, job : [started : 0..Never, completed : 0..Never]])

(* The run has one row, and not two of them because a newer run moved it   *)
(* to the next page.                                                       *)
Once(w) == \A i, j \in Rows(w) : i = j

(* Time-to-feedback is "from the first workflow run created for that       *)
(* commit to the last one completing" (pipeline_report.py:15-16): whatever *)
(* the runs do while the script reads them, it says no more than the       *)
(* author waited, its queue wait is part of it, and it is just that when   *)
(* the pages have every run as done at its first attempt.  No run that was *)
(* there from the start is lost between two pages, and none that has one   *)
(* row counts for minutes that were not spent.                             *)
FeedbackIsTheWait ==
    Fetched =>
        /\ \A f \in feedback : f.queue <= f.ttf /\ f.ttf <= told - asked
        /\ (/\ \A i \in DOMAIN raw : raw[i].conclusion = "completed" /\ raw[i].attempt = 1
            /\ \A w \in Workflows : Rows(w) # {}) =>
              {f.ttf : f \in feedback} = {told - asked}
        /\ \A w \in known : Rows(w) # {}
        /\ \A w \in DOMAIN minutes_by_workflow : Once(w) => minutes_by_workflow[w] <= spent[w]

(* "Re-run attempts count: a retry spends real minutes even when it turns  *)
(* a run green" (pipeline_report.py:13-14): a run that the pages have as   *)
(* done, once, counts for all minutes it took by then.  Only the jobs of   *)
(* its last attempt are fetched (line 103), so it is refuted.              *)
EveryAttemptCounts ==
    Fetched =>
        \A i \in DOMAIN raw :
            raw[i].conclusion = "completed" /\ Once(raw[i].run) /\ raw[i].attempt = runs[raw[i].run].attempt
            => minutes_by_workflow[raw[i].run] = spent[raw[i].run]

(* "Runner minutes: sum over jobs" (pipeline_report.py:12), with no row    *)
(* for minutes that were not spent: refuted, for a run that is created     *)
(* between two pages has another one listed twice.                         *)
NoMinuteTwice ==
    Fetched => \A w \in DOMAIN minutes_by_workflow : minutes_by_workflow[w] <= spent[w]

=============================================================================
