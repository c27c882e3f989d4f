# ci-cd-lab, in TLA+

A verification development for `ci-cd-lab`: a small service (a FastAPI api and a
TypeScript batch worker) and the delivery system built around it with GitHub
Actions, Argo CD, Argo Rollouts and Terraform. TLA+ modules model the parts
where order, interleaving, failure and retries decide what happens; TLC checks
small instances, and TLAPS proves the most important results for all of them.

Paths below are relative to the repository root.

## 1. Inventory

| Part | Source | State it keeps | Operations |
|---|---|---|---|
| Admin tokens | `app/api/src/api/tokens.py`, `main.py:127-142` | `_mtime`, `_tokens` of one object shared by all request threads | `configured`, `valid`, `_current`; the kubelet rewrites the file underneath |
| Feature flags | `app/api/src/api/flags.py`, `main.py:145-154` | `_mtime`, `_values`, shared in the same way | `enabled` |
| Pricing | `app/api/src/api/orders.py` | none | `price_order` |
| Order store | `app/api/src/api/store.py` | the DynamoDB table | `create_table`, `put_order`, `get_order` |
| Worker | `app/worker/src/*.ts`, `k8s/base/worker.yaml` | index in the batch, the stop flag, retry attempt and delay; nothing persisted | `processItems`, `exitCodeFor`, `withRetry`, SIGTERM; the Job controller |
| CI | `.github/workflows/lab-03-ci.yml`, `reusable-service-ci.yml` | results of jobs | path filter, test, integration, image, verify, `ci-passed` |
| GitOps delivery | `.github/workflows/promote-dev.yml`, `scripts/promote.sh`, `rollback.sh`, `break-glass.sh`, `.github/workflows/break-glass-audit.yml`, `deploy/` | `main` in Git (one digest per environment), promotion branches and pull requests, audit issues, what the cluster runs | promote, roll back, break glass, audit, merge, Argo CD sync |
| Terraform pipeline | `.github/workflows/lab-09-terraform.yml`, `scripts/error_budget.py` | the state of each environment with its serial, saved plans, pending approvals, error budget | plan, gate, error budget, approve, apply |
| Drift detection | `.github/workflows/terraform-drift.yml` | one issue per environment | detect, open, update, close |
| Previews | `.github/workflows/preview.yml`, `preview-reaper.yml`, `deploy/apps/previews.yaml` | pull request label and state, image versions in the registry, one namespace per preview | build, push, delete, reap, generate |
| Release | `.github/workflows/release.yml` | the tag's image and signature, polling attempts | wait for CI, check, publish |
| Progressive rollout | `k8s/overlays/progressive/` | canary weight, analysis runs | step, measure, abort, promote |
| Teardown | `scripts/eks-down.sh`, `aws-sweep.sh` | cluster, load balancers, volumes, security groups | stop Argo CD, delete Services, destroy, sweep |
| Lab tooling | `scripts/labctl.py`, `labcheck/` | files of the learner's checkout | install, reset, status, solution; checks |
| Pipeline health | `scripts/flaky.py`, `dora.py`, `pipeline_report.py` | the quarantine file; otherwise functions of histories that go on while they are read | classify, measure, report |
| Cost report | `infra/cost-report/lambda` | none of its own; rows that grow late, a file written by another workflow, a retry | query, format, publish |
| Policies | `policy/terraform/*.rego`, `deploy/platform/require-signed-images.yaml` | none | admit or reject |
| Infrastructure, manifests, labs, docs | `infra/`, `k8s/`, `labs/`, `docs/` | declarative | none |

### How the parts interact

A commit on `main` runs CI, which publishes an image, signs its digest, and on
success triggers *Promote to dev*. That opens a pull request which changes the
one digest line of `deploy/envs/dev/kustomization.yaml`. A person copies dev's
digest to staging, and staging's to prod, with `promote.sh`; `rollback.sh`
reverts an environment's last commit; `break-glass.sh` commits to `main`
directly and files an issue; the audit workflow files one for a direct commit
that has none. Argo CD polls `main` and makes the cluster run what it declares,
behind a pre-flight hook. In the running pod the api reads its flags and tokens
from files the kubelet rewrites. The Terraform pipeline plans and applies the
environments' infrastructure behind an approval and an error budget. Previews
build an image per labelled pull request and a reaper removes old ones.

### What makes each part correct

| Part | It is correct if |
|---|---|
| Admin tokens, feature flags | between requests the cache is the file's content; every answer is justified by a content the file had during the request; no file means no endpoint and no flag; a typo changes nothing |
| Pricing | the breakdown adds up to the cent and the thresholds are where the tests put them |
| Order store | an order that was answered 201 can be read back; pods that start together all start |
| Worker | a Job is complete only if every item was handled; an item in hand is finished if it fits the grace period; a Job ends |
| CI | nothing is published from a commit whose tests did not pass, and `ci-passed` is green only then |
| GitOps delivery | one open promotion of dev, beside those a listing left out; promotions move forward and through the stages; rollbacks go back; only signed images are declared |
| Argo CD sync | pods that die restart; only tested releases are put in front of traffic; what Git declares is running in the end |
| Terraform pipeline | an apply does what its plan showed; prod follows its run's other environments; a spent budget holds prod; no approval holds the others; all green means AWS is `main` |
| Break-glass record | every direct change leaves exactly one issue |
| Previews | in the end a pull request without the label has no namespace, and a labelled one runs its head; an image is left or missing only for a reason that can be named |
| Release | a release exists only for images of its own tag that CI published |
| Progressive rollout | a canary whose failures pass the limit is aborted before it gets more traffic |
| Teardown | nothing billable is left, or the script says so |
| Reports | a test is flaky iff it both passed and failed, whatever was quarantined before; a deploy failed iff it was reverted; feedback is what the author waited for; a spent budget is called left only because of what CloudWatch does not show; two digests a week apart meet |
| Lab tooling | only a reset discards what a person wrote |

### What is hard

* threads sharing an unlocked cache while the file below it changes;
* workflow runs that finish in another order than they started, pending runs
  replaced in a concurrency group, and jobs cancelled half-way;
* pull requests that merge long after the state they were made from has moved;
* scripts that die between pushing to `main` and recording that they did;
* saved plans that are stale when they are applied, and checks made before a
  wait and relied on after it;
* cleaners that race with builders over the same registry;
* reports over data that is late, paged or changing while it is read.

## 2. Plan

In the order of how much of the system depends on it. `done` modules are
described in section 3.

| # | Module | Composes | State of the work |
|---|---|---|---|
| 1 | `Tokens`, `TokensFile`, `Flags`, `FlagsFile` | request threads, kubelet; what one thread makes of them | done, proved, refinements proved |
| 2 | `Delivery`, `Releases` | CI, promote-dev, the scripts, GitHub merges; what they promise together | done, proved, refinement proved |
| 3 | `Argo` | Argo CD, Kubernetes, people with kubectl | done, proved |
| 4 | `Terraform`, `ReviewedChanges` | overlapping runs, GitHub concurrency groups, state and lock, people; what the runs come to together | done but for the pull-request side; proved, refinement proved |
| 5 | `Worker`, `Retry` | batch loop, SIGTERM and grace period, the Job controller; retries | done, proved |
| 6 | `Previews` | preview.yml in its concurrency group, the reaper, the registry, the ApplicationSet | done, proved |
| 7 | `Orders` | pods' init containers, requests, a store that forgets | done, proved |
| 8 | `ErrorBudget`, `Flaky`, `Dora`, `PipelineReport`, `CostReport`, `Labs` | each a script and the world it reads or writes | done, proved |
| 9 | `MCPrograms` | 5 to 8, side by side | done, proved |
| 10 | `Pipeline`, `Release`, `BreakGlass`, `Rollout`, `Teardown` | GitHub's and AWS's APIs with a few lines of shell | open, see section 7 |

Abstract specifications. Each is implemented by a detailed one; TLC checks it on
an instance and TLAPS proves it for every one.

| Abstract | Implemented by | Promises |
|---|---|---|
| `Releases` | `Delivery` | what promote-dev and the scripts promise of the digests declared |
| `TokensFile`, `FlagsFile` | `Tokens`, `Flags`, with one thread | there is no cache: a check is one look at the mounted file |
| `ReviewedChanges` | `Terraform` | an environment goes from one reviewed change to the next, however runs overlap |

## 3. The modules

Every module models the control of its source: each guard, early return, error
path and the order of the steps. Contents are small sets. A history variable is
marked `history` where it is declared; no action's guard reads one.

### Tokens (`app/api/src/api/tokens.py`, `main.admin_status`)

The endpoints are plain `def`s, so Starlette runs requests on a thread pool, and
`get_tokens` is an `lru_cache`: the threads share one `Tokens` object without a
lock. A step is what lies between two points where another thread or the kubelet
can run: a system call, a load or a store of a shared attribute. `Stat`,
`Compare`, `Read`, `StoreTokens`, `StoreMtime`, `ReturnTokens`, `ClearMtime` and
`ClearTokens` are the lines of `_current` in order; `Returned` is how
`configured`, `valid` and `admin_status` go on from its value, the second call of
`_current` included. `Rewrite` and `Remove` are the kubelet's. `window` records
the contents the file had during a request. A rewrite gets a fresh mtime, as the
kubelet's new file does.

### Flags (`app/api/src/api/flags.py`, `main.quote`)

The same structure for `Flags.enabled`. It differs where the code does: a read
or a parse that fails keeps the cache and its mtime, a file that does not parse
is a content of its own, and `Restart` starts a process with an empty cache.

### TokensFile and FlagsFile

The contract the caches are there to keep. A check of `TokensFile` is `Look`: it
takes the tokens the file has at that moment, none if there is no file; a request
is one or two such checks and the answer they give (`Reply`), or a 500 if the
file is gone when it is read (`Lost`). `FlagsFile` also has the flags in force:
a look that finds a good file, or none, sets them and one that cannot read the
file keeps them, which is all that is left of the cache.

The mapping: with one thread the look is the `stat` when that decides (the file
is absent, or its mtime is the cached one) and otherwise the read. `Looked` says
whether it has happened, `InHand` what it saw, wherever that is just then
(`text`, or the cache). Loads, stores and the second half of a check are
stutters. With two threads the promise is broken: in `tokens_stale` a cache that
every later check takes for the file holds what the file was.

### Delivery (`promote-dev.yml`, `promote.sh`, `rollback.sh`, `break-glass.sh`, CI)

A digest is named by the commit it was built from. `log[e]` is the history of
the one digest line of environment `e`; `Declared(e)` is what every script reads
with `awk`. CI of a commit publishes, signs and completes (`Publish`, `CiDone`),
and its completion starts a promote-dev run in the workflow's concurrency group,
which has one running and one waiting place (`Enter`, `Release`). The run's
steps are actions (`Find`, `List`, `Close`, `Push`, `Open`), because CI, people
and merges happen between them and it can die at any (`Die`). `Promote`,
`Rollback` and `BreakGlass` are the scripts. `Merge` is GitHub's three-way merge
of one line: clean if the file is what the branch was made from or what it makes
of it. What happens only on some days (CI out of order, red CI, dispatch, death,
a listing that leaves pull requests out, break-glass, "Update branch") is
switched on by the constant `May`, so that a property can say under which of
them it holds. `List` is `gh pr list` in the word list of a `for`: `set -e` does
not see it fail, and it returns 30 pull requests, so the run goes on with some
of the older promotions, or none. `missed` records the branches left out while
their pull request was open. External: GitHub's merge and the
groups' semantics, taken from its documentation of what the workflows use.

### Argo (`deploy/apps/`, `k8s/overlays/eks`, `k8s/base/api.yaml`, `deploy/platform`)

Argo CD and Kubernetes are external; the module models how the manifests drive
them: sync waves (`ApplyConfig`, `Preflight`, `Deploy`), `PruneLast`,
`selfHeal`, `retry.limit`, the pre-flight hook, `maxUnavailable: 0`, the
admission policy, which verifies `images.containers` and so the one container
these manifests have. A release is an image with a config, whose ConfigMap is named
by its content. `Roll`, `Die` and `Restart` are one pod's. People commit, and
edit the Deployment. Two assumptions are about Argo CD itself: it does not try a
failed commit again by itself, and does not self-heal while an operation runs or
after a failed one. `touched` records that an edit has not been put right.

### Terraform (`lab-09-terraform.yml` on main)

Each push or dispatch is a run with a plan, a gate and an apply job per
environment and one error-budget job. Runs overlap; `Busy` is the concurrency
group of an environment's apply jobs, `Enter` what GitHub does when a job comes
to a busy group (the pending job is superseded). An apply is `Begin` (lock, and
the check that the saved plan is of the state's serial), then `Finish` or `Die`.
A plan is the serial and the resources it saw; what it would change is the
difference to the configuration at its commit. `ByHand` changes the resources
and not the serial, `Die` leaves the lock and half of the changes, `Unlock` is a
person's. `offbook` records environments changed without the state knowing.

### ReviewedChanges, and what Terraform implements

`ReviewedChanges` has no runs, jobs, locks or serials: what main's commits ask of
an environment, what is there, and the changes of it that have been reviewed. A
review is of what is there and of something asked; `CarryOut` does a reviewed
change (or half of it) and voids every other one of the environment; `Upset` is
what people and dying jobs do. `Terraform!R` reads it off the pipeline: the
changes are the saved plans of the state's serial (`ReviewedOf`). `PlanEnv` is the
review, `Finish` carries out, and gates, budgets, queues, approvals and locks are
stutters. It says across runs what `AppliesWhatWasSeen` says of one moment of one
run: no plan is applied twice, none after another has been, and what an approval
is given for is not another commit's by the time it is used.

### Releases, and what Delivery implements

`Releases` knows four things: the published images, the signed ones, what each
environment declares and by what means, and what it has ever declared. A digest
enters at dev once it is published, goes on where the environment before has
declared it, comes back where it has been; only a signed one may go straight to
an environment. `Delivery!R` maps them to the registry and the log; every
internal step (pull requests, runs, listing, closing, pushing, dying) is a
stutter. What it rules out spans the whole of `Delivery`: a run that proposes
what was never published, a merge months later of something the environment
before never had, an update that turns a rollback into something new.

### Worker (`index.ts`, `work.ts`, `k8s/base/worker.yaml`)

A pod's process is `Start` (main runs, the SIGTERM handler is installed),
`Check` (the head of the loop, and `exitCodeFor` when it is left), `Finish` and
`Tick`. `Delete` sends SIGTERM, which PID 1 ignores before the handler is there;
`Kill` is SIGKILL at the end of the grace period; `Lose` is a node or its memory.
`Sync` is the Job controller: it counts failed pods against `backoffLimit`, ends
the Job, or replaces a pod as soon as it is being deleted, so two may overlap.
`upsets` bounds how often a pod is disturbed.

### Retry (`retry.ts`)

`withRetry` around an operation that ends as it likes: `Begin` is the guard,
`Call` the operation and its catch, `Sleep` the jittered delay. The `throw` after
the loop is never reached.

### Orders (`orders.py`, `store.py`, `main.create_order`, `k8s/base/api.yaml`)

`price_order` in cents over line items in tenths of a cent, with both outcomes
of a half cent (a float is not exactly one). `ListTables` and `CreateTable` are
`create_table` in the init container of each pod, two steps with others between;
`Post` and `Put` are `create_order` before and at the store, and an exception is
a 500, also when only the store's answer was lost. `PodAgain` and
`DynamoRestarts` are the cluster's. An amount carries its type, since what
DynamoDB refuses is a float.

### Flaky, Dora, PipelineReport, ErrorBudget, CostReport

Each is a program and the world it measures.

* `Flaky` runs sessions one after another over tests that do as they like; what
  a session writes to the quarantine is read by the suite of the next one
  (`flaky_fixture/conftest.py`). `marked` is what the plugin marks, given
  FLAKY_DETECT, and `Excuses` which test a line marks: its JUnit id is compared
  with one made of the node id, so a line may mark no test or a namesake too.
  `junit` is what JUnit then says of an outcome. `NoOutcomes` is a run that
  leaves no file (exit 2), or whose command is missing or whose file is cut short
  (an exception, exit 1). `truth` is what the tests really did, and `measured`
  that of the last session that reported.
* `Dora` has the log of prod as the scripts and GitHub's revert button can leave
  it: subjects only, while `undoes` records what a commit undid. `reverted_by`,
  `gitops_deploys`, `terraform_deploys` and `metrics` are the program's.
* `PipelineReport` has the runs of one commit as the Actions API shows them,
  while they wait, run, are approved, skipped and re-run. The script reads them
  a page at a time by number, newest first (`ListPage`), and then the jobs of
  the attempt it has listed, run by run (`ReadJobs`); a run created meanwhile
  moves a listed one to the next page, where it is listed again. `known` are the
  runs there were at the first page, `Once` says a run has one row; `spent`,
  `asked` and `told` are what happened. `feedback` starts at the first of the
  runs that ran, as its line 163 does.
* `ErrorBudget` reads `Count` and `5xx` one after the other (`ReadCount`,
  `ReadErrors`) while the API serves and hours leave the window. `hidden` is what
  CloudWatch does not show yet, of each metric on its own, and `CatchUp` when it
  does. `why` records what kept 5xx from the answer. `CannotTell` is exit 1.
* `CostReport` has days that pass, rows that grow late, the minutes another
  workflow writes on Mondays, and a handler whose failure is invoked once more.

### Labs (`labctl.py`)

`install` file by file (`InstallOne`), forced or not, that stops at a missing
starter (`InstallOne`) or anywhere at an interrupt (`Interrupt`, a cut copy
included), a learner between the commands, and starters that a pull changes.

### Previews (`preview.yml`, `preview-reaper.yml`, `deploy/apps/previews.yaml`)

One pull request, of this repository or of a fork (`same`). Each activity is an
`Event`: it starts a run and cancels the one in the group (`StartRun`), or GitHub
starts none, because the pull request conflicts with its base or its head says
[skip ci] (`Heard`, `StartNone`). `ImageIf` and `DeleteIf` are the conditions of
the two jobs; `Build`, `List` and `DeleteImages` their steps. The reaper (`Reap`,
`ReapLabel`, `ReapList`, `ReapDelete`, `ReapDies`) is in no group and removes the
label with a token that makes no event.

`Poll` is the ApplicationSet, which asks for the label alone, forks included. It
makes the Application follow the head or go (`app`); the pod of a new image
starts only if the image is there, and may find no node (`Deploy`, `pending`,
`Schedule`), while the old one runs on (`preview`). An Application that goes waits
for its finalizer (`Finalize`) and is not made again before.

`stray` and `gap` record why a tag may be left or missing: "unheard" (GitHub
started no run), "failed", "cancelled", "late" (built when nothing wanted it any
more), "reaped". What the properties say is that there is no other reason, and
that reading the versions anew, or building the head anew, clears them.

### MCPrograms

The modules from `Worker` on share no state; a behaviour of `MCPrograms` is one
of them, chosen at the start (`subject`), with the others' variables unchanged.
The safety properties are the modules' own, and hold whichever program it is;
`WorkerEnds` and `PreviewsFollow` are two liveness properties restricted to the
behaviours that are theirs.

## 4. Runs

A mutant of the code for every property of every passing run is found by the
same run (PROJECT.json, `mutants`; the mutated definitions stand before the ones
they replace, with the comment `Mutant`). The runs of `Tokens`, `Flags` and
`Terraform` leave `TypeOK` to its proof.

| Run | Instance | Shows |
|---|---|---|
| `tokens_one` | 1 thread, 2 tokens, 3 rewrites | `FreshAtRest`, `AnswersJustified`, `AbsentIs404`, `ReadsTheFile` |
| `tokens_stale` | 2 threads, 1 token | finding: two threads leave old tokens under the new mtime |
| `flags_one` | 1 thread, 2 flags, 3 rewrites | `FreshAtRest`, `AnswersJustified`, `ReadsTheFile` |
| `delivery_dev` | dev and staging, 3 commits, everything but red CI, updates and listings that leave something out | `OneOpenPromotion`, `ThroughStages`, `RollbackGoesBack`, and `ImplementsReleases` |
| `delivery_inorder` | dev, 5 commits, CI in commit order; red CI, deaths, updates, listings that fail or are cut short | `OneOpenPromotion`, `DeclaredIsSigned`, `DevNeverBackwards` |
| `delivery_backwards` | dev, CI in any order | finding: dev moves backwards |
| `delivery_displaced` | dev, red CI | finding: a failed commit's run displaces a waiting one |
| `argo` | 2 pods, 3 images, 3 configs, 3 commits, 2 retries, 2 upsets | `Restartable`, `OnlyTested`, `Converges` |
| `terraform` | dev and prod, 2 pushes, 2 runs, 1 upset | `ProdAfterNonprod`, `AppliesWhatWasSeen`, `NonprodNeverHeld`, `OnlyReviewedChanges` |
| `terraform_budget` | 1 push | finding: a budget spent during the wait for approval does not hold prod |
| `terraform_drift` | 2 pushes, no upsets | finding: two green runs leave AWS different from `main` |
| `programs` | the instances below | see the table below |

| In `programs` | Instance | Properties |
|---|---|---|
| `Worker` | 2 items of 2 ticks, grace 3, backoff limit 1, 2 upsets | `CompleteMeansAll`, `NothingCutInHalf`, `FailsOnlyWhenUpset`, `WorkerEnds` |
| `Orders` | 2 pods, orders of up to 2 lines, quantities and prices around 10 pieces, half cents and 50.00 | `PricedToTheCent`, `ReadBackAsAnswered` |
| `Retry` | 0 to 3 attempts, delays capped at 2 | `RetriesOnlyTransient` |
| `Flaky` | 2 tests, 2 sessions of 3 runs; a line of `t1` marks both, one of `t2` none | `QuarantineIsMeasured` |
| `Dora` | logs of up to 5 commits | `FailedWereUndone` |
| `ErrorBudget` | SLO 99, 3 batches on both sides of the limit, of the rounding and of 100 requests, each metric late | `SpentIsNotCalledLeft` |
| `PipelineReport` | 2 workflows, a page of 1 run, 2 attempts, 2 minutes | `FeedbackIsTheWait` |
| `CostReport` | weeks of 2 days, 4 days | `WeeksMeet` |
| `Labs` | 2 files, 1 pull | `WorkIsKept` |
| `Previews` | 4 events, 2 commits, 1 visit of the reaper | `StraysHaveAReason`, `WantedHasItsImage`, `PreviewsFollow` |

Why the bounds are enough. A stale cache needs a content, its replacement and a
third change to be noticed or not: three rewrites. One waiting place in a
concurrency group is fought over by three runs: three commits, five where the
order is fixed and the states are few. Overtaking needs two commits, two plans
and two applies; a third run adds a second one to supersede, which `Enter` treats
like the first. One release that works, one that fails the pre-flight, one that
passes it and never becomes ready, and one unsigned are the kinds of release
there are; two edits and two retries let a sync be disturbed twice and still
finish. In the theorems none of these bounds matters.

In `programs`: two upsets and a limit of one let a Job be retried, complete
after a retry, and fail; two pods overlap when one is deleted; an item fits the
grace period by one tick, and SIGTERM can come at each of its ticks. Two init
containers race for one table, and a third is a repetition of the second. Five
commits hold a promotion, its revert, the revert's revert and a second revert,
with another change in between. The batches put the error rate just below, at
and just above the rounded limit, and the third can be hidden while the others
show. A page of one run is full whenever there is a run, so any run created
while the script pages moves a listed one to the next page. A week in the code
has 7 days; with 2 every day is next to a boundary. Four events are: label,
push, close and reopen, or any of them and another that cancels what it started,
with the conflict coming and going, and the reaper, in between.

`CHECK_DEADLOCK FALSE` where the bounded system really may stop: all commits are
made, everything is merged or synced, no upset is left. `Tokens` and `Flags` can
always take another request, and deadlock is checked there.

### Fairness

`Tokens`, `Flags` and `Delivery` have safety properties only and assume none.
`Argo`: weak fairness of Argo CD as a whole (it polls and its operations go on)
and of every pod's `Roll` and `Restart` (controllers and kubelets act); none of
commits, edits or deaths. `Converges` therefore says what holds once people and
failures leave the system alone, and needs no more edits than retries: an edit
during a sync can make it fail once, and a commit whose retries are used up is
given up. `Terraform`: weak fairness of every job of every run, because GitHub
runs what can run; none of approvals, dispatches and unlocks, which are people's
- `NonprodNeverHeld` is about exactly that. `Worker`: weak fairness of the Job
controller and of each pod's process and kubelet; none of deletions and losses.
`Previews`: weak fairness of the ApplicationSet's poll (it requeues every 120
s), of the finalizer and the kubelet (controllers act), and of `Build`, which
ends one way or the other (by its `timeout-minutes`, or by GitHub's limit for a
job that gets no runner); none of the jobs that
delete, of what people do, or of a node getting room. The other programs of
`programs` have safety properties only.

## 5. Proofs

For every value of the constants (TLAPS; `*Proofs.tla`):

| Theorem | Says |
|---|---|
| `TypeCorrect`, in every module | every variable stays in its type |
| `TokensProofs!FreshWithOneThread`, `FlagsProofs!FreshWithOneThread` | one thread's cache is fresh at rest |
| `...!AnswersJustifiedWithOneThread` | one thread's answers are justified |
| `...!OneThreadReadsTheFile` | one thread implements `TokensFile`, `FlagsFile` |
| `TokensProofs!AbsentAnswers404`, `FlagsProofs!AbsentMeansOff` | for any number of threads |
| `DeliveryProofs!AtMostOneOpenPromotion`, `PromotionsGoThroughStages`, `RollbacksGoBack`, `DeclaredSigned` | the safety of `Delivery` |
| `ArgoProofs!PodsRestart`, `RunsOnlyTested` | the safety of `Argo` |
| `DeliveryProofs!DevMovesForwards` | `DevNeverBackwards`, when CI completes in order and nobody dispatches, whatever listings leave out |
| `DeliveryProofs!DeliveryImplementsReleases` | `Delivery` implements `Releases` |
| `TerraformProofs!PlansApplyAsSeen`, `ProdFollowsNonprod` | the safety of `Terraform` |
| `TerraformProofs!AppliesAreReviewedChanges` | `Terraform` implements `ReviewedChanges` |
| `WorkerProofs!CompleteJobsForgetNothing`, `ItemsAreFinished`, `JobsFailOnlyWhenUpset` | `CompleteMeansAll`, `NothingCutInHalf` and `FailsOnlyWhenUpset` of `Worker` |
| `WorkerProofs!OnlyTransientIsRetried` | `RetriesOnlyTransient` of `Retry` |
| `ReportsProofs!ChangesAreBlamedRight` | `FailedWereUndone` of `Dora` |
| `ReportsProofs!WaitIsFeedback` | `FeedbackIsTheWait` of `PipelineReport` |
| `ReportsProofs!DigestsMeet` | `WeeksMeet` of `CostReport` |
| `ReportsProofs!BudgetAnswersHaveAReason` | `SpentIsNotCalledLeft` of `ErrorBudget` |
| `ReportsProofs!QuarantineIsWhatHappened` | `QuarantineIsMeasured` of `Flaky` |
| `ProgramsProofs!NoUnexplainedStrays`, `WantedIsBuilt` | the safety of `Previews` |
| `ProgramsProofs!OrdersAreReadBack`, `PricesAreToTheCent` | `ReadBackAsAnswered` and `PricedToTheCent` of `Orders` |
| `ProgramsProofs!LearnersWorkIsKept` | `WorkIsKept` of `Labs` |
| `ProgramsProofs!ProgramsTypeCorrect`, `ProgramsAreSafe` | `TypeOK` and every safety property of `programs`, for the specification that run checks |

Assumptions: each module's named `ASSUME` on its constants; `OneThread` (any two
threads are equal) in the theorems whose name says so, since two threads refute
them; "dispatch" not in `May` for `DeclaredSigned`, since a dispatch on a commit
whose CI is not over may declare an image that is not signed yet; "disorder" and
"dispatch" not in `May` for `DevMovesForwards`, since either refutes it
(`delivery_backwards`; a dispatched run may be ahead of commits that CI still
works on). The constants of `Orders` are any integers for quantities and any
naturals for prices (no price is negative, `main.py:47`), those of
`CostReport` any naturals for costs, and `PipelineReport` takes any finite set of
workflows that is not empty.

The inductive invariants, and why the properties need them:

* `FreshInv`: "fresh at rest" says nothing about a request under way. While one
  is replacing the cache, the cached mtime is older than the one it saw, and
  what it read goes with that mtime unless the file has moved on.
  The refinement needs the same invariant: a cached mtime that is the file's
  makes the cache the file, so the `stat` is as good a look as the read, and an
  mtime that is not means the look is still to come. `CurrentSimulation` takes
  the lines of `_current` one by one.
* `AnswerInv`: the value in hand at each step was the file's at some moment of
  the request, or the file was absent for one. `AbsentInv`: a request that only
  ever saw no file is on the clearing path.
* `OneInv`: of the dev promotions no listing left out there is one at most; a run
  that is closing has it among what it listed, and a run that is opening finds
  none: nobody else opens one while it holds the group, and `Push` is refused if
  the branch is there. That a branch has one pull request keeps what the run
  opens out of `missed`.
* `PathInv`: every open pull request, not just every merge, proposes what the
  environment before has declared or, for a rollback, what this one has; updates
  and merges of old pull requests keep that because histories only grow.
* `SignedInv`: the same of signatures, for pull requests, the run and the one
  that waits.
* `ComesInv`, for the refinement: every open pull request has a source (what is
  published for dev, what the environment before has declared, what this one has
  had before for a rollback) unless it changes nothing any more, and a run that
  goes past `Find` holds a published digest. Registry and logs only grow, so a
  source stays one; `DeclareStep` turns an entry of the log into one of
  `Releases`, and every other step leaves what `R` sees unchanged or publishes or
  signs one image.
* `GateInv`: past the config wave the target's ConfigMap is there, past the
  pre-flight the target is tested; a synced commit may be healed to without the
  gate because it has passed it; before the prune every pod already runs the
  target. `Restartable` fails without the last.
* `Inv` of `Terraform`: a saved plan is never of a later serial than the state,
  and one of the same serial saw the resources as they are; an apply under way
  holds the lock, so there is one per environment and nothing else writes; an
  environment of a gated run without an apply had nothing to change. The
  refinement rests on it too: a step either leaves every plan and the serial
  (`SameSerial`: the same changes stay reviewed) or goes to the next serial, and
  then no saved plan is of it (`LaterSerial`: all are void); an apply under way is
  of a plan that is not void.
* `WorkerInv`: item `i` was finished as often as there are pods past it (`Did`),
  so one pod that exits 0 accounts for every item; while the Job runs, the pods
  that were disturbed (`Hit`) are no more than the upsets, and a failed pod is
  one of them, because exit 143 needs a signal that was heard; an item in hand
  when the signal is heard ends before the grace period does, since both shrink
  together.

* `OrderInv`, for `DevMovesForwards`: what dev was promoted, the promotion that
  is open, the run, the one that waits and the commits CI still works on are of
  ever newer commits; one that a listing left out is older than all that follow.
  A pull request that changes nothing has no place in that order, and updating
  its branch leaves it one.
* `RetryInv`: where `withRetry` is says how many calls and delays there were, and
  every call but the last failed transiently.
* `PreviewsInv`: while a preview of this repository's own is wanted (`HeadIsBuilt`)
  the run builds its head, or nothing runs and the image is there, or there is a
  reason that it is not; while it is not wanted (`TagsAreDeleted`), a job is about
  to read the versions or has read all that are there, or there is a reason. A
  fork's has no image and no build (`NothingOfAFork`). At rest these are the
  properties; between, they say which job is trusted with it.
* `OrdersInv`: an order in the table is the one answered, with its amounts made
  decimals; a pod past its init container has its table until DynamoDB restarts.
  For the price, a sum over lines is split into the lines with a discount and
  those without (`ExactSplits`), and each rounding is off by half a cent.
* `DoraInv`: a revert names the subject of the change it undid, which came
  before. The reverts found by a subject nobody shares are then those that undid
  the change, and the failed applies account for what is left unrestored by
  counting.
* `PipelineInv`: the times of a run are in order and the minutes of each of its
  attempts were spent; the first run created is still there, and so is the job
  that ended last of the first attempts. A row says what the API has of its run,
  whatever that has come to since (`RowInv`): a job that is done stays as it is.
  What was there at the first page is on a page that was read or further on in
  the list, because a new run moves it on and never back (`PagesInv`).
* `CostInv`: what a digest posted is what the rows of its week add up to, but for
  the days a late row came in since (`Known`); `WeeksMeet` follows when the second
  of two digests is posted.
* `BudgetInv`: what does not show yet is of what was served last; unless an hour
  went by, no 5xx has left the window the first read was of, so what the second
  read lacks of them is hidden. `FlakyInv`: what JUnit's files say is what the
  tests did, because with FLAKY_DETECT set nothing is marked
  (`DetectingMarksNone`), and the file is of the last session whose runs were all
  in. `LabsInv`: `install` never discards, and what is behind `next` is there.
* `ProgramsInv` is the conjunction of these ten: a step of a behaviour is a step
  of each program or leaves it alone (`EachMoves`).

Sums. Costs, minutes and prices are added with the `MapThenSumSet` of the
community modules, a recursive function over subsets. `Count(f, S)` is the number
of units `<<x, i>>` with `i` up to `f[x]`, so that it adds up and is monotonic by
the theorems about cardinality; `FoldIsCount` shows the two equal for a finite
`S`. As induction with an operator for the hypothesis is not available, it takes
a smallest set on which they differ (`Least`), and removes one element.

Only model-checked: the liveness properties (`Converges`, `NonprodNeverHeld`,
`WorkerEnds`, `PreviewsFollow`), which are out of the prover's reach. `AbsentIsOff` of
`Flags` is proved for any number of threads and needs no run. The violation runs
are counterexamples, not theorems.

## 6. Findings

1. `tokens.py:50` (and `flags.py:39`): the unlocked pair of stores lets two
   threads cache old content under the new mtime. A rotated token is refused, or
   a revoked one accepted, until the file changes again (`tokens_stale`).
2. `promote-dev.yml:33`: a promotion starts when CI ends, and CI of main is
   concurrent, so an older commit can follow a newer one (`delivery_backwards`).
3. `promote-dev.yml:25`: a run whose job will be skipped still takes the waiting
   place (`delivery_displaced`).
4. `lab-09-terraform.yml:321`: the budget is not read again after the wait for
   approval (`terraform_budget`).
5. `lab-09-terraform.yml:30`: a commit and its revert, planned before the first
   is applied, end green with the reverted change in AWS (`terraform_drift`).

Counterexamples TLC finds to properties that the modules state and no run keeps:

* `Flags!TypoSwitchesNothingOff`: "keeps the last good values" (`flags.py:9-10`)
  has none in a process that never read a good file, so a pod started while the
  ConfigMap has a typo answers off for every flag (`flags.py:37`).
* `Worker!NothingTwice`: "the rest are left for the next attempt"
  (`work.ts:6`), but every attempt starts at index 0.
* `Delivery!OneOpenPromotion` and `DevNeverBackwards` without `missed`: "One open
  dev promotion at a time" (`promote-dev.yml:90`), but a `gh pr list` that fails
  in the word list of a `for` (line 92) does not end the run, and one that
  returns its 30 newest may leave the older promotion out. Two are open then, and
  the older may merge second, with CI in order.
* `PipelineReport!EveryAttemptCounts`: "Re-run attempts count"
  (`pipeline_report.py:13-14`), but only the jobs of a run's last attempt are
  fetched (line 103). Feedback leaves re-run commits' runs out as well (line
  153), and the queue wait of an approved run contains the wait for approval.
* `PipelineReport!NoMinuteTwice`: "sum over jobs" (`pipeline_report.py:12`), but a
  run created while the pages are read (lines 90-100) has another listed twice,
  and its minutes count twice.
* `ErrorBudget!SpentIsSaid`: "Spent" means more than the budget failed
  (`error_budget.py:13`), but CloudWatch shows it minutes later, and until then
  the answer is 0.
* `Flaky!FlakyIsFlaky`: "Exit 1 when any test is flaky" (`flaky.py:19`), and also
  when the command is not found (line 95) or the JUnit file is cut short (line
  41). `Flaky!QuarantineExcuses`: quarantined tests "still run but cannot fail the
  build" (`conftest.py:1`), but a method of a class is in the file under an id
  that marks nothing, and the id of a test of a folder marks its namesake.

Seen while modelling, by component:

* Tokens: a file removed between `stat` and `read_text` is a 500
  (`tokens.py:48`; `AnswersJustified` allows a 500 only then).
* Flaky: a test skipped once and failing otherwise is neither broken nor flaky
  (`flaky.py:62,73`).
* Dora: two break-glass commits of one digest share a subject, so a revert of
  one fails both; "Roll back prod: ..." and the "Reapply" of git since 2.43 are
  not taken for reverts; `main` raises when there are no deployments
  (`dora.py:185`).
* Error budget: when the answer is "spent", more of the requests counted had
  failed; but fewer may be counted than were served, if `Count` shows later than
  `5xx`.
* Cost report: minutes up to 8 days old count as this week's, so one missed
  write shows the week before's; an invocation that fails after Slack took the
  message posts it twice.
* Orders: when DynamoDB Local restarts nothing creates its table again until a
  pod is replaced, and every order until then is a 500.
* Labs: an interrupted copy leaves a cut file that install then "keeps", and a
  new starter makes an untouched file "edited".
* Previews: any label on a closed pull request that still has `preview` builds
  its image again; a later event cancels a deletion; the reaper lists before a
  running build pushes; a DELETE of a version that is gone ends the loop. Closing
  or unlabelling a pull request that conflicts with its base, or whose head says
  [skip ci], starts no run, so its tags stay; a labelled pull request of a fork
  gets an Application (`previews.yaml:29-34`) and no image (`preview.yml:30`).

## 7. Not modelled

* The job graph of CI (`always()`, skipped needs, `ci-passed`) and the release's
  poll: what matters of CI to the rest is an action of `Delivery`; the rest is
  GitHub's evaluation of conditions over results.
* The break-glass record, drift issues and the teardown scripts: a few lines of
  shell over the issue search, AWS and Kubernetes. Their hazards are listed in
  PROJECT.json with no property; a model would mostly be one of those services.
* The progressive rollout: two manifests that the Argo Rollouts controller
  interprets, and no code here.
* The pull-request side of the Terraform pipeline; lead times, percentiles and
  tables of the reports; alerts forwarded by the cost Lambda; `labctl solution`,
  `readme` and `labcheck`, which read and print; policies, which are predicates
  with their own tests.
* `WORK_ITEMS` that is not a number (`index.ts:30` makes it NaN, and the Job is
  complete at once): `Items` is a natural number.
* The infrastructure code, the manifests beyond what `Argo`, `Worker`, `Orders`
  and `Previews` read from them, and the teaching material. `Argo` has pods of
  one container; the signature policy looks at no init or ephemeral container.
  GitHub, Argo CD, Kubernetes, AWS, Cost Explorer and Terraform itself appear as
  the code here relies on them, and are marked external in the map.
