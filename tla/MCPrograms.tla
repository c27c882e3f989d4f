----------------------------- MODULE MCPrograms -----------------------------
(***************************************************************************)
(* The programs of the repository that share no state with each other: a   *)
(* behaviour is one of them, chosen at the start, and the others do not    *)
(* move.  Each is a specification of its own, checked here on one instance.*)
(***************************************************************************)
EXTENDS Worker, Orders, Retry, Flaky, Dora, ErrorBudget, PipelineReport, CostReport, Labs,
        Previews

CONSTANTS t1, t2  \* the tests

VARIABLE subject  \* which of them this behaviour is

MCBatches == {<<1, 1>>, <<100, 1>>, <<20047, 200>>, <<20097, 200>>}
MCExcuses == {<<t1, t1>>, <<t1, t2>>}

vars == <<subject, workerVars, ordersVars, retryVars, flakyVars, doraVars,
          budgetVars, pipelineVars, costVars, labsVars, previewsVars>>

TypeOK ==
    /\ WorkerTypeOK /\ OrdersTypeOK /\ RetryTypeOK /\ FlakyTypeOK /\ DoraTypeOK
    /\ BudgetTypeOK /\ PipelineTypeOK /\ CostTypeOK /\ LabsTypeOK
    /\ PreviewsTypeOK

Init ==
    /\ subject \in {"worker", "orders", "retry", "flaky", "dora",
                    "budget", "pipeline", "cost", "labs", "previews"}
    /\ WorkerInit /\ OrdersInit /\ RetryInit /\ FlakyInit /\ DoraInit
    /\ BudgetInit /\ PipelineInit /\ CostInit /\ LabsInit /\ PreviewsInit
    /\ subject # "retry" => options = 1
    /\ subject # "previews" => ~label /\ same /\ ~conflict /\ ~skips

Is(program) == subject = program /\ UNCHANGED subject

Next ==
    \/ /\ Is("worker") /\ WorkerNext
       /\ UNCHANGED <<ordersVars, retryVars, flakyVars, doraVars, budgetVars,
                      pipelineVars, costVars, labsVars, previewsVars>>
    \/ /\ Is("orders") /\ OrdersNext
       /\ UNCHANGED <<workerVars, retryVars, flakyVars, doraVars, budgetVars,
                      pipelineVars, costVars, labsVars, previewsVars>>
    \/ /\ Is("retry") /\ RetryNext
       /\ UNCHANGED <<workerVars, ordersVars, flakyVars, doraVars, budgetVars,
                      pipelineVars, costVars, labsVars, previewsVars>>
    \/ /\ Is("flaky") /\ FlakyNext
       /\ UNCHANGED <<workerVars, ordersVars, retryVars, doraVars, budgetVars,
                      pipelineVars, costVars, labsVars, previewsVars>>
    \/ /\ Is("dora") /\ DoraNext
       /\ UNCHANGED <<workerVars, ordersVars, retryVars, flakyVars, budgetVars,
                      pipelineVars, costVars, labsVars, previewsVars>>
    \/ /\ Is("budget") /\ BudgetNext
       /\ UNCHANGED <<workerVars, ordersVars, retryVars, flakyVars, doraVars,
                      pipelineVars, costVars, labsVars, previewsVars>>
    \/ /\ Is("pipeline") /\ PipelineNext
       /\ UNCHANGED <<workerVars, ordersVars, retryVars, flakyVars, doraVars,
                      budgetVars, costVars, labsVars, previewsVars>>
    \/ /\ Is("cost") /\ CostNext
       /\ UNCHANGED <<workerVars, ordersVars, retryVars, flakyVars, doraVars,
                      budgetVars, pipelineVars, labsVars, previewsVars>>
    \/ /\ Is("labs") /\ LabsNext
       /\ UNCHANGED <<workerVars, ordersVars, retryVars, flakyVars, doraVars,
                      budgetVars, pipelineVars, costVars, previewsVars>>
    \/ /\ Is("previews") /\ PreviewsNext
       /\ UNCHANGED <<workerVars, ordersVars, retryVars, flakyVars, doraVars,
                      budgetVars, pipelineVars, costVars, labsVars>>

(* The fairness of the worker and of the previews, in their behaviours.    *)
Fairness ==
    /\ WF_workerVars(subject = "worker" /\ Sync)
    /\ \A p \in Pod : WF_workerVars(subject = "worker" /\ Steps(p))
    /\ WF_previewsVars(subject = "previews" /\ Build)
    /\ WF_previewsVars(subject = "previews" /\ Poll)
    /\ WF_previewsVars(subject = "previews" /\ Deploy)
    /\ WF_previewsVars(subject = "previews" /\ Finalize)

Spec == Init /\ [][Next]_vars /\ Fairness

(* Ends (Worker), for the behaviours that are the worker's: the Job ends,  *)
(* whatever signals its pods heard, and when (work.ts, index.ts:13).       *)
WorkerEnds == subject = "worker" => <>(job # "running")

(* PreviewFollows (Previews), for the behaviours that are a preview's      *)
(* (preview.yml, preview-reaper.yml, previews.yaml:6-7).                   *)
PreviewsFollow == subject = "previews" => PreviewFollows

=============================================================================
