------------------------------- MODULE Worker -------------------------------
(***************************************************************************)
(* The worker (app/worker/src/index.ts, work.ts) as the Job of             *)
(* k8s/base/worker.yaml runs it: pods that work through WORK_ITEMS items,  *)
(* are sent SIGTERM and, when the grace period is over, SIGKILL, and a     *)
(* controller that replaces them until one succeeds or too many failed.    *)
(*                                                                         *)
(* index.ts gives withRetry an operation that cannot fail and handle is a  *)
(* timer, so nothing in the program throws: a pod fails only when it is    *)
(* disturbed.                                                              *)
(***************************************************************************)
EXTENDS Naturals, FiniteSets

CONSTANTS
    Items,         \* WORK_ITEMS
    ItemTime,      \* what an item takes
    Grace,         \* terminationGracePeriodSeconds
    BackoffLimit,  \* failed pods the Job puts up with
    MaxUpsets      \* bound: pods deleted or lost

ASSUME WorkerAssumption ==
    /\ Items \in Nat /\ BackoffLimit \in Nat /\ MaxUpsets \in Nat
    /\ ItemTime \in Nat \ {0} /\ Grace \in Nat \ {0}

VARIABLES
    job,      \* what the Job's conditions say
    pods,     \* every pod the Job made, in order
    upsets,   \* pods deleted or lost so far
    handled   \* history: how often each item was finished

workerVars == <<job, pods, upsets, handled>>

(* One pod for each upset, and one that is left alone. *)
Pod  == 1..(MaxUpsets + 1)
Item == 0..(Items - 1)

(* "boot" is node before main() has run, "loop" is between two items.      *)
PodState ==
    [pc    : {"absent", "boot", "loop", "item", "exited"},
     done  : 0..Items,      \* items finished, also the index of the next
     left  : 0..ItemTime,   \* of the item in hand
     term  : BOOLEAN,       \* deleted: SIGTERM was sent
     abort : BOOLEAN,       \* the handler heard it: stop.signal.aborted
     grace : 0..Grace,      \* until SIGKILL
     exit  : {"none", "0", "143", "137"},
     cut   : BOOLEAN]       \* history: SIGKILL came with an item in hand

Absent == [pc |-> "absent", done |-> 0, left |-> 0, term |-> FALSE, abort |-> FALSE,
           grace |-> Grace, exit |-> "none", cut |-> FALSE]

WorkerTypeOK ==
    /\ job \in {"running", "complete", "failed"}
    /\ pods \in [Pod -> PodState]
    /\ upsets \in 0..MaxUpsets
    /\ handled \in [Item -> 0..(MaxUpsets + 1)]

WorkerInit ==
    /\ job = "running"
    /\ pods = [p \in Pod |-> Absent]
    /\ upsets = 0
    /\ handled = [i \in Item |-> 0]

-----------------------------------------------------------------------------
(* The process. *)

Up(p) == pods[p].pc \in {"boot", "loop", "item"}

Exited(s, code) == [s EXCEPT !.pc = "exited", !.exit = code]

(* main: the SIGTERM handler is installed, withRetry returns "ready". *)
Start(p) ==
    /\ pods[p].pc = "boot"
    /\ pods' = [pods EXCEPT ![p].pc = "loop"]
    /\ UNCHANGED <<job, upsets, handled>>

(* Mutant: "<=" for "<" in the loop's condition. *)
CheckOneMore(p) ==
    /\ pods[p].pc = "loop"
    /\ pods' = [pods EXCEPT ![p] =
          CASE pods[p].done > Items -> Exited(@, "0")
            [] pods[p].done <= Items /\ pods[p].abort -> Exited(@, "143")
            [] OTHER -> [@ EXCEPT !.pc = "item", !.left = ItemTime]]
    /\ UNCHANGED <<job, upsets, handled>>

(* Mutant: exitCodeFor gives 0 for an interrupted batch too. *)
CheckExitZero(p) ==
    /\ pods[p].pc = "loop"
    /\ pods' = [pods EXCEPT ![p] =
          IF pods[p].done < Items /\ ~pods[p].abort
          THEN [@ EXCEPT !.pc = "item", !.left = ItemTime]
          ELSE Exited(@, "0")]
    /\ UNCHANGED <<job, upsets, handled>>

(* Mutant: the signal is not looked at. *)
CheckDeaf(p) ==
    /\ pods[p].pc = "loop"
    /\ pods' = [pods EXCEPT ![p] =
          IF pods[p].done < Items
          THEN [@ EXCEPT !.pc = "item", !.left = ItemTime] ELSE Exited(@, "0")]
    /\ UNCHANGED <<job, upsets, handled>>

(* The head of processItems' loop; exitCodeFor when it is left. *)
Check(p) ==
    /\ pods[p].pc = "loop"
    /\ pods' = [pods EXCEPT ![p] =
          CASE pods[p].done = Items -> Exited(@, "0")
            [] pods[p].done < Items /\ pods[p].abort -> Exited(@, "143")
            [] OTHER -> [@ EXCEPT !.pc = "item", !.left = ItemTime]]
    /\ UNCHANGED <<job, upsets, handled>>

(* await handle(index) returns; done++. *)
Finish(p) ==
    /\ pods[p].pc = "item" /\ pods[p].left = 0
    /\ pods' = [pods EXCEPT ![p].pc = "loop", ![p].done = @ + 1]
    /\ handled' = [handled EXCEPT ![pods[p].done] = @ + 1]
    /\ UNCHANGED <<job, upsets>>

(* Time passes for a pod that waits for nothing but time. *)
Tick(p) ==
    /\ \/ pods[p].pc = "item" /\ pods[p].left > 0
       \/ pods[p].pc = "boot" /\ pods[p].term
    /\ pods[p].term => pods[p].grace > 0
    /\ pods' = [pods EXCEPT ![p].left = IF @ > 0 THEN @ - 1 ELSE 0,
                            ![p].grace = IF pods[p].term THEN @ - 1 ELSE @]
    /\ UNCHANGED <<job, upsets, handled>>

-----------------------------------------------------------------------------
(* The kubelet and whatever disturbs a pod. *)

(* SIGTERM.  Before main() has run nothing handles it, and PID 1 has no    *)
(* default action.                                                         *)
Terminated(s) ==
    IF s.pc \in {"absent", "exited"} THEN s
    ELSE [s EXCEPT !.term = TRUE, !.abort = @ \/ (s.pc # "boot" /\ ~s.term)]

(* Drained, evicted, deleted by a person. *)
Delete(p) ==
    /\ Up(p) /\ ~pods[p].term /\ upsets < MaxUpsets
    /\ pods' = [pods EXCEPT ![p] = Terminated(@)]
    /\ upsets' = upsets + 1
    /\ UNCHANGED <<job, handled>>

(* SIGKILL *)
Kill(p) ==
    /\ Up(p) /\ pods[p].term /\ pods[p].grace = 0
    /\ pods' = [pods EXCEPT ![p] = [Exited(@, "137") EXCEPT !.cut = pods[p].pc = "item"]]
    /\ UNCHANGED <<job, upsets, handled>>

(* Out of memory, node lost. *)
Lose(p) ==
    /\ Up(p) /\ upsets < MaxUpsets
    /\ pods' = [pods EXCEPT ![p] = Exited(@, "137")]
    /\ upsets' = upsets + 1
    /\ UNCHANGED <<job, handled>>

-----------------------------------------------------------------------------
(* The Job controller. *)

Failed    == {p \in Pod : pods[p].pc = "exited" /\ pods[p].exit # "0"}
Succeeded == {p \in Pod : pods[p].pc = "exited" /\ pods[p].exit = "0"}

(* Mutant: the backoff limit itself is one failure too many. *)
AtTheLimit == Cardinality(Failed) >= BackoffLimit

TooMany == Cardinality(Failed) > BackoffLimit

(* A finished Job has its other pods deleted. *)
End(condition) ==
    /\ job' = condition
    /\ pods' = [p \in Pod |-> Terminated(pods[p])]

(* Mutant: a pod that was stopped is not replaced. *)
ReplaceNever ==
    /\ \A p \in Pod : pods[p].pc = "absent"
    /\ pods' = [pods EXCEPT ![1].pc = "boot"]
    /\ UNCHANGED job

(* A pod that is being deleted is replaced at once, before it has stopped. *)
Replace ==
    /\ \A p \in Pod : Up(p) => pods[p].term
    /\ \E p \in Pod :
          /\ pods[p].pc = "absent" /\ \A q \in 1..(p - 1) : pods[q].pc # "absent"
          /\ pods' = [pods EXCEPT ![p].pc = "boot"]
    /\ UNCHANGED job

Sync ==
    /\ job = "running"
    /\ \/ TooMany /\ End("failed")
       \/ ~TooMany /\ Succeeded # {} /\ End("complete")
       \/ ~TooMany /\ Succeeded = {} /\ Replace
    /\ UNCHANGED <<upsets, handled>>

-----------------------------------------------------------------------------
Steps(p) == Start(p) \/ Check(p) \/ Finish(p) \/ Tick(p) \/ Kill(p)

WorkerNext ==
    \/ \E p \in Pod : Steps(p) \/ Delete(p) \/ Lose(p)
    \/ Sync

(* Nodes run processes and kubelets kill them; controllers act.  Nobody    *)
(* has to disturb a pod.                                                   *)
WorkerFairness == WF_workerVars(Sync) /\ \A p \in Pod : WF_workerVars(Steps(p))

WorkerSpec == WorkerInit /\ [][WorkerNext]_workerVars /\ WorkerFairness

-----------------------------------------------------------------------------
(* Properties. *)

(* "a Job counts exit 0 as complete, and the items never processed would   *)
(* be forgotten" (work.ts:35): a complete Job has finished every item,     *)
(* whichever of two overlapping pods the signals reached, and when.        *)
CompleteMeansAll == job = "complete" => \A i \in Item : handled[i] > 0

(* "the item in hand is finished rather than cut in half" (work.ts:5): a   *)
(* pod that heard SIGTERM is not killed with an item in hand, as long as   *)
(* an item takes less than the grace period.  A pod that was deleted       *)
(* before its handler was there may be.                                    *)
NothingCutInHalf ==
    ItemTime < Grace => \A p \in Pod : pods[p].abort => ~pods[p].cut

(* A pod that is stopped is tried again: the Job gives up only when pods   *)
(* were disturbed more often than its backoff limit.                       *)
FailsOnlyWhenUpset == job = "failed" => upsets > BackoffLimit

(* The Job ends: no signal, however early, leaves a pod that neither       *)
(* finishes nor is killed, and no pod goes uncounted.                      *)
Ends == <>(job # "running")

(* "the rest are left for the next attempt" (work.ts:6): an attempt does   *)
(* the items those before it left, and no other.  Every attempt starts at  *)
(* index 0 again.                                                          *)
NothingTwice == \A i \in Item : handled[i] <= 1

=============================================================================
