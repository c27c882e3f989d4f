---------------------------- MODULE ErrorBudget -----------------------------
(***************************************************************************)
(* scripts/error_budget.py against an API that is serving: Count and 5xx   *)
(* are two reads of CloudWatch, each of the window that ends when it is    *)
(* made, and CloudWatch shows each metric minutes late, at its own pace    *)
(* (docs/DELIVERY-SIGNALS.md:142).  The window is two parts here: what     *)
(* leaves it next, and the rest.                                           *)
(***************************************************************************)
EXTENDS Naturals, Integers

CONSTANTS
    Slo,          \* --slo, in percent
    MinRequests,  \* --min-requests
    Batches,      \* traffic: <<requests, how many of them 5xx>>
    MaxBatches    \* bound: batches served

ASSUME BudgetAssumption ==
    /\ Slo \in 0..100 /\ MinRequests \in Nat /\ MaxBatches \in Nat
    /\ Batches \subseteq {b \in Nat \X Nat : b[2] <= b[1]}

VARIABLES
    oldest,   \* <<requests, 5xx>> of the part that leaves the window next
    recent,   \* and of the rest
    hidden,   \* how many of each CloudWatch does not show yet
    served,   \* batches so far
    budget,   \* the script: [pc, requests, errors, code]
    before,   \* history: the window's <<requests, 5xx>> at the first read
    why       \* history: what kept 5xx of `before` from the second read

budgetVars == <<oldest, recent, hidden, served, budget, before, why>>

Plus(a, b)  == <<a[1] + b[1], a[2] + b[2]>>
Minus(a, b) == <<a[1] - b[1], a[2] - b[2]>>
Window  == Plus(oldest, recent)
Visible == Minus(Window, hidden)

Script(pc, requests, errors, code) ==
    [pc |-> pc, requests |-> requests, errors |-> errors, code |-> code]

BudgetInit ==
    /\ oldest = <<0, 0>> /\ recent = <<0, 0>> /\ hidden = <<0, 0>> /\ served = 0
    /\ budget = Script("count", 0, 0, -1)
    /\ before = <<0, 0>> /\ why = {}

Serve ==
    /\ served < MaxBatches /\ budget.pc # "done"
    /\ \E b \in Batches : recent' = Plus(recent, b) /\ hidden' = Plus(hidden, b)
    /\ served' = served + 1
    /\ UNCHANGED <<oldest, budget, before, why>>

(* CloudWatch catches up with one metric: all of it that was served so far. *)
CatchUp(shown) ==
    /\ budget.pc # "done" /\ shown # hidden
    /\ hidden' = shown
    /\ UNCHANGED <<oldest, recent, served, budget, before, why>>

(* An hour goes by: its datapoints, days old, are no longer asked for. *)
Slide ==
    /\ recent # <<0, 0>> /\ hidden = <<0, 0>> /\ budget.pc # "done"
    /\ oldest' = recent /\ recent' = <<0, 0>>
    /\ why' = why \union IF budget.pc = "count" THEN {} ELSE {"slid"}
    /\ UNCHANGED <<hidden, served, budget, before>>

(* total("Count", ...) *)
ReadCount ==
    /\ budget.pc = "count"
    /\ budget' = Script("5xx", Visible[1], 0, -1)
    /\ before' = Window
    /\ UNCHANGED <<oldest, recent, hidden, served, why>>

(* Mutant: the percentage is rounded to a whole one. *)
SpentWhole(requests, errors, up) ==
    LET allowed == requests * (100 - Slo)
    IN  \/ 20000 * errors > 201 * allowed
        \/ up /\ allowed # 0 /\ 20000 * errors = 201 * allowed

(* budget_spent_percent > 100.  The percentage is rounded to a tenth, and  *)
(* allowed is requests * (100 - Slo) / 100: more than 100.05 percent, or   *)
(* just that when the float rounds up.  Any error is infinitely more than  *)
(* the budget when nothing is allowed.                                     *)
Spent(requests, errors, up) ==
    LET allowed == requests * (100 - Slo)
    IN  \/ 200000 * errors > 2001 * allowed
        \/ up /\ allowed # 0 /\ 200000 * errors = 2001 * allowed

(* Of the 5xx that had been served at the first read, some do not show yet. *)
StillHidden == "slid" \notin why /\ hidden[2] > Minus(Window, before)[2]

(* total("5xx", ...), and main's answer. *)
ReadErrors ==
    /\ budget.pc = "5xx"
    /\ \E up \in BOOLEAN :
          LET spent == Spent(budget.requests, Visible[2], up)
          IN  budget' = Script("done", budget.requests, Visible[2],
                               IF budget.requests >= MinRequests /\ spent THEN 2 ELSE 0)
    /\ why' = why \union (IF StillHidden THEN {"late"} ELSE {})
                  \union (IF budget.requests < MinRequests THEN {"few"} ELSE {})
    /\ UNCHANGED <<oldest, recent, hidden, served, before>>

(* No such API, or the AWS CLI fails: an exception, exit code 1. *)
CannotTell ==
    /\ budget.pc # "done"
    /\ budget' = Script("done", budget.requests, 0, 1)
    /\ UNCHANGED <<oldest, recent, hidden, served, before, why>>

BudgetNext ==
    \/ Serve \/ Slide \/ ReadCount \/ ReadErrors \/ CannotTell
    \/ CatchUp(<<0, hidden[2]>>) \/ CatchUp(<<hidden[1], 0>>)

BudgetSpec == BudgetInit /\ [][BudgetNext]_budgetVars

-----------------------------------------------------------------------------
BudgetTypeOK ==
    /\ oldest \in Nat \X Nat /\ recent \in Nat \X Nat /\ before \in Nat \X Nat
    /\ hidden \in Nat \X Nat /\ why \subseteq {"slid", "late", "few"}
    /\ budget \in [pc : {"count", "5xx", "done"}, requests : Nat, errors : Nat,
                   code : {-1, 0, 1, 2}]

(* "Spent" means more than the allowed share failed (error_budget.py:13).  *)
(* A budget that was spent, by more than the rounding, when the script     *)
(* looked first is called left for three reasons only: too few requests    *)
(* are visible yet, 5xx from before then are still not visible when it     *)
(* reads them, or an hour went by between its reads.  And one that it      *)
(* calls spent has really failed more than the share of the requests it    *)
(* counted - that were visible, which may be fewer than were served.       *)
SpentIsNotCalledLeft ==
    /\ budget.code = 0 /\ 200000 * before[2] > 2001 * (before[1] * (100 - Slo)) => why # {}
    /\ budget.code = 2 => /\ MinRequests <= budget.requests /\ budget.requests <= before[1]
                          /\ 100 * Window[2] > budget.requests * (100 - Slo)

(* "Spent means more than that failed" (error_budget.py:13), without the   *)
(* reasons: refuted, for a budget is spent minutes before it shows.        *)
SpentIsSaid ==
    budget.code = 0 /\ before[1] >= MinRequests
    => 200000 * before[2] <= 2001 * (before[1] * (100 - Slo))

=============================================================================
