----------------------------- MODULE CostReport -----------------------------
(***************************************************************************)
(* The Monday digest of infra/cost-report: Cost Explorer's daily rows, the *)
(* runner minutes that Pipeline health leaves in S3 earlier that morning,  *)
(* and the Lambda that posts to Slack and is invoked again when it fails.  *)
(***************************************************************************)
EXTENDS Naturals, Integers, FiniteSets, FiniteSetsExt

CONSTANTS
    Week,     \* days of a week
    LastDay,  \* bound: days until the clock stops
    Keys,     \* tags or services
    Costs     \* what a key may cost on a day, in cents

ASSUME CostAssumption == Week \in Nat \ {0} /\ LastDay \in Nat /\ Costs \subseteq Nat

VARIABLES
    day,      \* today, day 0 was a Monday
    rows,     \* Cost Explorer: the cost of each day that is over, by key
    file,     \* the day the minutes in S3 were written; -1: never
    attempt,  \* failed invocations of today's digest; 3: no more today
    posts,    \* messages in Slack
    late      \* history: days whose row grew after they were over

costVars == <<day, rows, file, attempt, posts, late>>

Day    == 0..LastDay
Monday == day % Week = 0

CostInit ==
    /\ day = 0 /\ rows = [d \in {} |-> 0] /\ file = -1
    /\ attempt = 0 /\ posts = {} /\ late = {}

-----------------------------------------------------------------------------
(* Around the function. *)

(* Midnight.  A digest that is still to come today comes first. *)
NextDay ==
    /\ day < LastDay
    /\ Monday => attempt = 3
    /\ \E spent \in [Keys -> Costs] : rows' = [d \in 0..day |-> IF d = day THEN spent ELSE rows[d]]
    /\ day' = day + 1 /\ attempt' = 0
    /\ UNCHANGED <<file, posts, late>>

(* Usage that is reported a day late. *)
LateRow(k) ==
    /\ attempt = 3 /\ day - 1 \in DOMAIN rows /\ day - 1 \notin late
    /\ rows' = [rows EXCEPT ![day - 1][k] = @ + 1]
    /\ late' = late \union {day - 1}
    /\ UNCHANGED <<day, file, attempt, posts>>

(* Pipeline health, on its schedule; it may be late, fail or be disabled.  *)
WriteMinutes ==
    /\ Monday /\ file # day
    /\ file' = day
    /\ UNCHANGED <<day, rows, attempt, posts, late>>

-----------------------------------------------------------------------------
(* cost_report.py *)

Boundary == day - Week

(* The daily rows asked for: the two weeks before today. *)
cost_explorer_rows == {d \in DOMAIN rows : d >= day - 2 * Week /\ d < day}

Sum(k, days) == MapThenSumSet(LAMBDA d : rows[d][k], days)

(* Mutant: the row of the boundary itself is in the week before. *)
split_weeksAfter(days) ==
    <<[k \in Keys |-> Sum(k, {d \in days : d <= Boundary})],
      [k \in Keys |-> Sum(k, {d \in days : d > Boundary})]>>

split_weeks(days) ==
    <<[k \in Keys |-> Sum(k, {d \in days : d < Boundary})],
      [k \in Keys |-> Sum(k, {d \in days : d >= Boundary})]>>

(* The minutes shown: "no data", "stale", or those of the file. *)
runner_section ==
    CASE file = -1       -> "no data"
      [] file # -1 /\ day - file > Week + 1 -> "stale"
      [] OTHER           -> "minutes"

digest ==
    LET weeks == split_weeks(cost_explorer_rows)
    IN  [day |-> day, previous |-> weeks[1], current |-> weeks[2], minutes |-> runner_section]

post(text) == posts' = posts \union {text}

(* The handler, on the schedule: it posts, or fails before, or fails after *)
(* Slack has the message; a failure is invoked once more.                  *)
Handle ==
    /\ Monday /\ attempt < 2
    /\ \/ post(digest) /\ attempt' = 3
       \/ (post(digest) \/ posts' = posts) /\ attempt' = IF attempt = 0 THEN 1 ELSE 3
    /\ UNCHANGED <<day, rows, file, late>>

CostNext == NextDay \/ WriteMinutes \/ Handle \/ \E k \in Keys : LateRow(k)

CostSpec == CostInit /\ [][CostNext]_costVars

-----------------------------------------------------------------------------
CostTypeOK ==
    /\ day \in Day /\ DOMAIN rows = 0..(day - 1)
    /\ file \in -1..LastDay /\ attempt \in {0, 1, 3}
    /\ late \subseteq DOMAIN rows

(* Two digests a week apart meet: what one calls last week's spending, key *)
(* by key, the next calls the week before's.  No day falls between them or *)
(* counts twice, except what was only known after the first                *)
(* (cost_report.py:38-56).                                                 *)
WeeksMeet ==
    \A p, q \in posts :
        q.day = p.day + Week =>
            \A k \in Keys :
                q.previous[k] - p.current[k] \in 0..Cardinality({d \in late : d < p.day})

=============================================================================
