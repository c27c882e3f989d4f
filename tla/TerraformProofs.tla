--------------------------- MODULE TerraformProofs ---------------------------
(* Proofs about Terraform, for any environments, contents, pushes, runs    *)
(* and upsets: type correctness, that an apply finds what its plan showed, *)
(* and that prod only follows nonprod applies that are done.               *)
EXTENDS Terraform, SequenceTheorems, TLAPS

-----------------------------------------------------------------------------
(* Runs, one at a time. *)

(* Replacing a run leaves the others and keeps the sequence typed. *)
LEMMA Replace ==
  ASSUME NEW s \in Seq(Run), NEW r \in DOMAIN s, NEW y \in Run
  PROVE  /\ [s EXCEPT ![r] = y] \in Seq(Run)
         /\ Len([s EXCEPT ![r] = y]) = Len(s)
         /\ DOMAIN [s EXCEPT ![r] = y] = DOMAIN s
         /\ \A q \in DOMAIN s : [s EXCEPT ![r] = y][q] = IF q = r THEN y ELSE s[q]
OBVIOUS

LEMMA Starts ==
  ASSUME NEW c \in 1..(MaxMerges + 1)
  PROVE  NewRun(c) \in Run
<1>1. [e \in Env |-> [is |-> "todo", serial |-> 0, seen |-> Half]] \in [Env -> Plan]
  BY DEF Plan
<1>2. [e \in Env |-> "needs"] \in [Env -> Job]
  BY DEF Job
<1> QED BY <1>1, <1>2 DEF NewRun, Run

LEMMA Mapped ==
  ASSUME NEW s \in Seq(Run), NEW t \in [DOMAIN s -> Run]
  PROVE  t \in Seq(Run) /\ Len(t) = Len(s) /\ DOMAIN t = DOMAIN s
OBVIOUS

(* The parts of a run, and runs of which one part changed. *)
LEMMA RunFields ==
  ASSUME NEW x \in Run
  PROVE  /\ x.commit \in 1..(MaxMerges + 1)
         /\ x.plan \in [Env -> Plan] /\ x.apply \in [Env -> Job]
BY DEF Run

LEMMA PlanPart ==
  ASSUME NEW x \in Run, NEW e \in Env, NEW p \in Plan
  PROVE  [x EXCEPT !.plan[e] = p] \in Run /\ [x EXCEPT !.plan[e] = p].commit = x.commit
<1>1. [x.plan EXCEPT ![e] = p] \in [Env -> Plan]
  BY RunFields
<1> QED BY <1>1 DEF Run

LEMMA ApplyPart ==
  ASSUME NEW x \in Run, NEW e \in Env, NEW j \in Job
  PROVE  [x EXCEPT !.apply[e] = j] \in Run /\ [x EXCEPT !.apply[e] = j].commit = x.commit
<1>1. [x.apply EXCEPT ![e] = j] \in [Env -> Job]
  BY RunFields
<1> QED BY <1>1 DEF Run

LEMMA BudgetPart ==
  ASSUME NEW x \in Run, NEW b \in {"ok", "no"}
  PROVE  [x EXCEPT !.budget = b] \in Run /\ [x EXCEPT !.budget = b].commit = x.commit
BY DEF Run

LEMMA GatePart ==
  ASSUME NEW x \in Run, NEW g \in {"on", "off"}, NEW a \in [Env -> Job]
  PROVE  /\ [x EXCEPT !.gate = g, !.apply = a] \in Run
         /\ [x EXCEPT !.gate = g, !.apply = a].commit = x.commit
BY DEF Run

-----------------------------------------------------------------------------
(* The invariant, run by run. *)

(* A run is of a commit that is on main. *)
TypeInv == TypeOK /\ \A r \in DOMAIN runs : runs[r].commit <= Len(main)

Started == {"queued", "running", "applying", "ok", "failed"}

(* Jobs only leave the state the gate put them in if every plan is saved.  *)
GateInv(x) ==
    /\ x.gate = "todo" => \A e \in Env : x.apply[e] = "needs"
    /\ x.gate = "off" => \A e \in Env : x.apply[e] = "none"
    /\ x.gate = "on" => \A e \in Env : x.plan[e].is = "ok"

(* A saved plan is of this state or an older one, and if it is of this one *)
(* then the resources are what it saw, hand changes apart.  An apply that  *)
(* runs holds the lock, and its plan is of this state.                     *)
PlanInv(x, a, off) ==
    \A e \in Env :
        /\ x.plan[e].is = "ok" =>
              /\ x.plan[e].serial <= a[e].serial
              /\ x.plan[e].serial = a[e].serial /\ e \notin off => a[e].real = x.plan[e].seen
        /\ x.apply[e] = "applying" => a[e].locked /\ x.plan[e].serial = a[e].serial

(* An environment without an apply had nothing to change, and prod does    *)
(* not start before the others are done.                                   *)
ProdInv(x, m) ==
    /\ x.gate = "on" => \A e \in Nonprod :
          x.apply[e] = "none" => x.plan[e].seen = m[x.commit].want[e]
    /\ x.apply[Prod] \in Started => \A e \in Nonprod : x.apply[e] \in {"none", "ok"}

RunInv(x, m, a, off) == GateInv(x) /\ PlanInv(x, a, off) /\ ProdInv(x, m)

(* One apply at a time per environment. *)
Alone(s) == \A q, r \in DOMAIN s, e \in Env :
    s[q].apply[e] = "applying" /\ s[r].apply[e] = "applying" => q = r

Inv == Alone(runs) /\ \A r \in DOMAIN runs : RunInv(runs[r], main, aws, offbook)

(* Moving one job on, to anything but applying, keeps a run's invariant.   *)
LEMMA JobMoves ==
  ASSUME NEW x \in Run, NEW m, NEW a, NEW off, RunInv(x, m, a, off),
         NEW e \in Env, NEW j \in Job \ {"needs", "applying"},
         x.gate = "on", x.apply[e] \in {"needs", "queued", "running", "applying"},
         e \in Nonprod => j # "none",
         e = Prod /\ j \in Started => \A d \in Nonprod : x.apply[d] \in {"none", "ok"}
  PROVE  RunInv([x EXCEPT !.apply[e] = j], m, a, off)
<1> DEFINE y == [x EXCEPT !.apply[e] = j]
<1>1. /\ x.plan \in [Env -> Plan] /\ x.apply \in [Env -> Job]
      /\ y.plan = x.plan /\ y.gate = "on" /\ y.commit = x.commit
      /\ \A d \in Env : y.apply[d] = IF d = e THEN j ELSE x.apply[d]
  BY DEF Run
<1>2. Prod \in Env /\ Nonprod \subseteq Env /\ Prod \notin Nonprod
  BY TerraformAssumption DEF Nonprod
<1> HIDE DEF y
<1>3. GateInv(y)
  BY <1>1 DEF RunInv, GateInv
<1>4. PlanInv(y, a, off)
  BY <1>1 DEF RunInv, PlanInv
<1>5. ProdInv(y, m)
  <2>1. ASSUME NEW d \in Nonprod, y.apply[d] = "none"
        PROVE  y.plan[d].seen = m[y.commit].want[d]
    BY <1>1, <1>2, <2>1 DEF RunInv, ProdInv
  <2>2. ASSUME y.apply[Prod] \in Started, NEW d \in Nonprod
        PROVE  y.apply[d] \in {"none", "ok"}
    <3>1. CASE e = Prod
      BY <1>1, <1>2, <2>2, <3>1
    <3>2. CASE e # Prod
      <4>1. x.apply[Prod] \in Started
        BY <1>1, <1>2, <2>2, <3>2
      <4>2. x.apply[e] \in {"none", "ok"}
        BY <1>2, <3>2, <4>1 DEF RunInv, ProdInv, Nonprod
      <4> QED BY <4>2
    <3> QED BY <3>1, <3>2
  <2> QED BY <2>1, <2>2 DEF ProdInv
<1> QED BY <1>3, <1>4, <1>5 DEF RunInv, y

-----------------------------------------------------------------------------
(* What each step does to the runs. *)

RunsTyped(s, m) ==
    /\ s \in Seq(Run) /\ Len(s) <= MaxRuns
    /\ \A q \in DOMAIN s : s[q].commit <= Len(m)

(* One run is replaced by another of the same commit. *)
Replaced(r, y) ==
    /\ y \in Run /\ y.commit = runs[r].commit
    /\ runs' = [runs EXCEPT ![r] = y]

LEMMA ReplacedTyped ==
  ASSUME RunsTyped(runs, main), NEW r \in DOMAIN runs, NEW y, Replaced(r, y)
  PROVE  /\ RunsTyped(runs', main) /\ DOMAIN runs' = DOMAIN runs
         /\ \A q \in DOMAIN runs : runs'[q] = IF q = r THEN y ELSE runs[q]
BY Replace DEF RunsTyped, Replaced

LEMMA PlanStep ==
  ASSUME TypeInv, NEW r \in DOMAIN runs, NEW e \in Env, PlanEnv(r, e)
  PROVE  /\ runs[r].plan[e].is = "todo" /\ UNCHANGED <<main, aws, spent, offbook, upsets>>
         /\ \E p \in Plan :
               /\ p.is = "ok" => p.serial = aws[e].serial /\ p.seen = aws[e].real
               /\ Replaced(r, [runs[r] EXCEPT !.plan[e] = p])
<1>0. runs[r] \in Run
  BY DEF TypeInv, TypeOK
<1>1. /\ runs[r].plan[e] \in Plan
      /\ aws[e].serial \in Nat /\ aws[e].real \in Value \cup {Half}
  BY <1>0, RunFields DEF TypeInv, TypeOK
<1>a. ASSUME NEW p \in Plan
      PROVE  /\ [runs[r] EXCEPT !.plan[e] = p] \in Run
             /\ [runs[r] EXCEPT !.plan[e] = p].commit = runs[r].commit
  BY <1>0, PlanPart
<1>2. CASE runs' = [runs EXCEPT ![r].plan[e] =
                       [is |-> "ok", serial |-> aws[e].serial, seen |-> aws[e].real]]
  <2> DEFINE p == [is |-> "ok", serial |-> aws[e].serial, seen |-> aws[e].real]
  <2>1. p \in Plan
    BY <1>1 DEF Plan
  <2>2. runs' = [runs EXCEPT ![r] = [runs[r] EXCEPT !.plan[e] = p]]
    BY <1>2
  <2>3. Replaced(r, [runs[r] EXCEPT !.plan[e] = p])
    BY <1>a, <2>1, <2>2 DEF Replaced
  <2> QED BY <2>1, <2>3 DEF PlanEnv
<1>3. CASE runs' = [runs EXCEPT ![r].plan[e].is = "failed"]
  <2> DEFINE p == [runs[r].plan[e] EXCEPT !.is = "failed"]
  <2>1. p \in Plan /\ p.is = "failed"
    BY <1>1 DEF Plan
  <2>2. runs' = [runs EXCEPT ![r] = [runs[r] EXCEPT !.plan[e] = p]]
    BY <1>3
  <2>3. Replaced(r, [runs[r] EXCEPT !.plan[e] = p])
    BY <1>a, <2>1, <2>2 DEF Replaced
  <2> QED BY <2>1, <2>3 DEF PlanEnv
<1> QED BY <1>2, <1>3 DEF PlanEnv

LEMMA BudgetStep ==
  ASSUME TypeInv, NEW r \in DOMAIN runs, Budget(r)
  PROVE  /\ UNCHANGED <<main, aws, spent, offbook, upsets>>
         /\ \E b \in {"ok", "no"} : Replaced(r, [runs[r] EXCEPT !.budget = b])
<1>1. runs[r] \in Run
  BY DEF TypeInv, TypeOK
<1>2. PICK b \in {"ok", "no"} : runs' = [runs EXCEPT ![r].budget = b]
  BY DEF Budget
<1>3. runs' = [runs EXCEPT ![r] = [runs[r] EXCEPT !.budget = b]]
  BY <1>2
<1> QED BY <1>1, <1>3, BudgetPart DEF Replaced, Budget

LEMMA GateStep ==
  ASSUME TypeInv, NEW r \in DOMAIN runs, Gate(r)
  PROVE  /\ runs[r].gate = "todo" /\ UNCHANGED <<main, aws, spent, offbook, upsets>>
         /\ \E g \in {"on", "off"}, a \in [Env -> Job] :
               /\ Replaced(r, [runs[r] EXCEPT !.gate = g, !.apply = a])
               /\ g = "on" => /\ \A e \in Env : runs[r].plan[e].is = "ok"
                              /\ \A e \in Env :
                                    a[e] = IF Changes(r, e) THEN "needs" ELSE "none"
               /\ g = "off" => \A e \in Env : a[e] = "none"
<1>1. runs[r] \in Run
  BY DEF TypeInv, TypeOK
<1>2. CASE /\ Planned(r)
           /\ runs' = [runs EXCEPT ![r].gate = "on",
                          ![r].apply = [e \in Env |-> IF Changes(r, e) THEN "needs" ELSE "none"]]
  <2> DEFINE a == [e \in Env |-> IF Changes(r, e) THEN "needs" ELSE "none"]
  <2>1. a \in [Env -> Job]
    BY DEF Job
  <2>2. runs' = [runs EXCEPT ![r] = [runs[r] EXCEPT !.gate = "on", !.apply = a]]
    BY <1>2
  <2>3. Replaced(r, [runs[r] EXCEPT !.gate = "on", !.apply = a])
    BY <1>1, <2>1, <2>2, GatePart DEF Replaced
  <2>4. \A e \in Env : a[e] = IF Changes(r, e) THEN "needs" ELSE "none"
    OBVIOUS
  <2>5. \A e \in Env : runs[r].plan[e].is = "ok"
    BY <1>2 DEF Planned
  <2> HIDE DEF a
  <2> QED BY <2>1, <2>3, <2>4, <2>5 DEF Gate
<1>3. CASE runs' = [runs EXCEPT ![r].gate = "off", ![r].apply = [e \in Env |-> "none"]]
  <2> DEFINE a == [e \in Env |-> "none"]
  <2>1. a \in [Env -> Job] /\ \A e \in Env : a[e] = "none"
    BY DEF Job
  <2>2. runs' = [runs EXCEPT ![r] = [runs[r] EXCEPT !.gate = "off", !.apply = a]]
    BY <1>3
  <2>3. Replaced(r, [runs[r] EXCEPT !.gate = "off", !.apply = a])
    BY <1>1, <2>1, <2>2, GatePart DEF Replaced
  <2> HIDE DEF a
  <2> QED BY <2>1, <2>3 DEF Gate
<1> QED BY <1>2, <1>3 DEF Gate

LEMMA JobStep ==
  ASSUME TypeInv, NEW r \in DOMAIN runs, NEW e \in Env, NEW j \in Job,
         runs' = [runs EXCEPT ![r].apply[e] = j]
  PROVE  Replaced(r, [runs[r] EXCEPT !.apply[e] = j])
<1>1. runs[r] \in Run
  BY DEF TypeInv, TypeOK
<1>2. runs' = [runs EXCEPT ![r] = [runs[r] EXCEPT !.apply[e] = j]]
  OBVIOUS
<1> QED BY <1>1, <1>2, ApplyPart DEF Replaced

(* What the coming of run r's job to e's group does to the other runs. *)
Superseded(r, e) ==
    \A q \in DOMAIN runs \ {r} :
        \/ runs'[q] = runs[q]
        \/ /\ runs[q].apply[e] = "queued"
           /\ runs'[q] = [runs[q] EXCEPT !.apply[e] = "cancelled"]

LEMMA EnterStep ==
  ASSUME TypeInv, NEW r \in DOMAIN runs, NEW e \in Env, Enter(r, e)
  PROVE  /\ Needs(r, e) /\ UNCHANGED <<main, aws, spent, offbook, upsets>>
         /\ RunsTyped(runs', main) /\ DOMAIN runs' = DOMAIN runs
         /\ \E k \in {"queued", "running"} : runs'[r] = [runs[r] EXCEPT !.apply[e] = k]
         /\ Superseded(r, e)
<1>1. runs \in Seq(Run) /\ Len(runs) <= MaxRuns
      /\ \A q \in DOMAIN runs : runs[q] \in Run /\ runs[q].commit <= Len(main)
  BY DEF TypeInv, TypeOK
<1>2. Needs(r, e) /\ UNCHANGED <<main, aws, spent, offbook, upsets>>
  BY DEF Enter
<1>3. PICK superseded \in BOOLEAN :
        runs' = [q \in DOMAIN runs |->
            IF q = r
            THEN [runs[r] EXCEPT !.apply[e] = IF e = Prod \/ Busy(e) THEN "queued" ELSE "running"]
            ELSE IF superseded /\ runs[q].apply[e] = "queued"
            THEN [runs[q] EXCEPT !.apply[e] = "cancelled"]
            ELSE runs[q]]
  BY DEF Enter
<1>4. PICK k \in {"queued", "running"} : runs'[r] = [runs[r] EXCEPT !.apply[e] = k]
  BY <1>3
<1>5. ASSUME NEW q \in DOMAIN runs \ {r}
      PROVE  \/ runs'[q] = runs[q]
             \/ /\ runs[q].apply[e] = "queued"
                /\ runs'[q] = [runs[q] EXCEPT !.apply[e] = "cancelled"]
  BY <1>3
<1>6. DOMAIN runs' = DOMAIN runs
  BY <1>3
<1>7. ASSUME NEW q \in DOMAIN runs
      PROVE  runs'[q] \in Run /\ runs'[q].commit = runs[q].commit
  <2>1. k \in Job /\ "cancelled" \in Job /\ runs[q] \in Run
    BY <1>1 DEF Job
  <2>2. CASE q = r
    <3>1. /\ [runs[q] EXCEPT !.apply[e] = k] \in Run
          /\ [runs[q] EXCEPT !.apply[e] = k].commit = runs[q].commit
      BY <2>1, ApplyPart
    <3> QED BY <1>4, <2>2, <3>1
  <2>3. CASE q # r /\ runs'[q] = runs[q]
    BY <2>1, <2>3
  <2>4. CASE q # r /\ runs'[q] = [runs[q] EXCEPT !.apply[e] = "cancelled"]
    <3>1. /\ [runs[q] EXCEPT !.apply[e] = "cancelled"] \in Run
          /\ [runs[q] EXCEPT !.apply[e] = "cancelled"].commit = runs[q].commit
      BY <2>1, ApplyPart
    <3> QED BY <2>4, <3>1
  <2> QED BY <1>5, <2>2, <2>3, <2>4
<1>8. runs' \in [DOMAIN runs -> Run]
  BY <1>3, <1>6, <1>7
<1>9. runs' \in Seq(Run) /\ Len(runs') = Len(runs)
  BY <1>1, <1>8, Mapped
<1>10. RunsTyped(runs', main)
  BY <1>1, <1>6, <1>7, <1>9 DEF RunsTyped
<1>11. Superseded(r, e)
  BY <1>5 DEF Superseded
<1> QED BY <1>2, <1>4, <1>6, <1>10, <1>11

-----------------------------------------------------------------------------
(* Type correctness. *)

AwsTyped(a) == a \in [Env -> [serial : Nat, locked : BOOLEAN, real : Value \cup {Half}]]

LEMMA AwsUpdate ==
  ASSUME AwsTyped(aws), NEW e \in Env, NEW n \in Nat, NEW l \in BOOLEAN,
         NEW v \in Value \cup {Half}
  PROVE  /\ AwsTyped([aws EXCEPT ![e] = [serial |-> n, locked |-> l, real |-> v]])
         /\ \A d \in Env : [aws EXCEPT ![e] = [serial |-> n, locked |-> l, real |-> v]][d] =
                IF d = e THEN [serial |-> n, locked |-> l, real |-> v] ELSE aws[d]
BY DEF AwsTyped

(* What the steps do to AWS: one environment gets another serial, lock and *)
(* content, or none changes.                                               *)
AwsStep(e, n, l, v) ==
    /\ n \in Nat /\ l \in BOOLEAN /\ v \in Value \cup {Half}
    /\ aws' = [aws EXCEPT ![e] = [serial |-> n, locked |-> l, real |-> v]]

LEMMA LockStep ==
  ASSUME AwsTyped(aws), NEW e \in Env, NEW l \in BOOLEAN, aws' = [aws EXCEPT ![e].locked = l]
  PROVE  AwsStep(e, aws[e].serial, l, aws[e].real)
<1>1. aws[e] \in [serial : Nat, locked : BOOLEAN, real : Value \cup {Half}]
  BY DEF AwsTyped
<1>2. [aws[e] EXCEPT !.locked = l] = [serial |-> aws[e].serial, locked |-> l, real |-> aws[e].real]
  BY <1>1
<1> QED BY <1>1, <1>2 DEF AwsStep

LEMMA ByHandStep ==
  ASSUME TypeInv, NEW e \in Env, ByHand(e)
  PROVE  /\ UNCHANGED <<main, runs, spent>> /\ offbook' = offbook \cup {e}
         /\ upsets' = upsets + 1 /\ upsets < MaxUpsets
         /\ \E v \in Value : AwsStep(e, aws[e].serial, aws[e].locked, v)
<1>1. aws[e] \in [serial : Nat, locked : BOOLEAN, real : Value \cup {Half}]
  BY DEF TypeInv, TypeOK
<1>2. PICK v \in Value : aws' = [aws EXCEPT ![e].real = v]
  BY DEF ByHand
<1>3. [aws[e] EXCEPT !.real = v] = [serial |-> aws[e].serial, locked |-> aws[e].locked, real |-> v]
  BY <1>1
<1>4. AwsStep(e, aws[e].serial, aws[e].locked, v)
  BY <1>1, <1>2, <1>3 DEF AwsStep
<1> QED BY <1>4 DEF ByHand

LEMMA WriteStep ==
  ASSUME AwsTyped(aws), NEW e \in Env, NEW v \in Value \cup {Half}, Write(e, v)
  PROVE  AwsStep(e, aws[e].serial + 1, FALSE, v)
<1>1. aws[e].serial \in Nat
  BY DEF AwsTyped
<1> QED BY <1>1 DEF Write, AwsStep

Moved(r, e, j) == Replaced(r, [runs[r] EXCEPT !.apply[e] = j])

LEMMA BeginStep ==
  ASSUME TypeInv, NEW r \in DOMAIN runs, NEW e \in Env, Begin(r, e)
  PROVE  /\ runs[r].apply[e] = "running" /\ UNCHANGED <<main, spent, offbook, upsets>>
         /\ \/ /\ ~aws[e].locked /\ Current(r, e) /\ Moved(r, e, "applying")
               /\ AwsStep(e, aws[e].serial, TRUE, aws[e].real)
            \/ Moved(r, e, "failed") /\ UNCHANGED aws
<1>1. AwsTyped(aws) /\ "applying" \in Job /\ "failed" \in Job
  BY DEF TypeInv, TypeOK, AwsTyped, Job
<1>2. CASE /\ ~aws[e].locked /\ Current(r, e)
           /\ runs' = [runs EXCEPT ![r].apply[e] = "applying"]
           /\ aws' = [aws EXCEPT ![e].locked = TRUE]
  <2>1. Moved(r, e, "applying")
    BY <1>1, <1>2, JobStep DEF Moved
  <2>2. AwsStep(e, aws[e].serial, TRUE, aws[e].real)
    BY <1>1, <1>2, LockStep
  <2> QED BY <1>2, <2>1, <2>2 DEF Begin
<1>3. CASE runs' = [runs EXCEPT ![r].apply[e] = "failed"] /\ UNCHANGED aws
  <2>1. Moved(r, e, "failed")
    BY <1>1, <1>3, JobStep DEF Moved
  <2> QED BY <1>3, <2>1 DEF Begin
<1> QED BY <1>2, <1>3 DEF Begin

LEMMA FinishStep ==
  ASSUME TypeInv, NEW r \in DOMAIN runs, NEW e \in Env, Finish(r, e)
  PROVE  /\ runs[r].apply[e] = "applying" /\ UNCHANGED <<main, spent, offbook, upsets>>
         /\ \E j \in {"ok", "failed"} : Moved(r, e, j)
         /\ \E v \in {Want(r, e), Half} : AwsStep(e, aws[e].serial + 1, FALSE, v)
<1>1. AwsTyped(aws) /\ "ok" \in Job /\ "failed" \in Job
  BY DEF TypeInv, TypeOK, AwsTyped, Job
<1>2. Want(r, e) \in Value
  <2>1. runs[r] \in Run /\ runs[r].commit <= Len(main) /\ main \in Seq(Commit)
    BY DEF TypeInv, TypeOK
  <2>2. main[runs[r].commit] \in Commit
    BY <2>1, RunFields
  <2> QED BY <2>2 DEF Want, Commit
<1>3. PICK v \in {Want(r, e), Half} : Write(e, v)
  BY DEF Finish
<1>4. AwsStep(e, aws[e].serial + 1, FALSE, v)
  BY <1>1, <1>2, <1>3, WriteStep
<1>5. PICK j \in {"ok", "failed"} : runs' = [runs EXCEPT ![r].apply[e] = j]
  BY DEF Finish
<1>6. Moved(r, e, j)
  BY <1>1, <1>5, JobStep DEF Moved
<1> QED BY <1>4, <1>6 DEF Finish

LEMMA DieStep ==
  ASSUME TypeInv, NEW r \in DOMAIN runs, NEW e \in Env, Die(r, e)
  PROVE  /\ runs[r].apply[e] = "applying" /\ UNCHANGED <<main, spent>>
         /\ offbook' = offbook \cup {e} /\ upsets' = upsets + 1 /\ upsets < MaxUpsets
         /\ Moved(r, e, "failed")
         /\ \E n \in {0, 1} : AwsStep(e, aws[e].serial + n, TRUE, Half)
<1>1. aws[e].serial \in Nat /\ "failed" \in Job
  BY DEF TypeInv, TypeOK, Job
<1>2. Moved(r, e, "failed")
  BY <1>1, JobStep DEF Moved, Die
<1>3. PICK n \in {0, 1} :
        aws' = [aws EXCEPT ![e] = [serial |-> aws[e].serial + n, locked |-> TRUE, real |-> Half]]
  BY DEF Die
<1>4. AwsStep(e, aws[e].serial + n, TRUE, Half)
  BY <1>1, <1>3 DEF AwsStep
<1> QED BY <1>2, <1>4 DEF Die

LEMMA OneStep ==
  ASSUME TypeInv, NEW r \in DOMAIN runs, NEW e \in Env,
         Start(r, e) \/ (Reject(r) /\ e = Prod) \/ (SkipProd(r) /\ e = Prod)
  PROVE  /\ UNCHANGED <<main, aws, spent, offbook, upsets>>
         /\ \/ runs[r].apply[e] = "queued" /\ \E j \in {"running", "cancelled"} : Moved(r, e, j)
            \/ /\ runs[r].gate = "on" /\ runs[r].apply[e] = "needs" /\ e = Prod
               /\ Moved(r, e, "none")
<1>1. {"running", "cancelled", "none"} \subseteq Job
  BY DEF Job
<1>2. CASE Start(r, e)
  <2>1. Moved(r, e, "running")
    BY <1>1, <1>2, JobStep DEF Start, Moved
  <2> QED BY <1>2, <2>1 DEF Start
<1>3. CASE Reject(r) /\ e = Prod
  <2>1. Moved(r, e, "cancelled")
    BY <1>1, <1>3, JobStep DEF Reject, Moved
  <2> QED BY <1>3, <2>1 DEF Reject
<1>4. CASE SkipProd(r) /\ e = Prod
  <2>1. Moved(r, e, "none")
    BY <1>1, <1>4, JobStep DEF SkipProd, Moved
  <2> QED BY <1>4, <2>1 DEF SkipProd
<1> QED BY <1>2, <1>3, <1>4

LEMMA InitTypeInv == Init => TypeInv
<1> SUFFICES ASSUME Init PROVE TypeInv
  OBVIOUS
<1>1. main = <<[want |-> First, fix |-> FALSE]>> /\ [want |-> First, fix |-> FALSE] \in Commit
  BY TerraformAssumption DEF Init, Commit
<1>2. main \in Seq(Commit) /\ Len(main) = 1 /\ 1 \in 1..(MaxMerges + 1)
  BY <1>1, TerraformAssumption
<1>3. aws \in [Env -> [serial : Nat, locked : BOOLEAN, real : Value \cup {Half}]]
  BY TerraformAssumption DEF Init
<1>4. runs \in Seq(Run) /\ Len(runs) <= MaxRuns /\ DOMAIN runs = {}
  BY TerraformAssumption DEF Init
<1>5. offbook \subseteq Env /\ upsets \in 0..MaxUpsets
  BY TerraformAssumption DEF Init
<1>6. spent \in BOOLEAN
  BY DEF Init
<1> QED BY <1>2, <1>3, <1>4, <1>5, <1>6 DEF TypeInv, TypeOK

(* A new run on main's last commit, or the one pushed with it. *)
LEMMA NewRunTyped ==
  ASSUME RunsTyped(runs, main), Len(runs) < MaxRuns, NEW m, NEW c \in 1..(MaxMerges + 1),
         Len(main) <= Len(m), c <= Len(m), Len(main) \in Nat, Len(m) \in Nat,
         runs' = Append(runs, NewRun(c))
  PROVE  /\ RunsTyped(runs', m)
         /\ DOMAIN runs' = DOMAIN runs \cup {Len(runs) + 1}
         /\ runs'[Len(runs) + 1] = NewRun(c)
         /\ \A q \in DOMAIN runs : runs'[q] = runs[q]
<1>1. NewRun(c) \in Run /\ NewRun(c).commit = c
  BY Starts DEF NewRun
<1>2. runs \in Seq(Run) /\ Len(runs) \in Nat /\ DOMAIN runs = 1..Len(runs)
  BY DEF RunsTyped
<1>3. /\ runs' \in Seq(Run) /\ Len(runs') = Len(runs) + 1
      /\ DOMAIN runs' = DOMAIN runs \cup {Len(runs) + 1}
      /\ runs'[Len(runs) + 1] = NewRun(c)
      /\ \A q \in DOMAIN runs : runs'[q] = runs[q]
  BY <1>1, <1>2
<1>4. \A q \in DOMAIN runs : runs[q].commit \in Nat /\ runs[q].commit <= Len(main)
  BY <1>2, RunFields, TerraformAssumption DEF RunsTyped
<1>5. Len(runs') <= MaxRuns
  BY <1>2, <1>3, TerraformAssumption
<1>6. \A q \in DOMAIN runs' : runs'[q].commit <= Len(m)
  BY <1>1, <1>3, <1>4
<1> QED BY <1>3, <1>5, <1>6 DEF RunsTyped

LEMMA MergeStep ==
  ASSUME TypeInv, Merge
  PROVE  /\ UNCHANGED <<aws, spent, offbook, upsets>>
         /\ main' \in Seq(Commit) /\ Len(main') = Len(main) + 1 /\ Len(main') <= MaxMerges + 1
         /\ \A i \in 1..Len(main) : main'[i] = main[i]
         /\ Len(runs) < MaxRuns /\ runs' = Append(runs, NewRun(Len(main) + 1))
<1>1. main \in Seq(Commit) /\ Len(main) \in Nat /\ Len(main) <= MaxMerges
  BY DEF TypeInv, TypeOK, Merge
<1>2. PICK c \in Commit : main' = Append(main, c)
  BY DEF Merge, Commit
<1>3. /\ main' \in Seq(Commit) /\ Len(main') = Len(main) + 1
      /\ \A i \in 1..Len(main) : main'[i] = main[i]
  BY <1>1, <1>2
<1>4. Len(main') <= MaxMerges + 1
  BY <1>1, <1>3, TerraformAssumption
<1> QED BY <1>3, <1>4 DEF Merge

LEMMA AwsStepTyped ==
  ASSUME AwsTyped(aws), NEW e \in Env, NEW n, NEW l, NEW v, AwsStep(e, n, l, v)
  PROVE  /\ AwsTyped(aws')
         /\ \A d \in Env : aws'[d] =
                IF d = e THEN [serial |-> n, locked |-> l, real |-> v] ELSE aws[d]
<1>1. /\ n \in Nat /\ l \in BOOLEAN /\ v \in Value \cup {Half}
      /\ aws' = [aws EXCEPT ![e] = [serial |-> n, locked |-> l, real |-> v]]
  BY DEF AwsStep
<1>2. [serial |-> n, locked |-> l, real |-> v]
        \in [serial : Nat, locked : BOOLEAN, real : Value \cup {Half}]
  BY <1>1
<1>3. aws \in [Env -> [serial : Nat, locked : BOOLEAN, real : Value \cup {Half}]]
  BY DEF AwsTyped
<1> HIDE DEF AwsTyped
<1>4. aws' \in [Env -> [serial : Nat, locked : BOOLEAN, real : Value \cup {Half}]]
  BY <1>1, <1>2, <1>3
<1>5. \A d \in Env : aws'[d] =
         IF d = e THEN [serial |-> n, locked |-> l, real |-> v] ELSE aws[d]
  BY <1>1, <1>3
<1> QED BY <1>4, <1>5 DEF AwsTyped

(* TypeInv in the parts its steps disturb. *)
LEMMA TypeParts ==
  TypeInv <=> /\ main \in Seq(Commit) /\ Len(main) \in 1..(MaxMerges + 1)
              /\ RunsTyped(runs, main) /\ AwsTyped(aws)
              /\ spent \in BOOLEAN /\ offbook \subseteq Env /\ upsets \in 0..MaxUpsets
BY DEF TypeInv, TypeOK, RunsTyped, AwsTyped

LEMMA NextTypeInv == TypeInv /\ [Next]_vars => TypeInv'
<1> SUFFICES ASSUME TypeInv, [Next]_vars PROVE TypeInv'
  OBVIOUS
<1>0. /\ main \in Seq(Commit) /\ Len(main) \in 1..(MaxMerges + 1) /\ Len(main) \in Nat
      /\ RunsTyped(runs, main) /\ AwsTyped(aws)
      /\ spent \in BOOLEAN /\ offbook \subseteq Env /\ upsets \in 0..MaxUpsets
  BY TypeParts, TerraformAssumption
<1>a. SUFFICES /\ main' \in Seq(Commit) /\ Len(main') \in 1..(MaxMerges + 1)
               /\ RunsTyped(runs', main') /\ AwsTyped(aws')
               /\ spent' \in BOOLEAN /\ offbook' \subseteq Env /\ upsets' \in 0..MaxUpsets
  BY DEF TypeInv, TypeOK, RunsTyped, AwsTyped
<1>b. ASSUME NEW r \in DOMAIN runs, NEW y, Replaced(r, y), main' = main
      PROVE  RunsTyped(runs', main')
  BY <1>0, <1>b, ReplacedTyped
<1>1. CASE Merge
  <2>1. RunsTyped(runs', main')
    BY <1>0, <1>1, MergeStep, NewRunTyped, TerraformAssumption
  <2> QED BY <1>0, <1>1, <2>1, MergeStep, TerraformAssumption
<1>2. CASE Dispatch
  <2>1. RunsTyped(runs', main)
    BY <1>0, <1>2, NewRunTyped DEF Dispatch
  <2> QED BY <1>0, <1>2, <2>1 DEF Dispatch
<1>3. CASE Traffic
  <2>1. spent' \in BOOLEAN
    BY <1>3 DEF Traffic
  <2>2. upsets' \in 0..MaxUpsets
    BY <1>0, <1>3, TerraformAssumption DEF Traffic
  <2> QED BY <1>0, <1>3, <2>1, <2>2 DEF Traffic
<1>4. CASE \E e \in Env : ByHand(e)
  <2>1. PICK e \in Env : ByHand(e)
    BY <1>4
  <2>2. PICK v \in Value : AwsStep(e, aws[e].serial, aws[e].locked, v)
    BY <2>1, ByHandStep
  <2>3. AwsTyped(aws')
    BY <1>0, <2>2, AwsStepTyped
  <2>4. upsets' \in 0..MaxUpsets
    BY <1>0, <2>1, ByHandStep, TerraformAssumption
  <2> QED BY <1>0, <2>1, <2>3, <2>4, ByHandStep
<1>5. CASE \E e \in Env : Unlock(e)
  <2>1. PICK e \in Env : Unlock(e)
    BY <1>5
  <2>2. AwsStep(e, aws[e].serial, FALSE, aws[e].real)
    BY <1>0, <2>1, LockStep DEF Unlock
  <2>3. AwsTyped(aws')
    BY <1>0, <2>2, AwsStepTyped
  <2> QED BY <1>0, <2>1, <2>3 DEF Unlock
<1>6. CASE \E r \in DOMAIN runs : Budget(r)
  <2>1. PICK r \in DOMAIN runs : Budget(r)
    BY <1>6
  <2> QED BY <1>0, <1>b, <2>1, BudgetStep
<1>7. CASE \E r \in DOMAIN runs : Gate(r)
  <2>1. PICK r \in DOMAIN runs : Gate(r)
    BY <1>7
  <2> QED BY <1>0, <1>b, <2>1, GateStep
<1>8. CASE \E r \in DOMAIN runs, e \in Env :
              Start(r, e) \/ (Reject(r) /\ e = Prod) \/ (SkipProd(r) /\ e = Prod)
  <2>1. PICK r \in DOMAIN runs, e \in Env :
           Start(r, e) \/ (Reject(r) /\ e = Prod) \/ (SkipProd(r) /\ e = Prod)
    BY <1>8
  <2>2. UNCHANGED <<main, aws, spent, offbook, upsets>> /\ \E j : Moved(r, e, j)
    BY <2>1, OneStep
  <2> QED BY <1>0, <1>b, <2>2 DEF Moved
<1>9. CASE \E r \in DOMAIN runs, e \in Env : PlanEnv(r, e)
  <2>1. PICK r \in DOMAIN runs, e \in Env : PlanEnv(r, e)
    BY <1>9
  <2> QED BY <1>0, <1>b, <2>1, PlanStep
<1>10. CASE \E r \in DOMAIN runs, e \in Env : Enter(r, e)
  <2>1. PICK r \in DOMAIN runs, e \in Env : Enter(r, e)
    BY <1>10
  <2> QED BY <1>0, <2>1, EnterStep
<1>11. CASE \E r \in DOMAIN runs, e \in Env : Begin(r, e)
  <2>1. PICK r \in DOMAIN runs, e \in Env : Begin(r, e)
    BY <1>11
  <2>2. AwsTyped(aws')
    BY <1>0, <2>1, BeginStep, AwsStepTyped
  <2> QED BY <1>0, <1>b, <2>1, <2>2, BeginStep DEF Moved
<1>12. CASE \E r \in DOMAIN runs, e \in Env : Finish(r, e)
  <2>1. PICK r \in DOMAIN runs, e \in Env : Finish(r, e)
    BY <1>12
  <2>2. AwsTyped(aws')
    BY <1>0, <2>1, FinishStep, AwsStepTyped
  <2> QED BY <1>0, <1>b, <2>1, <2>2, FinishStep DEF Moved
<1>13. CASE \E r \in DOMAIN runs, e \in Env : Die(r, e)
  <2>1. PICK r \in DOMAIN runs, e \in Env : Die(r, e)
    BY <1>13
  <2>2. AwsTyped(aws')
    BY <1>0, <2>1, DieStep, AwsStepTyped
  <2>0. upsets' = upsets + 1 /\ upsets < MaxUpsets
    BY <2>1, DieStep
  <2>3. upsets' \in 0..MaxUpsets
    BY <1>0, <2>0, TerraformAssumption
  <2> QED BY <1>0, <1>b, <2>1, <2>2, <2>3, DieStep DEF Moved
<1>14. CASE UNCHANGED vars
  BY <1>0, <1>14 DEF vars
<1> QED
  BY <1>1, <1>2, <1>3, <1>4, <1>5, <1>6, <1>7, <1>8, <1>9, <1>10, <1>11, <1>12, <1>13, <1>14,
     TerraformAssumption
  DEF Next, ApplyJob

(* Every variable stays in its type. *)
THEOREM TypeCorrect == Spec => []TypeOK
<1>1. TypeInv => TypeOK
  BY DEF TypeInv
<1> QED BY <1>1, InitTypeInv, NextTypeInv, PTL DEF Spec

-----------------------------------------------------------------------------
(* How the invariant of one run survives the steps. *)

(* A push only appends to main. *)
LEMMA MainGrows ==
  ASSUME NEW x, NEW m, NEW n, NEW a, NEW off, RunInv(x, m, a, off), n[x.commit] = m[x.commit]
  PROVE  RunInv(x, n, a, off)
BY DEF RunInv, ProdInv

LEMMA NewRunInv ==
  ASSUME NEW c \in 1..(MaxMerges + 1), NEW m, NEW a, NEW off
  PROVE  RunInv(NewRun(c), m, a, off) /\ \A e \in Env : NewRun(c).apply[e] = "needs"
<1>1. /\ NewRun(c).gate = "todo" /\ \A e \in Env : NewRun(c).apply[e] = "needs"
      /\ \A e \in Env : NewRun(c).plan[e].is = "todo"
  BY DEF NewRun
<1>2. Prod \in Env
  BY TerraformAssumption
<1> QED BY <1>1, <1>2 DEF RunInv, GateInv, PlanInv, ProdInv, Started

LEMMA PlanKeeps ==
  ASSUME NEW x \in Run, NEW m, NEW a, NEW off, RunInv(x, m, a, off), NEW e \in Env,
         NEW p \in Plan, x.plan[e].is = "todo",
         p.is = "ok" => p.serial = a[e].serial /\ p.seen = a[e].real,
         a[e].serial \in Nat
  PROVE  /\ RunInv([x EXCEPT !.plan[e] = p], m, a, off)
         /\ [x EXCEPT !.plan[e] = p].apply = x.apply
<1> DEFINE y == [x EXCEPT !.plan[e] = p]
<1>1. /\ x.plan \in [Env -> Plan] /\ y.apply = x.apply /\ y.gate = x.gate
      /\ \A d \in Env : y.plan[d] = IF d = e THEN p ELSE x.plan[d]
      /\ x.gate \in {"todo", "on", "off"}
  BY DEF Run
<1>2. Prod \in Env
  BY TerraformAssumption
<1> HIDE DEF y
<1>3. x.gate # "on" /\ \A d \in Env : x.apply[d] \in {"needs", "none"}
  BY <1>1 DEF RunInv, GateInv
<1>4. GateInv(y)
  BY <1>1, <1>3 DEF RunInv, GateInv
<1>5. PlanInv(y, a, off)
  BY <1>1, <1>3 DEF RunInv, PlanInv
<1>6. ProdInv(y, m)
  BY <1>1, <1>2, <1>3 DEF ProdInv, Started
<1> QED BY <1>1, <1>4, <1>5, <1>6 DEF RunInv, y

LEMMA BudgetKeeps ==
  ASSUME NEW x \in Run, NEW m, NEW a, NEW off, RunInv(x, m, a, off), NEW b
  PROVE  /\ RunInv([x EXCEPT !.budget = b], m, a, off)
         /\ [x EXCEPT !.budget = b].apply = x.apply
<1> DEFINE y == [x EXCEPT !.budget = b]
<1>1. y.plan = x.plan /\ y.apply = x.apply /\ y.gate = x.gate /\ y.commit = x.commit
  BY DEF Run
<1> HIDE DEF y
<1>2. RunInv(y, m, a, off)
  BY <1>1 DEF RunInv, GateInv, PlanInv, ProdInv
<1> QED BY <1>1, <1>2 DEF y

LEMMA GateKeeps ==
  ASSUME NEW x \in Run, NEW m, NEW a, NEW off, RunInv(x, m, a, off),
         NEW g \in {"on", "off"}, NEW j \in [Env -> Job],
         g = "on" => /\ \A e \in Env : x.plan[e].is = "ok"
                     /\ \A e \in Env : j[e] = IF x.plan[e].seen # m[x.commit].want[e]
                                             THEN "needs" ELSE "none",
         g = "off" => \A e \in Env : j[e] = "none"
  PROVE  /\ RunInv([x EXCEPT !.gate = g, !.apply = j], m, a, off)
         /\ \A e \in Env : [x EXCEPT !.gate = g, !.apply = j].apply[e] # "applying"
<1> DEFINE y == [x EXCEPT !.gate = g, !.apply = j]
<1>1. y.plan = x.plan /\ y.apply = j /\ y.gate = g /\ y.commit = x.commit
  BY DEF Run
<1>2. Prod \in Env /\ Nonprod \subseteq Env
  BY TerraformAssumption DEF Nonprod
<1> HIDE DEF y
<1>3. \A e \in Env : j[e] \in {"needs", "none"}
  OBVIOUS
<1>4. GateInv(y)
  BY <1>1 DEF GateInv
<1>a. \A e \in Env : y.apply[e] # "applying"
  BY <1>1, <1>3
<1>5. PlanInv(y, a, off)
  <2>1. PlanInv(x, a, off)
    BY DEF RunInv
  <2> SUFFICES ASSUME NEW e \in Env
               PROVE  /\ y.plan[e].is = "ok" =>
                            /\ y.plan[e].serial <= a[e].serial
                            /\ y.plan[e].serial = a[e].serial /\ e \notin off => a[e].real = y.plan[e].seen
                      /\ y.apply[e] = "applying" => a[e].locked /\ y.plan[e].serial = a[e].serial
    BY DEF PlanInv
  <2>2. x.plan[e].is = "ok" =>
          /\ x.plan[e].serial <= a[e].serial
          /\ x.plan[e].serial = a[e].serial /\ e \notin off => a[e].real = x.plan[e].seen
    BY <2>1 DEF PlanInv
  <2>3. y.plan[e] = x.plan[e] /\ y.apply[e] # "applying"
    BY <1>1, <1>a
  <2> QED BY <2>2, <2>3
<1>6. ProdInv(y, m)
  BY <1>1, <1>2, <1>3 DEF ProdInv, Started
<1> QED BY <1>1, <1>3, <1>4, <1>5, <1>6 DEF RunInv, y

(* AWS changes in one environment: what a plan of the same serial saw      *)
(* stays, or the environment is off the books.                             *)
LEMMA AwsKeeps ==
  ASSUME NEW x \in Run, NEW m, NEW a, NEW off, RunInv(x, m, a, off), AwsTyped(a),
         NEW e \in Env, NEW b, NEW oof, off \subseteq oof,
         \A d \in Env \ {e} : b[d] = a[d],
         b[e].serial \in Nat, a[e].serial <= b[e].serial,
         b[e].serial = a[e].serial /\ e \notin oof => b[e].real = a[e].real,
         x.apply[e] = "applying" => b[e].locked /\ b[e].serial = a[e].serial
  PROVE  RunInv(x, m, b, oof)
<1>1. \A d \in Env : a[d].serial \in Nat /\ x.plan[d].serial \in Nat
  BY RunFields DEF AwsTyped, Plan
<1>2. ASSUME NEW d \in Env
      PROVE  /\ x.plan[d].is = "ok" =>
                   /\ x.plan[d].serial <= b[d].serial
                   /\ x.plan[d].serial = b[d].serial /\ d \notin oof => b[d].real = x.plan[d].seen
             /\ x.apply[d] = "applying" => b[d].locked /\ x.plan[d].serial = b[d].serial
  <2>1. CASE d = e
    BY <1>1, <2>1 DEF RunInv, PlanInv
  <2>2. CASE d # e
    BY <2>2 DEF RunInv, PlanInv
  <2> QED BY <2>1, <2>2
<1> QED BY <1>2 DEF RunInv, PlanInv

(* An apply begins: it has the lock, and its plan is of this state. *)
LEMMA JobApplies ==
  ASSUME NEW x \in Run, NEW m, NEW a, NEW off, RunInv(x, m, a, off), NEW e \in Env,
         x.apply[e] = "running", a[e].locked, x.plan[e].serial = a[e].serial
  PROVE  RunInv([x EXCEPT !.apply[e] = "applying"], m, a, off)
<1> DEFINE y == [x EXCEPT !.apply[e] = "applying"]
<1>1. /\ x.apply \in [Env -> Job] /\ y.plan = x.plan /\ y.gate = x.gate /\ y.commit = x.commit
      /\ \A d \in Env : y.apply[d] = IF d = e THEN "applying" ELSE x.apply[d]
      /\ x.gate \in {"todo", "on", "off"}
  BY DEF Run
<1>2. Prod \in Env /\ Nonprod \subseteq Env /\ Prod \notin Nonprod
  BY TerraformAssumption DEF Nonprod
<1> HIDE DEF y
<1>3. GateInv(y)
  BY <1>1 DEF RunInv, GateInv
<1>4. PlanInv(y, a, off)
  BY <1>1 DEF RunInv, PlanInv
<1>5. y.apply[Prod] \in Started => x.apply[Prod] \in Started
  BY <1>1, <1>2 DEF Started
<1>6. ProdInv(y, m)
  BY <1>1, <1>2, <1>5 DEF RunInv, ProdInv
<1> QED BY <1>3, <1>4, <1>6 DEF RunInv, y

-----------------------------------------------------------------------------
(* The invariant of all the runs. *)

LEMMA InitInv == Init => Inv
<1> SUFFICES ASSUME Init PROVE Inv
  OBVIOUS
<1>1. DOMAIN runs = {}
  BY DEF Init
<1> QED BY <1>1 DEF Inv, Alone

(* Apart from the run r, runs, main and AWS are as they were, and r does   *)
(* not begin an apply.                                                     *)
LEMMA OneRunKeeps ==
  ASSUME TypeInv, Inv, NEW r \in DOMAIN runs, NEW y, Replaced(r, y),
         UNCHANGED <<main, aws, offbook>>, RunInv(y, main, aws, offbook),
         \A e \in Env : y.apply[e] = "applying" => runs[r].apply[e] = "applying"
  PROVE  Inv'
<1>1. /\ DOMAIN runs' = DOMAIN runs
      /\ \A q \in DOMAIN runs : runs'[q] = IF q = r THEN y ELSE runs[q]
  BY TypeParts, ReplacedTyped
<1>2. \A q \in DOMAIN runs : RunInv(runs'[q], main, aws, offbook)
  BY <1>1 DEF Inv
<1>3. \A q \in DOMAIN runs, e \in Env :
         runs'[q].apply[e] = "applying" => runs[q].apply[e] = "applying"
  BY <1>1
<1>4. Alone(runs')
  BY <1>1, <1>3 DEF Inv, Alone
<1> QED BY <1>1, <1>2, <1>4 DEF Inv

(* The apply r of e ends: nobody else applies e, so nobody's plan is of    *)
(* the state it leaves unless it leaves it as it was.                      *)
LEMMA EndKeeps ==
  ASSUME TypeInv, Inv, NEW r \in DOMAIN runs, NEW e \in Env, NEW j \in {"ok", "failed"},
         NEW n \in Nat, NEW l, NEW v,
         runs[r].apply[e] = "applying", Moved(r, e, j), AwsStep(e, n, l, v),
         aws[e].serial <= n, n = aws[e].serial => e \in offbook', offbook \subseteq offbook',
         UNCHANGED main
  PROVE  Inv'
<1> DEFINE y == [runs[r] EXCEPT !.apply[e] = j]
<1>1. /\ DOMAIN runs' = DOMAIN runs
      /\ \A q \in DOMAIN runs : runs'[q] = IF q = r THEN y ELSE runs[q]
      /\ \A q \in DOMAIN runs : runs[q] \in Run
      /\ AwsTyped(aws) /\ aws[e].serial \in Nat
  BY TypeParts, ReplacedTyped DEF Moved, RunsTyped, AwsTyped
<1>2. /\ aws'[e].serial = n /\ AwsTyped(aws') /\ \A d \in Env \ {e} : aws'[d] = aws[d]
  <2>1. \A d \in Env : aws'[d] = IF d = e THEN [serial |-> n, locked |-> l, real |-> v] ELSE aws[d]
    BY <1>1, AwsStepTyped
  <2> QED BY <1>1, <2>1, AwsStepTyped
<1>3. \A d \in Env : y.apply[d] = IF d = e THEN j ELSE runs[r].apply[d]
  BY <1>1, RunFields
<1>4. RunInv(y, main, aws, offbook)
  <2>1. RunInv(runs[r], main, aws, offbook) /\ runs[r] \in Run
    BY <1>1 DEF Inv
  <2>2. runs[r].gate = "on"
    BY <2>1 DEF RunInv, GateInv, Run
  <2>3. e = Prod => \A d \in Nonprod : runs[r].apply[d] \in {"none", "ok"}
    BY <2>1 DEF RunInv, ProdInv, Started
  <2>4. j \in Job \ {"needs", "applying"} /\ j # "none"
    BY DEF Job
  <2> QED BY <2>1, <2>2, <2>3, <2>4, JobMoves
<1> HIDE DEF y
<1>5. \A q \in DOMAIN runs : runs'[q].apply[e] # "applying"
  BY <1>1, <1>3 DEF Inv, Alone
<1>6. \A q \in DOMAIN runs : RunInv(runs'[q], main, aws, offbook) /\ runs'[q] \in Run
  <2>1. y \in Run
    BY DEF Moved, Replaced, y
  <2> QED BY <1>1, <1>4, <2>1 DEF Inv
<1>7. ASSUME NEW q \in DOMAIN runs
      PROVE  RunInv(runs'[q], main', aws', offbook')
  <2> DEFINE x == runs'[q]
  <2>1. RunInv(x, main, aws, offbook) /\ x \in Run /\ x.apply[e] # "applying"
    BY <1>5, <1>6
  <2> HIDE DEF x
  <2>2. RunInv(x, main, aws', offbook')
    BY <1>1, <1>2, <2>1, AwsKeeps
  <2> QED BY <2>2 DEF x
<1>8. \A q \in DOMAIN runs, d \in Env :
         runs'[q].apply[d] = "applying" => runs[q].apply[d] = "applying"
  BY <1>1, <1>3
<1>9. Alone(runs')
  BY <1>1, <1>8 DEF Inv, Alone
<1> QED BY <1>1, <1>7, <1>9 DEF Inv

(* AWS changes in e under runs that stay as they are. *)
LEMMA AwsChangeKeeps ==
  ASSUME TypeInv, Inv, NEW e \in Env, NEW l, NEW v, AwsStep(e, aws[e].serial, l, v),
         v = aws[e].real \/ e \in offbook', offbook \subseteq offbook', UNCHANGED <<main, runs>>,
         \A q \in DOMAIN runs : runs[q].apply[e] = "applying" => l
  PROVE  Inv'
<1>1. AwsTyped(aws) /\ aws[e].serial \in Nat /\ \A q \in DOMAIN runs : runs[q] \in Run
  BY TypeParts DEF RunsTyped, AwsTyped
<1>2. \A d \in Env :
         aws'[d] = IF d = e THEN [serial |-> aws[e].serial, locked |-> l, real |-> v] ELSE aws[d]
  BY <1>1, AwsStepTyped
<1>3. /\ aws'[e].serial = aws[e].serial /\ aws'[e].locked = l /\ aws'[e].real = v
      /\ \A d \in Env \ {e} : aws'[d] = aws[d]
  BY <1>2
<1>4. ASSUME NEW q \in DOMAIN runs
      PROVE  RunInv(runs[q], main, aws', offbook')
  <2> DEFINE x == runs[q]
  <2>1. RunInv(x, main, aws, offbook) /\ x \in Run /\ (x.apply[e] = "applying" => aws'[e].locked)
    BY <1>1, <1>3 DEF Inv
  <2> HIDE DEF x
  <2>2. RunInv(x, main, aws', offbook')
    BY <1>1, <1>3, <2>1, AwsKeeps
  <2> QED BY <2>2 DEF x
<1> QED BY <1>4 DEF Inv

LEMMA NewRunKeeps ==
  ASSUME TypeInv, Inv, RunsTyped(runs, main), NEW c \in 1..(MaxMerges + 1),
         DOMAIN runs' = DOMAIN runs \cup {Len(runs) + 1},
         runs'[Len(runs) + 1] = NewRun(c), \A q \in DOMAIN runs : runs'[q] = runs[q],
         \A i \in 1..Len(main) : main'[i] = main[i], UNCHANGED <<aws, offbook>>
  PROVE  Inv'
<1>1. \A q \in DOMAIN runs : runs[q].commit \in 1..Len(main)
  <2>1. ASSUME NEW q \in DOMAIN runs PROVE runs[q].commit \in 1..Len(main)
    <3>1. runs[q] \in Run /\ runs[q].commit <= Len(main)
      BY DEF RunsTyped
    <3>2. runs[q].commit \in Nat /\ runs[q].commit >= 1
      BY <3>1, RunFields, TerraformAssumption
    <3>3. Len(main) \in Nat
      BY TypeParts, TerraformAssumption
    <3> QED BY <3>1, <3>2, <3>3
  <2> QED BY <2>1
<1>2. ASSUME NEW q \in DOMAIN runs
      PROVE  RunInv(runs[q], main', aws', offbook')
  <2> DEFINE x == runs[q]
  <2>1. RunInv(x, main, aws, offbook) /\ main'[x.commit] = main[x.commit]
    BY <1>1 DEF Inv
  <2> HIDE DEF x
  <2>2. RunInv(x, main', aws, offbook)
    BY <2>1, MainGrows
  <2> QED BY <2>2 DEF x
<1>3. RunInv(NewRun(c), main', aws', offbook') /\ \A e \in Env : NewRun(c).apply[e] = "needs"
  BY NewRunInv
<1>4. \A q \in DOMAIN runs' : RunInv(runs'[q], main', aws', offbook')
  BY <1>2, <1>3
<1>5. Alone(runs')
  BY <1>3 DEF Inv, Alone
<1> QED BY <1>4, <1>5 DEF Inv

LEMMA EnterKeeps ==
  ASSUME TypeInv, Inv, NEW r \in DOMAIN runs, NEW e \in Env, Enter(r, e)
  PROVE  Inv'
<1>s. Superseded(r, e)
  BY EnterStep
<1>0. \A q \in DOMAIN runs \ {r} :
         \/ runs'[q] = runs[q]
         \/ /\ runs[q].apply[e] = "queued"
            /\ runs'[q] = [runs[q] EXCEPT !.apply[e] = "cancelled"]
  BY <1>s DEF Superseded
<1>1. /\ Needs(r, e) /\ UNCHANGED <<main, aws, offbook>> /\ DOMAIN runs' = DOMAIN runs
      /\ \A q \in DOMAIN runs : runs[q] \in Run /\ RunInv(runs[q], main, aws, offbook)
  <2>1. RunsTyped(runs, main)
    BY TypeParts
  <2>2. \A q \in DOMAIN runs : runs[q] \in Run /\ RunInv(runs[q], main, aws, offbook)
    BY <2>1 DEF RunsTyped, Inv
  <2>3. Needs(r, e) /\ UNCHANGED <<main, aws, offbook>> /\ DOMAIN runs' = DOMAIN runs
    BY EnterStep
  <2> QED BY <2>2, <2>3
<1>2. ASSUME NEW q \in DOMAIN runs
      PROVE  /\ RunInv(runs'[q], main, aws, offbook)
             /\ \A d \in Env : runs'[q].apply[d] = "applying" => runs[q].apply[d] = "applying"
  <2> DEFINE x == runs[q]
  <2>1. /\ runs[q] \in Run /\ RunInv(runs[q], main, aws, offbook)
        /\ runs[q].apply \in [Env -> Job]
    BY <1>1, RunFields
  <2>2. CASE q = r
    <3>1. PICK k \in {"queued", "running"} : runs'[q] = [runs[q] EXCEPT !.apply[e] = k]
      BY <2>2, EnterStep
    <3>2. /\ runs[q].gate = "on" /\ runs[q].apply[e] = "needs"
          /\ e = Prod => \A d \in Nonprod : runs[q].apply[d] \in {"none", "ok"}
      BY <1>1, <2>2 DEF Needs, NonprodDone
    <3>3. k \in Job \ {"needs", "applying"} /\ k # "none"
      BY DEF Job
    <3>4. RunInv([runs[q] EXCEPT !.apply[e] = k], main, aws, offbook)
      BY <2>1, <3>2, <3>3, JobMoves
    <3>5. \A d \in Env : [runs[q] EXCEPT !.apply[e] = k].apply[d]
                           = IF d = e THEN k ELSE runs[q].apply[d]
      BY <2>1
    <3> QED BY <3>1, <3>4, <3>5
  <2>3. CASE runs'[q] = runs[q]
    BY <2>1, <2>3
  <2>4. CASE /\ runs[q].apply[e] = "queued"
             /\ runs'[q] = [runs[q] EXCEPT !.apply[e] = "cancelled"]
    <3>1. runs[q].gate = "on"
      BY <2>1, <2>4 DEF RunInv, GateInv, Run
    <3>2. "cancelled" \in Job \ {"needs", "applying"} /\ "cancelled" \notin Started
      BY DEF Job, Started
    <3>3. RunInv([runs[q] EXCEPT !.apply[e] = "cancelled"], main, aws, offbook)
      BY <2>1, <2>4, <3>1, <3>2, JobMoves
    <3>4. \A d \in Env : [runs[q] EXCEPT !.apply[e] = "cancelled"].apply[d]
                           = IF d = e THEN "cancelled" ELSE runs[q].apply[d]
      BY <2>1
    <3> QED BY <2>4, <3>3, <3>4
  <2>5. \/ q = r \/ runs'[q] = runs[q]
        \/ /\ runs[q].apply[e] = "queued"
           /\ runs'[q] = [runs[q] EXCEPT !.apply[e] = "cancelled"]
    BY <1>0
  <2> QED BY <2>2, <2>3, <2>4, <2>5
<1>3. Alone(runs')
  BY <1>1, <1>2 DEF Inv, Alone
<1> QED BY <1>1, <1>2, <1>3 DEF Inv

(* The lock was free: nobody was applying. *)
LEMMA BeginKeeps ==
  ASSUME TypeInv, Inv, NEW r \in DOMAIN runs, NEW e \in Env, Begin(r, e)
  PROVE  Inv'
<1>1. /\ runs[r].apply[e] = "running" /\ UNCHANGED <<main, offbook>>
      /\ AwsTyped(aws) /\ aws[e].serial \in Nat
      /\ \A q \in DOMAIN runs : runs[q] \in Run /\ RunInv(runs[q], main, aws, offbook)
  <2>1. RunsTyped(runs, main) /\ AwsTyped(aws)
    BY TypeParts
  <2>2. \A q \in DOMAIN runs : runs[q] \in Run /\ RunInv(runs[q], main, aws, offbook)
    BY <2>1 DEF RunsTyped, Inv
  <2>3. runs[r].apply[e] = "running" /\ UNCHANGED <<main, offbook>>
    BY BeginStep
  <2> QED BY <2>1, <2>2, <2>3 DEF AwsTyped
<1>2. runs[r].gate = "on" /\ \A d \in Env : runs[r].plan[d].is = "ok"
  BY <1>1 DEF RunInv, GateInv, Run
<1>3. CASE Moved(r, e, "failed") /\ UNCHANGED aws
  <2> DEFINE y == [runs[r] EXCEPT !.apply[e] = "failed"]
  <2>1. "failed" \in Job \ {"needs", "applying"} /\ "failed" # "none"
    BY DEF Job
  <2>2. e = Prod => \A d \in Nonprod : runs[r].apply[d] \in {"none", "ok"}
    BY <1>1 DEF RunInv, ProdInv, Started
  <2>3. RunInv(y, main, aws, offbook)
    BY <1>1, <1>2, <2>1, <2>2, JobMoves
  <2>4. \A d \in Env : y.apply[d] = "applying" => runs[r].apply[d] = "applying"
    BY <1>1, RunFields
  <2>5. Replaced(r, y)
    BY <1>3 DEF Moved
  <2> HIDE DEF y
  <2> QED BY <1>1, <1>3, <2>3, <2>4, <2>5, OneRunKeeps
<1>4. CASE /\ ~aws[e].locked /\ Current(r, e) /\ Moved(r, e, "applying")
           /\ AwsStep(e, aws[e].serial, TRUE, aws[e].real)
  <2> DEFINE y == [runs[r] EXCEPT !.apply[e] = "applying"]
  <2>1. /\ DOMAIN runs' = DOMAIN runs
        /\ \A q \in DOMAIN runs : runs'[q] = IF q = r THEN y ELSE runs[q]
    BY <1>4, TypeParts, ReplacedTyped DEF Moved
  <2>2. \A d \in Env : aws'[d] = IF d = e
                                 THEN [serial |-> aws[e].serial, locked |-> TRUE, real |-> aws[e].real]
                                 ELSE aws[d]
    <3> DEFINE n == aws[e].serial
               v == aws[e].real
    <3>1. AwsTyped(aws) /\ AwsStep(e, n, TRUE, v)
      BY <1>1, <1>4
    <3> HIDE DEF n, v
    <3>2. \A d \in Env : aws'[d] = IF d = e THEN [serial |-> n, locked |-> TRUE, real |-> v] ELSE aws[d]
      BY <3>1, AwsStepTyped
    <3> QED BY <3>2 DEF n, v
  <2>3. /\ aws'[e].serial = aws[e].serial /\ aws'[e].locked /\ aws'[e].real = aws[e].real
        /\ \A d \in Env \ {e} : aws'[d] = aws[d]
    BY <2>2
  <2>4. \A q \in DOMAIN runs : runs[q].apply[e] # "applying"
    BY <1>1, <1>4 DEF RunInv, PlanInv
  <2>5. ASSUME NEW q \in DOMAIN runs
        PROVE  RunInv(runs[q], main, aws', offbook)
    <3> DEFINE x == runs[q]
    <3>1. RunInv(x, main, aws, offbook) /\ x \in Run /\ x.apply[e] # "applying"
      BY <1>1, <2>4
    <3> HIDE DEF x
    <3>2. RunInv(x, main, aws', offbook)
      BY <1>1, <2>3, <3>1, AwsKeeps
    <3> QED BY <3>2 DEF x
  <2>6. runs[r].plan[e].serial = aws'[e].serial
    BY <1>4, <2>3 DEF Current
  <2>7. RunInv(y, main, aws', offbook)
    BY <1>1, <2>3, <2>5, <2>6, JobApplies
  <2>8. \A d \in Env : y.apply[d] = IF d = e THEN "applying" ELSE runs[r].apply[d]
    BY <1>1, RunFields
  <2> HIDE DEF y
  <2>9. \A q \in DOMAIN runs' : RunInv(runs'[q], main', aws', offbook')
    BY <1>1, <2>1, <2>5, <2>7
  <2>10. ASSUME NEW q \in DOMAIN runs, NEW p \in DOMAIN runs, NEW d \in Env,
                runs'[q].apply[d] = "applying", runs'[p].apply[d] = "applying"
         PROVE  q = p
    <3>1. CASE d = e
      BY <2>1, <2>4, <2>10, <3>1
    <3>2. CASE d # e
      <4>1. runs[q].apply[d] = "applying" /\ runs[p].apply[d] = "applying"
        BY <2>1, <2>8, <2>10, <3>2
      <4> QED BY <4>1 DEF Inv, Alone
    <3> QED BY <3>1, <3>2
  <2>11. Alone(runs')
    BY <2>1, <2>10 DEF Alone
  <2> QED BY <2>9, <2>11 DEF Inv
<1> QED BY <1>3, <1>4, BeginStep

(* A step that moves the job e of run r on, and nothing else. *)
LEMMA JobKeeps ==
  ASSUME TypeInv, Inv, NEW r \in DOMAIN runs, NEW e \in Env,
         NEW j \in Job \ {"needs", "applying"}, Moved(r, e, j), UNCHANGED <<main, aws, offbook>>,
         runs[r].gate = "on", runs[r].apply[e] \in {"needs", "queued", "running", "applying"},
         e \in Nonprod => j # "none",
         e = Prod /\ j \in Started => \A d \in Nonprod : runs[r].apply[d] \in {"none", "ok"}
  PROVE  Inv'
<1> DEFINE y == [runs[r] EXCEPT !.apply[e] = j]
<1>1. runs[r] \in Run
  <2>1. RunsTyped(runs, main)
    BY TypeParts
  <2> QED BY <2>1 DEF RunsTyped
<1>2. RunInv(runs[r], main, aws, offbook)
  BY DEF Inv
<1>3. RunInv(y, main, aws, offbook)
  BY <1>1, <1>2, JobMoves
<1>4. \A d \in Env : y.apply[d] = "applying" => runs[r].apply[d] = "applying"
  BY <1>1, RunFields
<1>5. Replaced(r, y)
  BY DEF Moved
<1> HIDE DEF y
<1> QED BY <1>3, <1>4, <1>5, OneRunKeeps

LEMMA NextInv == TypeInv /\ Inv /\ [Next]_vars => Inv'
<1> SUFFICES ASSUME TypeInv, Inv, [Next]_vars PROVE Inv'
  OBVIOUS
<1>0. RunsTyped(runs, main) /\ AwsTyped(aws) /\ Len(main) \in 1..(MaxMerges + 1) /\ Len(main) \in Nat
  BY TypeParts, TerraformAssumption
<1>a. ASSUME NEW r \in DOMAIN runs
      PROVE  runs[r] \in Run /\ RunInv(runs[r], main, aws, offbook)
  BY <1>0 DEF RunsTyped, Inv
<1>1. CASE Merge
  <2>1. /\ main' \in Seq(Commit) /\ Len(main') = Len(main) + 1 /\ Len(main') <= MaxMerges + 1
        /\ \A i \in 1..Len(main) : main'[i] = main[i]
        /\ Len(runs) < MaxRuns /\ runs' = Append(runs, NewRun(Len(main) + 1))
    BY <1>1, MergeStep
  <2>2. Len(main) + 1 \in 1..(MaxMerges + 1) /\ Len(main) + 1 <= Len(main')
    BY <1>0, <2>1, TerraformAssumption
  <2>3. /\ DOMAIN runs' = DOMAIN runs \cup {Len(runs) + 1}
        /\ runs'[Len(runs) + 1] = NewRun(Len(main) + 1)
        /\ \A q \in DOMAIN runs : runs'[q] = runs[q]
    BY <1>0, <2>1, <2>2, NewRunTyped
  <2> QED BY <1>0, <1>1, <2>1, <2>2, <2>3, NewRunKeeps DEF Merge
<1>2. CASE Dispatch
  <2>1. Len(runs) < MaxRuns /\ runs' = Append(runs, NewRun(Len(main)))
        /\ UNCHANGED <<main, aws, offbook>>
    BY <1>2 DEF Dispatch
  <2>2. /\ DOMAIN runs' = DOMAIN runs \cup {Len(runs) + 1}
        /\ runs'[Len(runs) + 1] = NewRun(Len(main))
        /\ \A q \in DOMAIN runs : runs'[q] = runs[q]
    BY <1>0, <2>1, NewRunTyped
  <2>3. \A i \in 1..Len(main) : main'[i] = main[i]
    BY <2>1
  <2> QED BY <1>0, <2>1, <2>2, <2>3, NewRunKeeps
<1>3. CASE Traffic
  BY <1>3 DEF Traffic, Inv
<1>4. ASSUME NEW e \in Env, ByHand(e)
      PROVE  Inv'
  <2>1. PICK v \in Value : AwsStep(e, aws[e].serial, aws[e].locked, v)
    BY <1>4, ByHandStep
  <2>2. /\ UNCHANGED <<main, runs>> /\ e \in offbook' /\ offbook \subseteq offbook'
    BY <1>4, ByHandStep
  <2>3. \A q \in DOMAIN runs : runs[q].apply[e] = "applying" => aws[e].locked
    BY <1>a DEF RunInv, PlanInv
  <2> DEFINE l == aws[e].locked
  <2>4. AwsStep(e, aws[e].serial, l, v) /\ \A q \in DOMAIN runs : runs[q].apply[e] = "applying" => l
    BY <2>1, <2>3
  <2> HIDE DEF l
  <2> QED BY <2>2, <2>4, AwsChangeKeeps
<1>5. ASSUME NEW e \in Env, Unlock(e)
      PROVE  Inv'
  <2>1. AwsStep(e, aws[e].serial, FALSE, aws[e].real)
    BY <1>0, <1>5, LockStep DEF Unlock
  <2>2. UNCHANGED <<main, runs>> /\ offbook \subseteq offbook'
    BY <1>5 DEF Unlock
  <2>3. \A q \in DOMAIN runs : runs[q].apply[e] # "applying"
    BY <1>5 DEF Unlock
  <2> QED BY <2>1, <2>2, <2>3, AwsChangeKeeps
<1>6. ASSUME NEW r \in DOMAIN runs, Budget(r)
      PROVE  Inv'
  <2>1. UNCHANGED <<main, aws, offbook>>
    BY <1>6, BudgetStep
  <2>2. PICK b \in {"ok", "no"} : Replaced(r, [runs[r] EXCEPT !.budget = b])
    BY <1>6, BudgetStep
  <2> DEFINE y == [runs[r] EXCEPT !.budget = b]
  <2>3. RunInv(y, main, aws, offbook) /\ y.apply = runs[r].apply
    BY <1>a, BudgetKeeps
  <2>4. Replaced(r, y)
    BY <2>2
  <2> HIDE DEF y
  <2>5. \A e \in Env : y.apply[e] = "applying" => runs[r].apply[e] = "applying"
    BY <2>3
  <2> QED BY <2>1, <2>3, <2>4, <2>5, OneRunKeeps
<1>7. ASSUME NEW r \in DOMAIN runs, Gate(r)
      PROVE  Inv'
  <2>1. UNCHANGED <<main, aws, offbook>>
    BY <1>7, GateStep
  <2>2. PICK g \in {"on", "off"}, j \in [Env -> Job] :
           /\ Replaced(r, [runs[r] EXCEPT !.gate = g, !.apply = j])
           /\ g = "on" => /\ \A e \in Env : runs[r].plan[e].is = "ok"
                          /\ \A e \in Env : j[e] = IF Changes(r, e) THEN "needs" ELSE "none"
           /\ g = "off" => \A e \in Env : j[e] = "none"
    BY <1>7, GateStep
  <2> DEFINE y == [runs[r] EXCEPT !.gate = g, !.apply = j]
  <2>3. g = "on" => \A e \in Env :
           j[e] = IF runs[r].plan[e].seen # main[runs[r].commit].want[e] THEN "needs" ELSE "none"
    BY <2>2 DEF Changes, Want
  <2>4. RunInv(y, main, aws, offbook) /\ \A e \in Env : y.apply[e] # "applying"
    <3> DEFINE x == runs[r]
    <3>1. x \in Run /\ RunInv(x, main, aws, offbook)
      BY <1>a
    <3>2. g = "on" => /\ \A e \in Env : x.plan[e].is = "ok"
                      /\ \A e \in Env : j[e] = IF x.plan[e].seen # main[x.commit].want[e]
                                              THEN "needs" ELSE "none"
      BY <2>2, <2>3
    <3>3. g = "off" => \A e \in Env : j[e] = "none"
      BY <2>2
    <3> HIDE DEF x
    <3>4. RunInv([x EXCEPT !.gate = g, !.apply = j], main, aws, offbook)
      BY <3>1, <3>2, <3>3, GateKeeps
    <3>5. \A e \in Env : [x EXCEPT !.gate = g, !.apply = j].apply[e] # "applying"
      BY <3>1, <3>2, <3>3, GateKeeps
    <3> QED BY <3>4, <3>5 DEF x
  <2>5. Replaced(r, y)
    BY <2>2
  <2> HIDE DEF y
  <2> QED BY <2>1, <2>4, <2>5, OneRunKeeps
<1>8. ASSUME NEW r \in DOMAIN runs, NEW e \in Env,
             Start(r, e) \/ (Reject(r) /\ e = Prod) \/ (SkipProd(r) /\ e = Prod)
      PROVE  Inv'
  <2>1. UNCHANGED <<main, aws, offbook>>
    BY <1>8, OneStep
  <2>2. e = Prod => e \notin Nonprod
    BY DEF Nonprod
  <2>3. ASSUME runs[r].apply[e] = "queued", NEW j \in {"running", "cancelled"}, Moved(r, e, j)
        PROVE  Inv'
    <3>1. runs[r].gate = "on"
      BY <1>a, <2>3 DEF RunInv, GateInv, Run
    <3>2. e = Prod => \A d \in Nonprod : runs[r].apply[d] \in {"none", "ok"}
      BY <1>a, <2>3 DEF RunInv, ProdInv, Started
    <3>3. j \in Job \ {"needs", "applying"} /\ j # "none"
      BY DEF Job
    <3> QED BY <2>1, <2>3, <3>1, <3>2, <3>3, JobKeeps
  <2>4. ASSUME runs[r].gate = "on", runs[r].apply[e] = "needs", e = Prod, Moved(r, e, "none")
        PROVE  Inv'
    <3>1. "none" \in Job \ {"needs", "applying"} /\ "none" \notin Started
      BY DEF Job, Started
    <3> QED BY <2>1, <2>2, <2>4, <3>1, JobKeeps
  <2> QED BY <1>8, <2>3, <2>4, OneStep
<1>9. ASSUME NEW r \in DOMAIN runs, NEW e \in Env, PlanEnv(r, e)
      PROVE  Inv'
  <2>1. UNCHANGED <<main, aws, offbook>> /\ runs[r].plan[e].is = "todo"
    BY <1>9, PlanStep
  <2>2. PICK p \in Plan :
           /\ p.is = "ok" => p.serial = aws[e].serial /\ p.seen = aws[e].real
           /\ Replaced(r, [runs[r] EXCEPT !.plan[e] = p])
    BY <1>9, PlanStep
  <2> DEFINE y == [runs[r] EXCEPT !.plan[e] = p]
  <2>3. aws[e].serial \in Nat
    BY <1>0 DEF AwsTyped
  <2>4. RunInv(y, main, aws, offbook) /\ y.apply = runs[r].apply
    BY <1>a, <2>1, <2>2, <2>3, PlanKeeps
  <2>5. Replaced(r, y)
    BY <2>2
  <2> HIDE DEF y
  <2>6. \A d \in Env : y.apply[d] = "applying" => runs[r].apply[d] = "applying"
    BY <2>4
  <2> QED BY <2>1, <2>4, <2>5, <2>6, OneRunKeeps
<1>10. ASSUME NEW r \in DOMAIN runs, NEW e \in Env, Finish(r, e)
       PROVE  Inv'
  <2>1. runs[r].apply[e] = "applying" /\ UNCHANGED main /\ UNCHANGED offbook
    BY <1>10, FinishStep
  <2>2. PICK j \in {"ok", "failed"} : Moved(r, e, j)
    BY <1>10, FinishStep
  <2>3. PICK v \in {Want(r, e), Half} : AwsStep(e, aws[e].serial + 1, FALSE, v)
    BY <1>10, FinishStep
  <2>4. aws[e].serial \in Nat
    BY <1>0 DEF AwsTyped
  <2> DEFINE n == aws[e].serial + 1
  <2>5. n \in Nat /\ aws[e].serial <= n /\ n # aws[e].serial
    BY <2>4
  <2>6. AwsStep(e, n, FALSE, v)
    BY <2>3
  <2> HIDE DEF n
  <2> QED BY <2>1, <2>2, <2>5, <2>6, EndKeeps
<1>11. ASSUME NEW r \in DOMAIN runs, NEW e \in Env, Die(r, e)
       PROVE  Inv'
  <2>1. runs[r].apply[e] = "applying" /\ UNCHANGED main /\ e \in offbook' /\ offbook \subseteq offbook'
    BY <1>11, DieStep
  <2>2. Moved(r, e, "failed")
    BY <1>11, DieStep
  <2>3. PICK k \in {0, 1} : AwsStep(e, aws[e].serial + k, TRUE, Half)
    BY <1>11, DieStep
  <2>4. aws[e].serial \in Nat
    BY <1>0 DEF AwsTyped
  <2> DEFINE n == aws[e].serial + k
  <2>5. n \in Nat /\ aws[e].serial <= n
    BY <2>4
  <2>6. AwsStep(e, n, TRUE, Half)
    BY <2>3
  <2> HIDE DEF n
  <2> QED BY <2>1, <2>2, <2>5, <2>6, EndKeeps
<1>12. CASE UNCHANGED vars
  BY <1>12 DEF vars, Inv
<1>13. ASSUME NEW r \in DOMAIN runs, NEW e \in Env, ApplyJob(r, e)
       PROVE  Inv'
  BY <1>10, <1>13, EnterKeeps, BeginKeeps DEF ApplyJob
<1>14. ASSUME NEW r \in DOMAIN runs, Reject(r) \/ SkipProd(r)
       PROVE  Inv'
  BY <1>8, <1>14, TerraformAssumption
<1> QED
  BY <1>1, <1>2, <1>3, <1>4, <1>5, <1>6, <1>7, <1>8, <1>9, <1>11, <1>12, <1>13, <1>14 DEF Next

-----------------------------------------------------------------------------
(* The properties. *)

LEMMA InvHolds == Spec => [](TypeInv /\ Inv)
BY InitTypeInv, NextTypeInv, InitInv, NextInv, PTL DEF Spec

(* An apply finds the resources its plan showed - its plan is of this      *)
(* serial, and behind a serial only hand changes and a job's death change  *)
(* anything - whatever runs overlap.                                       *)
THEOREM PlansApplyAsSeen == Spec => []AppliesWhatWasSeen
<1>1. ASSUME TypeInv, Inv PROVE AppliesWhatWasSeen
  <2> SUFFICES ASSUME NEW r \in DOMAIN runs, NEW e \in Env,
                      runs[r].apply[e] = "applying", e \notin offbook
               PROVE  aws[e].real = runs[r].plan[e].seen
    BY DEF AppliesWhatWasSeen
  <2>1. RunInv(runs[r], main, aws, offbook) /\ runs[r] \in Run
    BY <1>1, TypeParts DEF Inv, RunsTyped
  <2>2. runs[r].plan[e].is = "ok"
    BY <2>1 DEF RunInv, GateInv, Run
  <2> QED BY <2>1, <2>2 DEF RunInv, PlanInv
<1> QED BY <1>1, InvHolds, PTL

(* Prod never starts before, and never after a failure of, its run's other *)
(* environments.                                                           *)
THEOREM ProdFollowsNonprod == Spec => []ProdAfterNonprod
<1>1. ASSUME TypeInv, Inv PROVE ProdAfterNonprod
  <2> SUFFICES ASSUME NEW r \in DOMAIN runs, runs[r].apply[Prod] \in Started, NEW e \in Nonprod
               PROVE  runs[r].apply[e] = "ok" \/ (runs[r].apply[e] = "none" /\ ~Changes(r, e))
    BY DEF ProdAfterNonprod, Started
  <2>1. RunInv(runs[r], main, aws, offbook) /\ runs[r] \in Run
    BY <1>1, TypeParts DEF Inv, RunsTyped
  <2>2. runs[r].gate = "on"
    BY <2>1, TerraformAssumption DEF RunInv, GateInv, Run, Started
  <2> QED BY <2>1, <2>2 DEF RunInv, ProdInv, Changes, Want
<1> QED BY <1>1, InvHolds, PTL

-----------------------------------------------------------------------------
(* The refinement: the runs carry out reviewed changes, one by one. *)

(* What a step leaves of the plans of an environment: every run's commit   *)
(* and plan, main's commits, and new runs have no plan yet.                *)
Kept(e) ==
    /\ \A i \in 1..Len(main) : main'[i] = main[i]
    /\ DOMAIN runs \subseteq DOMAIN runs'
    /\ \A q \in DOMAIN runs' \ DOMAIN runs : runs'[q].plan[e].is # "ok"
    /\ \A q \in DOMAIN runs : /\ runs'[q].commit = runs[q].commit
                              /\ runs'[q].plan[e] = runs[q].plan[e]

(* A run's commit is one of main's. *)
LEMMA CommitIsThere ==
  ASSUME TypeInv, NEW r \in DOMAIN runs
  PROVE  runs[r] \in Run /\ runs[r].commit \in 1..Len(main) /\ DOMAIN main = 1..Len(main)
<1>1. RunsTyped(runs, main) /\ main \in Seq(Commit)
  BY TypeParts
<1>2. runs[r] \in Run /\ runs[r].commit <= Len(main)
  BY <1>1 DEF RunsTyped
<1>3. runs[r].commit \in 1..(MaxMerges + 1)
  BY <1>2, RunFields
<1> QED BY <1>1, <1>2, <1>3, TerraformAssumption

LEMMA WantKept ==
  ASSUME TypeInv, NEW e \in Env, Kept(e), NEW r \in DOMAIN runs
  PROVE  Want(r, e)' = Want(r, e)
BY CommitIsThere DEF Kept, Want

(* Plans that are kept stay reviewed as long as the state's serial does... *)
LEMMA SameSerial ==
  ASSUME TypeInv, NEW e \in Env, Kept(e), aws'[e].serial = aws[e].serial
  PROVE  ReviewedOf(e)' = ReviewedOf(e)
<1> DEFINE S == {q \in DOMAIN runs : runs[q].plan[e].is = "ok" /\ Current(q, e)}
           T == {q \in DOMAIN runs' : runs'[q].plan[e].is = "ok" /\ Current(q, e)'}
<1>1. S = T
  BY DEF Kept, Current
<1>2. \A q \in S : /\ runs'[q].plan[e].seen = runs[q].plan[e].seen
                   /\ Want(q, e)' = Want(q, e)
  BY WantKept DEF Kept
<1>3. ReviewedOf(e) = {[from |-> runs[q].plan[e].seen, to |-> Want(q, e)] : q \in S}
  BY DEF ReviewedOf
<1>4. ReviewedOf(e)' = {[from |-> runs'[q].plan[e].seen, to |-> Want(q, e)'] : q \in T}
  BY DEF ReviewedOf
<1> HIDE DEF S, T
<1> QED BY <1>1, <1>2, <1>3, <1>4

(* ... and a later serial voids them all. *)
LEMMA LaterSerial ==
  ASSUME TypeInv, Inv, NEW e \in Env, Kept(e), aws[e].serial \in Nat,
         aws'[e].serial = aws[e].serial + 1
  PROVE  ReviewedOf(e)' = {}
<1>1. ASSUME NEW q \in DOMAIN runs', runs'[q].plan[e].is = "ok"
      PROVE  ~Current(q, e)'
  <2>1. q \in DOMAIN runs /\ runs'[q].plan[e] = runs[q].plan[e]
    BY <1>1 DEF Kept
  <2>2. runs[q] \in Run /\ RunInv(runs[q], main, aws, offbook)
    BY <2>1, CommitIsThere DEF Inv
  <2>3. runs[q].plan[e].serial \in Nat
    BY <2>2, RunFields DEF Plan
  <2>4. runs[q].plan[e].serial <= aws[e].serial
    BY <1>1, <2>1, <2>2 DEF RunInv, PlanInv
  <2> QED BY <2>1, <2>3, <2>4 DEF Current
<1> QED BY <1>1 DEF ReviewedOf

(* The steps that replace a run and leave its plans. *)
LEMMA ReplacedKept ==
  ASSUME TypeInv, NEW r \in DOMAIN runs, NEW y, Replaced(r, y), UNCHANGED main,
         y.plan = runs[r].plan, NEW e \in Env
  PROVE  Kept(e)
<1>1. /\ DOMAIN runs' = DOMAIN runs
      /\ \A q \in DOMAIN runs : runs'[q] = IF q = r THEN y ELSE runs[q]
  BY TypeParts, ReplacedTyped
<1> QED BY <1>1 DEF Kept, Replaced

LEMMA MovedKept ==
  ASSUME TypeInv, NEW r \in DOMAIN runs, NEW d \in Env, NEW j, Moved(r, d, j),
         UNCHANGED main, NEW e \in Env
  PROVE  Kept(e)
<1> DEFINE y == [runs[r] EXCEPT !.apply[d] = j]
<1>1. runs[r] \in Run
  BY CommitIsThere
<1>2. y.plan = runs[r].plan
  BY <1>1 DEF Run
<1>3. Replaced(r, y)
  BY DEF Moved
<1> HIDE DEF y
<1> QED BY <1>2, <1>3, ReplacedKept

(* A step that keeps every plan and leaves AWS' serials and resources, and *)
(* main, is none of a change.                                              *)
LEMMA Nothing ==
  ASSUME TypeInv, UNCHANGED <<main, offbook>>,
         \A e \in Env : /\ Kept(e)
                        /\ aws'[e].serial = aws[e].serial /\ aws'[e].real = aws[e].real
  PROVE  UNCHANGED R!vars
<1>1. Asked' = Asked
  BY DEF Asked, AskedOf
<1>2. \A e \in Env : ReviewedOf(e)' = ReviewedOf(e)
  BY SameSerial
<1>3. Reviewed' = Reviewed
  BY <1>2 DEF Reviewed
<1>4. Real' = Real
  BY DEF Real
<1> QED BY <1>1, <1>3, <1>4 DEF R!vars

(* A step of one environment's state, plans kept: what is there and what   *)
(* stays reviewed.                                                         *)
LEMMA OneEnvironment ==
  ASSUME TypeInv, Inv, NEW e \in Env, NEW n, NEW l, NEW v, AwsStep(e, n, l, v),
         n = aws[e].serial \/ n = aws[e].serial + 1, \A d \in Env : Kept(d)
  PROVE  /\ Real' = [Real EXCEPT ![e] = v]
         /\ n = aws[e].serial => Reviewed' = Reviewed
         /\ n # aws[e].serial => Reviewed' = [Reviewed EXCEPT ![e] = {}]
<1>1. AwsTyped(aws) /\ aws[e].serial \in Nat
  BY TypeParts DEF AwsTyped
<1>2. \A d \in Env : aws'[d] = IF d = e THEN [serial |-> n, locked |-> l, real |-> v] ELSE aws[d]
  BY <1>1, AwsStepTyped
<1>3. /\ aws'[e].serial = n /\ aws'[e].real = v
      /\ \A d \in Env \ {e} : aws'[d] = aws[d]
  BY <1>2
<1>4. Real' = [Real EXCEPT ![e] = v]
  BY <1>3 DEF Real
<1>5. \A d \in Env \ {e} : ReviewedOf(d)' = ReviewedOf(d)
  BY <1>3, SameSerial
<1>6. CASE n = aws[e].serial
  <2>1. ReviewedOf(e)' = ReviewedOf(e)
    BY <1>3, <1>6, SameSerial
  <2>2. Reviewed' = Reviewed
    BY <1>5, <2>1 DEF Reviewed
  <2> QED BY <1>4, <1>6, <2>2
<1>7. CASE n # aws[e].serial
  <2>1. ReviewedOf(e)' = {}
    BY <1>1, <1>3, <1>7, LaterSerial
  <2>2. Reviewed' = [Reviewed EXCEPT ![e] = {}]
    BY <1>5, <2>1 DEF Reviewed
  <2> QED BY <1>4, <1>7, <2>2
<1> QED BY <1>6, <1>7

LEMMA InitRefined == Init => R!Init
<1> SUFFICES ASSUME Init PROVE R!Init
  OBVIOUS
<1>1. DOMAIN main = {1} /\ main[1].want = First /\ DOMAIN runs = {}
  BY DEF Init
<1>2. \A e \in Env : AskedOf(e) = {First[e]} /\ ReviewedOf(e) = {}
  BY <1>1 DEF AskedOf, ReviewedOf
<1>3. Asked = [e \in Env |-> {First[e]}] /\ Reviewed = [e \in Env |-> {}]
  BY <1>2 DEF Asked, Reviewed
<1>4. Real = First
  BY TerraformAssumption DEF Init, Real
<1> QED BY <1>3, <1>4 DEF Init, R!Init

(* A push asks for one more thing of each environment. *)
LEMMA MergeRefined ==
  ASSUME TypeInv, Merge
  PROVE  R!Merge
<1>1. PICK w \in [Env -> Value] : \E f \in BOOLEAN : main' = Append(main, [want |-> w, fix |-> f])
  BY DEF Merge
<1>2. main \in Seq(Commit) /\ RunsTyped(runs, main) /\ Len(main) \in 1..(MaxMerges + 1)
  BY TypeParts
<1>3. /\ DOMAIN main = 1..Len(main) /\ DOMAIN main' = 1..(Len(main) + 1) /\ Len(main) \in Nat
      /\ \A i \in 1..Len(main) : main'[i] = main[i]
      /\ main'[Len(main) + 1].want = w
  BY <1>1, <1>2
<1>4. /\ main' \in Seq(Commit) /\ Len(main') = Len(main) + 1 /\ Len(main') <= MaxMerges + 1
      /\ Len(runs) < MaxRuns /\ runs' = Append(runs, NewRun(Len(main) + 1))
      /\ UNCHANGED <<aws, spent, offbook, upsets>>
  BY MergeStep
<1>5. Len(main) + 1 \in 1..(MaxMerges + 1) /\ Len(main) <= Len(main') /\ Len(main) + 1 <= Len(main')
  BY <1>2, <1>4, TerraformAssumption
<1>6. /\ DOMAIN runs' = DOMAIN runs \cup {Len(runs) + 1}
      /\ runs'[Len(runs) + 1] = NewRun(Len(main) + 1)
      /\ \A q \in DOMAIN runs : runs'[q] = runs[q]
  BY <1>2, <1>3, <1>4, <1>5, NewRunTyped
<1>7. \A e \in Env : Kept(e)
  BY <1>3, <1>6 DEF Kept, NewRun
<1>8. \A e \in Env : ReviewedOf(e)' = ReviewedOf(e)
  BY <1>4, <1>7, SameSerial
<1>9. \A e \in Env : AskedOf(e)' = AskedOf(e) \cup {w[e]}
  <2> TAKE e \in Env
  <2>1. AskedOf(e)' = {main'[c].want[e] : c \in 1..(Len(main) + 1)}
    BY <1>3 DEF AskedOf
  <2>2. AskedOf(e) = {main[c].want[e] : c \in 1..Len(main)}
    BY <1>3 DEF AskedOf
  <2>3. \A c : c \in 1..(Len(main) + 1) <=> c \in 1..Len(main) \/ c = Len(main) + 1
    BY <1>3
  <2> QED BY <1>3, <2>1, <2>2, <2>3
<1>10. Asked' = [e \in Env |-> Asked[e] \cup {w[e]}] /\ Reviewed' = Reviewed
  BY <1>8, <1>9 DEF Asked, Reviewed
<1>11. UNCHANGED <<Real, offbook>>
  BY <1>4 DEF Real
<1> QED BY <1>10, <1>11 DEF R!Merge

(* A saved plan is a review; a failed one is none. *)
LEMMA PlanRefined ==
  ASSUME TypeInv, NEW r \in DOMAIN runs, NEW e \in Env, PlanEnv(r, e)
  PROVE  R!Review(e) \/ UNCHANGED R!vars
<1>1. runs[r].plan[e].is = "todo" /\ UNCHANGED <<main, aws, offbook>>
  BY PlanStep
<1>2. PICK p \in Plan :
         /\ p.is = "ok" => p.serial = aws[e].serial /\ p.seen = aws[e].real
         /\ Replaced(r, [runs[r] EXCEPT !.plan[e] = p])
  BY PlanStep
<1>3. runs[r] \in Run /\ runs[r].commit \in 1..Len(main) /\ DOMAIN main = 1..Len(main)
  BY CommitIsThere
<1> DEFINE y == [runs[r] EXCEPT !.plan[e] = p]
<1>4. y.commit = runs[r].commit /\ \A d \in Env : y.plan[d] = IF d = e THEN p ELSE runs[r].plan[d]
  BY <1>3, RunFields
<1>5. Replaced(r, y)
  BY <1>2
<1> HIDE DEF y
<1>6. /\ DOMAIN runs' = DOMAIN runs
      /\ \A q \in DOMAIN runs : runs'[q] = IF q = r THEN y ELSE runs[q]
  BY <1>5, TypeParts, ReplacedTyped
<1>7. \A q \in DOMAIN runs, d \in Env : Want(q, d)' = Want(q, d)
  BY <1>1, <1>4, <1>6 DEF Want
<1>8. \A d \in Env \ {e} : ReviewedOf(d)' = ReviewedOf(d)
  <2>1. \A d \in Env \ {e} : Kept(d)
    BY <1>1, <1>4, <1>6 DEF Kept
  <2> QED BY <1>1, <2>1, SameSerial
<1>9. Asked' = Asked /\ Real' = Real
  BY <1>1 DEF Asked, AskedOf, Real
<1> DEFINE S == {q \in DOMAIN runs : runs[q].plan[e].is = "ok" /\ Current(q, e)}
           T == {q \in DOMAIN runs' : runs'[q].plan[e].is = "ok" /\ Current(q, e)'}
           Seen(q) == [from |-> runs[q].plan[e].seen, to |-> Want(q, e)]
<1>10. \A q \in S : runs'[q].plan[e] = runs[q].plan[e] /\ Want(q, e)' = Want(q, e)
  BY <1>1, <1>6, <1>7
<1>11. ReviewedOf(e) = {Seen(q) : q \in S}
  BY DEF ReviewedOf
<1>12. ReviewedOf(e)' = {[from |-> runs'[q].plan[e].seen, to |-> Want(q, e)'] : q \in T}
  BY DEF ReviewedOf
<1>13. CASE p.is = "ok"
  <2>1. T = S \cup {r}
    BY <1>1, <1>2, <1>4, <1>6, <1>13 DEF Current
  <2>2. runs'[r].plan[e].seen = aws[e].real /\ Want(r, e)' = Want(r, e)
    BY <1>2, <1>4, <1>6, <1>7, <1>13
  <2> DEFINE c == [from |-> aws[e].real, to |-> Want(r, e)]
  <2>3. ReviewedOf(e)' = ReviewedOf(e) \cup {c}
    <3> HIDE DEF S, T
    <3> QED BY <1>10, <1>11, <1>12, <2>1, <2>2
  <2>4. Reviewed' = [Reviewed EXCEPT ![e] = @ \cup {c}]
    <3> HIDE DEF c
    <3> QED BY <1>8, <2>3 DEF Reviewed
  <2>5. c = [from |-> Real[e], to |-> Want(r, e)] /\ Want(r, e) \in Asked[e]
    BY <1>3 DEF Real, Asked, AskedOf, Want
  <2> QED BY <1>1, <1>9, <2>4, <2>5 DEF R!Review
<1>14. CASE p.is # "ok"
  <2>1. T = S
    BY <1>1, <1>2, <1>4, <1>6, <1>14 DEF Current
  <2>2. ReviewedOf(e)' = ReviewedOf(e)
    <3> HIDE DEF S, T
    <3> QED BY <1>10, <1>11, <1>12, <2>1
  <2>3. Reviewed' = Reviewed
    BY <1>8, <2>2 DEF Reviewed
  <2> QED BY <1>1, <1>9, <2>3 DEF R!vars
<1> QED BY <1>13, <1>14

(* The end of an apply carries out what its run reviewed. *)
LEMMA FinishRefined ==
  ASSUME TypeInv, Inv, NEW r \in DOMAIN runs, NEW e \in Env, Finish(r, e)
  PROVE  \E change \in Reviewed[e] : R!CarryOut(e, change)
<1> DEFINE change == [from |-> runs[r].plan[e].seen, to |-> Want(r, e)]
<1>1. runs[r].apply[e] = "applying" /\ UNCHANGED <<main, offbook>>
  BY FinishStep
<1>2. runs[r] \in Run /\ RunInv(runs[r], main, aws, offbook)
  BY CommitIsThere DEF Inv
<1>3. runs[r].plan[e].is = "ok"
  BY <1>1, <1>2 DEF RunInv, GateInv, Run
<1>4. /\ runs[r].plan[e].serial = aws[e].serial
      /\ e \notin offbook => aws[e].real = runs[r].plan[e].seen
  BY <1>1, <1>2, <1>3 DEF RunInv, PlanInv
<1>5. change \in Reviewed[e]
  BY <1>3, <1>4 DEF Reviewed, ReviewedOf, Current
<1>6. e \notin offbook => Real[e] = change.from
  BY <1>4 DEF Real
<1>7. PICK v \in {Want(r, e), Half} : AwsStep(e, aws[e].serial + 1, FALSE, v)
  BY FinishStep
<1>8. \A d \in Env : Kept(d)
  BY <1>1, FinishStep, MovedKept
<1>9. Real' = [Real EXCEPT ![e] = v] /\ Reviewed' = [Reviewed EXCEPT ![e] = {}]
  <2>1. PICK n, l : n = aws[e].serial + 1 /\ AwsStep(e, n, l, v)
    BY <1>7
  <2>2. aws[e].serial \in Nat
    BY TypeParts DEF AwsTyped
  <2>3. n = aws[e].serial + 1 /\ n # aws[e].serial
    BY <2>1, <2>2
  <2> HIDE DEF change
  <2> QED BY <1>8, <2>1, <2>3, OneEnvironment
<1>10. v \in {change.to, Half}
  BY <1>7
<1>11. Asked' = Asked
  BY <1>1 DEF Asked, AskedOf
<1> HIDE DEF change
<1> QED BY <1>1, <1>5, <1>6, <1>9, <1>10, <1>11 DEF R!CarryOut

(* A change by hand, and an apply that dies. *)
LEMMA UpsetRefined ==
  ASSUME TypeInv, Inv, NEW e \in Env,
         ByHand(e) \/ \E r \in DOMAIN runs : Die(r, e)
  PROVE  R!Upset(e)
<1>1. CASE ByHand(e)
  <2>1. UNCHANGED <<main, runs>> /\ offbook' = offbook \cup {e}
    BY <1>1, ByHandStep
  <2>2. PICK v \in Value : AwsStep(e, aws[e].serial, aws[e].locked, v)
    BY <1>1, ByHandStep
  <2>3. \A d \in Env : Kept(d)
    BY <2>1 DEF Kept
  <2>5. Real' = [Real EXCEPT ![e] = v] /\ Reviewed' = Reviewed
    BY <2>2, <2>3, OneEnvironment
  <2>6. Asked' = Asked
    BY <2>1 DEF Asked, AskedOf
  <2> QED BY <2>1, <2>5, <2>6 DEF R!Upset
<1>2. CASE \E r \in DOMAIN runs : Die(r, e)
  <2>1. PICK r \in DOMAIN runs : Die(r, e)
    BY <1>2
  <2>2. UNCHANGED main /\ offbook' = offbook \cup {e} /\ Moved(r, e, "failed")
    BY <2>1, DieStep
  <2>3. PICK n \in {0, 1} : AwsStep(e, aws[e].serial + n, TRUE, Half)
    BY <2>1, DieStep
  <2>4. \A d \in Env : Kept(d)
    BY <2>2, MovedKept
  <2>5. /\ Real' = [Real EXCEPT ![e] = Half]
        /\ Reviewed' \in {Reviewed, [Reviewed EXCEPT ![e] = {}]}
    <3> DEFINE m == aws[e].serial + n
    <3>0. aws[e].serial \in Nat
      BY TypeParts DEF AwsTyped
    <3>1. m = aws[e].serial \/ m = aws[e].serial + 1
      BY <3>0
    <3>2. AwsStep(e, m, TRUE, Half)
      BY <2>3
    <3> HIDE DEF m
    <3> DEFINE Void == [Reviewed EXCEPT ![e] = {}]
    <3>3. /\ Real' = [Real EXCEPT ![e] = Half]
          /\ m = aws[e].serial => Reviewed' = Reviewed
          /\ m # aws[e].serial => Reviewed' = Void
      BY <2>4, <3>1, <3>2, OneEnvironment
    <3> HIDE DEF Void
    <3>4. Reviewed' \in {Reviewed, Void}
      BY <3>3
    <3> QED BY <3>3, <3>4 DEF Void
  <2>6. Asked' = Asked
    BY <2>2 DEF Asked, AskedOf
  <2> QED BY <2>2, <2>5, <2>6 DEF R!Upset
<1> QED BY <1>1, <1>2

LEMMA OnlyLock ==
  ASSUME AwsTyped(aws), NEW e \in Env, NEW l, AwsStep(e, aws[e].serial, l, aws[e].real), NEW d \in Env
  PROVE  aws'[d].serial = aws[d].serial /\ aws'[d].real = aws[d].real
<1> DEFINE n == aws[e].serial
           v == aws[e].real
<1>1. aws'[d] = IF d = e THEN [serial |-> n, locked |-> l, real |-> v] ELSE aws[d]
  BY AwsStepTyped
<1> HIDE DEF n, v
<1>2. d # e => aws'[d] = aws[d]
  BY <1>1
<1>3. d = e => aws'[d].serial = n /\ aws'[d].real = v
  BY <1>1
<1> QED BY <1>2, <1>3 DEF n, v

LEMMA NextRefined == TypeInv /\ Inv /\ [Next]_vars => [R!Next]_(R!vars)
<1> SUFFICES ASSUME TypeInv, Inv, [Next]_vars PROVE R!Next \/ UNCHANGED R!vars
  OBVIOUS
<1>0. AwsTyped(aws) /\ RunsTyped(runs, main) /\ Len(main) \in 1..(MaxMerges + 1) /\ Len(main) \in Nat
  BY TypeParts, TerraformAssumption
<1>1. CASE Merge
  BY <1>1, MergeRefined DEF R!Next
<1>2. CASE Dispatch
  <2>1. Len(runs) < MaxRuns /\ runs' = Append(runs, NewRun(Len(main)))
        /\ UNCHANGED <<main, aws, offbook>>
    BY <1>2 DEF Dispatch
  <2>2. /\ DOMAIN runs' = DOMAIN runs \cup {Len(runs) + 1}
        /\ runs'[Len(runs) + 1] = NewRun(Len(main))
        /\ \A q \in DOMAIN runs : runs'[q] = runs[q]
    BY <1>0, <2>1, NewRunTyped
  <2>3. \A e \in Env : Kept(e)
    BY <2>1, <2>2 DEF Kept, NewRun
  <2> QED BY <2>1, <2>3, Nothing
<1>3. CASE Traffic
  <2>1. UNCHANGED <<main, runs, aws, offbook>>
    BY <1>3 DEF Traffic
  <2>2. \A e \in Env : Kept(e)
    BY <2>1 DEF Kept
  <2> QED BY <2>1, <2>2, Nothing
<1>4. ASSUME NEW e \in Env, ByHand(e) \/ \E r \in DOMAIN runs : Die(r, e)
      PROVE  R!Next
  BY <1>4, UpsetRefined DEF R!Next
<1>5. ASSUME NEW e \in Env, Unlock(e)
      PROVE  UNCHANGED R!vars
  <2>1. UNCHANGED <<main, runs, offbook>>
    BY <1>5 DEF Unlock
  <2>2. AwsStep(e, aws[e].serial, FALSE, aws[e].real)
    BY <1>0, <1>5, LockStep DEF Unlock
  <2>3. \A d \in Env : aws'[d].serial = aws[d].serial /\ aws'[d].real = aws[d].real
    BY <1>0, <2>2, OnlyLock
  <2>4. \A d \in Env : Kept(d)
    BY <2>1 DEF Kept
  <2> QED BY <2>1, <2>3, <2>4, Nothing
<1>6. ASSUME NEW r \in DOMAIN runs, Budget(r)
      PROVE  UNCHANGED R!vars
  <2>1. PICK b \in {"ok", "no"} : Replaced(r, [runs[r] EXCEPT !.budget = b])
    BY <1>6, BudgetStep
  <2>2. UNCHANGED <<main, aws, offbook>>
    BY <1>6, BudgetStep
  <2> DEFINE y == [runs[r] EXCEPT !.budget = b]
  <2>3. y.plan = runs[r].plan /\ Replaced(r, y)
    BY <2>1, CommitIsThere DEF Run
  <2> HIDE DEF y
  <2>4. \A e \in Env : Kept(e)
    BY <2>2, <2>3, ReplacedKept
  <2> QED BY <2>2, <2>4, Nothing
<1>7. ASSUME NEW r \in DOMAIN runs, Gate(r)
      PROVE  UNCHANGED R!vars
  <2>1. PICK g \in {"on", "off"}, j \in [Env -> Job] :
           Replaced(r, [runs[r] EXCEPT !.gate = g, !.apply = j])
    BY <1>7, GateStep
  <2>2. UNCHANGED <<main, aws, offbook>>
    BY <1>7, GateStep
  <2> DEFINE y == [runs[r] EXCEPT !.gate = g, !.apply = j]
  <2>3. y.plan = runs[r].plan /\ Replaced(r, y)
    BY <2>1, CommitIsThere DEF Run
  <2> HIDE DEF y
  <2>4. \A e \in Env : Kept(e)
    BY <2>2, <2>3, ReplacedKept
  <2> QED BY <2>2, <2>4, Nothing
<1>8. ASSUME NEW r \in DOMAIN runs, NEW e \in Env,
             Start(r, e) \/ (Reject(r) /\ e = Prod) \/ (SkipProd(r) /\ e = Prod)
      PROVE  UNCHANGED R!vars
  <2>1. UNCHANGED <<main, aws, offbook>> /\ \E j : Moved(r, e, j)
    BY <1>8, OneStep
  <2>2. \A d \in Env : Kept(d)
    BY <2>1, MovedKept
  <2> QED BY <2>1, <2>2, Nothing
<1>9. ASSUME NEW r \in DOMAIN runs, NEW e \in Env, Enter(r, e)
      PROVE  UNCHANGED R!vars
  <2>1. UNCHANGED <<main, aws, offbook>> /\ DOMAIN runs' = DOMAIN runs
    BY <1>9, EnterStep
  <2>2. PICK k \in {"queued", "running"} : runs'[r] = [runs[r] EXCEPT !.apply[e] = k]
    BY <1>9, EnterStep
  <2>3. Superseded(r, e)
    BY <1>9, EnterStep
  <2>4. ASSUME NEW q \in DOMAIN runs
        PROVE  runs'[q].commit = runs[q].commit /\ runs'[q].plan = runs[q].plan
    <3>1. \A j : /\ [runs[q] EXCEPT !.apply[e] = j].commit = runs[q].commit
                 /\ [runs[q] EXCEPT !.apply[e] = j].plan = runs[q].plan
      BY CommitIsThere DEF Run
    <3>2. runs'[q] = runs[q] \/ \E j : runs'[q] = [runs[q] EXCEPT !.apply[e] = j]
      BY <2>2, <2>3 DEF Superseded
    <3> QED BY <3>1, <3>2
  <2>5. \A d \in Env : Kept(d)
    BY <2>1, <2>4 DEF Kept
  <2> QED BY <2>1, <2>5, Nothing
<1>10. ASSUME NEW r \in DOMAIN runs, NEW e \in Env, Begin(r, e)
       PROVE  UNCHANGED R!vars
  <2>1. UNCHANGED <<main, offbook>> /\ \E j : Moved(r, e, j)
    BY <1>10, BeginStep
  <2>2. \A d \in Env : Kept(d)
    BY <2>1, MovedKept
  <2>3. UNCHANGED aws \/ AwsStep(e, aws[e].serial, TRUE, aws[e].real)
    BY <1>10, BeginStep
  <2>4. \A d \in Env : aws'[d].serial = aws[d].serial /\ aws'[d].real = aws[d].real
    BY <1>0, <2>3, OnlyLock
  <2> QED BY <2>1, <2>2, <2>4, Nothing
<1>11. ASSUME NEW r \in DOMAIN runs, NEW e \in Env, Finish(r, e)
       PROVE  R!Next
  BY <1>11, FinishRefined DEF R!Next
<1>12. ASSUME NEW r \in DOMAIN runs, NEW e \in Env, PlanEnv(r, e)
       PROVE  R!Next \/ UNCHANGED R!vars
  BY <1>12, PlanRefined DEF R!Next
<1>13. CASE UNCHANGED vars
  <2>1. \A e \in Env : Kept(e)
    BY <1>13 DEF vars, Kept
  <2> QED BY <1>13, <2>1, Nothing DEF vars
<1>14. ASSUME NEW r \in DOMAIN runs, Reject(r) \/ SkipProd(r)
       PROVE  UNCHANGED R!vars
  BY <1>8, <1>14, TerraformAssumption
<1> HIDE DEF R!Next, R!vars
<1> QED
  BY <1>1, <1>2, <1>3, <1>4, <1>5, <1>6, <1>7, <1>8, <1>9, <1>10, <1>11, <1>12, <1>13, <1>14
  DEF Next, ApplyJob

(* However the runs and their jobs overlap, an environment goes from one   *)
(* reviewed change to the next: what main asks for, carried out on what    *)
(* the reviewer saw unless someone went behind the pipeline's back, and    *)
(* everything else reviewed before it void.                                *)
THEOREM AppliesAreReviewedChanges == Spec => OnlyReviewedChanges
BY InitRefined, NextRefined, InvHolds, PTL DEF Spec, OnlyReviewedChanges, R!Spec

=============================================================================
