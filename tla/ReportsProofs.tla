--------------------------- MODULE ReportsProofs ---------------------------
(***************************************************************************)
(* The safety of the reports, for every history they can be made from:     *)
(* dora.py, pipeline_report.py, the cost digest, error_budget.py and       *)
(* flaky.py.  Each has an inductive invariant of its own; the sums that    *)
(* some of them print are counted first.                                   *)
(***************************************************************************)
EXTENDS Dora, PipelineReport, CostReport, ErrorBudget, Flaky, Integers, FiniteSetTheorems, TLAPS

(* Sums.  A sum over a finite set is the number of its units.              *)

(* A nonempty set of numbers has a least one. *)
LEMMA Least ==
  ASSUME NEW T, T \subseteq Nat, T # {}
  PROVE  \E n \in T : \A m \in T : n <= m
<1> DEFINE R == OpToRel(<, Nat)
<1>1. IsWellFoundedOn(R, Nat)
  BY NatLessThanWellFounded
<1>2. \E x \in T : \A y \in T : ~ (<<y, x>> \in R)
  <2> HIDE DEF R
  <2> QED BY <1>1, WFMin
<1>3. \A x, y \in Nat : y < x => <<y, x>> \in R
  BY DEF OpToRel
<1> HIDE DEF R
<1>4. PICK x \in T : \A y \in T : ~ (<<y, x>> \in R)
  BY <1>2
<1>5. ASSUME NEW y \in T PROVE x <= y
  <2>1. x \in Nat /\ y \in Nat /\ ~(y < x)
    BY <1>3, <1>4
  <2> QED BY <2>1
<1> QED BY <1>5

(* What the sums add up, one by one: f[x] units for each x.                *)
Units(f, S) == UNION {{x} \X (1..f[x]) : x \in S}

Count(f, S) == Cardinality(Units(f, S))

LEMMA UnitsOf ==
  ASSUME NEW f, NEW S, NEW u
  PROVE  u \in Units(f, S) <=> \E x \in S : \E i \in 1..f[x] : u = <<x, i>>
  BY DEF Units

LEMMA UnitsOfOne ==
  ASSUME NEW x, NEW n \in Nat
  PROVE  IsFiniteSet({x} \X (1..n)) /\ Cardinality({x} \X (1..n)) = n
<1>1. IsFiniteSet({x}) /\ Cardinality({x}) = 1
  BY FS_Singleton
<1>2. IsFiniteSet(1..n) /\ Cardinality(1..n) = n
  BY FS_Interval
<1>3. /\ IsFiniteSet({x} \X (1..n))
      /\ Cardinality({x} \X (1..n)) = Cardinality({x}) * Cardinality(1..n)
  BY <1>1, <1>2, FS_Product
<1> QED BY <1>1, <1>2, <1>3

LEMMA CountType ==
  ASSUME NEW f, NEW S, IsFiniteSet(S), \A x \in S : f[x] \in Nat
  PROVE  IsFiniteSet(Units(f, S)) /\ Count(f, S) \in Nat
<1> DEFINE U == {{x} \X (1..f[x]) : x \in S}
           g == [x \in S |-> {x} \X (1..f[x])]
<1>1. g \in Surjection(S, U)
  BY DEF Surjection
<1>2. IsFiniteSet(U)
  BY <1>1, FS_Surjection
<1>3. \A u \in U : IsFiniteSet(u)
  <2>1. \A x \in S : IsFiniteSet({x} \X (1..f[x]))
    BY UnitsOfOne
  <2> QED BY <2>1
<1> HIDE DEF U
<1>4. IsFiniteSet(UNION U)
  BY <1>2, <1>3, FS_UNION
<1>5. IsFiniteSet(Units(f, S))
  BY <1>4 DEF Units, U
<1> QED BY <1>5, FS_CardinalityType DEF Count

LEMMA CountOfNone == ASSUME NEW f PROVE Count(f, {}) = 0
<1>1. Units(f, {}) = {}
  BY DEF Units
<1> QED BY <1>1, FS_EmptySet DEF Count

LEMMA CountWith ==
  ASSUME NEW f, NEW S, IsFiniteSet(S), \A x \in S : f[x] \in Nat, NEW x \in S
  PROVE  Count(f, S) = f[x] + Count(f, S \ {x})
<1> DEFINE A == {x} \X (1..f[x])
           B == Units(f, S \ {x})
<1>1. \A u \in A : u[1] = x
  OBVIOUS
<1>2. \A u \in B : u[1] # x
  BY UnitsOf
<1>3. A \cap B = {}
  BY <1>1, <1>2
<1>4. Units(f, S) = A \union B
  BY DEF Units
<1>5. IsFiniteSet(A) /\ Cardinality(A) = f[x] /\ f[x] \in Nat
  BY UnitsOfOne
<1>6. IsFiniteSet(B) /\ Cardinality(B) \in Nat
  <2>1. IsFiniteSet(S \ {x})
    BY FS_RemoveElement
  <2> QED BY <2>1, CountType DEF Count
<1> HIDE DEF A, B
<1>7. Cardinality(A \cap B) = 0
  BY <1>3, FS_EmptySet
<1>8. Cardinality(A \union B) = Cardinality(A) + Cardinality(B) - Cardinality(A \cap B)
  BY <1>5, <1>6, FS_Union
<1> QED BY <1>4, <1>5, <1>6, <1>7, <1>8 DEF Count, B

(* The units of an equal function on the same set, and of a smaller one.   *)
LEMMA CountSame ==
  ASSUME NEW f, NEW g, NEW S, \A x \in S : f[x] = g[x]
  PROVE  Count(f, S) = Count(g, S)
<1>1. \A u : u \in Units(f, S) <=> u \in Units(g, S)
  BY DEF Units
<1> QED BY <1>1 DEF Count

-----------------------------------------------------------------------------
(* A fold of MapThenSumSet. *)
IsFold(h, f, S) ==
    h = [s \in SUBSET S |-> IF s = {} THEN 0
                            ELSE f[CHOOSE x \in s : TRUE] + h[s \ {CHOOSE x \in s : TRUE}]]

LEMMA CountIsFold ==
  ASSUME NEW f, NEW S, IsFiniteSet(S), \A x \in S : f[x] \in Nat
  PROVE  IsFold([s \in SUBSET S |-> Count(f, s)], f, S)
<1> DEFINE g == [s \in SUBSET S |-> Count(f, s)]
<1>1. ASSUME NEW s \in SUBSET S
      PROVE  g[s] = IF s = {} THEN 0
                    ELSE f[CHOOSE x \in s : TRUE] + g[s \ {CHOOSE x \in s : TRUE}]
  <2>1. CASE s = {}
    BY <2>1, CountOfNone
  <2>2. CASE s # {}
    <3> DEFINE c == CHOOSE x \in s : TRUE
    <3>1. c \in s
      BY <2>2
    <3> HIDE DEF c
    <3>2. IsFiniteSet(s) /\ \A x \in s : f[x] \in Nat
      BY FS_Subset
    <3>3. Count(f, s) = f[c] + Count(f, s \ {c})
      BY <3>1, <3>2, CountWith
    <3> QED BY <2>2, <3>3 DEF c
  <2> QED BY <2>1, <2>2
<1> HIDE DEF g
<1>2. g = [s \in SUBSET S |-> g[s]]
  BY DEF g
<1>3. IsFold(g, f, S)
  BY <1>1, <1>2 DEF IsFold
<1> QED BY <1>3 DEF g

LEMMA FoldIsCount ==
  ASSUME NEW f, NEW S, IsFiniteSet(S), \A x \in S : f[x] \in Nat,
         NEW h, IsFold(h, f, S)
  PROVE  h[S] = Count(f, S)
<1> DEFINE Wrong == {s \in SUBSET S : h[s] # Count(f, s)}
           N == {Cardinality(s) : s \in Wrong}
<1> SUFFICES ASSUME Wrong # {} PROVE FALSE
  OBVIOUS
<1>1. \A s \in SUBSET S : IsFiniteSet(s) /\ Cardinality(s) \in Nat
  BY FS_Subset, FS_CardinalityType
<1>2. N # {} /\ N \subseteq Nat
  BY <1>1
<1>3. PICK n \in N : \A m \in N : n <= m
  <2> HIDE DEF N
  <2> QED BY <1>2, Least
<1>4. PICK s \in Wrong : Cardinality(s) = n
  OBVIOUS
<1>5. s # {}
  <2>1. {} \in SUBSET S /\ h[{}] = 0
    BY DEF IsFold
  <2> QED BY <1>4, <2>1, CountOfNone
<1> DEFINE c == CHOOSE x \in s : TRUE
<1>6. c \in s
  BY <1>5
<1>7. h[s] = f[c] + h[s \ {c}]
  BY <1>4, <1>5 DEF IsFold
<1> HIDE DEF c
<1>8. s \ {c} \in SUBSET S /\ Cardinality(s \ {c}) = Cardinality(s) - 1
  <2>1. IsFiniteSet(s)
    BY <1>1, <1>4
  <2> QED BY <1>6, <2>1, FS_RemoveElement
<1>9. s \ {c} \notin Wrong
  <2>1. Cardinality(s \ {c}) \notin N
    BY <1>1, <1>2, <1>3, <1>4, <1>8
  <2> QED BY <2>1
<1>10. h[s \ {c}] = Count(f, s \ {c})
  BY <1>8, <1>9
<1>11. Count(f, s) = f[c] + Count(f, s \ {c})
  BY <1>1, <1>4, <1>6, CountWith
<1> QED BY <1>4, <1>7, <1>10, <1>11

-----------------------------------------------------------------------------
(* dora.py                                                                 *)

Status == {"success", "failure", "error", "none"}

(* A revert is named after what it undid.                                  *)
NamesWhatItUndid(i) ==
    IsRevert(i) => log[i].undoes \in 1..(i - 1) /\ Subject(i)[2] = Subject(log[i].undoes)

DoraInv ==
    /\ log = [i \in Index |-> log[i]] /\ Len(log) \in Nat
    /\ \A i \in Index : log[i].undoes \in 0..(i - 1) /\ NamesWhatItUndid(i)
    /\ applies \in Seq(Status)

LEMMA AppendTo ==
  ASSUME NEW s, NEW x, Len(s) \in Nat, s = [i \in 1..Len(s) |-> s[i]]
  PROVE  /\ Len(Append(s, x)) = Len(s) + 1
         /\ Append(s, x) = [i \in 1..(Len(s) + 1) |-> IF i = Len(s) + 1 THEN x ELSE s[i]]
<1> DEFINE S == {s[i] : i \in 1..Len(s)} \union {x}
<1>1. s \in [1..Len(s) -> S]
  OBVIOUS
<1>2. s \in Seq(S) /\ x \in S
  BY <1>1
<1> HIDE DEF S
<1>3. Append(s, x) \in Seq(S) /\ Len(Append(s, x)) = Len(s) + 1
  BY <1>2
<1>4. \A i \in 1..(Len(s) + 1) : Append(s, x)[i] = IF i = Len(s) + 1 THEN x ELSE s[i]
  BY <1>2
<1>5. Append(s, x) = [i \in 1..(Len(s) + 1) |-> Append(s, x)[i]]
  <2> DEFINE t == Append(s, x)
  <2>1. t \in Seq(S) /\ Len(t) = Len(s) + 1
    BY <1>3
  <2> HIDE DEF t
  <2>2. t = [i \in 1..Len(t) |-> t[i]]
    BY <2>1
  <2> QED BY <2>1, <2>2 DEF t
<1> QED BY <1>3, <1>4, <1>5

LEMMA DoraStart == DoraInit => DoraInv
  BY DEF DoraInit, DoraInv, Index, NamesWhatItUndid

LEMMA LandStep ==
  ASSUME DoraInv, UNCHANGED applies, NEW subj, NEW undoes \in 0..Len(log), Land(subj, undoes),
         subj[1] = "Revert" => undoes # 0 /\ subj[2] = Subject(undoes)
  PROVE  DoraInv'
<1>0. Len(log) \in Nat
  BY DEF DoraInv
<1> PICK n \in Nat : n = Len(log) + 1
  BY <1>0
<1>1. /\ n \in Nat /\ Len(log') = n
      /\ log' = [i \in 1..n |-> IF i = n THEN [subject |-> subj, undoes |-> undoes] ELSE log[i]]
  BY AppendTo DEF DoraInv, Index, Land
<1>2. /\ log'[n].subject = subj /\ log'[n].undoes = undoes
      /\ \A i \in Index : log'[i] = log[i]
  BY <1>1 DEF Index, DoraInv
<1>3. Index' = Index \union {n} /\ \A i \in Index : i < n /\ i \in Nat
  BY <1>1 DEF Index, DoraInv
<1>4. ASSUME NEW i \in Index
      PROVE  log'[i].undoes \in 0..(i - 1) /\ NamesWhatItUndid(i)'
  <2>1. log[i].undoes \in 0..(i - 1) /\ NamesWhatItUndid(i)
    BY DEF DoraInv
  <2>2. \A j \in 1..(i - 1) : j \in Index
    BY DEF Index, DoraInv
  <2> QED BY <1>2, <2>1, <2>2 DEF NamesWhatItUndid, IsRevert, Subject
<1>5. log'[n].undoes \in 0..(n - 1) /\ NamesWhatItUndid(n)'
  <2>1. undoes \in 0..(n - 1)
    BY <1>0
  <2>2. undoes # 0 => undoes \in 1..(n - 1) /\ undoes \in Index
    BY <1>0 DEF Index
  <2>3. IsRevert(n)' => undoes # 0 /\ subj[2] = Subject(undoes)
    BY <1>2 DEF IsRevert, Subject
  <2>4. IsRevert(n)' => Subject(log[n].undoes)' = Subject(undoes)
    BY <1>2, <2>2, <2>3 DEF Subject
  <2>5. Subject(n)' = subj
    BY <1>2 DEF Subject
  <2> QED BY <1>2, <2>1, <2>2, <2>3, <2>4, <2>5 DEF NamesWhatItUndid
<1>6. log' = [i \in Index' |-> log'[i]]
  BY <1>1 DEF Index
<1>7. Len(log') \in Nat /\ applies' \in Seq(Status)
  BY <1>1 DEF DoraInv
<1>8. \A i \in Index' : log'[i].undoes \in 0..(i - 1) /\ NamesWhatItUndid(i)'
  BY <1>3, <1>4, <1>5
<1> QED BY <1>6, <1>7, <1>8 DEF DoraInv

LEMMA DoraStep == DoraInv /\ [DoraNext]_doraVars => DoraInv'
<1> SUFFICES ASSUME DoraInv, [DoraNext]_doraVars PROVE DoraInv'
  OBVIOUS
<1>1. CASE UNCHANGED doraVars
  BY <1>1 DEF DoraInv, doraVars, Index, NamesWhatItUndid, IsRevert, Subject
<1>2. ASSUME NEW d \in Digests, Promote(d) \/ BreakGlass(d), UNCHANGED applies PROVE DoraInv'
  <2>1. 0 \in 0..Len(log)
    BY DEF DoraInv
  <2>2. CASE Promote(d)
    <3> DEFINE subj == <<"Promote", d, Len(log) + 1>>
    <3>1. Land(subj, 0)
      BY <2>2 DEF Promote, Numbered
    <3>2. subj[1] # "Revert"
      OBVIOUS
    <3> HIDE DEF subj
    <3> QED BY <1>2, <2>1, <3>1, <3>2, LandStep
  <2>3. CASE BreakGlass(d)
    <3> DEFINE subj == <<"Break-glass", d>>
    <3>1. Land(subj, 0)
      BY <2>3 DEF BreakGlass
    <3>2. subj[1] # "Revert"
      OBVIOUS
    <3> HIDE DEF subj
    <3> QED BY <1>2, <2>1, <3>1, <3>2, LandStep
  <2> QED BY <1>2, <2>2, <2>3
<1>3. ASSUME NEW i \in Index, Undo(i), UNCHANGED applies PROVE DoraInv'
  <2>1. i \in 0..Len(log)
    <3>1. Len(log) \in Nat /\ i \in 1..Len(log)
      BY DEF DoraInv, Index
    <3> QED BY <3>1
  <2>2. PICK w \in {"Revert", "Roll back", "Reapply"} :
          \E what : /\ Land(<<w, what, Len(log) + 1>>, i)
                    /\ w = "Revert" => what = Subject(i)
    BY <1>3 DEF Undo, Numbered
  <2>3. PICK what : /\ Land(<<w, what, Len(log) + 1>>, i)
                    /\ w = "Revert" => what = Subject(i)
    BY <2>2
  <2> DEFINE subj == <<w, what, Len(log) + 1>>
  <2>4. subj[1] = "Revert" => i # 0 /\ subj[2] = Subject(i)
    BY <2>3 DEF Index
  <2>5. Land(subj, i)
    BY <2>3
  <2> HIDE DEF subj
  <2> QED BY <1>3, <2>1, <2>4, <2>5, LandStep
<1>4. ASSUME NEW s \in Status, Apply(s), UNCHANGED log PROVE DoraInv'
  BY <1>4 DEF Apply, DoraInv, Index, NamesWhatItUndid, IsRevert, Subject
<1> QED BY <1>1, <1>2, <1>3, <1>4 DEF DoraNext, Status

LEMMA DoraInvariant == DoraSpec => []DoraInv
  BY DoraStart, DoraStep, PTL DEF DoraSpec

LEMMA DoraTypes == DoraInv => DoraTypeOK
  BY DEF DoraInv, DoraTypeOK, Status

(* The history dora.py reads keeps its type: every change lands on main,   *)
(* and undoes one before it or none (dora.py:131-175).                     *)
THEOREM DoraTypeCorrect == DoraSpec => []DoraTypeOK
  BY DoraTypes, DoraInvariant, PTL

-----------------------------------------------------------------------------
RevertsOf(subj) == {i \in Index : IsRevert(i) /\ Subject(i)[2] = subj}

Undone(i) == {j \in Index : log[j].undoes = i /\ IsRevert(j)}

(* The reverts found by the subject of a change are those that undid it,   *)
(* if no other change has its subject.                                     *)
LEMMA FoundBySubject ==
  ASSUME DoraInv, NEW i \in Index, \A k \in Index \ {i} : Subject(k) # Subject(i)
  PROVE  RevertsOf(Subject(i)) = Undone(i)
<1>1. ASSUME NEW j \in Index, IsRevert(j) 
      PROVE  Subject(j)[2] = Subject(i) <=> log[j].undoes = i
  <2>1. /\ log[j].undoes \in 1..(j - 1) /\ Subject(j)[2] = Subject(log[j].undoes)
    BY <1>1 DEF DoraInv, NamesWhatItUndid
  <2>2. log[j].undoes \in Index
    BY <2>1 DEF Index, DoraInv
  <2> QED BY <2>1, <2>2
<1> QED BY <1>1 DEF RevertsOf, Undone

(* The one that restored it is a commit. *)
LEMMA RestoredBySome ==
  ASSUME DoraInv, NEW subj, Reverted(subj)
  PROVE  reverted_by(subj) \in Index
<1> DEFINE T == {i \in Index : IsRevert(i) /\ Subject(i)[2] = subj}
<1>1. T # {} /\ T \subseteq Nat /\ T \subseteq Index
  BY DEF Reverted, Index, DoraInv
<1> HIDE DEF T
<1>2. \E n \in T : \A m \in T : n =< m
  BY <1>1, Least
<1>3. (CHOOSE n \in T : \A m \in T : n =< m) \in T
  BY <1>2
<1>4. reverted_by(subj) = CHOOSE n \in T : \A m \in T : n =< m
  BY DEF reverted_by, T, Min
<1> QED BY <1>1, <1>3, <1>4

Change(i) ==
    [path |-> "gitops", ref |-> i, failed |-> Reverted(Subject(i)),
     restored_at |-> IF Reverted(Subject(i)) THEN reverted_by(Subject(i)) ELSE 0]

Deployment(k) == [path |-> "terraform", ref |-> k, failed |-> applies[k] = "failure", restored_at |-> 0]

Broken == {k \in DOMAIN applies : applies[k] = "failure"}

(* The failures that are left without a restore are Terraform's. *)
LEMMA LeftUnrestored ==
  ASSUME DoraInv
  PROVE  metrics(terraform_deploys \union gitops_deploys).unrestored = Cardinality(Broken)
<1> DEFINE GF == {Change(i) : i \in {k \in Index : Reverted(Subject(k))}}
           TF == {Deployment(k) : k \in Broken}
           failures == {d \in terraform_deploys \union gitops_deploys : d.failed}
           restores == {d \in failures : d.restored_at # 0}
<1>1. gitops_deploys = {Change(i) : i \in Index}
  BY DEF gitops_deploys, Change
<1>2. terraform_deploys = {Deployment(k) : k \in {j \in DOMAIN applies : applies[j] \in {"success", "failure"}}}
  BY DEF terraform_deploys, Deployment
<1>3. \A i : /\ Change(i).path = "gitops" /\ (Change(i).failed <=> Reverted(Subject(i)))
             /\ Change(i).restored_at = IF Reverted(Subject(i)) THEN reverted_by(Subject(i)) ELSE 0
  BY DEF Change
<1>4. \A k : /\ Deployment(k).path = "terraform" /\ Deployment(k).ref = k
             /\ (Deployment(k).failed <=> applies[k] = "failure")
             /\ Deployment(k).restored_at = 0
  BY DEF Deployment
<1>5. failures = TF \union GF
  <2>1. \A d : d \in failures => d \in TF \union GF
    <3>1. ASSUME NEW d \in terraform_deploys, d.failed PROVE d \in TF
      BY <3>1, <1>2, <1>4 DEF Broken
    <3>2. ASSUME NEW d \in gitops_deploys, d.failed PROVE d \in GF
      BY <3>2, <1>1, <1>3
    <3> HIDE DEF TF, GF
    <3> QED BY <3>1, <3>2
  <2>2. \A d : d \in TF \union GF => d \in failures
    <3>1. ASSUME NEW d \in TF PROVE d \in terraform_deploys /\ d.failed
      BY <1>2, <1>4 DEF Broken
    <3>2. ASSUME NEW d \in GF PROVE d \in gitops_deploys /\ d.failed
      BY <1>1, <1>3
    <3> HIDE DEF TF, GF
    <3> QED BY <3>1, <3>2
  <2> QED BY <2>1, <2>2
<1>6. \A d \in GF : d.restored_at # 0
  BY <1>3, RestoredBySome DEF Index
<1>7. \A d \in TF : d.restored_at = 0
  BY <1>4
<1>8. restores = GF /\ TF \cap GF = {}
  BY <1>5, <1>6, <1>7
<1>9. IsFiniteSet(Broken)
  <2>1. Len(applies) \in Nat /\ DOMAIN applies = 1..Len(applies)
    BY DEF DoraInv
  <2>2. IsFiniteSet(DOMAIN applies)
    BY <2>1, FS_Interval
  <2> QED BY <2>2, FS_Subset DEF Broken
<1>10. IsFiniteSet(GF)
  <2> DEFINE I == {k \in Index : Reverted(Subject(k))}
             f == [i \in I |-> Change(i)]
  <2>1. IsFiniteSet(Index)
    <3>1. Len(log) \in Int
      BY DEF DoraInv
    <3> QED BY <3>1, FS_Interval DEF Index
  <2>2. IsFiniteSet(I)
    BY <2>1, FS_Subset
  <2>3. f \in Surjection(I, GF)
    BY DEF Surjection
  <2> QED BY <2>2, <2>3, FS_Surjection
<1>11. IsFiniteSet(TF) /\ Cardinality(TF) = Cardinality(Broken)
  <2> DEFINE f == [k \in Broken |-> Deployment(k)]
  <2>1. f \in Bijection(Broken, TF)
    <3>1. f \in [Broken -> TF]
      OBVIOUS
    <3>2. \A k, j \in Broken : f[k] = f[j] => k = j
      BY <1>4
    <3>3. \A t \in TF : \E k \in Broken : f[k] = t
      OBVIOUS
    <3> HIDE DEF f, TF
    <3> QED BY <3>1, <3>2, <3>3 DEF Bijection, Injection, Surjection, IsInjective
  <2>2. ExistsBijection(Broken, TF)
    BY <2>1 DEF ExistsBijection
  <2> QED BY <2>2, <1>9, FS_Bijection
<1> HIDE DEF GF, TF
<1>12. Cardinality(failures) = Cardinality(Broken) + Cardinality(GF)
  <2>1. Cardinality(TF \cap GF) = 0
    BY <1>8, FS_EmptySet
  <2>2. Cardinality(TF) \in Nat /\ Cardinality(GF) \in Nat
    BY <1>10, <1>11, FS_CardinalityType
  <2>3. Cardinality(TF \union GF) = Cardinality(TF) + Cardinality(GF) - Cardinality(TF \cap GF)
    BY <1>10, <1>11, FS_Union
  <2>4. Cardinality(failures) = Cardinality(TF \union GF)
    BY <1>5
  <2> QED BY <1>11, <2>1, <2>2, <2>3, <2>4
<1>13. metrics(terraform_deploys \union gitops_deploys).unrestored = Cardinality(failures) - Cardinality(restores)
  BY DEF metrics
<1>14. Cardinality(Broken) \in Nat /\ Cardinality(GF) \in Nat
  BY <1>9, <1>10, FS_CardinalityType
<1> HIDE DEF failures, restores
<1> QED BY <1>8, <1>12, <1>13, <1>14

(* FailedWereUndone, for any digests and any history of main and of the    *)
(* applies: a change that a revert names by a subject of its own counts as *)
(* failed, restored by the first that undid it (dora.py:29-31, 90-101,     *)
(* 153-175).                                                               *)
THEOREM ChangesAreBlamedRight == DoraSpec => []FailedWereUndone
<1>1. DoraInv => FailedWereUndone
  <2> SUFFICES ASSUME DoraInv PROVE FailedWereUndone
    OBVIOUS
  <2>1. ASSUME NEW d \in gitops_deploys, \A k \in Index \ {d.ref} : Subject(k) # Subject(d.ref)
        PROVE  /\ (d.failed <=> Undone(d.ref) # {})
               /\ d.failed => d.restored_at = Min(Undone(d.ref))
    <3>1. PICK i \in Index : d = Change(i)
      BY DEF gitops_deploys, Change
    <3>2. /\ d.ref = i /\ (d.failed <=> Reverted(Subject(i)))
          /\ d.restored_at = IF Reverted(Subject(i)) THEN reverted_by(Subject(i)) ELSE 0
      BY <3>1 DEF Change
    <3>3. RevertsOf(Subject(i)) = Undone(i)
      <4>1. \A k \in Index \ {i} : Subject(k) # Subject(i)
        BY <2>1, <3>2
      <4> QED BY <4>1, FoundBySubject
    <3>4. Reverted(Subject(i)) <=> RevertsOf(Subject(i)) # {}
      BY DEF Reverted, RevertsOf
    <3>5. reverted_by(Subject(i)) = Min(RevertsOf(Subject(i)))
      BY DEF reverted_by, RevertsOf
    <3>6. d.failed <=> Undone(i) # {}
      BY <3>2, <3>3, <3>4
    <3>7. d.failed => d.restored_at = Min(Undone(i))
      BY <3>2, <3>3, <3>5
    <3> QED BY <3>2, <3>6, <3>7
  <2> QED BY <2>1, LeftUnrestored DEF FailedWereUndone, Undone, Broken
<1> QED BY <1>1, DoraInvariant, PTL

-----------------------------------------------------------------------------
(* pipeline_report.py                                                      *)

RunSet == [state : States, attempt : 1..MaxAttempts, created : 0..MaxTime]
JobSet == [started : 0..Never, completed : 0..Never]
RowSet == [run : Workflows, conclusion : States, attempt : 1..MaxAttempts, created : 0..MaxTime,
           read : BOOLEAN, job : JobSet]

(* A job that is done was done in this order, and its minutes were spent.  *)
Settled(w, a) ==
    /\ runs[w].created <= jobs[w][a].started /\ jobs[w][a].started <= jobs[w][a].completed
    /\ jobs[w][a].completed <= now
    /\ jobs[w][a].completed - jobs[w][a].started <= spent[w]
    /\ a = 1 => jobs[w][a].completed <= told

RunInv(w) ==
    /\ runs[w].state = "none" => runs[w].attempt = 1
    /\ runs[w].state # "none" => asked <= runs[w].created /\ runs[w].created <= now
    /\ runs[w].state = "in_progress" => /\ runs[w].created <= jobs[w][runs[w].attempt].started
                                        /\ jobs[w][runs[w].attempt].started <= now
    /\ runs[w].state = "completed" <=> jobs[w][runs[w].attempt].completed # Never
    /\ \A a \in 1..MaxAttempts : /\ jobs[w][a].completed # Never => Settled(w, a)
                                 /\ a > runs[w].attempt => jobs[w][a].completed = Never

(* The first run is still there, and so is the last first attempt.         *)
AskedByARun == asked # Never => \E w \in Workflows : runs[w].state # "none" /\ runs[w].created = asked

ToldByAJob == told # 0 => \E w \in Workflows : jobs[w][1].completed = told

Ordered ==
    /\ order \in Seq(Workflows)
    /\ \A k \in 1..Len(order) : runs[order[k]].state # "none"
    /\ \A w \in Workflows : runs[w].state # "none" => \E k \in 1..Len(order) : order[k] = w

WorldInv ==
    /\ now \in 0..MaxTime /\ asked \in 0..Never /\ told \in 0..now
    /\ asked = Never \/ asked <= now
    /\ spent \in [Workflows -> Nat]
    /\ runs \in [Workflows -> RunSet] /\ jobs \in [Workflows -> [1..MaxAttempts -> JobSet]]
    /\ \A w \in Workflows : RunInv(w)
    /\ AskedByARun /\ ToldByAJob /\ Ordered

(* What is listed and what is done stay so. *)
Stays ==
    \A w \in Workflows :
        /\ runs[w].state # "none" => runs'[w].state # "none" /\ runs'[w].created = runs[w].created
        /\ \A a \in 1..MaxAttempts : jobs[w][a].completed # Never => jobs'[w][a] = jobs[w][a]

(* A row says what the API has of its run, whatever that has come to.      *)
RowInv(row) ==
    /\ row \in RowSet
    /\ runs[row.run].state # "none" /\ row.created = runs[row.run].created
    /\ row.conclusion = "completed" => jobs[row.run][row.attempt].completed # Never
    /\ row.job.completed # Never => row.job = jobs[row.run][row.attempt]
    /\ row.read /\ row.conclusion = "completed" => row.job.completed # Never

Listed(w) == \E i \in DOMAIN raw : raw[i].run = w

(* The runs there were at the first page are all on the pages read, or     *)
(* further on: a new run moves them on.                                    *)
PagesInv ==
    /\ known \subseteq {w \in Workflows : runs[w].state # "none"}
    /\ report.offset = 0 => known = {} /\ report.pc = "list"
    /\ report.pc = "list" => \A k \in 1..Len(order) : k <= report.offset /\ order[k] \in known
                                                      => Listed(order[k])
    /\ report.pc = "jobs" => \A w \in known : Listed(w)

ReportInv ==
    /\ report = Reading(report.pc, report.offset, raw)
    /\ report.pc \in {"list", "jobs"} /\ report.offset \in Nat
    /\ raw \in Seq(RowSet) /\ \A i \in DOMAIN raw : RowInv(raw[i])
    /\ PagesInv

PipelineInv == WorldInv /\ ReportInv

LEMMA TimesFacts ==
  /\ MaxTime \in Nat /\ MaxAttempts \in Nat /\ 1 \in 1..MaxAttempts
  /\ Never = MaxTime + 1 /\ Never \in 0..Never /\ Never \in Nat
  /\ Times(Never, Never) \in JobSet /\ Times(Never, Never).completed = Never
<1>1. /\ MaxTime \in Nat /\ MaxAttempts \in Nat /\ 1 \in 1..MaxAttempts
      /\ Never = MaxTime + 1 /\ Never \in 0..Never /\ Never \in Nat
  BY PipelineAssumption DEF Never
<1>2. QED
  BY <1>1 DEF Times, JobSet

LEMMA PipelineStart == PipelineInit => PipelineInv
<1> SUFFICES ASSUME PipelineInit PROVE PipelineInv
  OBVIOUS
<1>1. /\ now = 0 /\ asked = Never /\ told = 0 /\ known = {} /\ order = <<>>
      /\ runs = [w \in Workflows |-> Now("none", 1, 0)]
      /\ jobs = [w \in Workflows |-> [a \in 1..MaxAttempts |-> Times(Never, Never)]]
      /\ spent = [w \in Workflows |-> 0]
      /\ report = Reading("list", 0, <<>>)
  BY DEF PipelineInit
<1>2. Now("none", 1, 0) \in RunSet /\ Now("none", 1, 0).state = "none" /\ Now("none", 1, 0).attempt = 1
  BY TimesFacts DEF Now, RunSet, States
<1>3. /\ runs \in [Workflows -> RunSet] /\ jobs \in [Workflows -> [1..MaxAttempts -> JobSet]]
      /\ spent \in [Workflows -> Nat]
      /\ \A w \in Workflows : runs[w].state = "none" /\ runs[w].attempt = 1
      /\ \A w \in Workflows : \A a \in 1..MaxAttempts : jobs[w][a].completed = Never
  BY <1>1, <1>2, TimesFacts
<1>4. \A w \in Workflows : RunInv(w)
  BY <1>3, TimesFacts DEF RunInv
<1>5. order \in Seq(Workflows) /\ Len(order) = 0
  BY <1>1
<1>6. WorldInv
  BY <1>1, <1>3, <1>4, <1>5, TimesFacts DEF WorldInv, AskedByARun, ToldByAJob, Ordered
<1>7. report.pc = "list" /\ report.offset = 0 /\ raw = <<>>
  BY <1>1 DEF Reading, raw
<1>8. raw \in Seq(RowSet) /\ DOMAIN raw = {}
  BY <1>7
<1>9. ReportInv
  BY <1>1, <1>5, <1>7, <1>8 DEF ReportInv, PagesInv, Reading
<1>10. QED
  BY <1>6, <1>9 DEF PipelineInv

-----------------------------------------------------------------------------
(* A step of one run: what it has to say of that run and of the clocks.    *)
LEMMA RunStep ==
  ASSUME WorldInv, NEW w \in Workflows, NEW r \in RunSet, NEW j \in JobSet,
         now' = now, runs' = [runs EXCEPT ![w] = r],
         jobs' \in [Workflows -> [1..MaxAttempts -> JobSet]],
         \A v \in Workflows : \A a \in 1..MaxAttempts :
            jobs'[v][a] = IF v = w /\ a = r.attempt THEN j ELSE jobs[v][a],
         spent' \in [Workflows -> Nat], \A v \in Workflows : spent[v] <= spent'[v],
         asked' \in 0..Never, asked' = Never \/ asked' <= now,
         \A v \in Workflows \ {w} : runs[v].state # "none" => asked' = asked,
         asked' = asked \/ r.created = asked',
         told' \in 0..now, told <= told', told' = told \/ (r.attempt = 1 /\ j.completed = told'),
         r.state # "none", r.created = runs[w].created \/ runs[w].state = "none",
         runs[w].attempt <= r.attempt,
         jobs[w][r.attempt].completed = Never,
         RunInv(w)', Ordered'
  PROVE  WorldInv' /\ Stays
<1>1. /\ runs \in [Workflows -> RunSet] /\ runs' \in [Workflows -> RunSet]
      /\ \A v \in Workflows : runs'[v] = IF v = w THEN r ELSE runs[v]
      /\ now \in 0..MaxTime /\ told \in 0..now /\ spent \in [Workflows -> Nat]
      /\ jobs \in [Workflows -> [1..MaxAttempts -> JobSet]]
  BY DEF WorldInv
<1>2. ASSUME NEW v \in Workflows, v # w PROVE RunInv(v)'
  <2>1. RunInv(v)
    BY DEF WorldInv
  <2>2. runs'[v] = runs[v] /\ \A a \in 1..MaxAttempts : jobs'[v][a] = jobs[v][a]
    BY <1>1, <1>2
  <2>3. runs[v] \in RunSet /\ runs[v].attempt \in 1..MaxAttempts
    BY <1>1 DEF RunSet
  <2>4. ASSUME NEW a \in 1..MaxAttempts, jobs[v][a].completed # Never PROVE Settled(v, a)'
    <3>1. Settled(v, a) /\ jobs'[v][a] = jobs[v][a]
      BY <2>1, <2>2, <2>4 DEF RunInv
    <3>t. jobs[v] \in [1..MaxAttempts -> JobSet]
      BY <1>1
    <3>u. jobs[v][a] \in JobSet
      BY <3>t
    <3>2. spent[v] \in Nat /\ spent'[v] \in Nat /\ spent[v] <= spent'[v]
      BY <1>1
    <3>n. jobs[v][a].started \in 0..Never /\ jobs[v][a].completed \in 0..Never
      BY <3>u DEF JobSet
    <3>m. jobs[v][a].started \in Nat /\ jobs[v][a].completed \in Nat
      BY <3>n, TimesFacts
    <3>3. PICK started \in Nat, completed \in Nat :
             started = jobs[v][a].started /\ completed = jobs[v][a].completed
      BY <3>m
    <3>4. /\ runs[v].created <= started /\ started <= completed /\ completed <= now
          /\ completed - started <= spent[v] /\ (a = 1 => completed <= told)
      BY <3>1, <3>3 DEF Settled
    <3>5. completed - started <= spent'[v] /\ (a = 1 => completed <= told')
      BY <1>1, <3>2, <3>3, <3>4
    <3> QED BY <2>2, <3>1, <3>3, <3>4, <3>5 DEF Settled
  <2>5. runs[v].state # "none" => asked' = asked
    BY <1>2
  <2>6. \A a \in 1..MaxAttempts : jobs'[v][a].completed # Never => Settled(v, a)'
    BY <2>2, <2>4
  <2> QED BY <2>1, <2>2, <2>3, <2>5, <2>6 DEF RunInv, Never
<1>3. \A v \in Workflows : RunInv(v)'
  BY <1>2
<1>4. AskedByARun'
  <2>1. CASE asked' = asked
    <3> SUFFICES ASSUME asked # Never
                 PROVE  \E v \in Workflows : runs'[v].state # "none" /\ runs'[v].created = asked
      BY <2>1 DEF AskedByARun, Never
    <3>1. PICK v \in Workflows : runs[v].state # "none" /\ runs[v].created = asked
      BY DEF WorldInv, AskedByARun
    <3> QED BY <1>1, <3>1
  <2>2. CASE r.created = asked'
    BY <1>1, <2>2 DEF AskedByARun
  <2> QED BY <2>1, <2>2
<1>5. ToldByAJob'
  <2>1. CASE told' = told
    <3> SUFFICES ASSUME told # 0 PROVE \E v \in Workflows : jobs'[v][1].completed = told
      BY <2>1 DEF ToldByAJob
    <3>1. PICK v \in Workflows : jobs[v][1].completed = told
      BY DEF WorldInv, ToldByAJob
    <3>2. told # Never
      BY <1>1, TimesFacts
    <3>3. jobs'[v][1] = jobs[v][1]
      BY <3>1, <3>2, TimesFacts
    <3> QED BY <3>1, <3>3
  <2>2. CASE r.attempt = 1 /\ j.completed = told'
    BY <2>2, TimesFacts DEF ToldByAJob
  <2> QED BY <2>1, <2>2
<1>6. Stays
  BY <1>1 DEF Stays
<1>7. WorldInv'
  <2>1. (now \in 0..MaxTime /\ asked \in 0..Never /\ told \in 0..now /\ (asked = Never \/ asked <= now))'
    BY <1>1 DEF Never
  <2>2. (spent \in [Workflows -> Nat] /\ runs \in [Workflows -> RunSet]
         /\ jobs \in [Workflows -> [1..MaxAttempts -> JobSet]])'
    BY <1>1 DEF RunSet, JobSet, Never
  <2> QED BY <1>3, <1>4, <1>5, <2>1, <2>2 DEF WorldInv
<1> QED BY <1>6, <1>7

(* Of a run that does not start or complete, the jobs stay as they are.    *)
LEMMA PipelineQuiet ==
  ASSUME WorldInv, NEW w \in Workflows, NEW r \in RunSet,
         now' = now, runs' = [runs EXCEPT ![w] = r],
         jobs' = jobs, spent' = spent, told' = told,
         asked' \in 0..Never, asked' = Never \/ asked' <= now,
         \A v \in Workflows \ {w} : runs[v].state # "none" => asked' = asked,
         asked' = asked \/ r.created = asked',
         r.state \notin {"none", "in_progress", "completed"},
         r.created = runs[w].created \/ runs[w].state = "none",
         runs[w].attempt <= r.attempt,
         jobs[w][r.attempt].completed = Never,
         asked' <= r.created, r.created <= now, Ordered'
  PROVE  WorldInv' /\ Stays
<1>1. /\ runs \in [Workflows -> RunSet] /\ jobs \in [Workflows -> [1..MaxAttempts -> JobSet]]
      /\ spent \in [Workflows -> Nat] /\ told \in 0..now /\ now \in 0..MaxTime
      /\ RunInv(w) /\ runs[w] \in RunSet
  BY DEF WorldInv
<1>2. runs'[w] = r /\ r.attempt \in 1..MaxAttempts /\ runs[w].attempt \in 1..MaxAttempts
  BY <1>1 DEF RunSet
<1>3. RunInv(w)'
  <2>1. ASSUME NEW a \in 1..MaxAttempts, jobs[w][a].completed # Never PROVE Settled(w, a)'
    <3>1. Settled(w, a)
      BY <1>1, <2>1 DEF RunInv
    <3>2. runs[w].state # "none"
      BY <1>1, <1>2, <2>1, TimesFacts DEF RunInv
    <3> QED BY <1>2, <3>1, <3>2 DEF Settled
  <2>2. ASSUME NEW a \in 1..MaxAttempts, a > r.attempt PROVE jobs[w][a].completed = Never
    BY <1>1, <1>2, <2>2 DEF RunInv
  <2> QED BY <1>2, <2>1, <2>2 DEF RunInv, Never
<1> PICK j : j = jobs[w][r.attempt]
  OBVIOUS
<1>4. j \in JobSet
  BY <1>1, <1>2
<1>5. \A v \in Workflows : \A a \in 1..MaxAttempts :
         jobs'[v][a] = IF v = w /\ a = r.attempt THEN j ELSE jobs[v][a]
  OBVIOUS
<1>6. /\ jobs' \in [Workflows -> [1..MaxAttempts -> JobSet]]
      /\ spent' \in [Workflows -> Nat] /\ told' \in 0..now /\ told <= told'
      /\ \A v \in Workflows : spent[v] <= spent'[v]
  BY <1>1
<1>7. r.state # "none"
  OBVIOUS
<1> QED BY <1>3, <1>4, <1>5, <1>6, <1>7, RunStep

LEMMA OrderedSame ==
  ASSUME WorldInv, NEW w \in Workflows, NEW r \in RunSet, r.state # "none", runs[w].state # "none",
         runs' = [runs EXCEPT ![w] = r], order' = order
  PROVE  Ordered'
<1>1. /\ Ordered /\ \A v \in Workflows : runs'[v] = IF v = w THEN r ELSE runs[v]
  BY DEF WorldInv
<1>2. \A k \in 1..Len(order) : order[k] \in Workflows
  BY <1>1 DEF Ordered
<1> QED BY <1>1, <1>2 DEF Ordered

LEMMA CreateStep ==
  ASSUME WorldInv, NEW w \in Workflows, Create(w)
  PROVE  WorldInv' /\ Stays
<1>1. PICK state \in {"queued", "action_required"} : runs' = [runs EXCEPT ![w] = Now(state, 1, now)]
  BY DEF Create
<1> PICK r : r = Now(state, 1, now)
  OBVIOUS
<1>2. /\ runs[w].state = "none" /\ asked' = (IF asked = Never THEN now ELSE asked)
      /\ now' = now /\ jobs' = jobs /\ spent' = spent /\ told' = told /\ order' = <<w>> \o order
      /\ now \in 0..MaxTime /\ asked \in 0..Never /\ (asked = Never \/ asked <= now)
      /\ runs \in [Workflows -> RunSet] /\ RunInv(w) /\ Ordered
  BY DEF Create, WorldInv
<1>3. r.state = state /\ r.attempt = 1 /\ r.created = now /\ r \in RunSet
  BY <1>2, TimesFacts DEF Now, RunSet, States
<1>4. asked' \in 0..Never /\ asked' <= now
  BY <1>2, TimesFacts
<1>5. ASSUME NEW v \in Workflows \ {w}, runs[v].state # "none" PROVE asked' = asked
  <2>1. asked <= runs[v].created /\ runs[v].created <= now /\ runs[v].created \in Int
    BY <1>2, <1>5 DEF WorldInv, RunInv, RunSet
  <2> QED BY <1>2, <2>1, TimesFacts
<1>6. runs[w].attempt = 1 /\ jobs[w][1].completed = Never
  BY <1>2 DEF RunInv
<1>7. Ordered'
  <2>1. order \in Seq(Workflows) /\ order' \in Seq(Workflows) /\ Len(order') = Len(order) + 1
    BY <1>2 DEF Ordered
  <2>2. order'[1] = w /\ \A k \in 1..Len(order) : order'[k + 1] = order[k] /\ order[k] \in Workflows
    BY <1>2, <2>1
  <2>3. \A v \in Workflows : runs'[v] = IF v = w THEN r ELSE runs[v]
    BY <1>1, <1>2
  <2>4. ASSUME NEW k \in 1..Len(order') PROVE runs'[order'[k]].state # "none"
    <3>1. CASE k = 1
      BY <1>3, <2>2, <2>3, <3>1
    <3>2. CASE k # 1
      <4>1. k - 1 \in 1..Len(order) /\ (k - 1) + 1 = k
        BY <2>1, <3>2
      <4>2. order'[k] = order[k - 1] /\ runs[order[k - 1]].state # "none" /\ order[k - 1] \in Workflows
        BY <1>2, <2>2, <4>1 DEF Ordered
      <4> QED BY <1>3, <2>3, <4>2
    <3> QED BY <3>1, <3>2
  <2>5. ASSUME NEW v \in Workflows, runs'[v].state # "none"
        PROVE  \E k \in 1..Len(order') : order'[k] = v
    <3>1. CASE v = w
      BY <2>1, <2>2, <3>1
    <3>2. CASE v # w
      <4>1. PICK k \in 1..Len(order) : order[k] = v
        BY <1>2, <2>3, <2>5, <3>2 DEF Ordered
      <4>2. k + 1 \in 1..Len(order') /\ order'[k + 1] = v
        BY <2>1, <2>2, <4>1
      <4> QED BY <4>2
    <3> QED BY <3>1, <3>2
  <2> QED BY <2>1, <2>4, <2>5 DEF Ordered
<1>8. r.created = asked' \/ asked' = asked
  BY <1>2, <1>3
<1>9. runs' = [runs EXCEPT ![w] = r] /\ r.state \notin {"none", "in_progress", "completed"}
  BY <1>1, <1>3
<1>10. asked' <= r.created /\ r.created <= now
  BY <1>2, <1>3, <1>4
<1>11. jobs[w][r.attempt].completed = Never /\ runs[w].attempt <= r.attempt
  BY <1>3, <1>6
<1> QED BY <1>2, <1>3, <1>4, <1>5, <1>7, <1>8, <1>9, <1>10, <1>11, PipelineQuiet

LEMMA StartJobStep ==
  ASSUME WorldInv, NEW w \in Workflows, StartJob(w)
  PROVE  WorldInv' /\ Stays
<1> PICK old, r, j, a : /\ old = runs[w] /\ a = old.attempt
                        /\ r = [old EXCEPT !.state = "in_progress"] /\ j = Times(now, Never)
  OBVIOUS
<1>1. /\ old.state = "queued" /\ runs' = [runs EXCEPT ![w] = r]
      /\ jobs' = [jobs EXCEPT ![w][a] = j]
      /\ now' = now /\ order' = order /\ spent' = spent /\ asked' = asked /\ told' = told
  BY DEF StartJob, Becomes
<1>2. /\ now \in 0..MaxTime /\ asked \in 0..Never /\ (asked = Never \/ asked <= now)
      /\ told \in 0..now /\ old \in RunSet /\ RunInv(w) /\ runs \in [Workflows -> RunSet]
      /\ jobs \in [Workflows -> [1..MaxAttempts -> JobSet]] /\ spent \in [Workflows -> Nat]
  BY DEF WorldInv
<1>3. /\ r \in RunSet /\ r.state = "in_progress" /\ r.attempt = a /\ r.created = old.created
      /\ a \in 1..MaxAttempts
  BY <1>2 DEF RunSet, States
<1>4. j \in JobSet /\ j.started = now /\ j.completed = Never
  BY <1>2, TimesFacts DEF Times, JobSet
<1>5. /\ jobs' \in [Workflows -> [1..MaxAttempts -> JobSet]]
      /\ \A v \in Workflows : \A b \in 1..MaxAttempts :
            jobs'[v][b] = IF v = w /\ b = r.attempt THEN j ELSE jobs[v][b]
  BY <1>1, <1>2, <1>3, <1>4
<1>6. jobs[w][a].completed = Never /\ asked <= old.created /\ old.created <= now
  BY <1>1, <1>2 DEF RunInv
<1>7. RunInv(w)'
  <2>1. runs'[w] = r /\ jobs'[w][a] = j
    BY <1>1, <1>2, <1>3, <1>5
  <2>2. ASSUME NEW b \in 1..MaxAttempts, jobs'[w][b].completed # Never PROVE Settled(w, b)'
    <3>1. jobs'[w][b] = jobs[w][b] /\ Settled(w, b)
      BY <1>2, <1>4, <1>5, <2>2 DEF RunInv
    <3> QED BY <1>1, <1>3, <2>1, <3>1 DEF Settled
  <2>3. ASSUME NEW b \in 1..MaxAttempts, b > a PROVE jobs'[w][b].completed = Never
    BY <1>2, <1>3, <1>5, <2>3 DEF RunInv
  <2>4. asked' <= r.created /\ r.created <= now' /\ r.created <= j.started /\ j.started <= now'
    <3>1. now <= now
      BY <1>2
    <3> QED BY <1>1, <1>3, <1>4, <1>6, <3>1
  <2> QED BY <1>3, <1>4, <2>1, <2>2, <2>3, <2>4 DEF RunInv, Never
<1>8. Ordered'
  BY <1>1, <1>3, OrderedSame
<1>9. spent' \in [Workflows -> Nat] /\ \A v \in Workflows : spent[v] <= spent'[v]
  BY <1>1, <1>2
<1>10. told' \in 0..now /\ told <= told' /\ r.state # "none" /\ runs[w].attempt <= r.attempt
  BY <1>1, <1>2, <1>3
<1>11. /\ asked' \in 0..Never /\ (asked' = Never \/ asked' <= now)
       /\ (asked' = asked \/ r.created = asked')
       /\ \A v \in Workflows \ {w} : runs[v].state # "none" => asked' = asked
       /\ (told' = told \/ (r.attempt = 1 /\ j.completed = told'))
       /\ (r.created = runs[w].created \/ runs[w].state = "none")
       /\ jobs[w][r.attempt].completed = Never
  BY <1>1, <1>2, <1>3, <1>6
<1>12. now' = now /\ runs' = [runs EXCEPT ![w] = r]
  BY <1>1
<1> QED BY <1>3, <1>4, <1>5, <1>7, <1>8, <1>9, <1>10, <1>11, <1>12, RunStep

LEMMA BecomesStep ==
  ASSUME WorldInv, NEW w \in Workflows, SkipJob(w) \/ Approve(w)
  PROVE  WorldInv' /\ Stays
<1> PICK old : old = runs[w]
  OBVIOUS
<1>1. PICK state \in {"skipped", "queued"} : Becomes(w, state)
  BY DEF SkipJob, Approve
<1> PICK r : r = [old EXCEPT !.state = state]
  OBVIOUS
<1>2. /\ runs' = [runs EXCEPT ![w] = r] /\ old.state \in {"queued", "action_required"}
      /\ now' = now /\ jobs' = jobs /\ order' = order /\ spent' = spent /\ asked' = asked /\ told' = told
  BY <1>1 DEF SkipJob, Approve, Becomes
<1>3. /\ now \in 0..MaxTime /\ asked \in 0..Never /\ (asked = Never \/ asked <= now)
      /\ old \in RunSet /\ RunInv(w)
  BY DEF WorldInv
<1>4. /\ r \in RunSet /\ r.state = state /\ r.attempt = old.attempt /\ r.created = old.created
  BY <1>3 DEF RunSet, States
<1>5. jobs[w][r.attempt].completed = Never /\ asked <= r.created /\ r.created <= now
  BY <1>2, <1>3, <1>4 DEF RunInv
<1>6. Ordered'
  BY <1>2, <1>4, OrderedSame
<1>7. runs[w].attempt <= r.attempt
  BY <1>3, <1>4 DEF RunSet
<1> QED BY <1>2, <1>3, <1>4, <1>5, <1>6, <1>7, PipelineQuiet

LEMMA RerunStep ==
  ASSUME WorldInv, NEW w \in Workflows, Rerun(w)
  PROVE  WorldInv' /\ Stays
<1> PICK old : old = runs[w]
  OBVIOUS
<1> PICK r : r = Now("queued", old.attempt + 1, old.created)
  OBVIOUS
<1>1. /\ runs' = [runs EXCEPT ![w] = r] /\ old.state = "completed" /\ old.attempt < MaxAttempts
      /\ now' = now /\ jobs' = jobs /\ order' = order /\ spent' = spent /\ asked' = asked /\ told' = told
  BY DEF Rerun
<1>2. /\ now \in 0..MaxTime /\ asked \in 0..Never /\ (asked = Never \/ asked <= now)
      /\ old \in RunSet /\ RunInv(w)
  BY DEF WorldInv
<1>3. old.attempt \in 1..MaxAttempts /\ old.attempt + 1 \in 1..MaxAttempts /\ old.attempt < old.attempt + 1
  BY <1>1, <1>2, TimesFacts DEF RunSet
<1>4. /\ r.state = "queued" /\ r.attempt = old.attempt + 1 /\ r.created = old.created /\ r \in RunSet
  BY <1>2, <1>3 DEF Now, RunSet, States
<1>5. jobs[w][r.attempt].completed = Never /\ asked <= r.created /\ r.created <= now
  BY <1>1, <1>2, <1>3, <1>4 DEF RunInv
<1>6. Ordered'
  BY <1>1, <1>4, OrderedSame
<1>7. runs[w].attempt <= r.attempt
  BY <1>3, <1>4
<1> QED BY <1>1, <1>2, <1>4, <1>5, <1>6, <1>7, PipelineQuiet

LEMMA CompleteJobStep ==
  ASSUME WorldInv, NEW w \in Workflows, CompleteJob(w)
  PROVE  WorldInv' /\ Stays
<1> PICK old, a, was : old = runs[w] /\ a = old.attempt /\ was = jobs[w][a].started
  OBVIOUS
<1> PICK r, j : r = [old EXCEPT !.state = "completed"] /\ j = Times(was, now)
  OBVIOUS
<1>1. /\ old.state = "in_progress" /\ runs' = [runs EXCEPT ![w] = r]
      /\ jobs' = [jobs EXCEPT ![w][a] = j] /\ spent' = [spent EXCEPT ![w] = @ + (now - was)]
      /\ told' = (IF a = 1 THEN now ELSE told)
      /\ now' = now /\ order' = order /\ asked' = asked
  BY DEF CompleteJob, Becomes
<1>2. /\ now \in 0..MaxTime /\ asked \in 0..Never /\ (asked = Never \/ asked <= now)
      /\ told \in 0..now /\ old \in RunSet /\ RunInv(w) /\ runs \in [Workflows -> RunSet]
      /\ jobs \in [Workflows -> [1..MaxAttempts -> JobSet]] /\ spent \in [Workflows -> Nat]
  BY DEF WorldInv
<1>3. /\ r \in RunSet /\ r.state = "completed" /\ r.attempt = a /\ r.created = old.created
      /\ a \in 1..MaxAttempts /\ old.created \in Nat
  BY <1>2 DEF RunSet, States
<1>4. /\ jobs[w][a].completed = Never /\ asked <= old.created /\ old.created <= now
      /\ old.created <= was /\ was <= now
  BY <1>1, <1>2 DEF RunInv
<1>5. was \in Nat /\ now \in Nat /\ now - was \in Nat /\ now # Never /\ told \in Nat
  <2>1. was \in 0..Never
    BY <1>2, <1>3 DEF JobSet
  <2> QED BY <1>2, <1>4, <2>1, TimesFacts
<1>6. j \in JobSet /\ j.started = was /\ j.completed = now
  BY <1>2, <1>4, <1>5, TimesFacts DEF Times, JobSet
<1>7. /\ jobs' \in [Workflows -> [1..MaxAttempts -> JobSet]]
      /\ \A v \in Workflows : \A b \in 1..MaxAttempts :
            jobs'[v][b] = IF v = w /\ b = r.attempt THEN j ELSE jobs[v][b]
  BY <1>1, <1>2, <1>3, <1>6
<1>8. /\ spent' \in [Workflows -> Nat] /\ spent'[w] = spent[w] + (now - was)
      /\ \A v \in Workflows : spent[v] <= spent'[v]
  BY <1>1, <1>2, <1>5
<1>9. told' \in 0..now /\ told <= told' /\ (told' = told \/ (r.attempt = 1 /\ j.completed = told'))
  BY <1>1, <1>2, <1>3, <1>5, <1>6
<1>10. RunInv(w)'
  <2>1. runs'[w] = r /\ jobs'[w][a] = j
    BY <1>1, <1>2, <1>3, <1>7
  <2>2. ASSUME NEW b \in 1..MaxAttempts, jobs'[w][b].completed # Never PROVE Settled(w, b)'
    <3>1. CASE b = a
      <4>1. spent[w] \in Nat
        BY <1>2
      <4>2. now - was <= spent'[w] /\ now <= now
        BY <1>5, <1>8, <4>1
      <4>3. a = 1 => now <= told'
        BY <1>1, <1>5
      <4> QED BY <1>1, <1>3, <1>4, <1>6, <2>1, <3>1, <4>2, <4>3 DEF Settled
    <3>2. CASE b # a
      <4>1. jobs'[w][b] = jobs[w][b] /\ Settled(w, b)
        BY <1>2, <1>3, <1>7, <2>2, <3>2 DEF RunInv
      <4>2. /\ jobs[w][b].completed \in Nat /\ jobs[w][b].started \in Nat
            /\ spent[w] \in Nat /\ spent'[w] \in Nat /\ told' \in Nat
        BY <1>2, <1>8, <1>9, TimesFacts DEF JobSet
      <4> QED BY <1>1, <1>3, <1>5, <1>8, <1>9, <2>1, <4>1, <4>2 DEF Settled
    <3> QED BY <3>1, <3>2
  <2>3. ASSUME NEW b \in 1..MaxAttempts, b > a PROVE jobs'[w][b].completed = Never
    BY <1>2, <1>3, <1>7, <2>3 DEF RunInv
  <2>4. asked' <= r.created /\ r.created <= now'
    BY <1>1, <1>3, <1>4
  <2> QED BY <1>3, <1>5, <1>6, <2>1, <2>2, <2>3, <2>4 DEF RunInv, Never
<1>11. Ordered'
  BY <1>1, <1>3, OrderedSame
<1>12. r.state # "none" /\ runs[w].attempt <= r.attempt
  BY <1>3
<1>13. /\ asked' \in 0..Never /\ (asked' = Never \/ asked' <= now)
       /\ (asked' = asked \/ r.created = asked')
       /\ \A v \in Workflows \ {w} : runs[v].state # "none" => asked' = asked
       /\ (r.created = runs[w].created \/ runs[w].state = "none")
       /\ jobs[w][r.attempt].completed = Never
  BY <1>1, <1>2, <1>3, <1>4
<1>14. now' = now /\ runs' = [runs EXCEPT ![w] = r]
  BY <1>1
<1> QED BY <1>3, <1>6, <1>7, <1>8, <1>9, <1>10, <1>11, <1>12, <1>13, <1>14, RunStep

LEMMA MinuteStep == ASSUME WorldInv, Minute PROVE WorldInv' /\ Stays
<1>1. /\ now \in 0..MaxTime /\ now < MaxTime /\ now' = now + 1
      /\ UNCHANGED <<runs, jobs, order, spent, asked, told>>
      /\ told \in 0..now /\ asked \in 0..Never /\ (asked = Never \/ asked <= now)
      /\ runs \in [Workflows -> RunSet] /\ jobs \in [Workflows -> [1..MaxAttempts -> JobSet]]
  BY DEF Minute, WorldInv
<1>2. (now \in 0..MaxTime /\ told \in 0..now /\ (asked = Never \/ asked <= now))' /\ now <= now'
  BY <1>1, TimesFacts DEF Never
<1>3. \A w \in Workflows : RunInv(w)'
  <2> SUFFICES ASSUME NEW w \in Workflows PROVE RunInv(w)'
    OBVIOUS
  <2>1. RunInv(w) /\ runs[w] \in RunSet /\ now \in Int /\ now' = now + 1
    BY <1>1 DEF WorldInv
  <2>2. ASSUME NEW a \in 1..MaxAttempts, jobs[w][a].completed # Never PROVE Settled(w, a)'
    <3>1. Settled(w, a) /\ jobs[w][a].completed \in Nat
      BY <1>1, <2>1, <2>2, TimesFacts DEF RunInv, JobSet
    <3> QED BY <1>1, <2>1, <3>1 DEF Settled
  <2>3. /\ runs[w].created \in Nat /\ runs[w].attempt \in 1..MaxAttempts
        /\ jobs[w][runs[w].attempt].started \in Nat
    BY <1>1, <2>1, TimesFacts DEF RunSet, JobSet
  <2> QED BY <1>1, <2>1, <2>2, <2>3 DEF RunInv, Never
<1> QED BY <1>1, <1>2, <1>3 DEF WorldInv, AskedByARun, ToldByAJob, Ordered, Stays, Never

-----------------------------------------------------------------------------
(* The report, while the runs go on and while it is read. *)

LEMMA RowsStay ==
  ASSUME ReportInv, WorldInv, Stays, runs' \in [Workflows -> RunSet], report' = report
  PROVE  \A i \in DOMAIN raw : RowInv(raw[i])'
<1> SUFFICES ASSUME NEW i \in DOMAIN raw PROVE RowInv(raw[i])'
  OBVIOUS
<1>1. RowInv(raw[i]) /\ raw' = raw
  BY DEF ReportInv, raw
<1>2. raw[i].run \in Workflows /\ raw[i].attempt \in 1..MaxAttempts
  BY <1>1 DEF RowInv, RowSet
<1>3. /\ runs'[raw[i].run].state # "none" /\ runs'[raw[i].run].created = runs[raw[i].run].created
      /\ jobs[raw[i].run][raw[i].attempt].completed # Never =>
            jobs'[raw[i].run][raw[i].attempt] = jobs[raw[i].run][raw[i].attempt]
  BY <1>1, <1>2 DEF RowInv, Stays
<1> QED BY <1>1, <1>3 DEF RowInv, RowSet, JobSet, Never

(* order stays or a new run comes before all others. *)
LEMMA WorldStepKeepsReport ==
  ASSUME ReportInv, WorldInv, WorldInv', Stays, report' = report, known' = known,
         order' = order \/ \E w \in Workflows : runs[w].state = "none" /\ order' = <<w>> \o order
  PROVE  ReportInv'
<1>1. raw' = raw /\ \A i \in DOMAIN raw' : RowInv(raw[i])'
  BY RowsStay DEF raw, WorldInv
<1>2. known' \subseteq {w \in Workflows : runs'[w].state # "none"}
  BY DEF ReportInv, PagesInv, Stays
<1>3. \A w : Listed(w)' <=> Listed(w)
  BY <1>1 DEF Listed
<1>4. ASSUME report.pc = "list", NEW k \in 1..Len(order'), k <= report.offset, order'[k] \in known
      PROVE  Listed(order'[k])
  <2>1. CASE order' = order
    BY <1>4, <2>1 DEF ReportInv, PagesInv
  <2>2. ASSUME NEW w \in Workflows, runs[w].state = "none", order' = <<w>> \o order
        PROVE  Listed(order'[k])
    <3>1. order \in Seq(Workflows) /\ report.offset \in Nat
      BY DEF WorldInv, Ordered, ReportInv
    <3>2. order'[1] = w /\ Len(order') = Len(order) + 1
      BY <2>2, <3>1
    <3>3. k # 1
      BY <1>4, <2>2, <3>2 DEF ReportInv, PagesInv
    <3>4. k - 1 \in 1..Len(order) /\ k - 1 <= report.offset
      BY <1>4, <3>1, <3>2, <3>3
    <3>5. order'[k] = order[k - 1]
      BY <2>2, <3>1, <3>4
    <3> QED BY <1>4, <3>4, <3>5 DEF ReportInv, PagesInv
  <2> QED BY <2>1, <2>2
<1>5. PagesInv'
  BY <1>2, <1>3, <1>4 DEF PagesInv, ReportInv
<1>6. (raw \in Seq(RowSet))'
  BY <1>1 DEF ReportInv, RowSet, JobSet, Never
<1> QED BY <1>1, <1>5, <1>6 DEF ReportInv

LEMMA RowIs ==
  ASSUME WorldInv, NEW w \in Workflows, runs[w].state # "none"
  PROVE  RowInv(Row(w)) /\ Row(w).run = w
<1>1. runs[w] \in RunSet /\ RunInv(w) /\ Conclusion(w) \in States
  BY DEF WorldInv, Conclusion, RunSet, States
<1>2. /\ Row(w).run = w /\ Row(w).conclusion = Conclusion(w) /\ Row(w).attempt = runs[w].attempt
      /\ Row(w).created = runs[w].created /\ Row(w).read = FALSE /\ Row(w).job = Times(Never, Never)
  BY DEF Row
<1>3. Row(w) \in RowSet
  BY <1>1, TimesFacts DEF Row, RowSet, RunSet
<1>4. Conclusion(w) = "completed" => jobs[w][runs[w].attempt].completed # Never
  BY <1>1 DEF RunInv, Conclusion
<1> QED BY <1>2, <1>3, <1>4, TimesFacts DEF RowInv

LEMMA JoinedRows ==
  ASSUME NEW S, NEW s \in Seq(S), NEW t \in Seq(S)
  PROVE  s \o t \in Seq(S) /\ Len(s \o t) = Len(s) + Len(t)
  OBVIOUS

LEMMA ListPageStep ==
  ASSUME WorldInv, ReportInv, ListPage
  PROVE  ReportInv'
<1> PICK n, off, both, pc : /\ n = PageSize /\ off = report.offset /\ both = raw \o Page
                            /\ pc = IF PageSize < PerPage THEN "jobs" ELSE "list"
  OBVIOUS
<1>1. /\ report.pc = "list" /\ report' = Reading(pc, off + PerPage, both)
      /\ known' = (IF off = 0 THEN {w \in Workflows : runs[w].state # "none"} ELSE known)
      /\ UNCHANGED <<now, runs, jobs, order, spent, asked, told>>
  BY DEF ListPage, worldVars, raw
<1>2. /\ PerPage \in Nat \ {0} /\ off \in Nat /\ order \in Seq(Workflows)
      /\ Len(order) \in Nat /\ raw \in Seq(RowSet) /\ Len(raw) \in Nat /\ DOMAIN raw = 1..Len(raw)
  BY PipelineAssumption DEF ReportInv, WorldInv, Ordered
<1>3. /\ n \in Nat /\ n <= PerPage /\ \A k \in 1..n : off + k \in 1..Len(order)
      /\ \A k \in 1..Len(order) : off < k /\ k <= off + PerPage => k - off \in 1..n /\ off + (k - off) = k
      /\ n < PerPage => Len(order) <= off + PerPage
  BY <1>2 DEF PageSize
<1>4. ASSUME NEW k \in 1..n PROVE RowInv(Page[k]) /\ Page[k].run = order[off + k]
  <2>1. PICK m \in 1..Len(order) : m = off + k
    BY <1>3
  <2>2. order[m] \in Workflows
    BY <1>2
  <2>3. runs[order[m]].state # "none"
    BY DEF WorldInv, Ordered
  <2>4. RowInv(Row(order[m])) /\ Row(order[m]).run = order[m]
    BY <2>2, <2>3, RowIs
  <2> QED BY <2>1, <2>4 DEF Page
<1>5. Page \in Seq(RowSet) /\ Len(Page) = n
  <2>1. Page = [k \in 1..n |-> Page[k]] /\ \A k \in 1..n : Page[k] \in RowSet
    BY <1>4 DEF Page, RowInv
  <2> HIDE DEF Page
  <2>2. Page \in [1..n -> RowSet]
    BY <2>1
  <2> QED BY <1>3, <2>2
<1>6. /\ both \in Seq(RowSet) /\ Len(both) = Len(raw) + n
      /\ \A i \in 1..Len(raw) : both[i] = raw[i]
      /\ \A k \in 1..n : both[Len(raw) + k] = Page[k]
  <2> PICK added : added = Page
    OBVIOUS
  <2>1. added \in Seq(RowSet) /\ Len(added) = n /\ both = raw \o added
    BY <1>5
  <2>2. both \in Seq(RowSet) /\ Len(both) = Len(raw) + n
    BY <1>2, <2>1, JoinedRows
  <2>3. \A i \in 1..Len(raw) : both[i] = raw[i]
    BY <1>2, <2>1
  <2>4. \A k \in 1..n : both[Len(raw) + k] = added[k]
    BY <1>2, <1>3, <2>1
  <2> QED BY <2>2, <2>3, <2>4
<1>7. /\ report'.pc = pc /\ report'.offset = off + PerPage /\ raw' = both
      /\ report' = Reading(report'.pc, report'.offset, raw')
  BY <1>1 DEF Reading, raw
<1>8. ASSUME NEW i \in DOMAIN both PROVE RowInv(both[i])
  <2>1. i \in 1..(Len(raw) + n)
    BY <1>6, <1>8
  <2>2. CASE i \in 1..Len(raw)
    BY <1>2, <1>6, <2>2 DEF ReportInv
  <2>3. CASE i \notin 1..Len(raw)
    <3>1. i - Len(raw) \in 1..n /\ Len(raw) + (i - Len(raw)) = i
      BY <1>2, <1>3, <2>1, <2>3
    <3> QED BY <1>4, <1>6, <3>1
  <2> QED BY <2>2, <2>3
<1>9. (\A i \in DOMAIN raw : RowInv(raw[i]))'
  BY <1>1, <1>7, <1>8 DEF RowInv, RowSet, JobSet, Never
<1>10. ASSUME NEW w, Listed(w) PROVE Listed(w)'
  <2>1. PICK i \in 1..Len(raw) : raw[i].run = w
    BY <1>2, <1>10 DEF Listed
  <2>2. i \in DOMAIN both /\ both[i].run = w
    BY <1>2, <1>3, <1>6, <2>1
  <2> QED BY <1>7, <2>2 DEF Listed
<1>11. ASSUME NEW k \in 1..n, NEW w, w = order[off + k] PROVE Listed(w)'
  <2>1. Len(raw) + k \in DOMAIN both /\ both[Len(raw) + k].run = order[off + k]
    BY <1>2, <1>3, <1>4, <1>6
  <2> QED BY <1>7, <1>11, <2>1 DEF Listed
<1>12. ASSUME NEW k \in 1..Len(order), k <= off + PerPage, NEW w \in known', w = order[k]
       PROVE  Listed(w)'
  <2>1. CASE off < k
    <3>1. k - off \in 1..n /\ off + (k - off) = k
      BY <1>3, <1>12, <2>1
    <3> QED BY <1>11, <1>12, <3>1
  <2>2. CASE ~(off < k)
    <3>1. k <= off /\ off # 0
      BY <1>2, <2>2
    <3>2. Listed(w)
      BY <1>1, <1>12, <3>1 DEF ReportInv, PagesInv
    <3> QED BY <1>10, <3>2
  <2> QED BY <2>1, <2>2
<1>13. known' \subseteq {w \in Workflows : runs[w].state # "none"}
  BY <1>1 DEF ReportInv, PagesInv
<1>14. ASSUME pc = "jobs", NEW w \in known' PROVE Listed(w)'
  <2>1. n < PerPage
    BY <1>14
  <2>2. PICK k \in 1..Len(order) : order[k] = w
    BY <1>13, <1>14 DEF WorldInv, Ordered
  <2>3. k <= off + PerPage
    BY <1>2, <1>3, <2>1, <2>2
  <2> QED BY <1>12, <1>14, <2>2, <2>3
<1>15. off + PerPage \in Nat /\ off + PerPage # 0 /\ pc \in {"list", "jobs"}
  BY <1>2
<1>16. PagesInv'
  BY <1>1, <1>7, <1>12, <1>13, <1>14, <1>15 DEF PagesInv
<1>17. (raw \in Seq(RowSet))'
  BY <1>6, <1>7 DEF RowSet, JobSet, Never
<1> QED BY <1>7, <1>9, <1>15, <1>16, <1>17 DEF ReportInv

LEMMA ReadJobsStep ==
  ASSUME WorldInv, ReportInv, NEW i \in DOMAIN report.raw, ReadJobs(i)
  PROVE  ReportInv'
<1> PICK old, row : /\ old = raw[i]
                    /\ row = [old EXCEPT !.read = TRUE, !.job = jobs[old.run][old.attempt]]
  OBVIOUS
<1>1. /\ report.pc = "jobs" /\ report' = [report EXCEPT !.raw[i] = row]
      /\ known' = known /\ UNCHANGED <<now, runs, jobs, order, spent, asked, told>>
  BY DEF ReadJobs, worldVars, raw
<1>2. /\ report = Reading("jobs", report.offset, raw) /\ raw \in Seq(RowSet) /\ i \in DOMAIN raw
      /\ RowInv(old) /\ old \in RowSet
  BY <1>1 DEF ReportInv, raw, RowInv
<1>3. /\ report'.pc = "jobs" /\ report'.offset = report.offset /\ raw' = [raw EXCEPT ![i] = row]
      /\ report' = Reading(report'.pc, report'.offset, raw')
  BY <1>1, <1>2 DEF Reading, raw
<1>4. jobs[old.run][old.attempt] \in JobSet
  BY <1>2 DEF WorldInv, RowSet
<1>5. /\ row \in RowSet /\ row.run = old.run /\ row.conclusion = old.conclusion
      /\ row.attempt = old.attempt /\ row.created = old.created
      /\ row.job = jobs[old.run][old.attempt]
  BY <1>2, <1>4 DEF RowSet
<1>6. RowInv(row)
  BY <1>2, <1>5 DEF RowInv
<1>7. /\ raw' \in Seq(RowSet) /\ DOMAIN raw' = DOMAIN raw
      /\ \A k \in DOMAIN raw : raw'[k] = IF k = i THEN row ELSE raw[k]
  BY <1>2, <1>3, <1>5
<1>8. \A k \in DOMAIN raw' : RowInv(raw'[k])
  BY <1>6, <1>7 DEF ReportInv
<1>9. (\A k \in DOMAIN raw : RowInv(raw[k]))'
  BY <1>1, <1>8 DEF RowInv, RowSet, JobSet, Never
<1>10. \A w : Listed(w) => Listed(w)'
  BY <1>5, <1>7 DEF Listed
<1>11. report'.offset # 0 /\ report'.offset \in Nat
  BY <1>1, <1>3 DEF ReportInv, PagesInv
<1>12. PagesInv'
  BY <1>1, <1>3, <1>10, <1>11 DEF PagesInv, ReportInv
<1>13. (raw \in Seq(RowSet))'
  BY <1>7 DEF RowSet, JobSet, Never
<1> QED BY <1>3, <1>9, <1>11, <1>12, <1>13 DEF ReportInv

LEMMA PipelineStep == PipelineInv /\ [PipelineNext]_pipelineVars => PipelineInv'
<1> SUFFICES ASSUME PipelineInv, [PipelineNext]_pipelineVars PROVE PipelineInv'
  OBVIOUS
<1>i. WorldInv /\ ReportInv
  BY DEF PipelineInv
<1>1. ASSUME NEW w \in Workflows, Create(w) PROVE PipelineInv'
  <2>1. WorldInv' /\ Stays
    BY <1>i, <1>1, CreateStep
  <2>2. report' = report /\ known' = known /\ runs[w].state = "none" /\ order' = <<w>> \o order
    BY <1>1 DEF Create
  <2> QED BY <1>i, <2>1, <2>2, WorldStepKeepsReport DEF PipelineInv
<1>2. ASSUME NEW w \in Workflows,
             Approve(w) \/ StartJob(w) \/ SkipJob(w) \/ CompleteJob(w) \/ Rerun(w)
      PROVE  PipelineInv'
  <2>1. WorldInv' /\ Stays
    BY <1>i, <1>2, StartJobStep, BecomesStep, RerunStep, CompleteJobStep
  <2>2. report' = report /\ known' = known /\ order' = order
    BY <1>2 DEF Approve, StartJob, SkipJob, CompleteJob, Rerun
  <2> QED BY <1>i, <2>1, <2>2, WorldStepKeepsReport DEF PipelineInv
<1>3. CASE Minute
  <2>1. WorldInv' /\ Stays
    BY <1>i, <1>3, MinuteStep
  <2>2. report' = report /\ known' = known /\ order' = order
    BY <1>3 DEF Minute
  <2> QED BY <1>i, <2>1, <2>2, WorldStepKeepsReport DEF PipelineInv
<1>4. ASSUME UNCHANGED worldVars PROVE WorldInv'
  <2>1. UNCHANGED <<now, runs, jobs, order, spent, asked, told>>
    BY <1>4 DEF worldVars
  <2> QED BY <1>i, <2>1 DEF WorldInv, RunInv, Settled, AskedByARun, ToldByAJob, Ordered, RunSet, JobSet, Never
<1>5. CASE ListPage
  BY <1>i, <1>4, <1>5, ListPageStep DEF ListPage, PipelineInv
<1>6. ASSUME NEW i \in DOMAIN report.raw, ReadJobs(i) PROVE PipelineInv'
  BY <1>i, <1>4, <1>6, ReadJobsStep DEF ReadJobs, PipelineInv
<1>7. CASE UNCHANGED pipelineVars
  <2>1. UNCHANGED worldVars /\ UNCHANGED <<report, known, order, runs, jobs>>
    BY <1>7 DEF pipelineVars, worldVars
  <2>2. WorldInv' /\ Stays
    BY <1>4, <2>1 DEF Stays
  <2> QED BY <1>i, <2>1, <2>2, WorldStepKeepsReport DEF PipelineInv
<1> QED BY <1>1, <1>2, <1>3, <1>5, <1>6, <1>7 DEF PipelineNext

LEMMA PipelineInvariant == PipelineSpec => []PipelineInv
  BY PipelineStart, PipelineStep, PTL DEF PipelineSpec

LEMMA PipelineTypes == PipelineInv => PipelineTypeOK
<1> SUFFICES ASSUME PipelineInv PROVE PipelineTypeOK
  OBVIOUS
<1>1. told \in 0..MaxTime
  BY TimesFacts DEF PipelineInv, WorldInv
<1>2. known \subseteq Workflows
  BY DEF PipelineInv, ReportInv, PagesInv
<1> QED BY <1>1, <1>2 DEF PipelineInv, WorldInv, ReportInv, Ordered, PipelineTypeOK, RunSet, JobSet, RowSet

(* The runs and the rows that pipeline_report.py has of them keep their    *)
(* type (pipeline_report.py:55-76).                                        *)
THEOREM PipelineTypeCorrect == PipelineSpec => []PipelineTypeOK
  BY PipelineTypes, PipelineInvariant, PTL

-----------------------------------------------------------------------------
LEMMA MinIs ==
  ASSUME NEW T, T \subseteq Nat, T # {}
  PROVE  Min(T) \in T /\ \A y \in T : Min(T) <= y
<1>1. \E x \in T : \A y \in T : x <= y
  BY Least
<1> QED BY <1>1 DEF Min

LEMMA MaxIs ==
  ASSUME NEW T, NEW b \in Nat, T \subseteq 0..b, T # {}
  PROVE  Max(T) \in T /\ \A y \in T : y <= Max(T)
<1> DEFINE U == {b - x : x \in T}
<1>1. U \subseteq Nat /\ U # {}
  OBVIOUS
<1>2. PICK u \in U : \A v \in U : u <= v
  <2> HIDE DEF U
  <2> QED BY <1>1, Least
<1>3. PICK x \in T : u = b - x
  OBVIOUS
<1>4. \A y \in T : x >= y
  <2> SUFFICES ASSUME NEW y \in T PROVE x >= y
    OBVIOUS
  <2>1. u <= b - y
    BY <1>2
  <2> QED BY <1>3, <2>1
<1>5. \E z \in T : \A y \in T : z >= y
  BY <1>4
<1> QED BY <1>5 DEF Max

(* A run that has a row with jobs has them still, and was done as they say. *)
LEMMA RanIs ==
  ASSUME PipelineInv, Fetched, NEW i \in Ran
  PROVE  /\ raw[i].created \in Nat /\ asked <= raw[i].created
         /\ raw[i].created <= raw[i].job.started /\ raw[i].job.started <= raw[i].job.completed
         /\ raw[i].job.completed <= told
         /\ raw[i].job.started \in Nat /\ raw[i].job.completed \in Nat
<1>1. i \in DOMAIN raw /\ raw[i].attempt = 1 /\ raw[i].job.completed # Never
  BY DEF Ran, FirstRuns, HasJobs
<1> PICK w : w = raw[i].run
  OBVIOUS
<1>2. /\ w \in Workflows /\ runs[w].state # "none" /\ raw[i].created = runs[w].created
      /\ raw[i].job = jobs[w][1] /\ raw[i].job \in JobSet
  BY <1>1 DEF PipelineInv, ReportInv, RowInv, RowSet
<1>3. RunInv(w) /\ runs[w] \in RunSet
  BY <1>2 DEF PipelineInv, WorldInv
<1>4. Settled(w, 1) /\ asked <= runs[w].created
  BY <1>1, <1>2, <1>3, TimesFacts DEF RunInv
<1>5. runs[w].created \in Nat /\ jobs[w][1].started \in Nat /\ jobs[w][1].completed \in Nat
  BY <1>2, <1>3, TimesFacts DEF RunSet, JobSet
<1> QED BY <1>2, <1>4, <1>5 DEF Settled

LEMMA FeedbackSays ==
  ASSUME PipelineInv, Fetched, NEW f \in feedback
  PROVE  f.queue <= f.ttf /\ f.ttf <= told - asked
<1> DEFINE C == {raw[i].job.completed : i \in Ran}
           R == {raw[i].created : i \in Ran}
           Q == {raw[i].job.started - raw[i].created : i \in Ran}
<1>1. Ran # {} /\ f = [ttf |-> Max(C) - Min(R), queue |-> Max(Q)]
  BY DEF feedback, queue_wait, NoRow
<1>2. /\ MaxTime \in Nat /\ told \in 0..MaxTime /\ asked \in Nat /\ told \in Nat
  BY TimesFacts DEF PipelineInv, WorldInv
<1>5. C \subseteq 0..MaxTime /\ R \subseteq Nat /\ Q \subseteq 0..MaxTime
  <2>1. C \subseteq 0..MaxTime
    BY <1>2, RanIs
  <2>2. R \subseteq Nat
    BY RanIs
  <2>3. Q \subseteq 0..MaxTime
    BY <1>2, RanIs
  <2> QED BY <2>1, <2>2, <2>3
<1>6. C # {} /\ R # {} /\ Q # {}
  BY <1>1
<1>7. Max(C) \in C /\ \A y \in C : y <= Max(C)
  <2> HIDE DEF C
  <2> QED BY <1>2, <1>5, <1>6, MaxIs
<1>8. Min(R) \in R /\ \A y \in R : Min(R) <= y
  <2> HIDE DEF R
  <2> QED BY <1>5, <1>6, MinIs
<1>9. Max(Q) \in Q
  <2> HIDE DEF Q
  <2> QED BY <1>2, <1>5, <1>6, MaxIs
<1> PICK c, m, q : c = Max(C) /\ m = Min(R) /\ q = Max(Q)
  OBVIOUS
<1>10. c \in Nat /\ m \in Nat /\ c <= told /\ asked <= m
  BY <1>2, <1>7, <1>8, RanIs
<1>11. q <= c - m
  <2>1. PICK i \in Ran : q = raw[i].job.started - raw[i].created
    BY <1>9
  <2>2. raw[i].job.completed <= c /\ m <= raw[i].created
    BY <1>7, <1>8
  <2>3. /\ raw[i].created \in Nat /\ raw[i].job.started \in Nat /\ raw[i].job.completed \in Nat
        /\ raw[i].created <= raw[i].job.started /\ raw[i].job.started <= raw[i].job.completed
    BY RanIs
  <2> QED BY <1>10, <2>1, <2>2, <2>3
<1>12. c - m <= told - asked
  BY <1>2, <1>10
<1> HIDE DEF C, R, Q
<1>13. f.ttf = c - m /\ f.queue = q
  BY <1>1
<1> QED BY <1>11, <1>12, <1>13

LEMMA FeedbackIsExact ==
  ASSUME PipelineInv, Fetched,
         \A i \in DOMAIN raw : raw[i].conclusion = "completed" /\ raw[i].attempt = 1,
         \A w \in Workflows : Rows(w) # {}
  PROVE  {f.ttf : f \in feedback} = {told - asked}
<1> DEFINE C == {raw[i].job.completed : i \in Ran}
           R == {raw[i].created : i \in Ran}
           Q == {raw[i].job.started - raw[i].created : i \in Ran}
<1>1. /\ MaxTime \in Nat /\ told \in 0..MaxTime /\ asked \in 0..Never /\ Never = MaxTime + 1
      /\ now \in 0..MaxTime
  BY TimesFacts DEF PipelineInv, WorldInv
<1>2. FirstRuns = DOMAIN raw /\ Ran = DOMAIN raw
  <2>1. ASSUME NEW i \in DOMAIN raw PROVE HasJobs(i)
    <3>1. RowInv(raw[i]) /\ raw[i].read
      BY DEF PipelineInv, ReportInv, Fetched
    <3> QED BY <3>1 DEF RowInv, HasJobs
  <2> QED BY <2>1 DEF FirstRuns, Ran
<1>3. ASSUME NEW w \in Workflows
      PROVE  \E i \in Ran : raw[i].created = runs[w].created /\ raw[i].job = jobs[w][1]
                            /\ runs[w].state # "none"
  <2>1. PICK i \in Ran : raw[i].run = w
    BY <1>2 DEF Rows
  <2>2. RowInv(raw[i]) /\ raw[i].attempt = 1 /\ raw[i].job.completed # Never
    BY <1>2 DEF PipelineInv, ReportInv, Ran, HasJobs
  <2> QED BY <2>1, <2>2 DEF RowInv
<1>w. PICK w0 \in Workflows : TRUE
  BY PipelineAssumption
<1>4. \E i \in Ran : raw[i].created = asked
  <2>1. asked # Never
    <3>1. asked <= runs[w0].created /\ runs[w0].created \in 0..MaxTime
      BY <1>3, <1>w DEF PipelineInv, WorldInv, RunInv, RunSet
    <3> QED BY <1>1, <3>1
  <2> QED BY <1>3, <2>1 DEF PipelineInv, WorldInv, AskedByARun
<1>5. \E i \in Ran : raw[i].job.completed = told
  <2>1. CASE told = 0
    <3>1. PICK i \in Ran : TRUE
      BY <1>3, <1>w
    <3>2. raw[i].job.completed <= told /\ raw[i].job.completed \in Nat
      BY RanIs
    <3> QED BY <2>1, <3>2
  <2>2. CASE told # 0
    BY <1>3, <2>2 DEF PipelineInv, WorldInv, ToldByAJob
  <2> QED BY <2>1, <2>2
<1>6. C \subseteq 0..told /\ told \in C /\ told \in Nat
  <2>1. told \in C /\ told \in Nat
    BY <1>1, <1>5
  <2>2. \A i \in Ran : raw[i].job.completed \in 0..told
    BY <2>1, RanIs
  <2> QED BY <2>1, <2>2
<1>7. R \subseteq Nat /\ asked \in R /\ \A y \in R : asked <= y
  BY <1>4, RanIs
<1>8. Max(C) = told
  <2> HIDE DEF C
  <2>1. Max(C) \in C /\ \A y \in C : y <= Max(C)
    BY <1>6, MaxIs
  <2> PICK c : c = Max(C)
    OBVIOUS
  <2>2. c \in 0..told /\ told <= c
    BY <1>6, <2>1
  <2>3. c = told
    BY <1>6, <2>2
  <2> QED BY <2>3
<1>9. Min(R) = asked
  <2> HIDE DEF R
  <2>1. Min(R) \in R /\ \A y \in R : Min(R) <= y
    BY <1>7, MinIs
  <2> PICK m : m = Min(R)
    OBVIOUS
  <2>2. m \in Nat /\ m <= asked /\ asked <= m /\ asked \in Nat
    BY <1>7, <2>1
  <2>3. m = asked
    BY <2>2
  <2> QED BY <2>3
<1>10. feedback = {[ttf |-> Max(C) - Min(R), queue |-> Max(Q)]}
  <2>1. ~NoRow
    <3>1. Ran # {}
      BY <1>3, <1>w
    <3>2. \A i \in FirstRuns : raw[i].conclusion = "completed"
      BY <1>2
    <3> QED BY <3>1, <3>2 DEF NoRow
  <2> QED BY <2>1 DEF feedback, queue_wait
<1> HIDE DEF C, R, Q
<1> QED BY <1>8, <1>9, <1>10

(* The sum over the one row of a run. *)
LEMMA SumOfOne ==
  ASSUME NEW i, minutes(i) \in Nat
  PROVE  MapThenSumSet(minutes, {i}) = minutes(i)
<1> DEFINE W == {i}
           f == [x \in W |-> minutes(x)]
           P(h) == h = [s \in SUBSET W |->
                           IF s = {} THEN 0
                           ELSE minutes(CHOOSE x \in s : TRUE) + h[s \ {CHOOSE x \in s : TRUE}]]
<1>1. MapThenSumSet(minutes, W) = (CHOOSE h : h = [s \in SUBSET W |->
                           IF s = {} THEN 0
                           ELSE minutes(CHOOSE x \in s : TRUE)
                                  + h[s \ {CHOOSE x \in s : TRUE}]])[W]
  BY DEF MapThenSumSet, MapThenFoldSet
<1>2. IsFiniteSet(W) /\ i \in W /\ \A w \in W : f[w] = minutes(i) /\ f[w] \in Nat
  BY FS_Singleton
<1>3. ASSUME NEW h PROVE P(h) <=> IsFold(h, f, W)
  <2>1. ASSUME NEW s \in SUBSET W, s # {}
        PROVE  f[CHOOSE x \in s : TRUE] = minutes(CHOOSE x \in s : TRUE)
    BY <2>1
  <2> HIDE DEF f, W
  <2> QED BY <2>1 DEF IsFold
<1>e. W \ {i} = {}
  OBVIOUS
<1> HIDE DEF f, W
<1>4. P(CHOOSE h : P(h))
  <2>1. P([s \in SUBSET W |-> Count(f, s)])
    <3> HIDE DEF P
    <3> QED BY <1>2, <1>3, CountIsFold
  <2> HIDE DEF P
  <2> QED BY <2>1
<1>5. MapThenSumSet(minutes, W) = (CHOOSE h : P(h))[W]
  BY <1>1
<1> HIDE DEF P
<1>6. MapThenSumSet(minutes, W) = Count(f, W)
  BY <1>2, <1>3, <1>4, <1>5, FoldIsCount
<1>7. Count(f, W) = f[i] + Count(f, W \ {i})
  BY <1>2, CountWith
<1>8. Count(f, W \ {i}) = 0
  BY <1>e, CountOfNone
<1>9. MapThenSumSet(minutes, W) = minutes(i)
  BY <1>2, <1>6, <1>7, <1>8
<1> QED BY <1>9 DEF W

LEMMA MinutesWereSpent ==
  ASSUME PipelineInv, NEW w \in DOMAIN minutes_by_workflow, Once(w)
  PROVE  minutes_by_workflow[w] <= spent[w]
<1>1. PICK i \in DOMAIN raw : raw[i].run = w
  BY DEF minutes_by_workflow
<1>2. Rows(w) = {i}
  BY <1>1 DEF Rows, Once
<1>3. w \in Workflows /\ RowInv(raw[i]) /\ raw[i].attempt \in 1..MaxAttempts
  BY <1>1 DEF PipelineInv, ReportInv, RowInv, RowSet
<1>4. spent[w] \in Nat /\ RunInv(w) /\ jobs[w][raw[i].attempt] \in JobSet
  BY <1>3 DEF PipelineInv, WorldInv
<1>5. minutes(i) \in Nat /\ minutes(i) <= spent[w]
  <2>1. CASE HasJobs(i)
    <3>1. raw[i].job = jobs[w][raw[i].attempt] /\ Settled(w, raw[i].attempt)
      BY <1>1, <1>3, <1>4, <2>1 DEF HasJobs, RowInv, RunInv
    <3> QED BY <1>4, <2>1, <3>1, TimesFacts DEF minutes, Settled, JobSet
  <2>2. CASE ~HasJobs(i)
    BY <1>4, <2>2 DEF minutes
  <2> QED BY <2>1, <2>2
<1>6. minutes_by_workflow[w] = MapThenSumSet(minutes, Rows(w))
  BY DEF minutes_by_workflow
<1>7. MapThenSumSet(minutes, {i}) = minutes(i)
  BY <1>5, SumOfOne
<1> QED BY <1>2, <1>5, <1>6, <1>7

(* FeedbackIsTheWait, for any workflows, any page, any time and any number *)
(* of attempts: the report says no more than the author waited, and just   *)
(* that when it saw every run done, once; and no run it could have seen is *)
(* lost while new ones are created (pipeline_report.py:15-16, 90-100,      *)
(* 149-167).                                                               *)
THEOREM WaitIsFeedback == PipelineSpec => []FeedbackIsTheWait
<1>1. PipelineInv => FeedbackIsTheWait
  <2> SUFFICES ASSUME PipelineInv, Fetched PROVE FeedbackIsTheWait
    BY DEF FeedbackIsTheWait
  <2>1. \A w \in known : Rows(w) # {}
    BY DEF PipelineInv, ReportInv, PagesInv, Listed, Rows, Fetched
  <2> QED BY <2>1, FeedbackSays, FeedbackIsExact, MinutesWereSpent DEF FeedbackIsTheWait
<1> QED BY <1>1, PipelineInvariant, PTL

-----------------------------------------------------------------------------
(* The cost digest.                                                        *)

(* The days of the week before day D, and what a key cost on each.         *)
Before(D) == {d \in DOMAIN rows : d >= D - Week /\ d < D}

CostOf(k) == [d \in DOMAIN rows |-> rows[d][k]]

(* Late rows are all that a posted sum may have missed.                    *)
Known(p) ==
    /\ p.day \in 0..day
    /\ p.previous \in [Keys -> Nat] /\ p.current \in [Keys -> Nat]
    /\ \A k \in Keys :
          Sum(k, Before(p.day)) - p.current[k] \in 0..Cardinality({d \in late : d < p.day})

RowsAreCosts ==
    /\ day \in Nat /\ rows \in [0..(day - 1) -> [Keys -> Nat]]

SumsAreCounts ==
    \A k \in Keys : \A some \in SUBSET DOMAIN rows :
        Sum(k, some) = Count(CostOf(k), some) /\ Sum(k, some) \in Nat

CostInv ==
    /\ day \in Day /\ RowsAreCosts
    /\ file \in -1..LastDay /\ attempt \in {0, 1, 3}
    /\ late \subseteq DOMAIN rows
    /\ \A p \in posts : Known(p)
    /\ WeeksMeet

LEMMA RowsFinite ==
  ASSUME RowsAreCosts
  PROVE  /\ DOMAIN rows = 0..(day - 1) /\ IsFiniteSet(DOMAIN rows)
         /\ \A k \in Keys : \A d \in DOMAIN rows : CostOf(k)[d] \in Nat /\ rows[d][k] \in Nat
<1>1. DOMAIN rows = 0..(day - 1) /\ day - 1 \in Int
  BY DEF RowsAreCosts
<1>2. IsFiniteSet(0..(day - 1))
  BY <1>1, FS_Interval
<1> QED BY <1>1, <1>2 DEF RowsAreCosts, CostOf

LEMMA SumIs ==
  ASSUME RowsAreCosts, NEW k \in Keys, NEW some \in SUBSET DOMAIN rows
  PROVE  Sum(k, some) = Count(CostOf(k), some) /\ Sum(k, some) \in Nat
<1> DEFINE P(h) == h = [s \in SUBSET some |->
                           IF s = {} THEN 0
                           ELSE rows[CHOOSE x \in s : TRUE][k] + h[s \ {CHOOSE x \in s : TRUE}]]
<1>1. Sum(k, some) = (CHOOSE h : P(h))[some]
  BY DEF Sum, MapThenSumSet, MapThenFoldSet
<1>2. ASSUME NEW h PROVE P(h) <=> IsFold(h, CostOf(k), some)
  <2>1. ASSUME NEW s \in SUBSET some, s # {}
        PROVE  CostOf(k)[CHOOSE x \in s : TRUE] = rows[CHOOSE x \in s : TRUE][k]
    BY <2>1 DEF CostOf
  <2> QED BY <2>1 DEF IsFold
<1> HIDE DEF P
<1>3. IsFiniteSet(some) /\ \A x \in some : CostOf(k)[x] \in Nat
  BY RowsFinite, FS_Subset
<1>4. P(CHOOSE h : P(h))
  BY <1>2, <1>3, CountIsFold
<1> QED BY <1>1, <1>2, <1>3, <1>4, FoldIsCount, CountType

LEMMA SumsAre == RowsAreCosts => SumsAreCounts
  BY SumIs DEF SumsAreCounts

LEMMA CostStart == CostInit => CostInv
  BY CostAssumption DEF CostInit, CostInv, RowsAreCosts, WeeksMeet, Day

(* More late days never narrow what two digests may differ by.             *)
LEMMA LateGrows ==
  ASSUME RowsAreCosts, late \subseteq DOMAIN rows, NEW more \in SUBSET DOMAIN rows, late \subseteq more,
         NEW D
  PROVE  /\ Cardinality({d \in late : d < D}) \in Nat
         /\ Cardinality({d \in more : d < D}) \in Nat
         /\ Cardinality({d \in late : d < D}) <= Cardinality({d \in more : d < D})
<1> DEFINE A == {d \in late : d < D}
           B == {d \in more : d < D}
<1>1. IsFiniteSet(B) /\ A \in SUBSET B
  BY RowsFinite, FS_Subset
<1> HIDE DEF A, B
<1>2. IsFiniteSet(A) /\ Cardinality(A) <= Cardinality(B)
  BY <1>1, FS_Subset
<1> QED BY <1>1, <1>2, FS_CardinalityType DEF A, B

LEMMA NextDayStep == CostInv /\ NextDay => CostInv'
<1> SUFFICES ASSUME CostInv, NextDay PROVE CostInv'
  OBVIOUS
<1>1. PICK today \in [Keys -> Costs] :
        rows' = [d \in 0..day |-> IF d = day THEN today ELSE rows[d]]
  BY DEF NextDay
<1>2. /\ day \in Nat /\ day' = day + 1 /\ day' \in Day /\ attempt' = 0
      /\ UNCHANGED <<file, posts, late>>
      /\ rows \in [0..(day - 1) -> [Keys -> Nat]] /\ DOMAIN rows = 0..(day - 1)
  BY CostAssumption DEF NextDay, CostInv, RowsAreCosts, Day
<1>3. DOMAIN rows' = 0..day /\ \A d \in DOMAIN rows : rows'[d] = rows[d]
  BY <1>1, <1>2
<1>4. RowsAreCosts'
  <2>1. \A d \in 0..day : rows'[d] \in [Keys -> Nat]
    <3>1. today \in [Keys -> Nat]
      BY CostAssumption
    <3> QED BY <1>1, <1>2, <3>1
  <2> QED BY <1>1, <1>2, <1>3, <2>1 DEF RowsAreCosts
<1>5. ASSUME NEW p \in posts PROVE Known(p)'
  <2>1. Known(p)
    BY DEF CostInv
  <2>2. p.day \in 0..day
    BY <2>1 DEF Known
  <2>3. Before(p.day)' = Before(p.day)
    BY <1>2, <1>3, <2>2, CostAssumption DEF Before
  <2>4. ASSUME NEW k \in Keys
        PROVE  Sum(k, Before(p.day))' = Sum(k, Before(p.day))
    <3>1. Before(p.day) \in SUBSET DOMAIN rows /\ Before(p.day) \in SUBSET DOMAIN rows'
      BY <1>2, <1>3 DEF Before
    <3>2. \A d \in Before(p.day) : CostOf(k)'[d] = CostOf(k)[d]
      BY <1>3, <3>1 DEF CostOf
    <3>3. Sum(k, Before(p.day)) = Count(CostOf(k), Before(p.day))
      BY <3>1, SumIs DEF CostInv
    <3>4. SumsAreCounts'
      BY <1>4, SumsAre, PTL
    <3>5. Sum(k, Before(p.day))' = Count(CostOf(k)', Before(p.day)')
      BY <2>3, <3>1, <3>4 DEF SumsAreCounts
    <3> QED BY <2>3, <3>2, <3>3, <3>5, CountSame
  <2>5. p.day \in 0..day'
    BY <1>2, <2>2
  <2>6. late' = late
    BY <1>2
  <2> QED BY <2>1, <2>4, <2>5, <2>6 DEF Known
<1>6. WeeksMeet'
  BY <1>2 DEF CostInv, WeeksMeet
<1>7. late' \subseteq DOMAIN rows'
  BY <1>2, <1>3 DEF CostInv
<1> QED BY <1>2, <1>4, <1>5, <1>6, <1>7 DEF CostInv

LEMMA LateRowStep ==
  ASSUME CostInv, NEW j \in Keys, LateRow(j)
  PROVE  CostInv'
<1> PICK y : y = day - 1
  OBVIOUS
<1>1. /\ day \in Nat /\ y \in DOMAIN rows /\ y \notin late /\ y \in Nat /\ y = day - 1
      /\ late' = late \union {y} /\ UNCHANGED <<day, file, attempt, posts>>
      /\ rows \in [0..(day - 1) -> [Keys -> Nat]]
      /\ rows' = [rows EXCEPT ![y] = [rows[y] EXCEPT ![j] = rows[y][j] + 1]]
  BY DEF LateRow, CostInv, RowsAreCosts
<1>2. /\ DOMAIN rows' = DOMAIN rows /\ rows' \in [0..(day - 1) -> [Keys -> Nat]]
      /\ \A d \in DOMAIN rows : \A k \in Keys :
            rows'[d][k] = IF d = y /\ k = j THEN rows[d][k] + 1 ELSE rows[d][k]
  BY <1>1
<1>3. RowsAreCosts' /\ RowsAreCosts
  BY <1>1, <1>2 DEF RowsAreCosts, CostInv
<1>4. /\ late' \in SUBSET DOMAIN rows /\ late \subseteq late' /\ late \subseteq DOMAIN rows
  BY <1>1, <1>2 DEF CostInv
<1>5. ASSUME NEW p \in posts PROVE Known(p)'
  <2> PICK L : L = {d \in late : d < p.day}
    OBVIOUS
  <2>1. /\ p.day \in 0..day /\ p.previous \in [Keys -> Nat] /\ p.current \in [Keys -> Nat]
        /\ \A k \in Keys : Sum(k, Before(p.day)) - p.current[k] \in 0..Cardinality(L)
    BY DEF CostInv, Known
  <2> PICK W : W = Before(p.day)
    OBVIOUS
  <2>2. W \in SUBSET DOMAIN rows /\ W = Before(p.day)' /\ IsFiniteSet(W)
    <3>1. W \in SUBSET DOMAIN rows /\ W = Before(p.day)'
      BY <1>1, <1>2 DEF Before
    <3> QED BY <1>3, <3>1, RowsFinite, FS_Subset
  <2>3. IsFiniteSet(L) /\ Cardinality(L) \in Nat /\ y \notin L
    <3>1. IsFiniteSet(L)
      BY <1>3, <1>4, RowsFinite, FS_Subset
    <3> QED BY <1>1, <3>1, FS_CardinalityType
  <2>4. {d \in late' : d < p.day} = IF y < p.day THEN L \union {y} ELSE L
    BY <1>1
  <2>5. Cardinality({d \in late' : d < p.day}) = IF y < p.day THEN Cardinality(L) + 1 ELSE Cardinality(L)
    <3>1. Cardinality(L \union {y}) = Cardinality(L) + 1
      BY <2>3, FS_AddElement
    <3> QED BY <2>4, <3>1
  <2>6. ASSUME NEW k \in Keys
        PROVE  /\ Sum(k, W) \in Nat
               /\ Sum(k, Before(p.day))' = IF k = j /\ y \in W THEN Sum(k, W) + 1 ELSE Sum(k, W)
    <3> PICK f, g : f = CostOf(k) /\ g = CostOf(k)'
      OBVIOUS
    <3>1. SumsAreCounts /\ SumsAreCounts'
      BY <1>3, SumsAre, PTL
    <3>2. Sum(k, W) = Count(f, W) /\ Sum(k, W) \in Nat
      BY <2>2, <3>1 DEF SumsAreCounts
    <3>3. Sum(k, Before(p.day))' = Count(g, W)
      BY <1>2, <2>2, <3>1 DEF SumsAreCounts
    <3>4. \A d \in W : /\ f[d] \in Nat /\ g[d] \in Nat
                       /\ g[d] = IF d = y /\ k = j THEN f[d] + 1 ELSE f[d]
      <4>1. \A d \in DOMAIN rows : f[d] = rows[d][k] /\ g[d] = rows'[d][k] /\ f[d] \in Nat
        BY <1>1, <1>2 DEF CostOf
      <4> QED BY <1>2, <2>2, <4>1
    <3>5. CASE k = j /\ y \in W
      <4>1. Count(f, W) = f[y] + Count(f, W \ {y}) /\ Count(g, W) = g[y] + Count(g, W \ {y})
        BY <2>2, <3>4, <3>5, CountWith
      <4>2. Count(f, W \ {y}) = Count(g, W \ {y})
        BY <3>4, CountSame
      <4>3. IsFiniteSet(W \ {y}) /\ Count(f, W \ {y}) \in Nat
        <5>1. IsFiniteSet(W \ {y})
          BY <2>2, FS_RemoveElement
        <5> QED BY <3>4, <5>1, CountType
      <4>4. g[y] = f[y] + 1 /\ f[y] \in Nat
        BY <3>4, <3>5
      <4> QED BY <3>2, <3>3, <3>5, <4>1, <4>2, <4>3, <4>4
    <3>6. CASE ~(k = j /\ y \in W)
      <4>1. \A d \in W : f[d] = g[d]
        BY <3>4, <3>6
      <4>2. Count(f, W) = Count(g, W)
        BY <4>1, CountSame
      <4> QED BY <3>2, <3>3, <3>6, <4>2
    <3> QED BY <3>5, <3>6
  <2>7. y \in W => y < p.day
    BY DEF Before
  <2>8. ASSUME NEW k \in Keys
        PROVE  Sum(k, Before(p.day))' - p.current[k] \in 0..Cardinality({d \in late' : d < p.day})
    <3>1. Sum(k, W) - p.current[k] \in 0..Cardinality(L) /\ p.current[k] \in Nat
      BY <2>1
    <3> QED BY <2>3, <2>5, <2>6, <2>7, <3>1
  <2>9. p.day \in 0..day'
    BY <1>1, <2>1
  <2> QED BY <2>1, <2>8, <2>9 DEF Known
<1>6. WeeksMeet'
  <2>1. WeeksMeet /\ posts' = posts
    BY <1>1 DEF CostInv
  <2>2. \A p : /\ Cardinality({d \in late : d < p.day}) \in Nat
               /\ Cardinality({d \in late' : d < p.day}) \in Nat
               /\ Cardinality({d \in late : d < p.day}) <= Cardinality({d \in late' : d < p.day})
    BY <1>3, <1>4, LateGrows
  <2>3. \A a, b \in Nat : \A c \in 0..a : a <= b => c \in 0..b
    OBVIOUS
  <2> SUFFICES ASSUME NEW p \in posts, NEW q \in posts, q.day = p.day + Week, NEW k \in Keys
               PROVE  q.previous[k] - p.current[k] \in 0..Cardinality({d \in late' : d < p.day})
    BY <2>1 DEF WeeksMeet
  <2> DEFINE A == Cardinality({d \in late : d < p.day})
             B == Cardinality({d \in late' : d < p.day})
  <2>4. q.previous[k] - p.current[k] \in 0..A
    BY <2>1 DEF WeeksMeet
  <2>5. A \in Nat /\ B \in Nat /\ A <= B
    BY <2>2
  <2> HIDE DEF A, B
  <2>6. q.previous[k] - p.current[k] \in 0..B
    BY <2>3, <2>4, <2>5
  <2> QED BY <2>6 DEF B
<1>7. late' \subseteq DOMAIN rows'
  BY <1>2, <1>4
<1> QED BY <1>1, <1>3, <1>5, <1>6, <1>7 DEF CostInv

LEMMA SameRows ==
  ASSUME RowsAreCosts, rows' = rows, day' = day, late' = late, NEW p, Known(p)
  PROVE  Known(p)'
<1>1. Before(p.day)' = Before(p.day) /\ Before(p.day) \in SUBSET DOMAIN rows
  BY DEF Before
<1>2. RowsAreCosts' /\ SumsAreCounts
  BY SumsAre DEF RowsAreCosts
<1>3. SumsAreCounts'
  BY <1>2, SumsAre, PTL
<1>4. ASSUME NEW k \in Keys PROVE Sum(k, Before(p.day))' = Sum(k, Before(p.day))
  <2>1. CostOf(k)' = CostOf(k)
    BY DEF CostOf
  <2>2. Sum(k, Before(p.day)) = Count(CostOf(k), Before(p.day))
    BY <1>1, <1>2 DEF SumsAreCounts
  <2>3. Sum(k, Before(p.day))' = Count(CostOf(k)', Before(p.day)')
    BY <1>1, <1>3 DEF SumsAreCounts
  <2> QED BY <1>1, <2>1, <2>2, <2>3
<1> QED BY <1>4 DEF Known

(* What a digest says of its two weeks. *)
LEMMA DigestSays ==
  ASSUME CostInv
  PROVE  /\ digest.day = day
         /\ digest.previous \in [Keys -> Nat] /\ digest.current \in [Keys -> Nat]
         /\ \A k \in Keys : /\ digest.current[k] = Sum(k, Before(day))
                            /\ digest.previous[k] = Sum(k, Before(day - Week))
<1>1. digest.day = day /\ digest.previous = split_weeks(cost_explorer_rows)[1]
      /\ digest.current = split_weeks(cost_explorer_rows)[2]
  BY DEF digest
<1>2. /\ day \in Nat /\ Week \in Nat \ {0} /\ DOMAIN rows = 0..(day - 1)
  BY CostAssumption DEF CostInv, RowsAreCosts
<1>3. /\ {d \in cost_explorer_rows : d < Boundary} = Before(day - Week)
      /\ {d \in cost_explorer_rows : d >= Boundary} = Before(day)
  BY <1>2 DEF cost_explorer_rows, Boundary, Before
<1>4. /\ digest.previous = [k \in Keys |-> Sum(k, Before(day - Week))]
      /\ digest.current = [k \in Keys |-> Sum(k, Before(day))]
  BY <1>1, <1>3 DEF split_weeks
<1>5. \A k \in Keys : Sum(k, Before(day)) \in Nat /\ Sum(k, Before(day - Week)) \in Nat
  <2>1. Before(day) \in SUBSET DOMAIN rows /\ Before(day - Week) \in SUBSET DOMAIN rows
    BY DEF Before
  <2> QED BY <2>1, SumIs DEF CostInv
<1> QED BY <1>1, <1>4, <1>5

LEMMA DigestStep ==
  ASSUME CostInv, post(digest), UNCHANGED <<day, rows, file, late>>, attempt' \in {0, 1, 3}
  PROVE  CostInv'
<1>1. /\ posts' = posts \union {digest} /\ day' = day /\ rows' = rows /\ file' = file /\ late' = late
  BY DEF post
<1>2. day \in Nat /\ Week \in Nat \ {0} /\ RowsAreCosts /\ late \subseteq DOMAIN rows
  BY CostAssumption DEF CostInv, RowsAreCosts
<1>3. \A D : Cardinality({d \in late : d < D}) \in Nat
  BY <1>2, LateGrows
<1>4. Known(digest)
  BY <1>2, <1>3, DigestSays DEF Known
<1>5. \A p \in posts' : Known(p)'
  <2>1. \A p \in posts : Known(p)
    BY DEF CostInv
  <2>2. \A p : Known(p) => Known(p)'
    BY <1>1, <1>2, SameRows
  <2> QED BY <1>1, <1>4, <2>1, <2>2
<1>6. WeeksMeet'
  <2> SUFFICES ASSUME NEW p \in posts', NEW q \in posts', q.day = p.day + Week, NEW k \in Keys
               PROVE  q.previous[k] - p.current[k] \in 0..Cardinality({d \in late : d < p.day})
    BY <1>1 DEF WeeksMeet
  <2>1. Known(p) /\ Known(q)
    <3>1. \A r \in posts : Known(r)
      BY DEF CostInv
    <3> QED BY <1>1, <1>4, <3>1
  <2>2. p.day \in 0..day /\ q.day \in 0..day
    BY <2>1 DEF Known
  <2>3. CASE q \in posts
    <3>1. p.day # day
      BY <1>2, <2>2
    <3>2. p \in posts
      BY <1>1, <3>1, DigestSays
    <3> QED BY <2>3, <3>2 DEF CostInv, WeeksMeet
  <2>4. CASE q = digest
    <3>1. p.day = day - Week
      BY <1>2, <2>2, <2>4, DigestSays
    <3>2. q.previous[k] = Sum(k, Before(p.day))
      BY <2>4, <3>1, DigestSays
    <3> QED BY <2>1, <3>2 DEF Known
  <2> QED BY <1>1, <2>3, <2>4
<1>7. /\ day' \in Day /\ file' \in -1..LastDay /\ late' \subseteq DOMAIN rows'
      /\ RowsAreCosts'
  BY <1>1 DEF CostInv, RowsAreCosts
<1> QED BY <1>5, <1>6, <1>7 DEF CostInv

LEMMA CostStep == CostInv /\ [CostNext]_costVars => CostInv'
<1> SUFFICES ASSUME CostInv, [CostNext]_costVars PROVE CostInv'
  OBVIOUS
<1>1. ASSUME UNCHANGED <<day, rows, posts, late>>, file' \in -1..LastDay, attempt' \in {0, 1, 3}
      PROVE  CostInv'
  <2>1. /\ day' = day /\ rows' = rows /\ posts' = posts /\ late' = late
    BY <1>1
  <2>2. \A p : Known(p) => Known(p)'
    BY <2>1, SameRows DEF CostInv
  <2>3. (\A p \in posts' : Known(p)') /\ RowsAreCosts' /\ WeeksMeet'
    BY <2>1, <2>2 DEF CostInv, RowsAreCosts, WeeksMeet
  <2>4. day' \in Day /\ late' \subseteq DOMAIN rows'
    BY <2>1 DEF CostInv
  <2> QED BY <1>1, <2>3, <2>4 DEF CostInv
<1>2. file \in -1..LastDay /\ attempt \in {0, 1, 3}
  BY DEF CostInv
<1>3. CASE UNCHANGED costVars
  BY <1>1, <1>2, <1>3 DEF costVars
<1>4. CASE WriteMinutes
  <2>1. day \in -1..LastDay
    BY CostAssumption DEF CostInv, Day
  <2> QED BY <1>1, <1>2, <1>4, <2>1 DEF WriteMinutes
<1>5. CASE Handle
  <2>1. attempt' \in {0, 1, 3} /\ UNCHANGED <<day, rows, file, late>>
    BY <1>5 DEF Handle
  <2>2. post(digest) \/ posts' = posts
    BY <1>5 DEF Handle
  <2> QED BY <1>1, <1>2, <2>1, <2>2, DigestStep
<1> QED BY <1>3, <1>4, <1>5, NextDayStep, LateRowStep DEF CostNext

LEMMA CostInvariant == CostSpec => []CostInv
  BY CostStart, CostStep, PTL DEF CostSpec

LEMMA CostTypes == CostInv => CostTypeOK
  BY DEF CostInv, RowsAreCosts, CostTypeOK

(* The costs the digest reads and its file keep their type: one row for    *)
(* each day there was (cost_report.py:134-142).                            *)
THEOREM CostTypeCorrect == CostSpec => []CostTypeOK
  BY CostTypes, CostInvariant, PTL

(* WeeksMeet, for any costs and any keys, and however many days: what one  *)
(* digest calls last week's spending, the one a week later calls the week  *)
(* before's (cost_report.py:38-56).                                        *)
THEOREM DigestsMeet == CostSpec => []WeeksMeet
<1>1. CostInv => WeeksMeet
  BY DEF CostInv
<1> QED BY <1>1, CostInvariant, PTL

-----------------------------------------------------------------------------
(* error_budget.py                                                         *)

(* What the script has read, and of which window.  What does not show yet  *)
(* is of the part that is served into; no 5xx has left the window that the *)
(* first read was of, unless an hour went by.                              *)
Shown == hidden[1] <= recent[1] /\ hidden[2] <= recent[2]

Kept ==
    /\ budget.pc # "done" => budget.code = -1
    /\ budget.pc = "count" => why = {}
    /\ budget.pc = "5xx" => budget.requests <= before[1]
    /\ budget.pc = "5xx" /\ "slid" \notin why => before[2] <= Window[2]

BudgetInv == BudgetTypeOK /\ Shown /\ Kept /\ SpentIsNotCalledLeft

LEMMA PairType ==
  ASSUME NEW a \in Nat \X Nat, NEW b \in Nat \X Nat
  PROVE  /\ Plus(a, b) \in Nat \X Nat
         /\ Plus(a, b)[1] = a[1] + b[1] /\ Plus(a, b)[2] = a[2] + b[2]
         /\ Minus(a, b)[1] = a[1] - b[1] /\ Minus(a, b)[2] = a[2] - b[2]
         /\ a[1] \in Nat /\ a[2] \in Nat
  BY DEF Plus, Minus

LEMMA WindowType ==
  ASSUME BudgetTypeOK, Shown
  PROVE  /\ Window \in Nat \X Nat /\ Window[1] \in Nat /\ Window[2] \in Nat
         /\ Window[2] = oldest[2] + recent[2]
         /\ Visible[1] \in Nat /\ Visible[1] <= Window[1]
         /\ Visible[2] \in Nat /\ Visible[2] = Window[2] - hidden[2]
<1>1. oldest \in Nat \X Nat /\ recent \in Nat \X Nat /\ hidden \in Nat \X Nat
  BY DEF BudgetTypeOK
<1>2. Window \in Nat \X Nat /\ Window[1] = oldest[1] + recent[1] /\ Window[2] = oldest[2] + recent[2]
  BY <1>1, PairType DEF Window
<1>3. Visible[1] = Window[1] - hidden[1] /\ Visible[2] = Window[2] - hidden[2]
  BY <1>1, <1>2, PairType DEF Visible
<1>4. /\ oldest[1] \in Nat /\ recent[1] \in Nat /\ hidden[1] \in Nat
      /\ oldest[2] \in Nat /\ recent[2] \in Nat /\ hidden[2] \in Nat
  BY <1>1
<1>5. QED
  BY <1>2, <1>3, <1>4 DEF Shown

LEMMA ScriptType ==
  ASSUME NEW pc \in {"count", "5xx", "done"}, NEW requests \in Nat, NEW errors \in Nat,
         NEW ends \in {-1, 0, 1, 2}
  PROVE  /\ Script(pc, requests, errors, ends)
              \in [pc : {"count", "5xx", "done"}, requests : Nat, errors : Nat, code : {-1, 0, 1, 2}]
         /\ Script(pc, requests, errors, ends).pc = pc
         /\ Script(pc, requests, errors, ends).requests = requests
         /\ Script(pc, requests, errors, ends).code = ends
  BY DEF Script

(* What an answer that the budget is spent, or is not, says of the counts. *)
LEMMA SpentSays ==
  ASSUME NEW requests \in Nat, NEW errors \in Nat, NEW up \in BOOLEAN
  PROVE  /\ ~Spent(requests, errors, up) => 200000 * errors <= 2001 * (requests * (100 - Slo))
         /\ Spent(requests, errors, up) => 100 * errors > requests * (100 - Slo)
<1>1. PICK allowed \in Nat : allowed = requests * (100 - Slo)
  <2>1. 100 - Slo \in Nat
    BY BudgetAssumption
  <2>2. \A x, y \in Nat : x * y \in Nat
    OBVIOUS
  <2>3. QED
    BY <2>1, <2>2
<1>2. Spent(requests, errors, up) =>
        200000 * errors > 2001 * allowed \/ (allowed # 0 /\ 200000 * errors = 2001 * allowed)
  BY <1>1 DEF Spent
<1>3. ~Spent(requests, errors, up) => 200000 * errors <= 2001 * allowed
  BY <1>1 DEF Spent
<1>4. QED
  BY <1>1, <1>2, <1>3

(* Fewer requests allow fewer errors. *)
LEMMA FewerAllow ==
  ASSUME NEW some \in Nat, NEW all \in Nat, some <= all
  PROVE  some * (100 - Slo) <= all * (100 - Slo) /\ some * (100 - Slo) \in Nat
<1>1. PICK share \in Nat : share = 100 - Slo
  BY BudgetAssumption
<1>2. \A x \in Nat, y \in Nat : x * y \in Nat
  OBVIOUS
<1>3. PICK more \in Nat : all = some + more
  <2>1. all - some \in Nat /\ all = some + (all - some)
    OBVIOUS
  <2>2. QED
    BY <2>1
<1>4. (some + more) * share = some * share + more * share
  OBVIOUS
<1>5. some * share \in Nat /\ more * share \in Nat
  BY <1>2
<1>6. QED
  BY <1>1, <1>3, <1>4, <1>5

LEMMA BudgetStart == BudgetInit => BudgetInv
<1> SUFFICES ASSUME BudgetInit PROVE BudgetInv
  OBVIOUS
<1>1. /\ budget.pc = "count" /\ budget.code = -1 /\ why = {}
      /\ budget \in [pc : {"count", "5xx", "done"}, requests : Nat, errors : Nat, code : {-1, 0, 1, 2}]
  BY ScriptType DEF BudgetInit
<1>2. /\ oldest \in Nat \X Nat /\ recent \in Nat \X Nat /\ before \in Nat \X Nat
      /\ hidden \in Nat \X Nat /\ recent = <<0, 0>> /\ hidden = <<0, 0>>
  BY DEF BudgetInit
<1>3. Shown /\ Kept
  BY <1>1, <1>2 DEF Shown, Kept
<1>4. QED
  BY <1>1, <1>2, <1>3 DEF BudgetInv, BudgetTypeOK, SpentIsNotCalledLeft

LEMMA BudgetStep == BudgetInv /\ [BudgetNext]_budgetVars => BudgetInv'
<1> SUFFICES ASSUME BudgetInv, [BudgetNext]_budgetVars PROVE BudgetInv'
  OBVIOUS
<1>t. /\ BudgetTypeOK /\ Shown /\ Kept
      /\ Window \in Nat \X Nat /\ Window[1] \in Nat /\ Window[2] \in Nat
      /\ Window[2] = oldest[2] + recent[2]
      /\ Visible[1] \in Nat /\ Visible[1] <= Window[1]
      /\ Visible[2] \in Nat /\ Visible[2] = Window[2] - hidden[2]
  BY WindowType DEF BudgetInv
<1>v. /\ oldest \in Nat \X Nat /\ recent \in Nat \X Nat /\ before \in Nat \X Nat
      /\ hidden \in Nat \X Nat /\ why \subseteq {"slid", "late", "few"}
  BY <1>t DEF BudgetTypeOK
<1>n. /\ hidden[1] \in Nat /\ hidden[2] \in Nat /\ recent[1] \in Nat /\ recent[2] \in Nat
      /\ oldest[2] \in Nat /\ before[1] \in Nat /\ before[2] \in Nat
  BY <1>v
<1>s. budget.pc # "done" => budget.code = -1
  BY <1>t DEF Kept
<1>1. CASE Serve
  <2>1. PICK b \in Batches : recent' = Plus(recent, b) /\ hidden' = Plus(hidden, b)
    BY <1>1 DEF Serve
  <2>2. b \in Nat \X Nat
    BY BudgetAssumption
  <2>3. /\ recent' \in Nat \X Nat /\ recent'[1] = recent[1] + b[1] /\ recent'[2] = recent[2] + b[2]
        /\ hidden' \in Nat \X Nat /\ hidden'[1] = hidden[1] + b[1] /\ hidden'[2] = hidden[2] + b[2]
        /\ b[1] \in Nat /\ b[2] \in Nat
    BY <1>v, <2>1, <2>2, PairType
  <2>4. budget.pc # "done" /\ UNCHANGED <<oldest, budget, before, why>>
    BY <1>1 DEF Serve
  <2>5. BudgetTypeOK'
    BY <1>t, <2>3, <2>4 DEF BudgetTypeOK
  <2>6. Window'[2] >= Window[2] /\ Window'[2] \in Nat
    <3>1. Window'[2] = oldest'[2] + recent'[2]
      BY <1>v, <2>3, <2>4, PairType DEF Window
    <3>2. QED
      BY <1>t, <1>n, <2>3, <2>4, <3>1
  <2>7. Shown'
    BY <1>t, <1>n, <2>3 DEF Shown
  <2>8. Kept'
    BY <1>t, <1>n, <2>4, <2>6 DEF Kept
  <2>9. QED
    BY <1>s, <2>4, <2>5, <2>7, <2>8 DEF BudgetInv, SpentIsNotCalledLeft
<1>2. CASE Slide
  <2>1. /\ oldest' = recent /\ recent' = <<0, 0>> /\ hidden = <<0, 0>>
        /\ why' = why \union (IF budget.pc = "count" THEN {} ELSE {"slid"})
        /\ budget.pc # "done" /\ UNCHANGED <<hidden, budget, before>>
    BY <1>2 DEF Slide
  <2>2. BudgetTypeOK'
    BY <1>t, <1>v, <2>1 DEF BudgetTypeOK
  <2>3. Shown'
    BY <2>1 DEF Shown
  <2>4. Kept'
    BY <1>t, <2>1 DEF Kept
  <2>5. QED
    BY <1>s, <2>1, <2>2, <2>3, <2>4 DEF BudgetInv, SpentIsNotCalledLeft
<1>3. ASSUME NEW shown, CatchUp(shown), shown = <<0, hidden[2]>> \/ shown = <<hidden[1], 0>>
      PROVE  BudgetInv'
  <2>1. hidden' = shown /\ budget.pc # "done" /\ UNCHANGED <<oldest, recent, budget, before, why>>
    BY <1>3 DEF CatchUp
  <2>2. /\ hidden' \in Nat \X Nat
        /\ hidden'[1] \in Nat /\ hidden'[1] <= hidden[1]
        /\ hidden'[2] \in Nat /\ hidden'[2] <= hidden[2]
    BY <1>3, <1>n, <2>1
  <2>3. BudgetTypeOK'
    BY <1>t, <2>1, <2>2 DEF BudgetTypeOK
  <2>4. Shown'
    BY <1>t, <1>n, <2>1, <2>2 DEF Shown
  <2>5. Window' = Window
    BY <2>1 DEF Window
  <2>6. Kept'
    BY <1>t, <2>1, <2>5 DEF Kept
  <2>7. QED
    BY <1>s, <2>1, <2>3, <2>4, <2>6 DEF BudgetInv, SpentIsNotCalledLeft
<1>4. CASE ReadCount
  <2>1. /\ budget' = Script("5xx", Visible[1], 0, -1) /\ before' = Window
        /\ budget.pc = "count" /\ UNCHANGED <<oldest, recent, hidden, why>>
    BY <1>4 DEF ReadCount
  <2>2. /\ budget'.pc = "5xx" /\ budget'.requests = Visible[1] /\ budget'.code = -1
        /\ budget' \in [pc : {"count", "5xx", "done"}, requests : Nat, errors : Nat, code : {-1, 0, 1, 2}]
    <3>1. 0 \in Nat /\ -1 \in {-1, 0, 1, 2}
      OBVIOUS
    <3>2. /\ Script("5xx", Visible[1], 0, -1).pc = "5xx"
          /\ Script("5xx", Visible[1], 0, -1).requests = Visible[1]
          /\ Script("5xx", Visible[1], 0, -1).code = -1
          /\ Script("5xx", Visible[1], 0, -1)
                \in [pc : {"count", "5xx", "done"}, requests : Nat, errors : Nat, code : {-1, 0, 1, 2}]
      BY <1>t, <3>1 DEF Script
    <3>3. QED
      BY <2>1, <3>2
  <2>3. Window' = Window
    BY <2>1 DEF Window
  <2>4. BudgetTypeOK'
    BY <1>t, <2>1, <2>2 DEF BudgetTypeOK
  <2>5. Shown'
    BY <1>t, <2>1 DEF Shown
  <2>6. Kept'
    BY <1>t, <2>1, <2>2, <2>3 DEF Kept
  <2>7. QED
    BY <2>2, <2>4, <2>5, <2>6 DEF BudgetInv, SpentIsNotCalledLeft
<1>5. CASE ReadErrors
  <2>1. PICK up \in BOOLEAN :
           budget' = Script("done", budget.requests, Visible[2],
                            IF budget.requests >= MinRequests /\ Spent(budget.requests, Visible[2], up)
                            THEN 2 ELSE 0)
    BY <1>5 DEF ReadErrors
  <2>2. /\ budget.pc = "5xx" /\ UNCHANGED <<oldest, recent, hidden, before>>
        /\ why' = why \union (IF StillHidden THEN {"late"} ELSE {})
                      \union (IF budget.requests < MinRequests THEN {"few"} ELSE {})
    BY <1>5 DEF ReadErrors
  <2>n. PICK n \in Nat, w \in Nat : n = budget.requests /\ w = Visible[2]
    BY <1>t DEF BudgetTypeOK
  <2>c. PICK ends \in {0, 2} :
           /\ ends = IF n >= MinRequests /\ Spent(n, w, up) THEN 2 ELSE 0
           /\ ends = 2 <=> n >= MinRequests /\ Spent(n, w, up)
    OBVIOUS
  <2>3. n <= before[1] /\ ("slid" \notin why => before[2] <= Window[2])
    BY <1>t, <2>2, <2>n DEF Kept
  <2>4. budget' = Script("done", n, w, ends)
    BY <2>1, <2>n, <2>c
  <2>5. /\ budget'.pc = "done" /\ budget'.requests = n /\ budget'.code = ends
        /\ budget' \in [pc : {"count", "5xx", "done"}, requests : Nat, errors : Nat, code : {-1, 0, 1, 2}]
    BY <2>4 DEF Script
  <2>6. Window' = Window
    BY <2>2 DEF Window
  <2>7. BudgetTypeOK'
    BY <1>t, <1>v, <2>2, <2>5 DEF BudgetTypeOK
  <2>8. /\ ~Spent(n, w, up) => 200000 * w <= 2001 * (n * (100 - Slo))
        /\ Spent(n, w, up) => 100 * w > n * (100 - Slo)
    BY SpentSays
  <2>9. ASSUME why' = {}, 200000 * before[2] > 2001 * (before[1] * (100 - Slo))
        PROVE  ends = 2
    <3>1. ~StillHidden /\ n >= MinRequests /\ "slid" \notin why
      BY <2>2, <2>9, <2>n, BudgetAssumption
    <3>2. hidden[2] <= Window[2] - before[2]
      <4>1. Minus(Window, before)[2] = Window[2] - before[2]
        BY <1>t, <1>v, PairType
      <4>2. QED
        BY <1>t, <1>n, <3>1, <4>1 DEF StillHidden
    <3>3. before[2] <= w
      BY <1>t, <1>n, <2>n, <3>2
    <3>4. PICK allowed \in Nat, some \in Nat :
             allowed = before[1] * (100 - Slo) /\ some = n * (100 - Slo) /\ some <= allowed
      <4>1. n * (100 - Slo) <= before[1] * (100 - Slo) /\ n * (100 - Slo) \in Nat
        BY <1>n, <2>3, FewerAllow
      <4>2. before[1] * (100 - Slo) \in Nat
        BY <1>n, FewerAllow
      <4>3. QED
        BY <4>1, <4>2
    <3>5. 200000 * before[2] > 2001 * allowed
      BY <2>9, <3>4
    <3>6. ~(200000 * w <= 2001 * some)
      BY <1>n, <3>3, <3>4, <3>5
    <3>7. Spent(n, w, up)
      BY <2>8, <3>4, <3>6
    <3>8. QED
      BY <2>c, <3>1, <3>7
  <2>10. ends = 2 => /\ MinRequests <= n /\ n <= before[1]
                     /\ 100 * Window[2] > n * (100 - Slo)
    <3>1. SUFFICES ASSUME ends = 2
                   PROVE  MinRequests <= n /\ 100 * Window[2] > n * (100 - Slo)
      BY <2>3
    <3>2. n >= MinRequests /\ 100 * w > n * (100 - Slo)
      BY <2>8, <2>c, <3>1
    <3>3. PICK some \in Nat : some = n * (100 - Slo)
      BY FewerAllow
    <3>4. w <= Window[2]
      BY <1>t, <1>n, <2>n
    <3>5. QED
      BY <1>t, <3>2, <3>3, <3>4, BudgetAssumption
  <2>11. SpentIsNotCalledLeft'
    <3>1. UNCHANGED before /\ budget'.code = ends /\ budget'.requests = n
      BY <2>2, <2>5
    <3>2. QED
      BY <2>6, <2>9, <2>10, <2>c, <3>1 DEF SpentIsNotCalledLeft
  <2>12. Shown' /\ Kept'
    BY <1>t, <2>2, <2>5 DEF Shown, Kept
  <2>13. QED
    BY <2>7, <2>11, <2>12 DEF BudgetInv
<1>6. CASE CannotTell
  <2>1. /\ budget' = Script("done", budget.requests, 0, 1)
        /\ UNCHANGED <<oldest, recent, hidden, before, why>>
    BY <1>6 DEF CannotTell
  <2>2. /\ budget'.pc = "done" /\ budget'.code = 1
        /\ budget' \in [pc : {"count", "5xx", "done"}, requests : Nat, errors : Nat, code : {-1, 0, 1, 2}]
    <3>1. budget.requests \in Nat
      BY <1>t DEF BudgetTypeOK
    <3>2. QED
      BY <2>1, <3>1 DEF Script
  <2>3. BudgetTypeOK'
    BY <1>t, <2>1, <2>2 DEF BudgetTypeOK
  <2>4. Shown' /\ Kept'
    BY <1>t, <2>1, <2>2 DEF Shown, Kept
  <2>5. QED
    BY <2>2, <2>3, <2>4 DEF BudgetInv, SpentIsNotCalledLeft
<1>7. CASE UNCHANGED budgetVars
  <2>1. UNCHANGED <<oldest, recent, hidden, budget, before, why>> /\ Window' = Window
    BY <1>7 DEF budgetVars, Window
  <2>2. QED
    BY <2>1 DEF BudgetInv, BudgetTypeOK, Shown, Kept, SpentIsNotCalledLeft
<1>8. QED
  BY <1>1, <1>2, <1>3, <1>4, <1>5, <1>6, <1>7 DEF BudgetNext

(* SpentIsNotCalledLeft, for any objective, any traffic and any number of  *)
(* requests that make it worth judging (error_budget.py:13).               *)
THEOREM BudgetAnswersHaveAReason == BudgetSpec => []SpentIsNotCalledLeft
<1>1. BudgetInv => SpentIsNotCalledLeft
  BY DEF BudgetInv
<1>2. QED
  BY <1>1, BudgetStart, BudgetStep, PTL DEF BudgetSpec

-----------------------------------------------------------------------------
(* flaky.py                                                                *)

(* JUnit's files say what happened, and the file is of the last session    *)
(* whose runs all are in.                                                  *)
FlakyInv ==
    /\ FlakyTypeOK
    /\ seen = truth
    /\ quarantine = classify(measured)
    /\ Reported => /\ measured = truth
                   /\ code = 1 <=> quarantine # {}

LEMMA FlakyStart == FlakyInit => FlakyInv
  BY FlakyAssumption DEF FlakyInit, FlakyInv, FlakyTypeOK, None, Reported, classify

(* With FLAKY_DETECT=1 no test is marked, whatever is in the file. *)
LEMMA DetectingMarksNone == \A t, outcome : junit(t, outcome, "1") = outcome
  BY DEF junit, marked

LEMMA TestRunStep ==
  ASSUME FlakyInv, Run
  PROVE  /\ seen' = truth' /\ truth' \in [Tests -> SUBSET Outcomes] /\ run' \in 0..Runs
<1>1. PICK did \in Happening :
         /\ truth' = Adding(truth, did)
         /\ seen'  = Adding(seen, [t \in Tests |-> junit(t, did[t], "1")])
  BY DEF Run
<1>2. truth \in [Tests -> SUBSET Outcomes] /\ seen = truth /\ run \in 0..Runs
  BY DEF FlakyInv, FlakyTypeOK
<1>3. \A t \in Tests : truth[t] \union ({did[t]} \ {"absent"}) \in SUBSET Outcomes
  BY <1>2 DEF Happening
<1>4. run' \in 0..Runs
  BY <1>2, FlakyAssumption DEF Run
<1>5. [t \in Tests |-> junit(t, did[t], "1")] = did
  <2>1. did = [t \in Tests |-> did[t]]
    BY DEF Happening
  <2>2. QED
    BY <2>1, DetectingMarksNone
<1>6. truth' \in [Tests -> SUBSET Outcomes]
  BY <1>1, <1>3 DEF Adding
<1>7. QED
  BY <1>1, <1>2, <1>4, <1>5, <1>6

LEMMA FlakyStep == FlakyInv /\ [FlakyNext]_flakyVars => FlakyInv'
<1> SUFFICES ASSUME FlakyInv, [FlakyNext]_flakyVars PROVE FlakyInv'
  OBVIOUS
<1>1. CASE Detect
  <2>1. None \in [Tests -> SUBSET Outcomes]
    BY DEF None
  <2>2. session' \in 0..Sessions /\ run' \in 0..Runs
    BY <1>1, FlakyAssumption DEF Detect, FlakyInv, FlakyTypeOK
  <2>3. QED
    BY <1>1, <2>1, <2>2 DEF Detect, FlakyInv, FlakyTypeOK, Reported, Running, classify
<1>2. CASE Run
  <2>1. code' = Running /\ UNCHANGED <<quarantine, session, measured>>
    BY <1>2 DEF Run
  <2>2. QED
    BY <1>2, <2>1, TestRunStep DEF FlakyInv, FlakyTypeOK, Reported, Running, classify
<1>3. CASE NoOutcomes
  <2>1. run' # Runs
    BY <1>3, FlakyAssumption DEF NoOutcomes, FlakyInv, FlakyTypeOK
  <2>2. QED
    BY <1>3, <2>1 DEF NoOutcomes, FlakyInv, FlakyTypeOK, Reported, classify
<1>4. CASE Report
  BY <1>4 DEF Report, FlakyInv, FlakyTypeOK, Reported, classify
<1>5. CASE UNCHANGED flakyVars
  BY <1>5 DEF flakyVars, FlakyInv, FlakyTypeOK, Reported, classify
<1>6. QED
  BY <1>1, <1>2, <1>3, <1>4, <1>5 DEF FlakyNext

(* QuarantineIsMeasured, for any tests, any number of runs and of          *)
(* sessions, and whichever tests a line of the file marks (flaky.py:4,     *)
(* 18-19, 55-75).                                                          *)
THEOREM QuarantineIsWhatHappened == FlakySpec => []QuarantineIsMeasured
<1>1. FlakyInv => QuarantineIsMeasured
  <2> SUFFICES ASSUME FlakyInv PROVE QuarantineIsMeasured
    OBVIOUS
  <2>1. quarantine = {t \in Tests : "pass" \in measured[t] /\ "fail" \in measured[t]}
    BY DEF FlakyInv, classify
  <2>2. ASSUME Reported, NEW t \in Tests, t \notin quarantine, t \notin always_failing(seen),
               "fail" \in truth[t]
        PROVE  truth[t] = {"fail", "skip"}
    <3>1. truth[t] \subseteq {"pass", "fail", "skip"}
      BY DEF FlakyInv, FlakyTypeOK, Outcomes
    <3>2. "pass" \notin truth[t] /\ truth[t] # {"fail"}
      BY <2>1, <2>2 DEF FlakyInv, always_failing
    <3>3. QED
      BY <2>2, <3>1, <3>2
  <2>3. Reported => measured = truth /\ (code = 1 <=> quarantine # {})
    BY DEF FlakyInv
  <2>4. QED
    BY <2>1, <2>2, <2>3 DEF QuarantineIsMeasured
<1>2. QED
  BY <1>1, FlakyStart, FlakyStep, PTL DEF FlakySpec

=============================================================================
