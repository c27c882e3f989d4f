---------------------------- MODULE WorkerProofs ----------------------------
(***************************************************************************)
(* The safety of Worker, for any number of items, any durations, any       *)
(* backoff limit and any number of upsets; and that of the retries its     *)
(* items are wrapped in (Retry), for any attempts and any delays.          *)
(***************************************************************************)
EXTENDS Worker, Retry, Integers, FiniteSetTheorems, TLAPS

(* What holds of the state s of every pod.  An item in hand when SIGTERM   *)
(* is heard ends before the grace period does, if it is shorter.           *)
PodInv(s) ==
    /\ s \in PodState
    /\ s.pc = "item" => s.done < Items
    /\ s.pc = "exited" <=> s.exit # "none"
    /\ s.exit = "0" => s.done = Items
    /\ s.exit = "143" => s.abort
    /\ s.abort => s.term
    /\ s.cut => s.pc = "exited"
    /\ ~s.term => s.grace = Grace
    /\ ItemTime < Grace /\ s.abort => ~s.cut /\ (s.pc = "item" => s.left < s.grace)

(* The pods that have finished item i, and those that were disturbed.      *)
Did(i) == {p \in Pod : pods[p].done > i}
Hit    == {p \in Pod : pods[p].term \/ pods[p].exit = "137"}

WorkerInv ==
    /\ job \in {"running", "complete", "failed"}
    /\ upsets \in 0..MaxUpsets
    /\ pods = [p \in Pod |-> pods[p]] /\ \A p \in Pod : PodInv(pods[p])
    /\ handled = [i \in Item |-> Cardinality(Did(i))]
    /\ job = "running" => Cardinality(Hit) <= upsets
    /\ CompleteMeansAll
    /\ FailsOnlyWhenUpset

LEMMA PodsFinite ==
  /\ IsFiniteSet(Pod) /\ Cardinality(Pod) = MaxUpsets + 1
  /\ \A S : S \subseteq Pod => IsFiniteSet(S) /\ Cardinality(S) \in 0..(MaxUpsets + 1)
<1>1. IsFiniteSet(Pod) /\ Cardinality(Pod) = MaxUpsets + 1
  BY FS_Interval, WorkerAssumption DEF Pod
<1>2. ASSUME NEW S, S \subseteq Pod
      PROVE  IsFiniteSet(S) /\ Cardinality(S) \in 0..(MaxUpsets + 1)
  BY <1>1, <1>2, FS_Subset, FS_CardinalityType, WorkerAssumption
<1>3. QED
  BY <1>1, <1>2

-----------------------------------------------------------------------------
(* One step of one pod, seen from the pod: s before, t after.              *)
Same(s, t) == t.done = s.done /\ (t.term \/ t.exit = "137" => s.term \/ s.exit = "137")

LEMMA StartPod ==
  ASSUME NEW p \in Pod, PodInv(pods[p]), pods = [q \in Pod |-> pods[q]], Start(p)
  PROVE  PodInv(pods'[p]) /\ Same(pods[p], pods'[p]) /\ \A q \in Pod \ {p} : pods'[q] = pods[q]
  BY DEF Start, PodInv, PodState, Same

LEMMA ExitedIs ==
  ASSUME NEW s \in PodState, NEW code \in {"0", "143", "137"}, NEW t, t = Exited(s, code)
  PROVE  /\ t \in PodState /\ t.pc = "exited" /\ t.exit = code /\ t.done = s.done
         /\ t.term = s.term /\ t.abort = s.abort /\ t.cut = s.cut /\ t.grace = s.grace
<1>1. t = [s EXCEPT !.pc = "exited", !.exit = code]
  BY DEF Exited
<1>2. t \in PodState
  BY <1>1 DEF PodState
<1>3. /\ t.pc = "exited" /\ t.exit = code /\ t.done = s.done
      /\ t.term = s.term /\ t.abort = s.abort /\ t.cut = s.cut /\ t.grace = s.grace
  BY <1>1 DEF PodState
<1>4. QED
  BY <1>2, <1>3

LEMMA CheckPod ==
  ASSUME NEW p \in Pod, PodInv(pods[p]), pods = [q \in Pod |-> pods[q]], Check(p)
  PROVE  PodInv(pods'[p]) /\ Same(pods[p], pods'[p]) /\ \A q \in Pod \ {p} : pods'[q] = pods[q]
<1> DEFINE s == pods[p]
           t == CASE s.done = Items -> Exited(s, "0")
                  [] s.done < Items /\ s.abort -> Exited(s, "143")
                  [] OTHER -> [s EXCEPT !.pc = "item", !.left = ItemTime]
<1>1. pods'[p] = t /\ \A q \in Pod \ {p} : pods'[q] = pods[q]
  BY DEF Check
<1>2. s \in PodState /\ s.pc = "loop" /\ s.done \in 0..Items
  BY DEF Check, PodInv, PodState
<1>3. CASE s.done = Items
  <2>1. t = Exited(s, "0")
    BY <1>3, <1>2, WorkerAssumption
  <2> HIDE DEF t
  <2>2. /\ t \in PodState /\ t.pc = "exited" /\ t.exit = "0" /\ t.done = s.done
        /\ t.term = s.term /\ t.abort = s.abort /\ t.cut = s.cut /\ t.grace = s.grace
    BY <1>2, <2>1, ExitedIs
  <2>3. PodInv(t)
    BY <1>2, <1>3, <2>2 DEF PodInv
  <2>4. QED
    BY <1>1, <2>2, <2>3 DEF Same
<1>4. CASE s.done < Items /\ s.abort
  <2>1. t = Exited(s, "143")
    BY <1>4, <1>2, WorkerAssumption
  <2> HIDE DEF t
  <2>2. /\ t \in PodState /\ t.pc = "exited" /\ t.exit = "143" /\ t.done = s.done
        /\ t.term = s.term /\ t.abort = s.abort /\ t.cut = s.cut /\ t.grace = s.grace
    BY <1>2, <2>1, ExitedIs
  <2>3. PodInv(t)
    BY <1>2, <1>4, <2>2 DEF PodInv
  <2>4. QED
    BY <1>1, <2>2, <2>3 DEF Same
<1>5. CASE s.done < Items /\ ~s.abort
  <2>1. t = [s EXCEPT !.pc = "item", !.left = ItemTime]
    BY <1>5, <1>2, WorkerAssumption
  <2> HIDE DEF t
  <2>2. /\ t \in PodState /\ t.pc = "item" /\ t.exit = s.exit /\ t.done = s.done
        /\ t.term = s.term /\ t.abort = s.abort /\ t.cut = s.cut /\ t.grace = s.grace
    <3>1. ItemTime \in 0..ItemTime
      BY WorkerAssumption
    <3>2. QED
      BY <1>2, <2>1, <3>1 DEF PodState
  <2>3. PodInv(t)
    BY <1>2, <1>5, <2>2 DEF PodInv
  <2>4. QED
    BY <1>1, <2>2, <2>3 DEF Same
<1>6. QED
  BY <1>2, <1>3, <1>4, <1>5, WorkerAssumption

LEMMA TickPod ==
  ASSUME NEW p \in Pod, PodInv(pods[p]), pods = [q \in Pod |-> pods[q]], Tick(p)
  PROVE  PodInv(pods'[p]) /\ Same(pods[p], pods'[p]) /\ \A q \in Pod \ {p} : pods'[q] = pods[q]
<1>1. /\ pods'[p] = [pods[p] EXCEPT !.left = IF @ > 0 THEN @ - 1 ELSE 0,
                                    !.grace = IF pods[p].term THEN @ - 1 ELSE @]
      /\ \A q \in Pod \ {p} : pods'[q] = pods[q]
  BY DEF Tick
<1> DEFINE s == pods[p]
           t == pods'[p]
<1>2. /\ s \in PodState /\ s.left \in 0..ItemTime /\ s.grace \in 0..Grace
      /\ s.pc \in {"item", "boot"} /\ (s.term => s.grace > 0)
      /\ s.pc = "item" => s.left > 0
  BY DEF Tick, PodInv, PodState
<1>3. /\ t.pc = s.pc /\ t.exit = s.exit /\ t.done = s.done
      /\ t.term = s.term /\ t.abort = s.abort /\ t.cut = s.cut
      /\ t.left = IF s.left > 0 THEN s.left - 1 ELSE 0
      /\ t.grace = IF s.term THEN s.grace - 1 ELSE s.grace
  BY <1>1, <1>2 DEF PodState
<1>4. t \in PodState
  <2>1. /\ (IF s.left > 0 THEN s.left - 1 ELSE 0) \in 0..ItemTime
        /\ (IF s.term THEN s.grace - 1 ELSE s.grace) \in 0..Grace
    BY <1>2, WorkerAssumption
  <2>2. QED
    BY <1>1, <1>2, <2>1 DEF PodState
<1>5. ItemTime < Grace /\ t.abort => ~t.cut /\ (t.pc = "item" => t.left < t.grace)
  <2> SUFFICES ASSUME ItemTime < Grace, s.abort
               PROVE  ~s.cut /\ (s.pc = "item" => t.left < t.grace)
    BY <1>3
  <2>1. ~s.cut /\ s.term /\ (s.pc = "item" => s.left < s.grace)
    BY DEF PodInv
  <2>2. s.pc = "item" => t.left = s.left - 1 /\ t.grace = s.grace - 1
    BY <1>2, <1>3, <2>1
  <2>3. s.pc = "item" => s.left - 1 < s.grace - 1
    BY <1>2, <2>1
  <2>4. QED
    BY <2>1, <2>2, <2>3
<1>6. PodInv(t)
  BY <1>3, <1>4, <1>5 DEF PodInv
<1>7. QED
  BY <1>1, <1>3, <1>6 DEF Same

LEMMA KillPod ==
  ASSUME NEW p \in Pod, PodInv(pods[p]), pods = [q \in Pod |-> pods[q]], Kill(p)
  PROVE  PodInv(pods'[p]) /\ Same(pods[p], pods'[p]) /\ \A q \in Pod \ {p} : pods'[q] = pods[q]
<1>1. /\ pods'[p] = [pods[p] EXCEPT !.pc = "exited", !.exit = "137", !.cut = pods[p].pc = "item"]
      /\ \A q \in Pod \ {p} : pods'[q] = pods[q]
  BY DEF Kill, Exited
<1> DEFINE s == pods[p]
           t == pods'[p]
<1>2. /\ s \in PodState /\ s.left \in 0..ItemTime /\ s.grace = 0 /\ s.term
  BY DEF Kill, PodInv, PodState
<1>3. /\ t \in PodState /\ t.pc = "exited" /\ t.exit = "137" /\ t.done = s.done
      /\ t.term = s.term /\ t.abort = s.abort /\ t.grace = s.grace
      /\ t.cut <=> s.pc = "item"
  <2> HIDE DEF s, t
  <2>1. t = [s EXCEPT !.pc = "exited", !.exit = "137", !.cut = s.pc = "item"]
    BY <1>1 DEF s, t
  <2>2. t \in PodState
    BY <1>2, <2>1 DEF PodState
  <2>3. /\ t.pc = "exited" /\ t.exit = "137" /\ t.done = s.done
        /\ t.term = s.term /\ t.abort = s.abort /\ t.grace = s.grace
        /\ t.cut = (s.pc = "item")
    BY <1>2, <2>1 DEF PodState
  <2>4. QED
    BY <2>2, <2>3
<1>4. ItemTime < Grace /\ s.abort => s.pc # "item"
  <2>1. ~(s.left < s.grace)
    BY <1>2
  <2>2. QED
    BY <2>1 DEF PodInv
<1>5. PodInv(t)
  BY <1>2, <1>3, <1>4 DEF PodInv
<1>6. QED
  BY <1>1, <1>2, <1>3, <1>5 DEF Same

LEMMA FinishPod ==
  ASSUME NEW p \in Pod, PodInv(pods[p]), pods = [q \in Pod |-> pods[q]], Finish(p)
  PROVE  /\ PodInv(pods'[p]) /\ \A q \in Pod \ {p} : pods'[q] = pods[q]
         /\ pods[p].done \in Item /\ pods'[p].done = pods[p].done + 1
         /\ pods'[p].term = pods[p].term /\ pods'[p].exit = pods[p].exit
<1>1. /\ pods'[p] = [pods[p] EXCEPT !.pc = "loop", !.done = @ + 1]
      /\ \A q \in Pod \ {p} : pods'[q] = pods[q]
  BY DEF Finish
<1> DEFINE s == pods[p]
           t == pods'[p]
<1>2. s \in PodState /\ s.done \in Nat /\ s.done < Items /\ s.pc = "item"
  BY WorkerAssumption DEF Finish, PodInv, PodState
<1>3. s.done \in Item /\ s.done + 1 \in 0..Items
  BY <1>2, WorkerAssumption DEF Item
<1>4. /\ t \in PodState /\ t.pc = "loop" /\ t.exit = s.exit /\ t.done = s.done + 1
      /\ t.term = s.term /\ t.abort = s.abort /\ t.cut = s.cut /\ t.grace = s.grace
  BY <1>1, <1>2, <1>3 DEF PodState
<1>5. s.exit = "none"
  BY <1>2 DEF PodInv
<1>6. PodInv(t)
  BY <1>2, <1>4, <1>5 DEF PodInv
<1>7. QED
  BY <1>1, <1>3, <1>4, <1>6

LEMMA TerminatedPod ==
  ASSUME NEW s, PodInv(s)
  PROVE  /\ PodInv(Terminated(s)) /\ Terminated(s).done = s.done
         /\ Terminated(s).exit = s.exit
<1>1. CASE s.pc \in {"absent", "exited"}
  BY <1>1 DEF Terminated
<1>2. CASE s.pc \notin {"absent", "exited"}
  <2> DEFINE t == Terminated(s)
  <2>1. t = [s EXCEPT !.term = TRUE, !.abort = @ \/ (s.pc # "boot" /\ ~s.term)]
    BY <1>2 DEF Terminated
  <2>2. /\ s \in PodState /\ s.left \in 0..ItemTime
    BY DEF PodInv, PodState
  <2>3. /\ t \in PodState /\ t.pc = s.pc /\ t.exit = s.exit /\ t.done = s.done /\ t.left = s.left
        /\ t.term /\ t.cut = s.cut /\ t.grace = s.grace
        /\ t.abort <=> s.abort \/ (s.pc # "boot" /\ ~s.term)
    BY <2>1, <2>2 DEF PodState
  <2>4. ~s.cut
    BY <1>2, <2>2 DEF PodInv
  <2>5. ItemTime < Grace /\ ~s.term => s.left < s.grace
    <3>1. ~s.term => s.grace = Grace
      BY DEF PodInv
    <3>2. ItemTime < Grace => s.left < Grace
      BY <2>2, WorkerAssumption
    <3>3. QED
      BY <3>1, <3>2
  <2>6. ItemTime < Grace /\ t.abort => ~t.cut /\ (t.pc = "item" => t.left < t.grace)
    BY <2>3, <2>4, <2>5 DEF PodInv
  <2>7. QED
    BY <2>3, <2>6 DEF PodInv
<1>3. QED
  BY <1>1, <1>2

LEMMA LosePod ==
  ASSUME NEW p \in Pod, PodInv(pods[p]), pods = [q \in Pod |-> pods[q]], Lose(p)
  PROVE  /\ PodInv(pods'[p]) /\ \A q \in Pod \ {p} : pods'[q] = pods[q]
         /\ pods'[p].done = pods[p].done
  BY DEF Lose, Up, Exited, PodInv, PodState

-----------------------------------------------------------------------------
(* What such a step does to the two sets that are counted.                 *)
LEMMA Counts ==
  ASSUME WorkerInv, \A p \in Pod : pods'[p].done = pods[p].done, UNCHANGED handled,
         pods' = [p \in Pod |-> pods'[p]]
  PROVE  handled' = [i \in Item |-> Cardinality(Did(i)')]
<1>1. \A i \in Item : Did(i)' = Did(i)
  BY DEF Did
<1>2. QED
  BY <1>1 DEF WorkerInv

LEMMA HitGrows ==
  ASSUME NEW p \in Pod, Hit' \subseteq Hit \union {p}
  PROVE  Cardinality(Hit') <= Cardinality(Hit) + 1
<1>1. Hit \subseteq Pod /\ Hit' \subseteq Pod
  BY DEF Hit
<1>2. IsFiniteSet(Hit) /\ IsFiniteSet(Hit \union {p}) /\ Cardinality(Hit) \in Nat
  BY <1>1, PodsFinite, FS_AddElement, FS_CardinalityType
<1>3. Cardinality(Hit \union {p}) <= Cardinality(Hit) + 1
  BY <1>2, FS_AddElement
<1>4. Cardinality(Hit') <= Cardinality(Hit \union {p})
  BY <1>2, FS_Subset
<1>5. QED
  BY <1>1, <1>2, <1>3, <1>4, PodsFinite, FS_CardinalityType, FS_Subset

LEMMA HitShrinks ==
  ASSUME Hit' \subseteq Hit
  PROVE  Cardinality(Hit') <= Cardinality(Hit)
<1>1. Hit \subseteq Pod
  BY DEF Hit
<1>2. QED
  BY <1>1, PodsFinite, FS_Subset

(* A step of p that disturbs nobody and finishes nothing. *)
LEMMA QuietStep ==
  ASSUME WorkerInv, NEW p \in Pod, UNCHANGED <<job, upsets, handled>>,
         pods' = [q \in Pod |-> pods'[q]],
         PodInv(pods'[p]), Same(pods[p], pods'[p]), \A q \in Pod \ {p} : pods'[q] = pods[q]
  PROVE  WorkerInv'
<1>1. \A q \in Pod : pods'[q].done = pods[q].done
  BY DEF Same
<1>2. handled' = [i \in Item |-> Cardinality(Did(i)')]
  BY <1>1, Counts
<1>3. Cardinality(Hit') <= Cardinality(Hit)
  BY HitShrinks DEF Hit, Same
<1>4. Cardinality(Hit) \in Nat /\ Cardinality(Hit') \in Nat
  BY PodsFinite, FS_CardinalityType DEF Hit
<1>5. \A q \in Pod : PodInv(pods'[q])
  BY DEF WorkerInv
<1>6. QED
  BY <1>2, <1>3, <1>4, <1>5, WorkerAssumption DEF WorkerInv, CompleteMeansAll, FailsOnlyWhenUpset

LEMMA FinishStep ==
  ASSUME WorkerInv, NEW p \in Pod, Finish(p)
  PROVE  WorkerInv'
<1>p. PodInv(pods[p]) /\ pods = [q \in Pod |-> pods[q]]
  BY DEF WorkerInv
<1>f. /\ PodInv(pods'[p]) /\ \A q \in Pod \ {p} : pods'[q] = pods[q]
      /\ pods[p].done \in Item /\ pods'[p].done = pods[p].done + 1
      /\ pods'[p].term = pods[p].term /\ pods'[p].exit = pods[p].exit
  BY <1>p, FinishPod
<1>k. PICK k \in Item : k = pods[p].done
  BY <1>f
<1>1. Did(k)' = Did(k) \union {p} /\ p \notin Did(k)
  <2>1. k + 1 > k /\ ~(k > k)
    BY <1>f, <1>k, WorkerAssumption DEF Item
  <2>2. p \in Did(k)' /\ p \notin Did(k)
    BY <1>f, <1>k, <2>1 DEF Did
  <2>3. \A q \in Pod \ {p} : q \in Did(k)' <=> q \in Did(k)
    BY <1>f, <1>k DEF Did
  <2>4. Did(k)' \subseteq Pod /\ Did(k) \subseteq Pod
    BY DEF Did
  <2>5. QED
    BY <2>2, <2>3, <2>4
<1>2. \A i \in Item \ {k} : Did(i)' = Did(i)
  <2>1. ASSUME NEW i \in Item \ {k} PROVE k + 1 > i <=> k > i
    BY <1>f, <1>k, WorkerAssumption DEF Item
  <2>2. QED
    BY <1>f, <1>k, <2>1 DEF Did
<1>3. Did(k) \subseteq Pod /\ IsFiniteSet(Did(k)) /\ Cardinality(Did(k)) \in Nat
  BY PodsFinite, FS_CardinalityType DEF Did
<1>4. Cardinality(Did(k)') = Cardinality(Did(k)) + 1
  BY <1>1, <1>3, FS_AddElement
<1>5. handled' = [i \in Item |-> Cardinality(Did(i)')]
  <2>1. handled' = [handled EXCEPT ![k] = @ + 1]
    BY <1>k DEF Finish
  <2>2. handled = [i \in Item |-> Cardinality(Did(i))]
    BY DEF WorkerInv
  <2>3. ASSUME NEW i \in Item PROVE handled'[i] = Cardinality(Did(i)')
    <3>1. CASE i = k
      BY <3>1, <1>4, <2>1, <2>2
    <3>2. CASE i # k
      BY <3>2, <1>2, <2>1, <2>2
    <3>3. QED
      BY <3>1, <3>2
  <2>4. handled' = [i \in Item |-> handled'[i]]
    BY <2>1, <2>2
  <2>5. QED
    BY <2>3, <2>4
<1>6. CompleteMeansAll'
  <2>1. \A i \in Item : Cardinality(Did(i)) \in Nat
    BY PodsFinite, FS_CardinalityType DEF Did
  <2>2. QED
    BY <1>2, <1>4, <1>5, <2>1, <1>f DEF WorkerInv, CompleteMeansAll, Finish
<1>7. Hit' = Hit
  BY <1>f DEF Hit
<1>8. pods' = [q \in Pod |-> pods'[q]] /\ \A q \in Pod : PodInv(pods'[q])
  BY <1>f, <1>k, <1>p DEF WorkerInv, Finish
<1>9. QED
  BY <1>5, <1>6, <1>7, <1>8 DEF WorkerInv, FailsOnlyWhenUpset, Finish

(* An upset of p.                                                          *)
LEMMA UpsetStep ==
  ASSUME WorkerInv, NEW p \in Pod, Delete(p) \/ Lose(p)
  PROVE  WorkerInv'
<1>p. PodInv(pods[p]) /\ pods = [q \in Pod |-> pods[q]]
  BY DEF WorkerInv
<1>1. /\ PodInv(pods'[p]) /\ \A q \in Pod \ {p} : pods'[q] = pods[q]
      /\ pods'[p].done = pods[p].done
  <2>1. CASE Delete(p)
    <3>1. pods'[p] = Terminated(pods[p]) /\ \A q \in Pod \ {p} : pods'[q] = pods[q]
      BY <1>p, <2>1 DEF Delete
    <3>2. QED
      BY <1>p, <3>1, TerminatedPod
  <2>2. CASE Lose(p)
    BY <1>p, <2>2, LosePod
  <2>3. QED
    BY <2>1, <2>2
<1>2. upsets' = upsets + 1 /\ upsets' \in 0..MaxUpsets /\ UNCHANGED <<job, handled>>
      /\ pods' = [q \in Pod |-> pods'[q]]
  BY <1>p, WorkerAssumption DEF Delete, Lose, WorkerInv
<1>3. handled' = [i \in Item |-> Cardinality(Did(i)')]
  BY <1>1, <1>2, Counts
<1>4. Cardinality(Hit') <= Cardinality(Hit) + 1
  BY <1>1, HitGrows DEF Hit
<1>5. Cardinality(Hit) \in Nat /\ Cardinality(Hit') \in Nat
  BY PodsFinite, FS_CardinalityType DEF Hit
<1>6. QED
  BY <1>1, <1>2, <1>3, <1>4, <1>5, WorkerAssumption
  DEF WorkerInv, CompleteMeansAll, FailsOnlyWhenUpset

(* The Job controller. *)
LEMMA SyncStep ==
  ASSUME WorkerInv, Sync
  PROVE  WorkerInv'
<1>p. /\ \A p \in Pod : PodInv(pods[p])
      /\ pods = [q \in Pod |-> pods[q]] /\ UNCHANGED <<upsets, handled>>
      /\ job = "running" /\ Cardinality(Hit) <= upsets /\ upsets \in 0..MaxUpsets
      /\ handled = [i \in Item |-> Cardinality(Did(i))]
  BY DEF WorkerInv, Sync
<1>e. ASSUME NEW condition \in {"complete", "failed"}, End(condition)
      PROVE  /\ job' = condition
             /\ pods' = [p \in Pod |-> pods'[p]] /\ \A p \in Pod : PodInv(pods'[p])
             /\ handled' = [i \in Item |-> Cardinality(Did(i)')]
  <2>1. \A p \in Pod : PodInv(pods'[p]) /\ pods'[p].done = pods[p].done
    BY <1>p, <1>e, TerminatedPod DEF End
  <2>2. pods' = [p \in Pod |-> pods'[p]]
    BY <1>e DEF End
  <2>3. QED
    BY <1>p, <1>e, <2>1, <2>2, Counts DEF End
<1>1. CASE TooMany /\ End("failed")
  <2>1. Failed \subseteq Hit
    BY <1>p DEF Failed, Hit, PodInv, PodState
  <2>2. Cardinality(Failed) <= Cardinality(Hit)
    BY <2>1, PodsFinite, FS_Subset DEF Hit
  <2>3. Cardinality(Failed) \in Nat /\ Cardinality(Hit) \in Nat
    BY PodsFinite, FS_CardinalityType DEF Failed, Hit
  <2>4. upsets > BackoffLimit
    BY <1>1, <1>p, <2>2, <2>3, WorkerAssumption DEF TooMany
  <2>5. QED
    BY <1>1, <1>e, <1>p, <2>4 DEF WorkerInv, CompleteMeansAll, FailsOnlyWhenUpset
<1>2. CASE Succeeded # {} /\ End("complete")
  <2>1. PICK p \in Succeeded : TRUE
    BY <1>2
  <2>2. pods[p].done = Items /\ p \in Pod
    BY <1>p, <2>1 DEF Succeeded, PodInv
  <2>3. ASSUME NEW i \in Item PROVE handled[i] > 0
    <3>1. p \in Did(i) /\ Did(i) \subseteq Pod
      BY <2>2, WorkerAssumption DEF Did, Item
    <3>2. Cardinality(Did(i)) # 0 /\ Cardinality(Did(i)) \in Nat
      BY <3>1, PodsFinite, FS_EmptySet, FS_CardinalityType
    <3>3. QED
      BY <1>p, <3>2
  <2>4. QED
    BY <1>2, <1>e, <1>p, <2>3 DEF WorkerInv, CompleteMeansAll, FailsOnlyWhenUpset
<1>3. CASE Replace
  <2>1. PICK p \in Pod : pods[p].pc = "absent" /\ pods' = [pods EXCEPT ![p].pc = "boot"]
    BY <1>3 DEF Replace
  <2>2. /\ PodInv(pods'[p]) /\ Same(pods[p], pods'[p]) /\ \A q \in Pod \ {p} : pods'[q] = pods[q]
        /\ pods' = [q \in Pod |-> pods'[q]]
    BY <1>p, <2>1 DEF PodInv, PodState, Same
  <2>3. UNCHANGED <<job, upsets, handled>>
    BY <1>3, <1>p DEF Replace
  <2>4. QED
    BY <2>2, <2>3, QuietStep
<1>4. QED
  BY <1>1, <1>2, <1>3 DEF Sync

LEMMA WorkerInit_Inv == WorkerInit => WorkerInv
<1> SUFFICES ASSUME WorkerInit PROVE WorkerInv
  OBVIOUS
<1>1. \A p \in Pod : pods[p] = Absent /\ PodInv(pods[p])
  BY WorkerAssumption DEF WorkerInit, Absent, PodInv, PodState
<1>2. Hit = {} /\ \A i \in Item : Did(i) = {}
  BY <1>1, WorkerAssumption DEF Hit, Did, Absent, Item
<1>3. QED
  BY <1>1, <1>2, FS_EmptySet, WorkerAssumption
  DEF WorkerInit, WorkerInv, CompleteMeansAll, FailsOnlyWhenUpset

LEMMA WorkerStep == WorkerInv /\ [WorkerNext]_workerVars => WorkerInv'
<1> SUFFICES ASSUME WorkerInv, [WorkerNext]_workerVars PROVE WorkerInv'
  OBVIOUS
<1>p. pods = [q \in Pod |-> pods[q]] /\ \A p \in Pod : PodInv(pods[p])
  BY DEF WorkerInv
<1>1. ASSUME NEW p \in Pod, Start(p) \/ Check(p) \/ Tick(p) \/ Kill(p)
      PROVE  WorkerInv'
  <2>1. PodInv(pods'[p]) /\ Same(pods[p], pods'[p]) /\ \A q \in Pod \ {p} : pods'[q] = pods[q]
    BY <1>p, <1>1, StartPod, CheckPod, TickPod, KillPod
  <2>2. pods' = [q \in Pod |-> pods'[q]] /\ UNCHANGED <<job, upsets, handled>>
    BY <1>p, <1>1 DEF Start, Check, Tick, Kill
  <2>3. QED
    BY <2>1, <2>2, QuietStep
<1>2. CASE UNCHANGED workerVars
  BY <1>2 DEF workerVars, WorkerInv, Hit, Did, CompleteMeansAll, FailsOnlyWhenUpset
<1>3. QED
  BY <1>1, <1>2, FinishStep, UpsetStep, SyncStep DEF WorkerNext, Steps

LEMMA WorkerInvariant == WorkerSpec => []WorkerInv
  BY WorkerInit_Inv, WorkerStep, PTL DEF WorkerSpec

-----------------------------------------------------------------------------
LEMMA WorkerTypes == WorkerInv => WorkerTypeOK
  BY PodsFinite, WorkerAssumption DEF WorkerInv, WorkerTypeOK, PodInv, Did

(* Every variable stays in its type; no item is finished more often than   *)
(* there are pods.                                                         *)
THEOREM WorkerTypeCorrect == WorkerSpec => []WorkerTypeOK
  BY WorkerTypes, WorkerInvariant, PTL

(* CompleteMeansAll: a complete Job has finished every item (work.ts:35).  *)
THEOREM CompleteJobsForgetNothing == WorkerSpec => []CompleteMeansAll
<1>1. WorkerInv => CompleteMeansAll
  BY DEF WorkerInv
<1>2. QED
  BY <1>1, WorkerInvariant, PTL

(* NothingCutInHalf: a pod that heard SIGTERM finishes the item in hand if *)
(* items take less than the grace period (work.ts:5).                      *)
THEOREM ItemsAreFinished == WorkerSpec => []NothingCutInHalf
<1>1. WorkerInv => NothingCutInHalf
  BY DEF WorkerInv, NothingCutInHalf, PodInv
<1>2. QED
  BY <1>1, WorkerInvariant, PTL

(* FailsOnlyWhenUpset: a Job fails only when its pods were disturbed more  *)
(* often than the backoff limit (worker.yaml:14).                          *)
THEOREM JobsFailOnlyWhenUpset == WorkerSpec => []FailsOnlyWhenUpset
<1>1. WorkerInv => FailsOnlyWhenUpset
  BY DEF WorkerInv
<1>2. QED
  BY <1>1, WorkerInvariant, PTL

-----------------------------------------------------------------------------
(* Retry. *)

(* Where withRetry is says how many calls and delays there were; and every *)
(* call whose outcome is not the last word failed transiently.             *)
Transient == {"Error", "429", "500"}

CallsAndDelays ==
    \/ retry.pc \in {"start", "thrown"} /\ Len(calls) = 0 /\ Len(delays) = 0
    \/ /\ retry.attempt <= options /\ Len(delays) = retry.attempt - 1
       /\ Len(calls) = IF retry.pc = "call" THEN retry.attempt - 1 ELSE retry.attempt
       /\ retry.pc # "start"

RetryInv ==
    /\ RetryTypeOK
    /\ CallsAndDelays
    /\ \A i \in DOMAIN delays : delays[i] < MaxDelay
    /\ \A i \in 1..(Len(calls) - 1) : calls[i] \in Transient
    /\ retry.pc = "call" /\ Len(calls) > 0 => calls[Len(calls)] \in Transient
    /\ retry.pc = "sleep" => calls[Len(calls)] \in Transient /\ retry.attempt # options
    /\ retry.pc = "returned" => calls[Len(calls)] = "ok"
    /\ retry.pc = "thrown" /\ Len(calls) > 0 =>
          /\ retry.last = calls[Len(calls)] /\ retry.last # "ok"
          /\ retry.last \in Transient => retry.attempt = options

LEMMA AtIs ==
  ASSUME NEW pc, NEW attempt, NEW last
  PROVE  /\ At(pc, attempt, last).pc = pc
         /\ At(pc, attempt, last).attempt = attempt
         /\ At(pc, attempt, last).last = last
  BY DEF At

(* A delay is below maxDelayMs, whatever the exponential has grown to.     *)
LEMMA DelayBound ==
  ASSUME NEW attempt \in Nat \ {0}, NEW ms \in backoffDelay(attempt)
  PROVE  ms \in Nat /\ ms < MaxDelay
<1>1. 2^(attempt - 1) \in Int
  OBVIOUS
<1>2. PICK e \in Int : e = BaseDelay * 2^(attempt - 1)
  BY <1>1, RetryAssumption
<1>3. ms \in {0} \union 0..((IF e < MaxDelay THEN e ELSE MaxDelay) - 1)
  BY <1>2 DEF backoffDelay
<1>4. QED
  BY <1>3, RetryAssumption

LEMMA RetryStart == RetryInit => RetryInv
<1> SUFFICES ASSUME RetryInit PROVE RetryInv
  OBVIOUS
<1>1. retry.pc = "start" /\ retry \in [pc : {"start", "call", "sleep", "returned", "thrown"},
                                       attempt : Nat \ {0}, last : Outcome]
  BY DEF RetryInit, At, Outcome
<1>2. Len(calls) = 0 /\ Len(delays) = 0 /\ calls \in Seq(Outcome) /\ delays \in Seq(Nat)
  BY DEF RetryInit
<1>3. DOMAIN delays = {}
  BY DEF RetryInit
<1>4. QED
  BY <1>1, <1>2, <1>3 DEF RetryInit, RetryInv, RetryTypeOK, CallsAndDelays

LEMMA BeginStep == RetryInv /\ Begin => RetryInv'
<1> SUFFICES ASSUME RetryInv, Begin PROVE RetryInv'
  OBVIOUS
<1>1. /\ Len(calls) = 0 /\ Len(delays) = 0 /\ options \in Nat
      /\ UNCHANGED <<options, calls, delays>>
  BY RetryAssumption DEF RetryInv, CallsAndDelays, Begin, RetryTypeOK
<1>2. RetryTypeOK'
  BY <1>1 DEF RetryInv, RetryTypeOK, Begin, At, Outcome
<1>3. \/ retry'.pc = "thrown"
      \/ retry'.pc = "call" /\ retry'.attempt = 1 /\ 1 <= options
  BY <1>1, AtIs DEF Begin
<1>4. CallsAndDelays'
  BY <1>1, <1>3 DEF CallsAndDelays
<1>5. QED
  BY <1>1, <1>2, <1>3, <1>4 DEF RetryInv

LEMMA CallStep == RetryInv /\ Call => RetryInv'
<1> SUFFICES ASSUME RetryInv, Call PROVE RetryInv'
  OBVIOUS
<1> DEFINE n == Len(calls)
           a == retry.attempt
<1>1. PICK outcome \in Outcome :
         /\ calls' = Append(calls, outcome)
         /\ \/ outcome = "ok" /\ retry' = At("returned", a, outcome)
            \/ outcome # "ok" /\ GivesUp(outcome) /\ retry' = At("thrown", a, outcome)
            \/ outcome # "ok" /\ ~GivesUp(outcome) /\ retry' = At("sleep", a, outcome)
  BY DEF Call
<1>2. /\ a \in Nat \ {0} /\ a <= options /\ options \in Nat /\ n = a - 1 /\ Len(delays) = a - 1
      /\ calls \in Seq(Outcome) /\ delays \in Seq(Nat) /\ options \in Attempts
      /\ UNCHANGED <<options, delays>> /\ retry.pc = "call"
  BY RetryAssumption DEF RetryInv, CallsAndDelays, Call, RetryTypeOK
<1>3. /\ calls' \in Seq(Outcome) /\ Len(calls') = a /\ calls'[a] = outcome
      /\ \A i \in 1..n : calls'[i] = calls[i]
  BY <1>1, <1>2
<1>4. /\ retry'.attempt = a /\ retry'.last = outcome
      /\ retry'.pc \in {"returned", "thrown", "sleep"}
      /\ retry'.pc = "returned" <=> outcome = "ok"
      /\ retry'.pc = "thrown" => GivesUp(outcome)
      /\ retry'.pc = "sleep" => ~GivesUp(outcome)
  BY <1>1, AtIs
<1>5. RetryTypeOK'
  <2>1. retry' \in [pc : {"start", "call", "sleep", "returned", "thrown"},
                    attempt : Nat \ {0}, last : Outcome]
    BY <1>1, <1>2 DEF At
  <2>2. QED
    BY <1>2, <1>3, <2>1 DEF RetryTypeOK
<1>6. CallsAndDelays'
  BY <1>2, <1>3, <1>4 DEF CallsAndDelays
<1>7. \A i \in 1..n : calls[i] \in Transient
  BY <1>2 DEF RetryInv
<1>8. \A i \in 1..(Len(calls') - 1) : calls'[i] \in Transient
  BY <1>2, <1>3, <1>7
<1>9. retry'.pc = "sleep" => outcome \in Transient /\ a # options
  BY <1>4 DEF GivesUp, isRetryable, Outcome, Transient
<1>10. retry'.pc = "thrown" => outcome # "ok" /\ (outcome \in Transient => a = options)
  BY <1>4 DEF GivesUp, isRetryable, Transient
<1>11. QED
  BY <1>2, <1>3, <1>4, <1>5, <1>6, <1>8, <1>9, <1>10 DEF RetryInv

LEMMA SleepStep == RetryInv /\ Sleep => RetryInv'
<1> SUFFICES ASSUME RetryInv, Sleep PROVE RetryInv'
  OBVIOUS
<1> DEFINE n == Len(calls)
           a == retry.attempt
<1>1. PICK ms \in backoffDelay(a) : delays' = Append(delays, ms)
  BY DEF Sleep
<1>2. /\ a \in Nat \ {0} /\ a <= options /\ options \in Nat /\ n = a /\ Len(delays) = a - 1
      /\ calls \in Seq(Outcome) /\ delays \in Seq(Nat) /\ options \in Attempts
      /\ UNCHANGED <<options, calls>> /\ retry.pc = "sleep" /\ a # options
      /\ calls[n] \in Transient /\ retry.last \in Outcome
  BY RetryAssumption DEF RetryInv, CallsAndDelays, Sleep, RetryTypeOK
<1>3. ms \in Nat /\ ms < MaxDelay
  BY <1>2, DelayBound
<1>4. /\ delays' \in Seq(Nat) /\ Len(delays') = a /\ delays'[a] = ms
      /\ \A i \in 1..(a - 1) : delays'[i] = delays[i]
  BY <1>1, <1>2, <1>3
<1>5. retry' = At("call", a + 1, retry.last) /\ retry'.pc = "call" /\ retry'.attempt = a + 1
  BY AtIs DEF Sleep
<1>6. RetryTypeOK'
  <2>1. retry' \in [pc : {"start", "call", "sleep", "returned", "thrown"},
                    attempt : Nat \ {0}, last : Outcome]
    BY <1>2, <1>5 DEF At
  <2>2. QED
    BY <1>2, <1>4, <2>1 DEF RetryTypeOK
<1>7. CallsAndDelays'
  <2> HIDE DEF a, n
  <2>1. a + 1 <= options /\ (a + 1) - 1 = a
    BY <1>2
  <2>2. calls' = calls /\ options' = options /\ Len(calls) = a
    BY <1>2 DEF n
  <2>3. /\ retry'.pc = "call" /\ retry'.attempt <= options'
        /\ Len(delays') = retry'.attempt - 1 /\ Len(calls') = retry'.attempt - 1
    BY <1>4, <1>5, <2>1, <2>2
  <2>4. QED
    BY <2>3 DEF CallsAndDelays
<1>8. \A i \in DOMAIN delays' : delays'[i] < MaxDelay
  <2>1. \A i \in DOMAIN delays : delays[i] < MaxDelay
    BY DEF RetryInv
  <2> HIDE DEF a, n
  <2>2. DOMAIN delays' = 1..a /\ DOMAIN delays = 1..(a - 1)
    BY <1>2, <1>4
  <2>3. \A i \in 1..a : i = a \/ i \in 1..(a - 1)
    BY <1>2
  <2>4. ASSUME NEW i \in 1..a PROVE delays'[i] < MaxDelay
    <3>1. CASE i = a
      BY <1>3, <1>4, <3>1
    <3>2. CASE i \in 1..(a - 1)
      BY <1>4, <2>1, <2>2, <3>2
    <3>3. QED
      BY <2>3, <3>1, <3>2
  <2>5. QED
    BY <2>2, <2>4
<1>9. QED
  BY <1>2, <1>5, <1>6, <1>7, <1>8 DEF RetryInv

LEMMA RetryStep == RetryInv /\ [RetryNext]_retryVars => RetryInv'
<1>1. RetryInv /\ UNCHANGED retryVars => RetryInv'
  BY DEF RetryInv, RetryTypeOK, CallsAndDelays, retryVars
<1>2. QED
  BY <1>1, BeginStep, CallStep, SleepStep DEF RetryNext

(* RetriesOnlyTransient, for any attempts, any delays and any outcomes of  *)
(* the operation (retry.ts:37-60).                                         *)
THEOREM OnlyTransientIsRetried == RetrySpec => []RetriesOnlyTransient
<1>1. RetryInv => RetriesOnlyTransient
  <2> SUFFICES ASSUME RetryInv PROVE RetriesOnlyTransient
    OBVIOUS
  <2>1. Len(calls) \in Nat /\ options \in Nat /\ retry.attempt \in Nat \ {0}
    BY RetryAssumption DEF RetryInv, RetryTypeOK
  <2>2. Len(calls) <= options /\ (Len(delays) = Len(calls) \/ Len(delays) + 1 = Len(calls))
    BY <2>1 DEF RetryInv, CallsAndDelays
  <2>3. retry.pc = "thrown" /\ Len(calls) > 0 => Len(calls) = retry.attempt
    BY <2>1 DEF RetryInv, CallsAndDelays
  <2>4. QED
    BY <2>1, <2>2, <2>3 DEF RetryInv, RetriesOnlyTransient, Transient
<1>2. QED
  BY <1>1, RetryStart, RetryStep, PTL DEF RetrySpec

=============================================================================
