---------------------------- MODULE FlagsProofs -----------------------------
(***************************************************************************)
(* For every set of flags, any number of rewrites, removals and restarts:  *)
(* with one thread the cache of Flags is fresh between requests and every  *)
(* answer justified; with any number, a missing file means off.            *)
(***************************************************************************)
EXTENDS Flags, TLAPS

LEMMA TypeInit == Init => TypeOK
  BY FlagsAssumption DEF Init, TypeOK, Steps, Files, Written, Absent

LEMMA TypeStep == TypeOK /\ [Next]_vars => TypeOK'
<1> SUFFICES ASSUME TypeOK, [Next]_vars PROVE TypeOK'
  OBVIOUS
<1> USE FlagsAssumption DEF TypeOK, Steps
<1>1. CASE Rewrite
  <2>1. clock' = clock + 1 /\ clock' \in 1..MaxRewrites
    BY <1>1 DEF Rewrite
  <2>2. PICK f \in Files(clock + 1) : Becomes(f)
    BY <1>1 DEF Rewrite, Written
  <2>3. Files(clock) \subseteq Files(clock + 1) /\ f.on \subseteq Flag
    BY DEF Files, Absent
  <2>4. window' \in [Thread -> SUBSET Files(clock + 1)]
    BY <2>2, <2>3 DEF Becomes
  <2>5. QED
    BY <2>1, <2>2, <2>3, <2>4 DEF Becomes, cacheVars, callVars
<1>2. CASE Remove
  BY <1>2 DEF Remove, Becomes, Files, Absent, cacheVars, callVars
<1>3. CASE Restart
  BY <1>3 DEF Restart, fileVars, callVars, callHist
<1>4. ASSUME NEW t \in Thread, Request(t) PROVE TypeOK'
  BY <1>4 DEF Request, fileVars, cacheVars
<1>5. ASSUME NEW t \in Thread, Enabled(t) PROVE TypeOK'
  <2> USE DEF fileVars, cacheVars, callVars, callHist, Goto, Answer
  <2>1. CASE Stat(t)        BY <2>1 DEF Stat, Files, Absent
  <2>2. CASE Compare(t)     BY <2>2 DEF Compare
  <2>3. CASE Read(t)
    <3>1. file.on \subseteq Flag
      BY DEF Files, Absent
    <3>2. QED
      BY <2>3, <3>1 DEF Read
  <2>4. CASE StoreValues(t) BY <2>4 DEF StoreValues
  <2>5. CASE StoreMtime(t)  BY <2>5 DEF StoreMtime
  <2>6. CASE Get(t)         BY <2>6 DEF Get
  <2>7. CASE ClearMtime(t)  BY <2>7 DEF ClearMtime
  <2>8. CASE ClearValues(t) BY <2>8 DEF ClearValues
  <2>9. QED
    BY <1>5, <2>1, <2>2, <2>3, <2>4, <2>5, <2>6, <2>7, <2>8 DEF Enabled
<1>6. CASE UNCHANGED vars
  BY <1>6 DEF vars, fileVars, cacheVars, callVars, callHist
<1>7. QED
  BY <1>1, <1>2, <1>3, <1>4, <1>5, <1>6 DEF Next

(* The type invariant of Flags, for any number of threads.                 *)
THEOREM TypeCorrect == Spec => []TypeOK
  BY TypeInit, TypeStep, PTL DEF Spec

-----------------------------------------------------------------------------
(* One worker thread. *)
OneThread == \A t, u \in Thread : t = u

(* Why one thread is enough: as in TokensProofs, the cached mtime is below *)
(* the one a request is storing, so a file with the cached mtime has not   *)
(* changed since before its content was read - and it parsed.              *)
Replacing(t) == pc[t] \in {"read", "storeValues", "storeMtime"}

FreshInv ==
    /\ TypeOK
    /\ file # Absent => file.mtime = clock
    /\ \A t \in Thread :
          /\ pc[t] = "compare" => mtime <= seen[t]
          /\ Replacing(t) => mtime < seen[t]
          /\ pc[t] = "compare" => seen[t] > 0
          /\ pc[t] = "clearValues" => mtime = 0
          /\ pc[t] = "storeValues" /\ file # Absent /\ seen[t] = file.mtime
                => file.parses /\ data[t] = file.on
          /\ pc[t] = "storeMtime" /\ file # Absent /\ seen[t] = file.mtime
                => file.parses /\ values = file.on
    /\ (\A t \in Thread : ~Replacing(t)) /\ file # Absent /\ mtime = file.mtime
          => file.parses /\ values = file.on

LEMMA FreshInit == Init => FreshInv
  BY TypeInit DEF Init, FreshInv, TypeOK, Files, Written, Absent, Replacing

LEMMA FreshStep ==
  ASSUME OneThread
  PROVE  FreshInv /\ [Next]_vars => FreshInv'
<1> SUFFICES ASSUME FreshInv, [Next]_vars PROVE FreshInv'
  OBVIOUS
<1>0. TypeOK'
  BY TypeStep DEF FreshInv
<1> USE <1>0, FlagsAssumption, OneThread DEF FreshInv, TypeOK, Replacing, Files, Absent, OneThread
<1>1. CASE Rewrite
  BY <1>1 DEF Rewrite, Becomes, Written, cacheVars, callVars
<1>2. CASE Remove
  BY <1>2 DEF Remove, Becomes, cacheVars, callVars
<1>3. CASE Restart
  BY <1>3 DEF Restart, fileVars, callVars
<1>4. ASSUME NEW t \in Thread, Request(t) PROVE FreshInv'
  BY <1>4 DEF Request, fileVars, cacheVars
<1>5. ASSUME NEW t \in Thread, Enabled(t) PROVE FreshInv'
  <2> USE DEF fileVars, cacheVars, callVars, Goto, Answer
  <2>1. CASE Stat(t)        BY <2>1 DEF Stat
  <2>2. CASE Compare(t)     BY <2>2 DEF Compare
  <2>3. CASE Read(t)        BY <2>3 DEF Read
  <2>4. CASE StoreValues(t) BY <2>4 DEF StoreValues
  <2>5. CASE StoreMtime(t)  BY <2>5 DEF StoreMtime
  <2>6. CASE Get(t)         BY <2>6 DEF Get
  <2>7. CASE ClearMtime(t)  BY <2>7 DEF ClearMtime
  <2>8. CASE ClearValues(t) BY <2>8 DEF ClearValues
  <2>9. QED
    BY <1>5, <2>1, <2>2, <2>3, <2>4, <2>5, <2>6, <2>7, <2>8 DEF Enabled
<1>6. CASE UNCHANGED vars
  BY <1>6 DEF vars, fileVars, cacheVars, callVars
<1>7. QED
  BY <1>1, <1>2, <1>3, <1>4, <1>5, <1>6 DEF Next

(* With one thread FreshAtRest holds in every reachable state.             *)
THEOREM FreshWithOneThread ==
  ASSUME OneThread
  PROVE  Spec => []FreshAtRest
<1>1. FreshInv => FreshAtRest
  BY DEF FreshInv, FreshAtRest, Replacing, Absent
<1>2. QED
  BY FreshInit, FreshStep, <1>1, PTL DEF Spec

-----------------------------------------------------------------------------
(* What the call has in hand: the flags of a content the file had while it *)
(* ran, or those in force when it began, if the file was broken meanwhile. *)
Held(t, on) == \E f \in window[t] : f.parses /\ f.on = on

AnswerInv ==
    /\ FreshInv
    /\ \A t \in Thread :
          /\ pc[t] # "idle" => file \in window[t]
          /\ pc[t] \in {"stat", "compare", "read"} => values = kept[t]
          /\ pc[t] = "compare" /\ seen[t] = mtime => Held(t, values)
          /\ pc[t] = "storeValues" => Held(t, data[t])
          /\ pc[t] = "storeMtime" => Held(t, values)
          /\ pc[t] = "get" => \/ Held(t, values)
                              \/ values = kept[t] /\ \E f \in window[t] : ~f.parses
          /\ pc[t] \in {"clearMtime", "clearValues"} => Absent \in window[t]
          /\ pc[t] = "idle" => AnswerJustified(t)

(* With one thread AnswersJustified holds in every reachable state: a      *)
(* typo, or a file that goes away under the read, never changes a flag.    *)
THEOREM AnswersJustifiedWithOneThread ==
  ASSUME OneThread
  PROVE  Spec => []AnswersJustified
<1>1. Init => AnswerInv
  BY FreshInit DEF Init, AnswerInv, AnswerJustified
<1>2. AnswerInv /\ [Next]_vars => AnswerInv'
  <2> SUFFICES ASSUME AnswerInv, [Next]_vars PROVE AnswerInv'
    OBVIOUS
  <2>0. FreshInv'
    BY FreshStep DEF AnswerInv
  <2> USE <2>0, FlagsAssumption, OneThread DEF AnswerInv, Held, AnswerJustified, OneThread
  <2>1. CASE Rewrite
    BY <2>1 DEF Rewrite, Becomes, cacheVars, callVars, FreshInv, TypeOK
  <2>2. CASE Remove
    BY <2>2 DEF Remove, Becomes, cacheVars, callVars, FreshInv, TypeOK
  <2>3. CASE Restart
    BY <2>3 DEF Restart, fileVars, callVars, callHist, FreshInv, TypeOK
  <2>4. ASSUME NEW t \in Thread, Request(t) PROVE AnswerInv'
    BY <2>4 DEF Request, fileVars, cacheVars, FreshInv, TypeOK
  <2>5. ASSUME NEW t \in Thread, Enabled(t) PROVE AnswerInv'
    <3> USE DEF fileVars, cacheVars, callVars, callHist, Goto, Answer, FreshInv, TypeOK, Steps
    <3>1. CASE Stat(t)        BY <3>1 DEF Stat, Replacing
    <3>2. CASE Compare(t)     BY <3>2 DEF Compare
    <3>3. CASE Read(t)        BY <3>3 DEF Read
    <3>4. CASE StoreValues(t) BY <3>4 DEF StoreValues
    <3>5. CASE StoreMtime(t)  BY <3>5 DEF StoreMtime
    <3>6. CASE Get(t)         BY <3>6 DEF Get
    <3>7. CASE ClearMtime(t)  BY <3>7 DEF ClearMtime
    <3>8. CASE ClearValues(t) BY <3>8 DEF ClearValues
    <3>9. QED
      BY <2>5, <3>1, <3>2, <3>3, <3>4, <3>5, <3>6, <3>7, <3>8 DEF Enabled
  <2>6. CASE UNCHANGED vars
    BY <2>6 DEF vars, fileVars, cacheVars, callVars, callHist
  <2>7. QED
    BY <2>1, <2>2, <2>3, <2>4, <2>5, <2>6 DEF Next
<1>3. AnswerInv => AnswersJustified
  BY DEF AnswerInv, AnswersJustified
<1>4. QED
  BY <1>1, <1>2, <1>3, PTL DEF Spec

-----------------------------------------------------------------------------
(* A call that has seen no file is on the path that returns False without  *)
(* looking at the cache.                                                   *)
AbsentInv ==
    /\ TypeOK
    /\ \A t \in Thread :
          /\ pc[t] # "idle" => file \in window[t]
          /\ pc[t] # "idle" /\ window[t] = {Absent} =>
                pc[t] \in {"stat", "clearMtime", "clearValues"}
          /\ pc[t] = "idle" /\ window[t] = {Absent} => answer[t] # "on"

(* AbsentIsOff, for any number of threads.                                 *)
THEOREM AbsentMeansOff == Spec => []AbsentIsOff
<1>1. Init => AbsentInv
  BY TypeInit DEF Init, AbsentInv
<1>2. AbsentInv /\ [Next]_vars => AbsentInv'
  <2> SUFFICES ASSUME AbsentInv, [Next]_vars PROVE AbsentInv'
    OBVIOUS
  <2>0. TypeOK'
    BY TypeStep DEF AbsentInv
  <2>1. CASE Rewrite
    <3>1. file' # Absent
      BY <2>1, FlagsAssumption DEF Rewrite, Becomes, Written, Absent, AbsentInv, TypeOK
    <3>2. QED
      BY <2>0, <2>1, <3>1 DEF Rewrite, Becomes, cacheVars, callVars, AbsentInv, TypeOK
  <2>2. CASE Remove
    BY <2>0, <2>2 DEF Remove, Becomes, cacheVars, callVars, AbsentInv, TypeOK
  <2>3. CASE Restart
    BY <2>0, <2>3 DEF Restart, fileVars, callVars, callHist, AbsentInv, TypeOK
  <2>4. ASSUME NEW t \in Thread, Request(t) PROVE AbsentInv'
    BY <2>0, <2>4 DEF Request, fileVars, cacheVars, AbsentInv, TypeOK
  <2>5. ASSUME NEW t \in Thread, Enabled(t) PROVE AbsentInv'
    <3> USE <2>0 DEF fileVars, cacheVars, callVars, callHist, Goto, Answer, AbsentInv, TypeOK
    <3>1. CASE Stat(t)        BY <3>1 DEF Stat
    <3>2. CASE Compare(t)     BY <3>2 DEF Compare
    <3>3. CASE Read(t)        BY <3>3 DEF Read
    <3>4. CASE StoreValues(t) BY <3>4 DEF StoreValues
    <3>5. CASE StoreMtime(t)  BY <3>5 DEF StoreMtime
    <3>6. CASE Get(t)         BY <3>6 DEF Get
    <3>7. CASE ClearMtime(t)  BY <3>7 DEF ClearMtime
    <3>8. CASE ClearValues(t) BY <3>8 DEF ClearValues
    <3>9. QED
      BY <2>5, <3>1, <3>2, <3>3, <3>4, <3>5, <3>6, <3>7, <3>8 DEF Enabled
  <2>6. CASE UNCHANGED vars
    BY <2>0, <2>6 DEF vars, fileVars, cacheVars, callVars, callHist, AbsentInv
  <2>7. QED
    BY <2>1, <2>2, <2>3, <2>4, <2>5, <2>6 DEF Next
<1>3. AbsentInv => AbsentIsOff
  BY DEF AbsentInv, AbsentIsOff
<1>4. QED
  BY <1>1, <1>2, <1>3, PTL DEF Spec

-----------------------------------------------------------------------------
(* Flags implements FlagsFile if one thread serves: the stat is the look   *)
(* if it decides, because the cache is fresh, and otherwise the read is.   *)

(* What is in force, and in hand, as the one thread has it. *)
ForceAt(t) == IF pc[t] \in {"clearMtime", "clearValues"} THEN {}
            ELSE IF pc[t] = "storeValues" THEN data[t] ELSE values

InHand(t) == IF Looked(t) THEN ForceAt(t) ELSE {}

ForcesAgree == \A t \in Thread : InForce = ForceAt(t)

LEMMA OneForce == OneThread => ForcesAgree
<1> SUFFICES ASSUME OneThread, NEW t \in Thread PROVE InForce = ForceAt(t)
  BY DEF ForcesAgree
<1>1. CASE pc[t] \in {"clearMtime", "clearValues"}
  BY <1>1 DEF InForce, ForceAt
<1>2. CASE pc[t] = "storeValues"
  <2>1. (CHOOSE u \in Thread : pc[u] = "storeValues") = t
    BY <1>2 DEF OneThread
  <2>2. ~\E u \in Thread : pc[u] \in {"clearMtime", "clearValues"}
    BY <1>2 DEF OneThread
  <2>3. QED
    BY <1>2, <2>1, <2>2 DEF InForce, ForceAt
<1>3. CASE pc[t] \notin {"clearMtime", "clearValues", "storeValues"}
  <2>1. \A u \in Thread : pc[u] \notin {"clearMtime", "clearValues", "storeValues"}
    BY <1>3 DEF OneThread
  <2>2. QED
    BY <1>3, <2>1 DEF InForce, ForceAt
<1>4. QED
  BY <1>1, <1>2, <1>3

LEMMA OneMoves ==
  ASSUME OneThread, NEW t \in Thread
  PROVE  /\ Ats[t] = At(t) /\ Hands[t] = InHand(t) /\ InForce = ForceAt(t) /\ InForce' = ForceAt(t)'
         /\ Ats' = [Ats EXCEPT ![t] = At(t)'] /\ Hands' = [Hands EXCEPT ![t] = InHand(t)']
<1>0. InForce = ForceAt(t) /\ InForce' = ForceAt(t)'
  <2>1. OneThread' <=> OneThread
    BY DEF OneThread
  <2>2. ForcesAgree /\ ForcesAgree'
    BY <2>1, OneForce, PTL
  <2>3. QED
    BY <2>2 DEF ForcesAgree
<1>1. Ats' = [u \in Thread |-> At(t)'] /\ Ats = [u \in Thread |-> At(t)]
  BY DEF OneThread, Ats
<1>2. Hands' = [u \in Thread |-> InHand(t)'] /\ Hands = [u \in Thread |-> InHand(t)]
  BY <1>0 DEF OneThread, Hands, InHand
<1>3. QED
  BY <1>0, <1>1, <1>2 DEF OneThread

(* A step that moves nothing FlagsFile sees. *)
LEMMA Unseen ==
  ASSUME OneThread, NEW t \in Thread, At(t)' = At(t), ForceAt(t)' = ForceAt(t), InHand(t)' = InHand(t),
         UNCHANGED <<file, asked, answer>>
  PROVE  UNCHANGED F!vars
<1>1. Ats' = Ats /\ Hands' = Hands /\ InForce' = InForce
  BY OneMoves DEF Ats, Hands
<1>2. QED
  BY <1>1 DEF F!vars, Absent

LEMMA LookStep ==
  ASSUME OneThread, NEW t \in Thread, At(t) = "look", At(t)' = "reply",
         InHand(t)' = ForceAt(t)', UNCHANGED <<file, asked, answer>>,
         \/ file.parses /\ ForceAt(t)' = file.on
         \/ file = Absent /\ ForceAt(t)' = {}
         \/ ~file.parses /\ ForceAt(t)' = ForceAt(t)
  PROVE  F!Look(t)
  BY OneMoves DEF F!Look, Absent

LEMMA ReplyStep ==
  ASSUME OneThread, NEW t \in Thread, At(t) = "reply", At(t)' = "idle",
         ForceAt(t)' = ForceAt(t), InHand(t)' = {}, UNCHANGED <<file, asked>>,
         answer' = [answer EXCEPT ![t] = IF asked[t] \in InHand(t) THEN "on" ELSE "off"]
  PROVE  F!Reply(t)
  BY OneMoves DEF F!Reply, Absent

LEMMA FileContents ==
  ASSUME NEW n, NEW f \in Files(n)
  PROVE  <<f # Absent, f.parses, f.on>> \in F!Contents
<1>1. CASE f = Absent
  BY <1>1 DEF Absent, F!Contents
<1>2. CASE f # Absent
  <2>1. f.parses \in BOOLEAN /\ f.on \in SUBSET Flag /\ (f.parses \/ f.on = {})
    BY <1>2 DEF Files
  <2>2. CASE f.parses
    BY <1>2, <2>1, <2>2 DEF F!Contents
  <2>3. CASE ~f.parses
    BY <1>2, <2>1, <2>3 DEF F!Contents
  <2>4. QED
    BY <2>2, <2>3
<1>3. QED
  BY <1>1, <1>2

LEMMA EnabledSimulation ==
  ASSUME OneThread, FreshInv, NEW t \in Thread, Enabled(t)
  PROVE  [F!Next]_(F!vars)
<1>t. /\ TypeOK /\ pc \in [Thread -> Steps] /\ seen \in [Thread -> 0..clock]
      /\ data \in [Thread -> SUBSET Flag]
  BY DEF FreshInv, TypeOK
<1>n. ASSUME F!Look(t) \/ F!Reply(t) PROVE F!Next
  BY <1>n DEF F!Next
<1>1. CASE Stat(t)
  <2>1. /\ pc[t] = "stat" /\ seen'[t] = file.mtime
        /\ UNCHANGED <<file, values, mtime, asked, answer>>
        /\ pc'[t] = IF file = Absent THEN "clearMtime" ELSE "compare"
    BY <1>1, <1>t DEF Stat, Goto, fileVars, cacheVars
  <2>2. At(t) = "look" /\ InHand(t) = {} /\ ForceAt(t) = values
    BY <2>1 DEF At, InHand, Looked, ForceAt
  <2>3. CASE file = Absent
    <3>1. At(t)' = "reply" /\ InHand(t)' = {} /\ ForceAt(t)' = {}
      BY <2>1, <2>3 DEF At, InHand, Looked, ForceAt
    <3>2. QED
      BY <1>n, <2>1, <2>2, <2>3, <3>1, LookStep
  <2>4. CASE file # Absent /\ file.mtime = mtime
    <3>1. \A u \in Thread : ~Replacing(u)
      BY <2>1 DEF OneThread, Replacing
    <3>2. file.parses /\ values = file.on
      BY <2>4, <3>1 DEF FreshInv
    <3>3. At(t)' = "reply" /\ InHand(t)' = values /\ ForceAt(t)' = values
      BY <2>1, <2>4 DEF At, InHand, Looked, ForceAt
    <3>4. QED
      BY <1>n, <2>1, <2>2, <3>2, <3>3, LookStep
  <2>5. CASE file # Absent /\ file.mtime # mtime
    <3>1. At(t)' = "look" /\ InHand(t)' = {} /\ ForceAt(t)' = values
      BY <2>1, <2>5 DEF At, InHand, Looked, ForceAt
    <3>2. QED
      BY <2>1, <2>2, <3>1, Unseen
  <2>6. QED
    BY <2>3, <2>4, <2>5
<1>2. CASE Compare(t)
  <2>1. /\ pc[t] = "compare" /\ UNCHANGED <<file, values, mtime, asked, seen, data, answer>>
        /\ pc'[t] = IF seen[t] # mtime THEN "read" ELSE "get"
    BY <1>2, <1>t DEF Compare, Goto, fileVars, cacheVars, callVars
  <2>2. At(t)' = At(t) /\ InHand(t)' = InHand(t) /\ ForceAt(t)' = ForceAt(t)
    BY <2>1 DEF At, InHand, Looked, ForceAt
  <2>3. QED
    BY <2>1, <2>2, Unseen
<1>3. CASE Read(t)
  <2>1. pc[t] = "read" /\ UNCHANGED <<file, values, asked, answer>>
    BY <1>3 DEF Read, Goto, fileVars, cacheVars
  <2>2. At(t) = "look" /\ InHand(t) = {} /\ ForceAt(t) = values
    <3>1. seen[t] # mtime
      BY <2>1, <1>t DEF FreshInv, Replacing, TypeOK
    <3>2. QED
      BY <2>1, <3>1 DEF At, InHand, Looked, ForceAt
  <2>3. CASE file.parses
    <3>1. pc'[t] = "storeValues" /\ data'[t] = file.on
      BY <1>3, <1>t, <2>3 DEF Read, Goto
    <3>2. At(t)' = "reply" /\ InHand(t)' = file.on /\ ForceAt(t)' = file.on
      BY <3>1 DEF At, InHand, Looked, ForceAt
    <3>3. QED
      BY <1>n, <2>1, <2>2, <2>3, <3>2, LookStep
  <2>4. CASE ~file.parses
    <3>1. pc'[t] = "get"
      BY <1>3, <1>t, <2>4 DEF Read, Goto
    <3>2. At(t)' = "reply" /\ InHand(t)' = values /\ ForceAt(t)' = values
      BY <2>1, <3>1 DEF At, InHand, Looked, ForceAt
    <3>3. QED
      BY <1>n, <2>1, <2>2, <2>4, <3>2, LookStep
  <2>5. QED
    BY <2>3, <2>4
<1>4. CASE StoreValues(t)
  <2>1. /\ pc[t] = "storeValues" /\ pc'[t] = "storeMtime" /\ values' = data[t]
        /\ UNCHANGED <<file, asked, answer>>
    BY <1>4, <1>t DEF StoreValues, Goto, fileVars, callVars
  <2>2. At(t)' = At(t) /\ InHand(t)' = InHand(t) /\ ForceAt(t)' = ForceAt(t)
    BY <2>1 DEF At, InHand, Looked, ForceAt
  <2>3. QED
    BY <2>1, <2>2, Unseen
<1>5. CASE StoreMtime(t)
  <2>1. /\ pc[t] = "storeMtime" /\ pc'[t] = "get" /\ values' = values
        /\ UNCHANGED <<file, asked, answer>>
    BY <1>5, <1>t DEF StoreMtime, Goto, fileVars, callVars
  <2>2. At(t)' = At(t) /\ InHand(t)' = InHand(t) /\ ForceAt(t)' = ForceAt(t)
    BY <2>1 DEF At, InHand, Looked, ForceAt
  <2>3. QED
    BY <2>1, <2>2, Unseen
<1>6. CASE Get(t)
  <2>1. /\ pc[t] = "get" /\ pc'[t] = "idle" /\ UNCHANGED <<file, asked, values>>
        /\ answer' = [answer EXCEPT ![t] = IF asked[t] \in values THEN "on" ELSE "off"]
    BY <1>6, <1>t DEF Get, Answer, fileVars, cacheVars, callVars
  <2>2. /\ At(t) = "reply" /\ At(t)' = "idle" /\ ForceAt(t) = values /\ ForceAt(t)' = values
        /\ InHand(t) = values /\ InHand(t)' = {}
    BY <2>1 DEF At, InHand, Looked, ForceAt
  <2>3. QED
    BY <1>n, <2>1, <2>2, ReplyStep
<1>7. CASE ClearMtime(t)
  <2>1. /\ pc[t] = "clearMtime" /\ pc'[t] = "clearValues"
        /\ UNCHANGED <<file, asked, answer>>
    BY <1>7, <1>t DEF ClearMtime, Goto, fileVars, callVars
  <2>2. At(t)' = At(t) /\ InHand(t)' = InHand(t) /\ ForceAt(t)' = ForceAt(t)
    BY <2>1 DEF At, InHand, Looked, ForceAt
  <2>3. QED
    BY <2>1, <2>2, Unseen
<1>8. CASE ClearValues(t)
  <2>1. /\ pc[t] = "clearValues" /\ pc'[t] = "idle" /\ values' = {} /\ UNCHANGED <<file, asked>>
        /\ answer' = [answer EXCEPT ![t] = "off"]
    BY <1>8, <1>t DEF ClearValues, Answer, fileVars, callVars
  <2>2. /\ At(t) = "reply" /\ At(t)' = "idle" /\ ForceAt(t) = {} /\ ForceAt(t)' = {}
        /\ InHand(t) = {} /\ InHand(t)' = {}
    BY <2>1 DEF At, InHand, Looked, ForceAt
  <2>3. QED
    BY <1>n, <2>1, <2>2, ReplyStep
<1>9. QED
  BY <1>1, <1>2, <1>3, <1>4, <1>5, <1>6, <1>7, <1>8 DEF Enabled

LEMMA FileSimulation ==
  ASSUME OneThread, FreshInv, [Next]_vars
  PROVE  [F!Next]_(F!vars)
<1>t. TypeOK /\ TypeOK'
  BY TypeStep DEF FreshInv
<1>1. ASSUME Rewrite \/ Remove PROVE F!Next
  <2>1. UNCHANGED <<values, mtime, pc, asked, seen, data, answer>>
    BY <1>1 DEF Rewrite, Remove, Becomes, cacheVars, callVars
  <2>2. InForce' = InForce
    BY <2>1 DEF InForce
  <2>3. Ats' = Ats /\ Hands' = Hands
    BY <2>1, <2>2 DEF Ats, Hands, At, Looked
  <2>4. file' \in Files(clock')
    BY <1>t DEF TypeOK
  <2>5. <<file' # Absent, file'.parses, file'.on>> \in F!Contents
    BY <2>4, FileContents
  <2>6. F!Change
    BY <2>1, <2>2, <2>3, <2>5 DEF F!Change, Absent
  <2>7. QED
    BY <2>6 DEF F!Next
<1>2. CASE Restart
  <2>1. /\ pc' = [t \in Thread |-> "idle"] /\ values' = {} /\ UNCHANGED <<file, asked>>
        /\ answer' = [t \in Thread |-> "none"]
    BY <1>2 DEF Restart, fileVars, callVars
  <2>2. InForce' = {}
    BY <2>1 DEF InForce
  <2>3. Ats' = [t \in Thread |-> "idle"] /\ Hands' = [t \in Thread |-> {}]
    BY <2>1 DEF Ats, Hands, At, Looked
  <2>4. F!Restart
    BY <2>1, <2>2, <2>3 DEF F!Restart, Absent
  <2>5. QED
    BY <2>4 DEF F!Next
<1>3. ASSUME NEW t \in Thread, Request(t) PROVE F!Next
  <2>1. pc[t] = "idle" /\ pc'[t] = "stat" /\ UNCHANGED <<file, values, answer>>
    BY <1>3, <1>t DEF Request, TypeOK, fileVars, cacheVars
  <2>2. /\ At(t) = "idle" /\ At(t)' = "look" /\ InHand(t) = {} /\ InHand(t)' = {}
        /\ ForceAt(t)' = ForceAt(t)
    BY <2>1 DEF At, InHand, Looked, ForceAt
  <2>3. /\ Hands' = Hands /\ InForce' = InForce
        /\ Ats[t] = "idle" /\ Ats' = [Ats EXCEPT ![t] = "look"]
    BY <2>2, OneMoves DEF Hands
  <2>4. F!Request(t)
    BY <1>3, <2>1, <2>3 DEF F!Request, Request, Absent
  <2>5. QED
    BY <2>4 DEF F!Next
<1>4. CASE UNCHANGED vars
  <2>1. UNCHANGED <<file, values, mtime, pc, asked, seen, data, answer>>
    BY <1>4 DEF vars, fileVars, cacheVars, callVars
  <2>2. InForce' = InForce
    BY <2>1 DEF InForce
  <2>3. QED
    BY <2>1, <2>2 DEF F!vars, Ats, Hands, At, Looked, Absent
<1>5. QED
  BY <1>1, <1>2, <1>3, <1>4, EnabledSimulation DEF Next

(* ReadsTheFile: for any flags, contents, rewrites and restarts, one       *)
(* thread answers as if it read the file each time (flags.py:27-43).       *)
THEOREM OneThreadReadsTheFile ==
  ASSUME OneThread
  PROVE  Spec => ReadsTheFile
<1>1. Init => F!Init
  <2> SUFFICES ASSUME Init PROVE F!Init
    OBVIOUS
  <2>1. Ats = [t \in Thread |-> "idle"] /\ Hands = [t \in Thread |-> {}] /\ InForce = {}
    BY DEF Init, Ats, Hands, At, Looked, InForce
  <2>2. file \in Files(clock)
    BY TypeInit DEF TypeOK
  <2>3. <<file # Absent, file.parses, file.on>> \in F!Contents
    BY <2>2, FileContents
  <2>4. QED
    BY <2>1, <2>3 DEF Init, F!Init, Absent
<1>2. FreshInv /\ [Next]_vars => [F!Next]_(F!vars)
  BY FileSimulation
<1>3. QED
  BY <1>1, <1>2, FreshInit, FreshStep, PTL DEF Spec, ReadsTheFile, F!Spec

=============================================================================
