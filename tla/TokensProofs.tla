---------------------------- MODULE TokensProofs ----------------------------
(***************************************************************************)
(* For every set of tokens and any number of rewrites: with one thread the *)
(* cache of Tokens is fresh between requests and every answer justified;   *)
(* with any number, a request that sees no file is answered 404.           *)
(***************************************************************************)
EXTENDS Tokens, TLAPS

(* Every step of the specification keeps every variable in its range. *)
LEMMA TypeStep == TypeOK /\ [Next]_vars => TypeOK'
<1> SUFFICES ASSUME TypeOK, [Next]_vars PROVE TypeOK'
  OBVIOUS
<1> USE TokensAssumption DEF TypeOK, Steps
<1>1. CASE Rewrite
  BY <1>1 DEF Rewrite, Watched, Files, cacheVars, threadVars
<1>2. CASE Remove
  BY <1>2 DEF Remove, Watched, Files, cacheVars, threadVars
<1>3. ASSUME NEW t \in Thread, Request(t) PROVE TypeOK'
  BY <1>3 DEF Request, fileVars, cacheVars
<1>4. ASSUME NEW t \in Thread, Current(t) PROVE TypeOK'
  <2> USE DEF fileVars, cacheVars, Goto, Finish, Returned
  <2>1. CASE Stat(t)        BY <2>1 DEF Stat, Files, Absent
  <2>2. CASE Compare(t)     BY <2>2 DEF Compare
  <2>3. CASE Read(t)        BY <2>3 DEF Read, Files
  <2>4. CASE StoreTokens(t) BY <2>4 DEF StoreTokens
  <2>5. CASE StoreMtime(t)  BY <2>5 DEF StoreMtime
  <2>6. CASE ReturnTokens(t) BY <2>6 DEF ReturnTokens
  <2>7. CASE ClearMtime(t)  BY <2>7 DEF ClearMtime
  <2>8. CASE ClearTokens(t) BY <2>8 DEF ClearTokens
  <2>9. QED
    BY <1>4, <2>1, <2>2, <2>3, <2>4, <2>5, <2>6, <2>7, <2>8 DEF Current
<1>5. CASE UNCHANGED vars
  BY <1>5 DEF vars, fileVars, cacheVars, threadVars
<1>6. QED
  BY <1>1, <1>2, <1>3, <1>4, <1>5 DEF Next

LEMMA TypeInit == Init => TypeOK
  BY TokensAssumption DEF Init, TypeOK, Steps, Files, Absent

(* The type invariant of Tokens, for any number of threads. *)
THEOREM TypeCorrect == Spec => []TypeOK
  BY TypeInit, TypeStep, PTL DEF Spec

-----------------------------------------------------------------------------
(* One worker thread. *)
OneThread == \A t, u \in Thread : t = u

(* Why one thread is enough.  mtimes only grow: the cached one is at most  *)
(* the one a request has seen, and strictly less while the request is      *)
(* replacing the cache.  So if the file has the cached mtime, the content  *)
(* was read after that mtime and before any other.                         *)
Replacing(t) == pc[t] \in {"read", "storeTokens", "storeMtime"}

FreshInv ==
    /\ TypeOK
    /\ file # Absent => file.mtime = clock
    /\ \A t \in Thread :
          /\ pc[t] = "compare" => mtime <= seen[t]
          /\ Replacing(t) => mtime < seen[t]
          /\ pc[t] \in {"compare", "read", "storeTokens", "storeMtime"} => seen[t] > 0
          /\ pc[t] = "clearTokens" => mtime = 0
          /\ pc[t] = "storeTokens" /\ file # Absent /\ seen[t] = file.mtime
                => text[t] = file.lines
          /\ pc[t] = "storeMtime" /\ file # Absent /\ seen[t] = file.mtime
                => tokens = file.lines
    /\ (\A t \in Thread : ~Replacing(t)) /\ file # Absent /\ mtime = file.mtime
          => tokens = file.lines

LEMMA FreshInit == Init => FreshInv
  BY TokensAssumption
  DEF Init, FreshInv, TypeOK, Steps, Files, Absent, Replacing

LEMMA FreshStep ==
  ASSUME OneThread
  PROVE  FreshInv /\ [Next]_vars => FreshInv'
<1> SUFFICES ASSUME FreshInv, [Next]_vars PROVE FreshInv'
  OBVIOUS
<1>0. TypeOK'
  BY TypeStep DEF FreshInv
<1> USE <1>0, TokensAssumption, OneThread DEF FreshInv, TypeOK, Replacing, Files, Absent, OneThread
<1>1. CASE Rewrite
  BY <1>1 DEF Rewrite, cacheVars, threadVars
<1>2. CASE Remove
  BY <1>2 DEF Remove, cacheVars, threadVars
<1>3. ASSUME NEW t \in Thread, Request(t) PROVE FreshInv'
  BY <1>3 DEF Request, fileVars, cacheVars
<1>4. ASSUME NEW t \in Thread, Current(t) PROVE FreshInv'
  <2> USE DEF fileVars, cacheVars, Goto, Finish, Returned
  <2>1. CASE Stat(t)        BY <2>1 DEF Stat
  <2>2. CASE Compare(t)     BY <2>2 DEF Compare
  <2>3. CASE Read(t)        BY <2>3 DEF Read
  <2>4. CASE StoreTokens(t) BY <2>4 DEF StoreTokens
  <2>5. CASE StoreMtime(t)  BY <2>5 DEF StoreMtime
  <2>6. CASE ReturnTokens(t) BY <2>6 DEF ReturnTokens
  <2>7. CASE ClearMtime(t)  BY <2>7 DEF ClearMtime
  <2>8. CASE ClearTokens(t) BY <2>8 DEF ClearTokens
  <2> HIDE DEF FreshInv
  <2>9. QED
    BY <1>4, <2>1, <2>2, <2>3, <2>4, <2>5, <2>6, <2>7, <2>8 DEF Current
<1>5. CASE UNCHANGED vars
  BY <1>5 DEF vars, fileVars, cacheVars, threadVars
<1> HIDE DEF FreshInv
<1>6. QED
  BY <1>1, <1>2, <1>3, <1>4, <1>5 DEF Next

(* With one thread FreshAtRest holds in every reachable state.             *)
THEOREM FreshWithOneThread ==
  ASSUME OneThread
  PROVE  Spec => []FreshAtRest
<1>1. FreshInv => FreshAtRest
  BY DEF FreshInv, FreshAtRest, Replacing
<1>2. QED
  BY FreshInit, FreshStep, <1>1, PTL DEF Spec

-----------------------------------------------------------------------------
(* What a request has in hand is a content the file had while it ran.      *)
Held(t, lines) == \E f \in window[t] : f.lines = lines

AnswerInv ==
    /\ FreshInv
    /\ \A t \in Thread :
          /\ pc[t] # "idle" => file \in window[t]
          /\ pc[t] = "compare" /\ seen[t] = mtime => Held(t, tokens)
          /\ pc[t] = "storeTokens" => Held(t, text[t])
          /\ pc[t] \in {"storeMtime", "return"} => Held(t, tokens)
          /\ pc[t] \in {"clearMtime", "clearTokens"} => Absent \in window[t]
          /\ pc[t] = "idle" => Justified(t)

(* A request in hand loses nothing when the file changes: it watches.      *)
LEMMA FileChanges ==
  ASSUME AnswerInv, FreshInv', Watched(file'), UNCHANGED <<cacheVars, threadVars>>
  PROVE  AnswerInv'
<1>1. /\ window \in [Thread -> SUBSET Files(clock)]
      /\ pc' = pc /\ seen' = seen /\ text' = text /\ presented' = presented
      /\ answer' = answer /\ tokens' = tokens /\ mtime' = mtime
  BY DEF AnswerInv, FreshInv, TypeOK, cacheVars, threadVars
<1>2. \A t \in Thread : IF pc[t] = "idle" THEN window'[t] = window[t]
                         ELSE window'[t] = window[t] \cup {file'}
  BY DEF Watched
<1>3. \A t \in Thread : window[t] \subseteq window'[t]
  BY <1>2
<1>5. ASSUME NEW t \in Thread, pc[t] = "idle" PROVE Justified(t)'
  <2>1. Justified(t) /\ window'[t] = window[t]
    BY <1>2, <1>5 DEF AnswerInv
  <2> QED BY <1>1, <2>1 DEF Justified, Absent
<1>6. ASSUME NEW t \in Thread
      PROVE  /\ pc[t] # "idle" => file' \in window'[t]
             /\ pc[t] = "compare" /\ seen[t] = mtime => Held(t, tokens)'
             /\ pc[t] = "storeTokens" => Held(t, text[t])'
             /\ pc[t] \in {"storeMtime", "return"} => Held(t, tokens)'
             /\ pc[t] \in {"clearMtime", "clearTokens"} => Absent \in window'[t]
  <2>1. pc[t] # "idle" => file' \in window'[t]
    BY <1>2
  <2>2. /\ pc[t] = "compare" /\ seen[t] = mtime => Held(t, tokens)
        /\ pc[t] = "storeTokens" => Held(t, text[t])
        /\ pc[t] \in {"storeMtime", "return"} => Held(t, tokens)
        /\ pc[t] \in {"clearMtime", "clearTokens"} => Absent \in window[t]
    BY DEF AnswerInv
  <2>3. Held(t, tokens) => Held(t, tokens)'
    BY <1>1, <1>3 DEF Held
  <2>4. Held(t, text[t]) => Held(t, text[t])'
    BY <1>1, <1>3 DEF Held
  <2> QED BY <1>3, <2>1, <2>2, <2>3, <2>4
<1> QED BY <1>1, <1>5, <1>6 DEF AnswerInv

(* With one thread AnswersJustified holds in every reachable state: the    *)
(* rotation that keeps a token on the file throughout never loses it.      *)
THEOREM AnswersJustifiedWithOneThread ==
  ASSUME OneThread
  PROVE  Spec => []AnswersJustified
<1>1. Init => AnswerInv
  BY FreshInit DEF Init, AnswerInv, Justified
<1>2. AnswerInv /\ [Next]_vars => AnswerInv'
  <2> SUFFICES ASSUME AnswerInv, [Next]_vars PROVE AnswerInv'
    OBVIOUS
  <2>0. FreshInv'
    BY FreshStep DEF AnswerInv
  <2> USE <2>0, TokensAssumption, OneThread
          DEF AnswerInv, Held, Justified, OneThread
  <2>1. CASE Rewrite \/ Remove
    <3>1. Watched(file') /\ UNCHANGED <<cacheVars, threadVars>>
      BY <2>1 DEF Rewrite, Remove
    <3> QED BY <3>1, FileChanges DEF AnswerInv
  <2>3. ASSUME NEW t \in Thread, Request(t) PROVE AnswerInv'
    BY <2>3 DEF Request, fileVars, cacheVars, FreshInv, TypeOK
  <2>4. ASSUME NEW t \in Thread, Current(t) PROVE AnswerInv'
    <3> USE DEF fileVars, cacheVars, Goto, Finish, Returned, FreshInv, TypeOK, Steps
    <3>1. CASE Stat(t)        BY <3>1 DEF Stat, Replacing
    <3>2. CASE Compare(t)     BY <3>2 DEF Compare
    <3>3. CASE Read(t)        BY <3>3 DEF Read
    <3>4. CASE StoreTokens(t) BY <3>4 DEF StoreTokens
    <3>5. CASE StoreMtime(t)  BY <3>5 DEF StoreMtime
    <3>6. CASE ReturnTokens(t) BY <3>6 DEF ReturnTokens, Files, Absent
    <3>7. CASE ClearMtime(t)  BY <3>7 DEF ClearMtime
    <3>8. CASE ClearTokens(t) BY <3>8 DEF ClearTokens, Absent
    <3> HIDE DEF AnswerInv
    <3>9. QED
      BY <2>4, <3>1, <3>2, <3>3, <3>4, <3>5, <3>6, <3>7, <3>8 DEF Current
  <2>5. CASE UNCHANGED vars
    BY <2>5 DEF vars, fileVars, cacheVars, threadVars
  <2> HIDE DEF AnswerInv
  <2>6. QED
    BY <2>1, <2>3, <2>4, <2>5 DEF Next
<1>3. AnswerInv => AnswersJustified
  BY DEF AnswerInv, AnswersJustified
<1>4. QED
  BY <1>1, <1>2, <1>3, PTL DEF Spec

-----------------------------------------------------------------------------
(* Whatever the threads leave in the cache, a request that has seen no     *)
(* file is on the path that returns [] without looking at it.              *)
AbsentInv ==
    /\ TypeOK
    /\ \A t \in Thread :
          /\ pc[t] # "idle" => file \in window[t]
          /\ pc[t] # "idle" /\ window[t] = {Absent} =>
                /\ call[t] = "configured"
                /\ pc[t] \in {"stat", "clearMtime", "clearTokens"}
          /\ pc[t] = "idle" /\ window[t] = {Absent} => answer[t] = 404

(* AbsentIs404, for any number of threads.                                 *)
THEOREM AbsentAnswers404 == Spec => []AbsentIs404
<1>1. Init => AbsentInv
  BY TypeInit DEF Init, AbsentInv
<1>2. AbsentInv /\ [Next]_vars => AbsentInv'
  <2> SUFFICES ASSUME AbsentInv, [Next]_vars PROVE AbsentInv'
    OBVIOUS
  <2>0. TypeOK'
    BY TypeStep DEF AbsentInv
  <2>1. CASE Rewrite
    <3>1. file' # Absent
      BY <2>1 DEF Rewrite, Absent, AbsentInv, TypeOK
    <3>2. QED
      BY <2>0, <2>1, <3>1 DEF Rewrite, Watched, cacheVars, threadVars, AbsentInv, TypeOK
  <2>2. CASE Remove
    BY <2>0, <2>2 DEF Remove, Watched, cacheVars, threadVars, AbsentInv, TypeOK
  <2>3. ASSUME NEW t \in Thread, Request(t) PROVE AbsentInv'
    BY <2>0, <2>3 DEF Request, fileVars, cacheVars, AbsentInv, TypeOK
  <2>4. ASSUME NEW t \in Thread, Current(t) PROVE AbsentInv'
    <3> USE <2>0 DEF fileVars, cacheVars, Goto, Finish, Returned, AbsentInv, TypeOK
    <3>1. CASE Stat(t)        BY <3>1 DEF Stat
    <3>2. CASE Compare(t)     BY <3>2 DEF Compare
    <3>3. CASE Read(t)        BY <3>3 DEF Read
    <3>4. CASE StoreTokens(t) BY <3>4 DEF StoreTokens
    <3>5. CASE StoreMtime(t)  BY <3>5 DEF StoreMtime
    <3>6. CASE ReturnTokens(t) BY <3>6 DEF ReturnTokens
    <3>7. CASE ClearMtime(t)  BY <3>7 DEF ClearMtime
    <3>8. CASE ClearTokens(t) BY <3>8 DEF ClearTokens
    <3> HIDE DEF AbsentInv
    <3>9. QED
      BY <2>4, <3>1, <3>2, <3>3, <3>4, <3>5, <3>6, <3>7, <3>8 DEF Current
  <2>5. CASE UNCHANGED vars
    BY <2>0, <2>5 DEF vars, fileVars, cacheVars, threadVars, AbsentInv
  <2>6. QED
    BY <2>1, <2>2, <2>3, <2>4, <2>5 DEF Next
<1>3. AbsentInv => AbsentIs404
  BY DEF AbsentInv, AbsentIs404
<1>4. QED
  BY <1>1, <1>2, <1>3, PTL DEF Spec

-----------------------------------------------------------------------------
(* Tokens implements TokensFile if one thread serves: the stat is the look *)
(* if it decides, because the cache is fresh, and otherwise the read is.   *)

(* What the other threads do is no matter when there are none. *)
LEMMA OneMoves ==
  ASSUME OneThread, NEW t \in Thread
  PROVE  /\ Ats[t] = At(t) /\ Hands[t] = InHand(t)
         /\ Ats' = [Ats EXCEPT ![t] = At(t)'] /\ Hands' = [Hands EXCEPT ![t] = InHand(t)']
<1>1. Ats' = [u \in Thread |-> At(t)'] /\ Ats = [u \in Thread |-> At(t)]
  BY DEF OneThread, Ats
<1>2. Hands' = [u \in Thread |-> InHand(t)'] /\ Hands = [u \in Thread |-> InHand(t)]
  BY DEF OneThread, Hands
<1>3. QED
  BY <1>1, <1>2 DEF OneThread

(* A step that moves nothing TokensFile sees. *)
LEMMA Unseen ==
  ASSUME OneThread, NEW t \in Thread, At(t)' = At(t), InHand(t)' = InHand(t),
         UNCHANGED <<file, call, presented, answer>>
  PROVE  UNCHANGED F!vars
<1>1. Ats' = Ats /\ Hands' = Hands
  BY OneMoves DEF Ats, Hands
<1>2. QED
  BY <1>1 DEF F!vars, Absent

LEMMA LookStep ==
  ASSUME OneThread, NEW t \in Thread, At(t) = "look", At(t)' = "reply",
         InHand(t)' = file.lines, UNCHANGED <<file, call, presented, answer>>
  PROVE  F!Look(t)
  BY OneMoves DEF F!Look, Absent

(* Returned(t, value) is TokensFile's Reply to what is in hand. *)
LEMMA ReplyStep ==
  ASSUME OneThread, TypeOK, NEW t \in Thread, At(t) = "reply", Returned(t, InHand(t)),
         InHand(t) \subseteq Token, UNCHANGED <<file, presented>>
  PROVE  F!Reply(t)
<1>1. NoToken \notin InHand(t) /\ pc \in [Thread -> Steps]
      /\ call \in [Thread -> {"configured", "valid"}]
      /\ call = [call EXCEPT ![t] = call[t]] /\ answer \in [Thread -> {0, 200, 401, 404, 500}]
  BY TokensAssumption DEF TypeOK
<1>2. pc'[t] \in {"idle", "stat"} /\ (pc'[t] = "idle" <=> ~(/\ call[t] = "configured"
                                      /\ InHand(t) # {} /\ presented[t] # NoToken))
  BY <1>1 DEF Returned, Finish
<1>3. InHand(t)' = {}
  BY <1>2 DEF InHand, Looked
<1>4. At(t)' = IF pc'[t] = "idle" THEN "idle" ELSE "look"
  BY <1>2 DEF At, Looked
<1>6. CASE call[t] = "configured" /\ InHand(t) # {} /\ presented[t] # NoToken
  <2>1. At(t)' = "look" /\ call' = [call EXCEPT ![t] = "valid"] /\ UNCHANGED answer
    BY <1>2, <1>4, <1>6 DEF Returned
  <2>2. QED
    BY <1>3, <1>6, <2>1, OneMoves DEF F!Reply, F!Goes, Absent
<1>7. CASE ~(call[t] = "configured" /\ InHand(t) # {} /\ presented[t] # NoToken)
  <2>1. /\ At(t)' = "idle" /\ UNCHANGED call
        /\ answer' = [answer EXCEPT ![t] =
              IF call[t] = "configured" /\ InHand(t) = {} THEN 404
              ELSE IF presented[t] \in InHand(t) THEN 200 ELSE 401]
    BY <1>1, <1>2, <1>4, <1>7 DEF Returned, Finish
  <2>2. ~F!Goes(t)
    BY <1>7, OneMoves DEF F!Goes
  <2>3. F!Status(t) = IF call[t] = "configured" /\ InHand(t) = {} THEN 404
                      ELSE IF presented[t] \in InHand(t) THEN 200 ELSE 401
    BY OneMoves DEF F!Status
  <2>4. answer' = [answer EXCEPT ![t] = F!Status(t)]
    BY <2>1, <2>3
  <2>5. /\ Ats[t] = "reply" /\ Ats' = [Ats EXCEPT ![t] = "idle"] /\ Hands' = [Hands EXCEPT ![t] = {}]
    BY <1>3, <2>1, OneMoves
  <2>6. QED
    BY <2>1, <2>2, <2>4, <2>5 DEF F!Reply
<1>8. QED
  BY <1>6, <1>7

LEMMA CurrentSimulation ==
  ASSUME OneThread, FreshInv, NEW t \in Thread, Current(t)
  PROVE  [F!Next]_(F!vars)
<1>t. /\ TypeOK /\ file \in Files(clock) /\ (file # Absent => file.mtime > 0)
      /\ pc \in [Thread -> Steps] /\ seen \in [Thread -> 0..clock] /\ mtime \in 0..clock
      /\ text \in [Thread -> SUBSET Token] /\ tokens \subseteq Token
      /\ answer \in [Thread -> {0, 200, 401, 404, 500}]
  BY DEF FreshInv, TypeOK, Files, Absent
<1>n. ASSUME F!Look(t) \/ F!Lost(t) \/ F!Reply(t) PROVE F!Next
  BY <1>n DEF F!Next
<1>1. CASE Stat(t)
  <2>1. /\ pc[t] = "stat" /\ seen'[t] = file.mtime
        /\ UNCHANGED <<file, tokens, mtime, call, presented, answer>>
        /\ pc'[t] = IF file = Absent THEN "clearMtime" ELSE "compare"
    BY <1>1, <1>t DEF Stat, Goto, fileVars, cacheVars
  <2>2. At(t) = "look" /\ InHand(t) = {}
    BY <2>1 DEF At, InHand, Looked
  <2>3. CASE file = Absent
    <3>1. At(t)' = "reply" /\ InHand(t)' = {} /\ file.lines = {}
      BY <2>1, <2>3 DEF At, InHand, Looked, Absent
    <3>2. QED
      BY <1>n, <2>1, <2>2, <3>1, LookStep
  <2>4. CASE file # Absent /\ file.mtime = mtime
    <3>1. \A u \in Thread : ~Replacing(u)
      BY <2>1 DEF OneThread, Replacing
    <3>2. tokens = file.lines
      BY <2>4, <3>1 DEF FreshInv
    <3>3. At(t)' = "reply" /\ InHand(t)' = tokens
      BY <2>1, <2>4 DEF At, InHand, Looked
    <3>4. QED
      BY <1>n, <2>1, <2>2, <3>2, <3>3, LookStep
  <2>5. CASE file # Absent /\ file.mtime # mtime
    <3>1. At(t)' = "look" /\ InHand(t)' = {}
      BY <2>1, <2>5 DEF At, InHand, Looked
    <3>2. QED
      BY <2>1, <2>2, <3>1, Unseen
  <2>6. QED
    BY <2>3, <2>4, <2>5
<1>2. CASE Compare(t)
  <2>1. /\ pc[t] = "compare" /\ UNCHANGED <<file, tokens, mtime, seen, call, presented, answer>>
        /\ pc'[t] = IF seen[t] # mtime THEN "read" ELSE "return"
    BY <1>2, <1>t DEF Compare, Goto, fileVars, cacheVars
  <2>2. At(t)' = At(t) /\ InHand(t)' = InHand(t)
    BY <2>1 DEF At, InHand, Looked
  <2>3. QED
    BY <2>1, <2>2, Unseen
<1>3. CASE Read(t)
  <2>1. pc[t] = "read" /\ UNCHANGED <<file, presented, call>>
    BY <1>3 DEF Read, Goto, Finish, fileVars
  <2>2. At(t) = "look" /\ InHand(t) = {}
    BY <2>1 DEF At, InHand, Looked
  <2>3. CASE file # Absent
    <3>1. pc'[t] = "storeTokens" /\ text'[t] = file.lines /\ UNCHANGED answer
      BY <1>3, <1>t, <2>3 DEF Read, Goto
    <3>2. At(t)' = "reply" /\ InHand(t)' = file.lines
      BY <3>1 DEF At, InHand, Looked
    <3>3. QED
      BY <1>n, <2>1, <2>2, <3>1, <3>2, LookStep
  <2>4. CASE file = Absent
    <3>1. pc'[t] = "idle" /\ answer' = [answer EXCEPT ![t] = 500]
      BY <1>3, <1>t, <2>4 DEF Read, Finish
    <3>2. At(t)' = "idle" /\ InHand(t)' = {}
      BY <3>1 DEF At, InHand, Looked
    <3>3. Hands' = Hands /\ Ats[t] = "look" /\ Ats' = [Ats EXCEPT ![t] = "idle"]
      BY <2>2, <3>2, OneMoves DEF Hands
    <3>4. F!Lost(t)
      BY <2>1, <2>4, <3>1, <3>3 DEF F!Lost, Absent
    <3>5. QED
      BY <1>n, <3>4
  <2>5. QED
    BY <2>3, <2>4
<1>4. CASE StoreTokens(t)
  <2>1. /\ pc[t] = "storeTokens" /\ pc'[t] = "storeMtime" /\ tokens' = text[t]
        /\ UNCHANGED <<file, call, presented, answer>>
    BY <1>4, <1>t DEF StoreTokens, Goto, fileVars
  <2>2. At(t)' = At(t) /\ InHand(t)' = InHand(t)
    BY <2>1 DEF At, InHand, Looked
  <2>3. QED
    BY <2>1, <2>2, Unseen
<1>5. CASE StoreMtime(t)
  <2>1. /\ pc[t] = "storeMtime" /\ pc'[t] = "return" /\ tokens' = tokens
        /\ UNCHANGED <<file, call, presented, answer>>
    BY <1>5, <1>t DEF StoreMtime, Goto, fileVars
  <2>2. At(t)' = At(t) /\ InHand(t)' = InHand(t)
    BY <2>1 DEF At, InHand, Looked
  <2>3. QED
    BY <2>1, <2>2, Unseen
<1>6. CASE ReturnTokens(t)
  <2>1. At(t) = "reply" /\ InHand(t) = tokens /\ Returned(t, tokens) /\ UNCHANGED <<file, presented>>
    BY <1>6 DEF ReturnTokens, At, InHand, Looked, fileVars
  <2>2. QED
    BY <1>n, <1>t, <2>1, ReplyStep
<1>7. CASE ClearMtime(t)
  <2>1. /\ pc[t] = "clearMtime" /\ pc'[t] = "clearTokens"
        /\ UNCHANGED <<file, call, presented, answer>>
    BY <1>7, <1>t DEF ClearMtime, Goto, fileVars
  <2>2. At(t)' = At(t) /\ InHand(t)' = InHand(t)
    BY <2>1 DEF At, InHand, Looked
  <2>3. QED
    BY <2>1, <2>2, Unseen
<1>8. CASE ClearTokens(t)
  <2>1. At(t) = "reply" /\ InHand(t) = {} /\ Returned(t, {}) /\ UNCHANGED <<file, presented>>
    BY <1>8 DEF ClearTokens, At, InHand, Looked, fileVars
  <2>2. QED
    BY <1>n, <1>t, <2>1, ReplyStep
<1>9. QED
  BY <1>1, <1>2, <1>3, <1>4, <1>5, <1>6, <1>7, <1>8 DEF Current

LEMMA FileSimulation ==
  ASSUME OneThread, FreshInv, [Next]_vars
  PROVE  [F!Next]_(F!vars)
<1>t. TypeOK /\ TypeOK'
  BY TypeStep DEF FreshInv
<1>1. ASSUME Rewrite \/ Remove PROVE F!Next
  <2>1. UNCHANGED <<tokens, mtime, pc, call, seen, text, presented, answer>>
    BY <1>1 DEF Rewrite, Remove, cacheVars, threadVars
  <2>2. Ats' = Ats /\ Hands' = Hands
    BY <2>1 DEF Ats, Hands, At, InHand, Looked
  <2>3. file' \in Files(clock')
    BY <1>t DEF TypeOK
  <2>4. file'.lines \in SUBSET Token /\ (file' = Absent => file'.lines = {})
    BY <2>3 DEF Files, Absent
  <2>5. F!Change
    BY <2>1, <2>2, <2>4 DEF F!Change, Absent
  <2>6. QED
    BY <2>5 DEF F!Next
<1>2. ASSUME NEW t \in Thread, Request(t) PROVE F!Next
  <2>1. pc[t] = "idle" /\ pc'[t] = "stat" /\ UNCHANGED <<file, answer>>
    BY <1>2, <1>t DEF Request, TypeOK, fileVars
  <2>2. At(t) = "idle" /\ At(t)' = "look" /\ InHand(t) = {} /\ InHand(t)' = {}
    BY <2>1 DEF At, InHand, Looked
  <2>3. Hands' = Hands /\ Ats[t] = "idle" /\ Ats' = [Ats EXCEPT ![t] = "look"]
    BY <2>2, OneMoves DEF Hands
  <2>4. F!Request(t)
    BY <1>2, <2>1, <2>3 DEF F!Request, Request, Absent
  <2>5. QED
    BY <2>4 DEF F!Next
<1>3. CASE UNCHANGED vars
  BY <1>3 DEF vars, fileVars, cacheVars, threadVars, F!vars, Ats, Hands, At, InHand, Looked, Absent
<1>4. QED
  BY <1>1, <1>2, <1>3, CurrentSimulation DEF Next

(* ReadsTheFile: for any tokens, contents and rewrites, one thread answers *)
(* as if it read the file each time (tokens.py:31-51).                     *)
THEOREM OneThreadReadsTheFile ==
  ASSUME OneThread
  PROVE  Spec => ReadsTheFile
<1>1. Init => F!Init
  <2> SUFFICES ASSUME Init PROVE F!Init
    OBVIOUS
  <2>1. Ats = [t \in Thread |-> "idle"] /\ Hands = [t \in Thread |-> {}]
    BY DEF Init, Ats, Hands, At, InHand, Looked
  <2>2. file.lines \in SUBSET Token /\ (file = Absent => file.lines = {})
    BY DEF Init, Absent
  <2>3. QED
    BY <2>1, <2>2 DEF Init, F!Init, Absent
<1>2. FreshInv /\ [Next]_vars => [F!Next]_(F!vars)
  BY FileSimulation
<1>3. QED
  BY <1>1, <1>2, FreshInit, FreshStep, PTL DEF Spec, ReadsTheFile, F!Spec

=============================================================================
