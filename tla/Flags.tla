------------------------------- MODULE Flags --------------------------------
(***************************************************************************)
(* api/flags.py and the endpoint that uses it, main.quote: feature flags   *)
(* from a mounted ConfigMap, re-read when its mtime changes.               *)
(*                                                                         *)
(* Like Tokens, one object serves the requests of several threads without  *)
(* a lock, and a step is what happens between two points where another     *)
(* thread or the kubelet can run.  Unlike Tokens, a file that cannot be    *)
(* read or parsed leaves the cache as it is.                               *)
(***************************************************************************)
EXTENDS Naturals

CONSTANTS
    Thread,        \* worker threads serving requests
    Flag,          \* flag names
    MaxRewrites    \* bound: how often the mounted file changes

ASSUME FlagsAssumption == MaxRewrites \in Nat

VARIABLES
    file,     \* the mounted file: its mtime, whether it parses, what is on
    clock,    \* number of rewrites so far; a rewrite gets a fresh mtime
    mtime,    \* self._mtime, 0 for None
    values,   \* self._values: the names that are True
    pc,       \* per thread: where in enabled() the request is
    asked,    \* per thread: the name enabled() was called with
    seen,     \* per thread: the local `mtime`
    data,     \* per thread: the names that are True in what it parsed
    answer,   \* per thread: what the last call returned
    window,   \* history: every state of the file during the call
    kept,     \* history, per thread: `values` when the call began
    good      \* history: what is on in the last content that parsed

fileVars  == <<file, clock>>
cacheVars == <<mtime, values>>
callVars  == <<asked, seen, data>>
callHist  == <<window, kept>>
vars      == <<fileVars, cacheVars, pc, callVars, answer, callHist, good>>

Absent == [mtime |-> 0, parses |-> FALSE, on |-> {}]

(* What the ConfigMap can hold: JSON with some flags `true` (an object, or *)
(* not an object and then none), or text that is not JSON.                 *)
Files(last) ==
    {Absent} \cup {f \in [mtime : 1..last, parses : BOOLEAN, on : SUBSET Flag] :
                      f.parses \/ f.on = {}}

Written(m) == {f \in Files(m) : f.mtime = m}

Steps == {"idle", "stat", "compare", "read", "storeValues", "storeMtime",
          "get", "clearMtime", "clearValues"}

TypeOK ==
    /\ clock \in 0..MaxRewrites
    /\ file \in Files(clock)
    /\ mtime \in 0..clock
    /\ values \subseteq Flag
    /\ pc \in [Thread -> Steps]
    /\ asked \in [Thread -> Flag]
    /\ seen \in [Thread -> 0..clock]
    /\ data \in [Thread -> SUBSET Flag]
    /\ answer \in [Thread -> {"none", "on", "off"}]
    /\ window \in [Thread -> SUBSET Files(clock)]
    /\ kept \in [Thread -> SUBSET Flag]
    /\ good \subseteq Flag

Init ==
    /\ \/ clock = 0 /\ file = Absent
       \/ clock = 1 /\ MaxRewrites >= 1 /\ file \in Written(1)
    /\ mtime = 0
    /\ values = {}
    /\ pc = [t \in Thread |-> "idle"]
    /\ asked \in [Thread -> Flag]
    /\ seen = [t \in Thread |-> 0]
    /\ data = [t \in Thread |-> {}]
    /\ answer = [t \in Thread |-> "none"]
    /\ window = [t \in Thread |-> {}]
    /\ kept = [t \in Thread |-> {}]
    /\ good = file.on

-----------------------------------------------------------------------------
(* The kubelet, and the pod. *)

Becomes(f) ==
    /\ file' = f
    /\ good' = IF f = Absent \/ f.parses THEN f.on ELSE good
    /\ window' = [t \in Thread |-> IF pc[t] = "idle" THEN window[t]
                                                     ELSE window[t] \cup {f}]
    /\ UNCHANGED <<cacheVars, pc, callVars, answer, kept>>

Rewrite ==
    /\ clock < MaxRewrites
    /\ clock' = clock + 1
    /\ \E f \in Written(clock + 1) : Becomes(f)

Remove == file # Absent /\ Becomes(Absent) /\ UNCHANGED clock

(* The pod is replaced: a new process, a new Flags object. *)
Restart ==
    /\ mtime' = 0
    /\ values' = {}
    /\ pc' = [t \in Thread |-> "idle"]
    /\ answer' = [t \in Thread |-> "none"]
    /\ UNCHANGED <<fileVars, callVars, callHist, good>>

-----------------------------------------------------------------------------
(* Requests. *)

Request(t) ==
    /\ pc[t] = "idle"
    /\ \E name \in Flag : asked' = [asked EXCEPT ![t] = name]
    /\ pc' = [pc EXCEPT ![t] = "stat"]
    /\ window' = [window EXCEPT ![t] = {file}]
    /\ kept' = [kept EXCEPT ![t] = values]
    /\ UNCHANGED <<fileVars, cacheVars, seen, data, answer, good>>

Goto(t, step) == pc' = [pc EXCEPT ![t] = step] /\ UNCHANGED answer

(* enabled() returns, and quote answers a price or a 404. *)
Answer(t, on) ==
    /\ pc' = [pc EXCEPT ![t] = "idle"]
    /\ answer' = [answer EXCEPT ![t] = IF on THEN "on" ELSE "off"]

(* mtime = self.path.stat().st_mtime *)
Stat(t) ==
    /\ pc[t] = "stat"
    /\ Goto(t, IF file = Absent THEN "clearMtime" ELSE "compare")
    /\ seen' = [seen EXCEPT ![t] = file.mtime]
    /\ UNCHANGED <<fileVars, cacheVars, asked, data, callHist, good>>

(* if mtime != self._mtime *)
Compare(t) ==
    /\ pc[t] = "compare"
    /\ Goto(t, IF seen[t] # mtime THEN "read" ELSE "get")
    /\ UNCHANGED <<fileVars, cacheVars, callVars, callHist, good>>

(* Mutant: what does not parse is no flags at all. *)
ReadNothing(t) ==
    /\ pc[t] = "read"
    /\ Goto(t, "storeValues")
    /\ data' = [data EXCEPT ![t] = file.on]
    /\ UNCHANGED <<fileVars, cacheVars, asked, seen, callHist, good>>

(* json.loads(self.path.read_text()); a file that is gone or does not      *)
(* parse goes straight to the last return, and self._mtime stays.          *)
Read(t) ==
    /\ pc[t] = "read"
    /\ IF file.parses
       THEN Goto(t, "storeValues") /\ data' = [data EXCEPT ![t] = file.on]
       ELSE Goto(t, "get") /\ UNCHANGED data
    /\ UNCHANGED <<fileVars, cacheVars, asked, seen, callHist, good>>

(* self._values = {...} *)
StoreValues(t) ==
    /\ pc[t] = "storeValues"
    /\ values' = data[t]
    /\ Goto(t, "storeMtime")
    /\ UNCHANGED <<fileVars, mtime, callVars, callHist, good>>

(* Mutant: stat again after reading, instead of keeping the first mtime. *)
StoreMtimeAgain(t) ==
    /\ pc[t] = "storeMtime"
    /\ mtime' = file.mtime
    /\ Goto(t, "get")
    /\ UNCHANGED <<fileVars, values, callVars, callHist, good>>

(* self._mtime = mtime *)
StoreMtime(t) ==
    /\ pc[t] = "storeMtime"
    /\ mtime' = seen[t]
    /\ Goto(t, "get")
    /\ UNCHANGED <<fileVars, values, callVars, callHist, good>>

(* return self._values.get(name, False) *)
Get(t) ==
    /\ pc[t] = "get"
    /\ Answer(t, asked[t] \in values)
    /\ UNCHANGED <<fileVars, cacheVars, callVars, callHist, good>>

(* self._mtime, self._values = None, {}: two stores, in this order. *)
ClearMtime(t) ==
    /\ pc[t] = "clearMtime"
    /\ mtime' = 0
    /\ Goto(t, "clearValues")
    /\ UNCHANGED <<fileVars, values, callVars, callHist, good>>

(* Mutant: return the cached value, as the last line does. *)
ClearValuesLate(t) ==
    /\ pc[t] = "clearValues"
    /\ values' = {}
    /\ Answer(t, asked[t] \in values)
    /\ UNCHANGED <<fileVars, mtime, callVars, callHist, good>>

(* ... and `return False`. *)
ClearValues(t) ==
    /\ pc[t] = "clearValues"
    /\ values' = {}
    /\ Answer(t, FALSE)
    /\ UNCHANGED <<fileVars, mtime, callVars, callHist, good>>

Enabled(t) ==
    \/ Stat(t) \/ Compare(t) \/ Read(t)
    \/ StoreValues(t) \/ StoreMtime(t) \/ Get(t)
    \/ ClearMtime(t) \/ ClearValues(t)

Next ==
    \/ Rewrite
    \/ Remove
    \/ Restart
    \/ \E t \in Thread : Request(t) \/ Enabled(t)

Spec == Init /\ [][Next]_vars

-----------------------------------------------------------------------------
(* Properties. *)

(* "the next request after the kubelet syncs the file sees the new value"  *)
(* (flags.py:5-6).  Between requests, a cache that carries the file's      *)
(* mtime carries its flags: otherwise every request until the next change  *)
(* sees old ones.  True of one thread, false of two.                       *)
FreshAtRest ==
    (\A t \in Thread : pc[t] = "idle") /\ file.parses /\ mtime = file.mtime
       => values = file.on

(* The value an answer gives is the flag's in a content the file had       *)
(* during the call or, if for a moment it could not be read or parsed, the *)
(* one in force when the call began: a typo changes nothing.               *)
AnswerJustified(t) ==
    LET broken == \E f \in window[t] : ~f.parses
        wasOn  == asked[t] \in kept[t]
    IN /\ answer[t] = "on" =>
             \/ \E f \in window[t] : asked[t] \in f.on
             \/ broken /\ wasOn
       /\ answer[t] = "off" =>
             \/ \E f \in window[t] : f.parses /\ asked[t] \notin f.on
             \/ Absent \in window[t]
             \/ broken /\ ~wasOn

AnswersJustified == \A t \in Thread : pc[t] = "idle" => AnswerJustified(t)

(* "A missing file means every flag is off" (flags.py:8-9), whatever the   *)
(* other threads have in hand from the file before it went away.           *)
AbsentIsOff ==
    \A t \in Thread : pc[t] = "idle" /\ window[t] = {Absent} => answer[t] # "on"

(* "a typo in the ConfigMap cannot switch every feature off at once"       *)
(* (flags.py:10): while the file does not parse, a flag that was on in the *)
(* last content that did is not answered off.  It is, by a process that    *)
(* has not read that content yet: a restarted pod, a new replica.          *)
TypoSwitchesNothingOff ==
    \A t \in Thread :
        /\ pc[t] = "idle" /\ answer[t] = "off"
        /\ window[t] = {file} /\ file # Absent /\ ~file.parses
        => asked[t] \notin good

(* The cache is not to be seen (flags.py:27-43): every call answers as if  *)
(* it were one read of the file at some moment while it ran, of which what *)
(* parses stays in force, which is what FlagsFile says.  The moment is the *)
(* stat if that decides, else the read.  True of one thread.               *)
Looked(t) ==
    \/ pc[t] \in {"storeValues", "storeMtime", "get", "clearMtime", "clearValues"}
    \/ pc[t] = "compare" /\ seen[t] = mtime

At(t) == IF pc[t] = "idle" THEN "idle" ELSE IF Looked(t) THEN "reply" ELSE "look"

InForce ==
    IF \E t \in Thread : pc[t] \in {"clearMtime", "clearValues"} THEN {}
    ELSE IF \E t \in Thread : pc[t] = "storeValues"
         THEN data[CHOOSE t \in Thread : pc[t] = "storeValues"] ELSE values

Ats   == [t \in Thread |-> At(t)]
Hands == [t \in Thread |-> IF Looked(t) THEN InForce ELSE {}]

F == INSTANCE FlagsFile WITH
         there <- file # Absent, parses <- file.parses, on <- file.on,
         force <- InForce, at <- Ats, value <- Hands

ReadsTheFile == F!Spec

=============================================================================
