------------------------------- MODULE Tokens -------------------------------
(***************************************************************************)
(* api/tokens.py and the one endpoint that uses it, main.admin_status.     *)
(*                                                                         *)
(* The process keeps one Tokens object (get_tokens is an lru_cache), and   *)
(* its endpoints are plain `def`s, so requests run on several threads and  *)
(* share the object without a lock.  The kubelet rewrites the mounted file *)
(* underneath them.  Each action below is one step between two points      *)
(* where another thread, or the kubelet, can run: a system call, a read of *)
(* an attribute of the shared object, or a write of one.                   *)
(***************************************************************************)
EXTENDS Naturals, FiniteSets

CONSTANTS
    Thread,        \* worker threads serving requests
    Token,         \* admin tokens that exist
    NoToken,       \* a missing or non-bearer Authorization header
    MaxRewrites    \* bound: how often the mounted file changes

ASSUME TokensAssumption ==
    /\ NoToken \notin Token
    /\ MaxRewrites \in Nat

VARIABLES
    file,       \* the mounted file: its mtime and the tokens on its lines
    clock,      \* number of rewrites so far; a rewrite gets a fresh mtime
    mtime,      \* self._mtime, 0 for None
    tokens,     \* self._tokens
    pc,         \* per thread: where in _current the request is
    call,       \* per thread: which method called _current
    seen,       \* per thread: the local `mtime` of _current
    text,       \* per thread: the non-blank lines read_text returned
    presented,  \* per thread: the token the request carries
    answer,     \* per thread: status code of the last request, 0 before it
    window      \* history: every state of the file during the request

fileVars   == <<file, clock>>
cacheVars  == <<mtime, tokens>>
threadVars == <<pc, call, seen, text, presented, answer>>
vars       == <<fileVars, cacheVars, threadVars, window>>

(* A file that is not there, with None for its mtime. *)
Absent == [mtime |-> 0, lines |-> {}]

Files(last) == {Absent} \cup [mtime : 1..last, lines : SUBSET Token]

Steps == {"idle", "stat", "compare", "read", "storeTokens", "storeMtime",
          "return", "clearMtime", "clearTokens"}

TypeOK ==
    /\ clock \in 0..MaxRewrites
    /\ file \in Files(clock)
    /\ mtime \in 0..clock
    /\ tokens \subseteq Token
    /\ pc \in [Thread -> Steps]
    /\ call \in [Thread -> {"configured", "valid"}]
    /\ seen \in [Thread -> 0..clock]
    /\ text \in [Thread -> SUBSET Token]
    /\ presented \in [Thread -> Token \cup {NoToken}]
    /\ answer \in [Thread -> {0, 200, 401, 404, 500}]
    /\ window \in [Thread -> SUBSET Files(clock)]

(* Tokens(): nothing cached.  The pod starts with or without the file. *)
Init ==
    /\ \/ clock = 0 /\ file = Absent
       \/ clock = 1 /\ MaxRewrites >= 1
          /\ file \in [mtime : {1}, lines : SUBSET Token]
    /\ mtime = 0
    /\ tokens = {}
    /\ pc = [t \in Thread |-> "idle"]
    /\ call = [t \in Thread |-> "configured"]
    /\ seen = [t \in Thread |-> 0]
    /\ text = [t \in Thread |-> {}]
    /\ presented = [t \in Thread |-> NoToken]
    /\ answer = [t \in Thread |-> 0]
    /\ window = [t \in Thread |-> {}]

-----------------------------------------------------------------------------
(* The environment: the kubelet. *)

Watched(f) ==
    window' = [t \in Thread |-> IF pc[t] = "idle" THEN window[t]
                                                  ELSE window[t] \cup {f}]

(* The kubelet syncs a changed Secret: new content under a new mtime. *)
Rewrite ==
    /\ clock < MaxRewrites
    /\ clock' = clock + 1
    /\ \E lines \in SUBSET Token :
          /\ file' = [mtime |-> clock + 1, lines |-> lines]
          /\ Watched(file')
    /\ UNCHANGED <<cacheVars, threadVars>>

(* The Secret, or its key, goes away. *)
Remove ==
    /\ file # Absent
    /\ file' = Absent
    /\ Watched(file')
    /\ UNCHANGED <<clock, cacheVars, threadVars>>

-----------------------------------------------------------------------------
(* Requests. *)

(* GET /admin/status arrives: admin_status calls tokens.configured(). *)
Request(t) ==
    /\ pc[t] = "idle"
    /\ \E p \in Token \cup {NoToken} : presented' = [presented EXCEPT ![t] = p]
    /\ call' = [call EXCEPT ![t] = "configured"]
    /\ pc' = [pc EXCEPT ![t] = "stat"]
    /\ window' = [window EXCEPT ![t] = {file}]
    /\ UNCHANGED <<fileVars, cacheVars, seen, text, answer>>

Finish(t, status) ==
    /\ answer' = [answer EXCEPT ![t] = status]
    /\ pc' = [pc EXCEPT ![t] = "idle"]
    /\ UNCHANGED call

(* _current returned `value` to configured() or valid(), and admin_status  *)
(* goes on from there.                                                     *)
Returned(t, value) ==
    \/ /\ call[t] = "configured" /\ value = {}
       /\ Finish(t, 404)
    \/ /\ call[t] = "configured" /\ value # {} /\ presented[t] = NoToken
       /\ Finish(t, 401)
    \/ /\ call[t] = "configured" /\ value # {} /\ presented[t] # NoToken
       /\ call' = [call EXCEPT ![t] = "valid"]
       /\ pc' = [pc EXCEPT ![t] = "stat"]
       /\ UNCHANGED answer
    \/ /\ call[t] = "valid"
       /\ Finish(t, IF presented[t] \in value THEN 200 ELSE 401)

Goto(t, step) ==
    /\ pc' = [pc EXCEPT ![t] = step]
    /\ UNCHANGED <<call, answer>>

(* mtime = self.path.stat().st_mtime *)
Stat(t) ==
    /\ pc[t] = "stat"
    /\ IF file = Absent THEN Goto(t, "clearMtime") ELSE Goto(t, "compare")
    /\ seen' = [seen EXCEPT ![t] = file.mtime]
    /\ UNCHANGED <<fileVars, cacheVars, text, presented, window>>

(* Mutant: read the file once, on first use. *)
CompareFirstUse(t) ==
    /\ pc[t] = "compare"
    /\ IF mtime = 0 THEN Goto(t, "read") ELSE Goto(t, "return")
    /\ UNCHANGED <<fileVars, cacheVars, seen, text, presented, window>>

(* if mtime != self._mtime *)
Compare(t) ==
    /\ pc[t] = "compare"
    /\ IF seen[t] # mtime THEN Goto(t, "read") ELSE Goto(t, "return")
    /\ UNCHANGED <<fileVars, cacheVars, seen, text, presented, window>>

(* Mutant: without `if line.strip()` a blank line is a token too, and it   *)
(* matches the request that brings none.                                   *)
ReadBlankLines(t) ==
    /\ pc[t] = "read"
    /\ file # Absent
    /\ text' = [text EXCEPT ![t] = file.lines \cup {NoToken}]
    /\ Goto(t, "storeTokens")
    /\ UNCHANGED <<fileVars, cacheVars, seen, presented, window>>

(* self.path.read_text().splitlines(): a file removed since the stat is an *)
(* exception nobody catches, and the request ends in a 500.                *)
Read(t) ==
    /\ pc[t] = "read"
    /\ \/ /\ file # Absent
          /\ text' = [text EXCEPT ![t] = file.lines]
          /\ Goto(t, "storeTokens")
       \/ /\ file = Absent
          /\ Finish(t, 500)
          /\ UNCHANGED text
    /\ UNCHANGED <<fileVars, cacheVars, seen, presented, window>>

(* self._tokens = [...] *)
StoreTokens(t) ==
    /\ pc[t] = "storeTokens"
    /\ tokens' = text[t]
    /\ Goto(t, "storeMtime")
    /\ UNCHANGED <<fileVars, mtime, seen, text, presented, window>>

(* Mutant: stat again after reading, instead of keeping the first mtime. *)
StoreMtimeAgain(t) ==
    /\ pc[t] = "storeMtime"
    /\ mtime' = file.mtime
    /\ Goto(t, "return")
    /\ UNCHANGED <<fileVars, tokens, seen, text, presented, window>>

(* self._mtime = mtime *)
StoreMtime(t) ==
    /\ pc[t] = "storeMtime"
    /\ mtime' = seen[t]
    /\ Goto(t, "return")
    /\ UNCHANGED <<fileVars, tokens, seen, text, presented, window>>

(* return self._tokens *)
ReturnTokens(t) ==
    /\ pc[t] = "return"
    /\ Returned(t, tokens)
    /\ UNCHANGED <<fileVars, cacheVars, seen, text, presented, window>>

(* self._mtime, self._tokens = None, []: two stores, in this order. *)
ClearMtime(t) ==
    /\ pc[t] = "clearMtime"
    /\ mtime' = 0
    /\ Goto(t, "clearTokens")
    /\ UNCHANGED <<fileVars, tokens, seen, text, presented, window>>

(* Mutant: return self._tokens instead of []. *)
ClearTokensLate(t) ==
    /\ pc[t] = "clearTokens"
    /\ tokens' = {}
    /\ Returned(t, tokens)
    /\ UNCHANGED <<fileVars, mtime, seen, text, presented, window>>

(* ... and `return []`. *)
ClearTokens(t) ==
    /\ pc[t] = "clearTokens"
    /\ tokens' = {}
    /\ Returned(t, {})
    /\ UNCHANGED <<fileVars, mtime, seen, text, presented, window>>

Current(t) ==
    \/ Stat(t) \/ Compare(t) \/ Read(t)
    \/ StoreTokens(t) \/ StoreMtime(t) \/ ReturnTokens(t)
    \/ ClearMtime(t) \/ ClearTokens(t)

Next ==
    \/ Rewrite
    \/ Remove
    \/ \E t \in Thread : Request(t) \/ Current(t)

Spec == Init /\ [][Next]_vars

-----------------------------------------------------------------------------
(* Properties. *)

(* "The token is re-read when the file changes" (main.py:134).  Between    *)
(* requests, a cache that carries the file's mtime carries the file's      *)
(* tokens: otherwise nothing re-reads it until the file changes again.     *)
(* True of one thread, false of two.                                       *)
FreshAtRest ==
    (\A t \in Thread : pc[t] = "idle") /\ file # Absent /\ mtime = file.mtime
       => tokens = file.lines

(* Every answer is one that some content the file had during the request   *)
(* justifies: a token on the file throughout is never turned away (this is *)
(* what makes the add-move-remove rotation of tokens.py:10-11 work), one   *)
(* that was on it at no moment is never let in, and a 404 means the file   *)
(* had no token at some moment.                                            *)
Justified(t) ==
    /\ answer[t] = 200 => \E f \in window[t] : presented[t] \in f.lines
    /\ answer[t] = 401 => \E f \in window[t] : presented[t] \notin f.lines
    /\ answer[t] = 404 => \E f \in window[t] : f.lines = {}
    /\ answer[t] = 500 => Absent \in window[t]

AnswersJustified == \A t \in Thread : pc[t] = "idle" => Justified(t)

(* "No file means no admin endpoint: every check fails, and the route      *)
(* answers 404" (tokens.py:13-14): whatever the other threads left in the  *)
(* cache, a request that never sees a file gets the 404.                   *)
AbsentIs404 ==
    \A t \in Thread : pc[t] = "idle" /\ window[t] = {Absent} => answer[t] = 404

(* The cache is not to be seen (tokens.py:31-51): every request is         *)
(* answered as if each of admin_status's two checks were one read of the   *)
(* file, at some moment while it ran, which is what TokensFile says.  The  *)
(* moment is the stat if that decides, else the read.  True of one thread. *)
Looked(t) ==
    \/ pc[t] \in {"storeTokens", "storeMtime", "return", "clearMtime", "clearTokens"}
    \/ pc[t] = "compare" /\ seen[t] = mtime

InHand(t) ==
    IF ~Looked(t) \/ pc[t] \in {"clearMtime", "clearTokens"} THEN {}
    ELSE IF pc[t] = "storeTokens" THEN text[t] ELSE tokens

At(t) == IF pc[t] = "idle" THEN "idle" ELSE IF Looked(t) THEN "reply" ELSE "look"

Ats   == [t \in Thread |-> At(t)]
Hands == [t \in Thread |-> InHand(t)]

F == INSTANCE TokensFile WITH
         there <- file # Absent, lines <- file.lines, at <- Ats, value <- Hands

ReadsTheFile == F!Spec

=============================================================================
