----------------------------- MODULE TokensFile -----------------------------
(***************************************************************************)
(* What api/tokens.py promises admin_status: there is no cache, and each   *)
(* of its two checks is one look at the mounted file.                      *)
(***************************************************************************)
CONSTANTS Thread, Token, NoToken

VARIABLES
    there,      \* the file exists
    lines,      \* the tokens on it, none if it does not
    at,         \* per thread: idle, about to look, or has looked
    call,       \* per thread: the check it is in
    presented,  \* per thread: the token the request carries
    value,      \* per thread: what it saw
    answer      \* per thread: status code of the last request

vars == <<there, lines, at, call, presented, value, answer>>

Init ==
    /\ there \in BOOLEAN
    /\ lines \in SUBSET Token /\ (there \/ lines = {})
    /\ at = [t \in Thread |-> "idle"]
    /\ call = [t \in Thread |-> "configured"]
    /\ presented = [t \in Thread |-> NoToken]
    /\ value = [t \in Thread |-> {}]
    /\ answer = [t \in Thread |-> 0]

(* Rewritten, created or removed. *)
Change ==
    /\ there' \in BOOLEAN
    /\ lines' \in SUBSET Token /\ (there' \/ lines' = {})
    /\ UNCHANGED <<at, call, presented, value, answer>>

Request(t) ==
    /\ at[t] = "idle"
    /\ at' = [at EXCEPT ![t] = "look"]
    /\ call' = [call EXCEPT ![t] = "configured"]
    /\ \E p \in Token \cup {NoToken} : presented' = [presented EXCEPT ![t] = p]
    /\ UNCHANGED <<there, lines, value, answer>>

Look(t) ==
    /\ at[t] = "look"
    /\ at' = [at EXCEPT ![t] = "reply"]
    /\ value' = [value EXCEPT ![t] = lines]
    /\ UNCHANGED <<there, lines, call, presented, answer>>

(* Gone between the stat and the read. *)
Lost(t) ==
    /\ at[t] = "look" /\ ~there
    /\ at' = [at EXCEPT ![t] = "idle"]
    /\ answer' = [answer EXCEPT ![t] = 500]
    /\ UNCHANGED <<there, lines, call, presented, value>>

Goes(t) == call[t] = "configured" /\ value[t] # {} /\ presented[t] # NoToken

(* 404 if configured() is false, 401 without a bearer token or with one    *)
(* that valid() does not find.                                             *)
Status(t) == IF call[t] = "configured" /\ value[t] = {} THEN 404
             ELSE IF presented[t] \in value[t] THEN 200 ELSE 401

Reply(t) ==
    /\ at[t] = "reply"
    /\ value' = [value EXCEPT ![t] = {}]
    /\ \/ /\ Goes(t)
          /\ at' = [at EXCEPT ![t] = "look"] /\ call' = [call EXCEPT ![t] = "valid"]
          /\ UNCHANGED answer
       \/ /\ ~Goes(t)
          /\ at' = [at EXCEPT ![t] = "idle"] /\ answer' = [answer EXCEPT ![t] = Status(t)]
          /\ UNCHANGED call
    /\ UNCHANGED <<there, lines, presented>>

Next == Change \/ \E t \in Thread : Request(t) \/ Look(t) \/ Lost(t) \/ Reply(t)

Spec == Init /\ [][Next]_vars

=============================================================================
