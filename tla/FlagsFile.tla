----------------------------- MODULE FlagsFile ------------------------------
(***************************************************************************)
(* What api/flags.py promises main.quote: a call is one look at the        *)
(* mounted file.  What parses is in force from then on, a missing file     *)
(* puts every flag off, and what cannot be read changes nothing.           *)
(***************************************************************************)
CONSTANTS Thread, Flag

VARIABLES
    there,   \* the file exists
    parses,  \* ... and holds JSON
    on,      \* the flags that are true in it
    force,   \* the flags in force
    at,      \* per thread: idle, about to look, or has looked
    asked,   \* per thread: the name enabled() was called with
    value,   \* per thread: the flags it saw
    answer   \* per thread: what the last call returned

vars == <<there, parses, on, force, at, asked, value, answer>>

Contents == {<<FALSE, FALSE, {}>>, <<TRUE, FALSE, {}>>} \cup ({TRUE} \X {TRUE} \X SUBSET Flag)

Init ==
    /\ <<there, parses, on>> \in Contents
    /\ force = {}
    /\ at = [t \in Thread |-> "idle"]
    /\ asked \in [Thread -> Flag]
    /\ value = [t \in Thread |-> {}]
    /\ answer = [t \in Thread |-> "none"]

Change ==
    /\ <<there', parses', on'>> \in Contents
    /\ UNCHANGED <<force, at, asked, value, answer>>

(* A new process. *)
Restart ==
    /\ force' = {}
    /\ at' = [t \in Thread |-> "idle"]
    /\ value' = [t \in Thread |-> {}]
    /\ answer' = [t \in Thread |-> "none"]
    /\ UNCHANGED <<there, parses, on, asked>>

Request(t) ==
    /\ at[t] = "idle"
    /\ at' = [at EXCEPT ![t] = "look"]
    /\ \E name \in Flag : asked' = [asked EXCEPT ![t] = name]
    /\ UNCHANGED <<there, parses, on, force, value, answer>>

(* A file gone between the stat and the read counts as one that does not   *)
(* parse.                                                                  *)
Look(t) ==
    /\ at[t] = "look"
    /\ at' = [at EXCEPT ![t] = "reply"]
    /\ \/ parses /\ force' = on
       \/ ~there /\ force' = {}
       \/ ~parses /\ UNCHANGED force
    /\ value' = [value EXCEPT ![t] = force']
    /\ UNCHANGED <<there, parses, on, asked, answer>>

Reply(t) ==
    /\ at[t] = "reply"
    /\ at' = [at EXCEPT ![t] = "idle"]
    /\ answer' = [answer EXCEPT ![t] = IF asked[t] \in value[t] THEN "on" ELSE "off"]
    /\ value' = [value EXCEPT ![t] = {}]
    /\ UNCHANGED <<there, parses, on, force, asked>>

Next == Change \/ Restart \/ \E t \in Thread : Request(t) \/ Look(t) \/ Reply(t)

Spec == Init /\ [][Next]_vars

=============================================================================
