------------------------------- MODULE Retry --------------------------------
(***************************************************************************)
(* withRetry (app/worker/src/retry.ts) around an operation that fails and  *)
(* succeeds as it likes.                                                   *)
(***************************************************************************)
EXTENDS Naturals, Sequences

CONSTANTS
    Attempts,    \* values of options.attempts tried
    BaseDelay,   \* options.baseDelayMs
    MaxDelay     \* options.maxDelayMs

ASSUME RetryAssumption == Attempts \subseteq Nat /\ BaseDelay \in Nat /\ MaxDelay \in Nat \ {0}

(* How a call of the operation ends: "ok", an error without a status, a    *)
(* programming error (RangeError, TypeError), or an HTTP status.           *)
Outcome == {"ok", "Error", "RangeError", "TypeError", "404", "429", "500"}

VARIABLES
    options,   \* options.attempts of this call of withRetry
    retry,     \* where it is: the line, the attempt, the outcome in hand
    calls,     \* history: the outcome of each call of operation()
    delays     \* history: each delay slept

retryVars == <<options, retry, calls, delays>>

(* 404 stands for any status but 429 and those from 500 on. *)
isRetryable(error) == error \notin {"RangeError", "TypeError", "404"}

(* The delays that random() in [0, 1) makes possible, rounded down. *)
backoffDelay(attempt) ==
    LET exponential == BaseDelay * 2^(attempt - 1)
        capped == IF exponential < MaxDelay THEN exponential ELSE MaxDelay
    IN  {0} \union 0..(capped - 1)

At(pc, attempt, last) == [pc |-> pc, attempt |-> attempt, last |-> last]

RetryInit ==
    /\ options \in Attempts
    /\ retry = At("start", 1, "ok")
    /\ calls = <<>> /\ delays = <<>>

(* The guard on options.attempts. *)
Begin ==
    /\ retry.pc = "start"
    /\ retry' = IF options < 1 THEN At("thrown", 1, "RangeError") ELSE At("call", 1, "ok")
    /\ UNCHANGED <<options, calls, delays>>

(* Mutant: one attempt too many. *)
GivesUpLate(error) == ~isRetryable(error) \/ retry.attempt > options

GivesUp(error) == ~isRetryable(error) \/ retry.attempt = options

(* operation(), and its catch. *)
Call ==
    /\ retry.pc = "call"
    /\ \E outcome \in Outcome :
          /\ calls' = Append(calls, outcome)
          /\ \/ outcome = "ok" /\ retry' = At("returned", retry.attempt, outcome)
             \/ /\ outcome # "ok" /\ GivesUp(outcome)
                /\ retry' = At("thrown", retry.attempt, outcome)
             \/ /\ outcome # "ok" /\ ~GivesUp(outcome)
                /\ retry' = At("sleep", retry.attempt, outcome)
    /\ UNCHANGED <<options, delays>>

(* sleep(backoffDelay(attempt)), and on to the next attempt: the last one  *)
(* never sleeps, so the loop is left from Call only.                       *)
Sleep ==
    /\ retry.pc = "sleep"
    /\ \E ms \in backoffDelay(retry.attempt) : delays' = Append(delays, ms)
    /\ retry' = At("call", retry.attempt + 1, retry.last)
    /\ UNCHANGED <<options, calls>>

RetryNext == Begin \/ Call \/ Sleep

RetrySpec == RetryInit /\ [][RetryNext]_retryVars

-----------------------------------------------------------------------------
RetryTypeOK ==
    /\ options \in Attempts
    /\ retry \in [pc : {"start", "call", "sleep", "returned", "thrown"},
                 attempt : Nat \ {0}, last : Outcome]
    /\ calls \in Seq(Outcome) /\ delays \in Seq(Nat)

(* "Only transient failures are worth retrying; a 400 will still be a 400" *)
(* (retry.ts:41), within the attempts and the delays asked for: every call *)
(* but the last failed transiently, no more were made than asked for, each *)
(* wait is below maxDelayMs, and what withRetry returns or throws is what  *)
(* the last call did; it throws a transient error only when no attempt is  *)
(* left.                                                                   *)
RetriesOnlyTransient ==
    LET n == Len(calls) IN
    /\ n <= options /\ (Len(delays) = n \/ Len(delays) + 1 = n)
    /\ \A i \in 1..(n - 1) : calls[i] \in {"Error", "429", "500"}
    /\ \A i \in DOMAIN delays : delays[i] < MaxDelay
    /\ retry.pc = "returned" => calls[n] = "ok"
    /\ retry.pc = "thrown" /\ n > 0 =>
          /\ retry.last = calls[n] /\ retry.last # "ok"
          /\ retry.last \in {"Error", "429", "500"} => n = options

=============================================================================
