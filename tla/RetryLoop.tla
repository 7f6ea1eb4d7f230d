------------------------------ MODULE RetryLoop ------------------------------
(***************************************************************************)
(* One call of the SDK core's HTTP client: send, classify the failure, ask *)
(* the predicate and the strategy, sleep, send again.                      *)
(*                                                                         *)
(* A failure stands for its error variant and the headers that matter.     *)
(* Durations are small numbers.  Nothing is shared between calls, so each  *)
(* call brings its own client configuration.                               *)
(***************************************************************************)
EXTENDS Integers, Sequences, SequencesExt

CONSTANTS
  Strategies,   \* the retry strategies a client may be built with
  Predicates,   \* the retry predicates: the kinds of failure each retries
  MaxWait,      \* RateLimitConfig::max_wait
  MaxMultiplier,\* where 2u32.saturating_pow stops
  Hints,        \* the waits a server may ask for
  None          \* no delay, no hint, no outcome

ASSUME RetryAssumption ==
  /\ MaxWait \in Nat
  /\ MaxMultiplier \in Nat \ {0}
  /\ Hints \subseteq Nat
  /\ \A s \in Strategies : s.retries \in Nat /\ s.delay \in Nat /\ s.cap \in Nat

\* Error::from_reqwest and http_status_error: what an attempt may end with.
\* Statuses 5xx, 429 and the other 4xx carry rate-limit headers.
Transport == {"connect", "request", "timeout", "body", "decode", "serialize"}
Statuses  == {"server", "throttled", "client"}

\* RateLimitInfo: Retry-After, seconds to the reset, no request remaining.
Infos == [after : Hints \cup {None}, reset : Hints \cup {None}, spent : BOOLEAN]

NoInfo == [after |-> None, reset |-> None, spent |-> FALSE]

Failures == [kind : Transport, info : {NoInfo}] \cup [kind : Statuses, info : Infos]

\* Error::is_retryable, and the other predicates of retry.rs.
RetryOnRetryable == {"connect", "request", "timeout", "server", "throttled"}
RetryOn5xx == {"server"}
RetryOnTimeout == {"timeout"}
RetryOnConnectionError == {"connect"}

VARIABLES
  config,    \* the client's strategy, predicate and rate-limit switches
  call,      \* "idle", "send", "wait", and "done" until the caller looks
  kind,      \* which of call_json, call_bytes and execute_started runs
  attempt,   \* attempts made
  didRetry,  \* whether the loop has slept
  delay,     \* the sleep it is in
  failures,  \* history: the failures of this call
  outcome    \* what the call returned

callVars == <<config, call, kind, attempt, didRetry, delay, failures, outcome>>

Configs == [strategy : Strategies, predicate : Predicates,
            enabled : BOOLEAN, respect : BOOLEAN]

CallInit ==
  /\ config = None
  /\ call = "idle"
  /\ kind = None
  /\ attempt = 0
  /\ didRetry = FALSE
  /\ delay = 0
  /\ failures = <<>>
  /\ outcome = None

-----------------------------------------------------------------------------
\* delay_for_attempt: the delays the strategy may choose, None among them when
\* it may stop.  Jitter takes from half of the delay to all of it.
DelayForAttempt(s, n) ==
  LET backoff == Min({s.delay * Min({2 ^ (n - 1), MaxMultiplier}), s.cap}) IN
  IF n > s.retries THEN {None}
  ELSE CASE s.kind = "none"    -> {None}
         [] s.kind = "linear"  -> {s.delay}
         [] s.kind = "backoff" -> {backoff}
         [] s.kind = "jitter"  -> ((backoff + 1) \div 2)..backoff
         [] s.kind = "custom"  -> {None} \cup 0..s.cap

\* http_status_error keeps the headers of an active rate limit, and of a 429
\* that says when to come back.
Limited(f) ==
  /\ config.enabled
  /\ \/ f.info.after # None
     \/ f.info.spent
     \/ f.kind = "throttled" /\ f.info.reset # None

\* rate_limit_delay: Retry-After if respected, else what is left until the reset
\* time, which may have passed by now.
RateLimitDelay(f) ==
  IF ~ Limited(f) THEN {None}
  ELSE IF config.respect /\ f.info.after # None THEN {Min({f.info.after, MaxWait})}
  ELSE IF f.info.reset # None THEN {Min({f.info.reset, MaxWait}), None}
  ELSE {None}

-----------------------------------------------------------------------------
Begin(k) ==
  /\ call = "idle"
  /\ call' = "send"
  /\ config' \in Configs
  /\ kind' = k
  /\ attempt' = 1
  /\ UNCHANGED <<didRetry, delay, failures, outcome>>

CallJson       == Begin("json")
CallBytes      == Begin("bytes")
ExecuteStarted == Begin("started")

Finish(o) ==
  /\ outcome' = o
  /\ call' = "done"
  /\ UNCHANGED <<config, kind, attempt, didRetry, delay>>

\* A success: the body is read and parsed, or left to the caller.
Succeed ==
  /\ call = "send"
  /\ failures' = failures
  /\ Finish([is |-> "ok"])

\* What an attempt of this call can meet: only JSON is decoded, and a started
\* call never reads the body of a success.
CanMeet(f) ==
  /\ f.kind = "decode" => kind = "json"
  /\ f.kind = "body" => kind # "started"

\* Mutant: the last error is reported as exhausted without a retry.
FailAttemptExhausts(f) ==
  /\ call = "send"
  /\ CanMeet(f)
  /\ failures' = Append(failures, f.kind)
  /\ \/ /\ f.kind \notin config.predicate
        /\ Finish([is |-> "error", error |-> f.kind])
     \/ /\ f.kind \in config.predicate
        /\ \E d \in DelayForAttempt(config.strategy, attempt) :
             \/ /\ d = None
                /\ Finish([is |-> "exhausted", attempts |-> attempt, error |-> f.kind])
             \/ /\ d # None
                /\ delay' = d
                /\ call' = "wait"
                /\ UNCHANGED <<config, kind, attempt, didRetry, outcome>>

\* The failure arm of retry_loop and of execute_started.
FailAttempt(f) ==
  /\ call = "send"
  /\ CanMeet(f)
  /\ failures' = Append(failures, f.kind)
  /\ \/ /\ f.kind \notin config.predicate
        /\ Finish([is |-> "error", error |-> f.kind])
     \/ /\ f.kind \in config.predicate
        /\ \E d \in DelayForAttempt(config.strategy, attempt) :
             \/ /\ d = None /\ ~ didRetry
                /\ Finish([is |-> "error", error |-> f.kind])
             \/ /\ d = None /\ didRetry
                /\ Finish([is |-> "exhausted", attempts |-> attempt, error |-> f.kind])
             \/ /\ d # None
                /\ \E r \in RateLimitDelay(f) : delay' = IF r # None THEN r ELSE d
                /\ call' = "wait"
                /\ UNCHANGED <<config, kind, attempt, didRetry, outcome>>

\* The sleep ends and the next attempt starts.
Wake ==
  /\ call = "wait"
  /\ call' = "send"
  /\ didRetry' = TRUE
  /\ attempt' = attempt + 1
  /\ delay' = 0
  /\ UNCHANGED <<config, kind, failures, outcome>>

Attempt == Succeed \/ (\E f \in Failures : FailAttempt(f))

\* The caller takes the outcome and the call is gone.
Collect ==
  /\ call = "done"
  /\ call' = "idle"
  /\ config' = None
  /\ kind' = None
  /\ attempt' = 0
  /\ didRetry' = FALSE
  /\ delay' = 0
  /\ failures' = <<>>
  /\ outcome' = None

CallNext ==
  CallJson \/ CallBytes \/ ExecuteStarted \/ Attempt \/ Wake \/ Collect

CallSpec == CallInit /\ [][CallNext]_callVars

-----------------------------------------------------------------------------
(* Properties.                                                             *)

\* What a call returns is the truth about its attempts: it made no more of
\* them than one and the strategy's retries, every failure it went past was one
\* the predicate retries, an exhausted call slept at least once and reports
\* every attempt it made, and an error returned as it is is the last one and
\* was final or never retried.
OutcomeIsTrue ==
  outcome # None =>
    /\ attempt <= config.strategy.retries + 1
    /\ \A i \in DOMAIN failures :
         i < attempt => failures[i] \in config.predicate
    /\ outcome.is = "ok" => Len(failures) = attempt - 1
    /\ outcome.is # "ok" => Len(failures) = attempt /\ outcome.error = Last(failures)
    /\ outcome.is = "exhausted" =>
         attempt > 1 /\ outcome.attempts = Len(failures) /\ outcome.error \in config.predicate
    /\ outcome.is = "error" => attempt = 1 \/ outcome.error \notin config.predicate
===============================================================================
