--------------------------- MODULE CircuitBreaker ---------------------------
(***************************************************************************)
(* CircuitBreaker of backend/internal/orchestration/circuitbreaker.go.     *)
(*                                                                         *)
(* Execute locks twice, before and after the upstream call, so it is two   *)
(* steps and any number of other calls may come between them.  Callers     *)
(* call again and again.  Time is kept as the age of the current state,    *)
(* capped at ResetTimeout; the failure count is only compared with         *)
(* FailureThreshold and is capped there.  A call whose context is already  *)
(* done returns without a trace.                                           *)
(***************************************************************************)
EXTENDS Integers

CONSTANTS
    Callers,            \* goroutines that call Execute
    FailureThreshold,   \* consecutive failures that open the breaker
    SuccessThreshold,   \* successful probes that close it
    ResetTimeout        \* ticks before an open breaker admits a probe

ASSUME BreakerAssumption ==
    {FailureThreshold, SuccessThreshold, ResetTimeout} \subseteq Nat \ {0}

VARIABLES
    breaker,    \* the state, the two counters and halfOpenInFlight
    age,        \* ticks since lastStateChange
    calling,    \* the callers inside the upstream call
    healthy     \* the upstream answers every call from now on

breakerVars == <<breaker, age, calling, healthy>>

Capped(n, bound) == IF n > bound THEN bound ELSE n

States == {"CLOSED", "OPEN", "HALF_OPEN"}

-----------------------------------------------------------------------------
\* An open breaker whose timeout has passed becomes half-open for this call.
BreakerGate == IF breaker.state = "OPEN" /\ age >= ResetTimeout
        THEN [breaker EXCEPT !.state = "HALF_OPEN", !.successes = 0, !.probing = FALSE]
        ELSE breaker

\* The gate of Execute: refused with ErrCircuitOpen, or let through to the upstream.
Execute(c) ==
    LET refused == BreakerGate.state = "OPEN" \/ (BreakerGate.state = "HALF_OPEN" /\ BreakerGate.probing) IN
    /\ c \notin calling
    /\ calling' = IF refused THEN calling ELSE calling \cup {c}
    /\ breaker' = IF BreakerGate.state = "HALF_OPEN" THEN [BreakerGate EXCEPT !.probing = TRUE] ELSE BreakerGate
    /\ age' = IF BreakerGate.state # breaker.state THEN 0 ELSE age
    /\ UNCHANGED healthy

\* Mutation: only a failed probe ends the probing.
AfterCallKeepsProbing(ok) ==
    CASE breaker.state = "HALF_OPEN" /\ ~ok ->
            [breaker EXCEPT !.state = "OPEN", !.successes = 0, !.probing = FALSE]
      [] breaker.state = "HALF_OPEN" /\ ok ->
            IF breaker.successes + 1 >= SuccessThreshold
            THEN [state |-> "CLOSED", failures |-> 0, successes |-> 0, probing |-> FALSE]
            ELSE [breaker EXCEPT !.successes = @ + 1]
      [] breaker.state = "CLOSED" /\ ~ok ->
            [breaker EXCEPT !.failures = Capped(@ + 1, FailureThreshold),
                            !.state = IF breaker.failures + 1 >= FailureThreshold
                                      THEN "OPEN" ELSE "CLOSED"]
      [] breaker.state = "CLOSED" /\ ok -> [breaker EXCEPT !.failures = 0]
      [] OTHER -> breaker

\* The reconciliation after the call, whatever state the breaker was in when it began.
AfterCall(ok) ==
    CASE breaker.state = "HALF_OPEN" /\ ~ok ->
            [breaker EXCEPT !.state = "OPEN", !.failures = Capped(@ + 1, FailureThreshold),
                            !.successes = 0, !.probing = FALSE]
      [] breaker.state = "HALF_OPEN" /\ ok ->
            IF breaker.successes + 1 >= SuccessThreshold
            THEN [state |-> "CLOSED", failures |-> 0, successes |-> 0, probing |-> FALSE]
            ELSE [breaker EXCEPT !.successes = @ + 1, !.probing = FALSE]
      [] breaker.state = "CLOSED" /\ ~ok ->
            [breaker EXCEPT !.failures = Capped(@ + 1, FailureThreshold),
                            !.state = IF breaker.failures + 1 >= FailureThreshold
                                      THEN "OPEN" ELSE "CLOSED"]
      [] breaker.state = "CLOSED" /\ ok -> [breaker EXCEPT !.failures = 0]
      [] OTHER -> breaker

CallReturns(c, ok) ==
    /\ c \in calling
    /\ healthy => ok
    /\ calling' = calling \ {c}
    /\ breaker' = AfterCall(ok)
    /\ age' = IF breaker'.state # breaker.state THEN 0 ELSE age
    /\ UNCHANGED healthy

Reset ==
    /\ breaker' = [state |-> "CLOSED", failures |-> 0, successes |-> 0, probing |-> FALSE]
    /\ age' = 0
    /\ UNCHANGED <<calling, healthy>>

BreakerTick ==
    /\ age < ResetTimeout
    /\ age' = age + 1
    /\ UNCHANGED <<breaker, calling, healthy>>

\* From here on the upstream answers.
UpstreamRecovers ==
    /\ ~healthy
    /\ healthy' = TRUE
    /\ UNCHANGED <<breaker, age, calling>>

-----------------------------------------------------------------------------
BreakerInit ==
    /\ breaker = [state |-> "CLOSED", failures |-> 0, successes |-> 0, probing |-> FALSE]
    /\ age = 0
    /\ calling = {}
    /\ healthy = FALSE

CallAnswered(c) == \E ok \in BOOLEAN : CallReturns(c, ok)

BreakerNext == \/ \E c \in Callers : Execute(c) \/ CallAnswered(c)
               \/ Reset \/ BreakerTick \/ UpstreamRecovers

BreakerSpec == BreakerInit /\ [][BreakerNext]_breakerVars

\* Time passes, upstream calls end, and traffic goes on: some caller calls again.
BreakerFairness ==
    /\ WF_breakerVars(BreakerTick)
    /\ \A c \in Callers : WF_breakerVars(CallAnswered(c))
    /\ WF_breakerVars(\E c \in Callers : Execute(c))

LiveBreakerSpec == BreakerSpec /\ BreakerFairness

-----------------------------------------------------------------------------
\* The breaker never wedges: calls admitted in one state and answered in another leave
\* no probe flag behind, so once the upstream answers again the breaker closes.
ClosesAgain == healthy ~> breaker.state = "CLOSED"
=============================================================================
