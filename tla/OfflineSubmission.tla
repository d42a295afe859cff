-------------------------- MODULE OfflineSubmission --------------------------
(***************************************************************************)
(* A citizen client's durable queue of unconfirmed reservations            *)
(* (backend/internal/offlinequeue), the network, and the handler that      *)
(* commits a reservation under an idempotency key                          *)
(* (backend/internal/httpserver/stay_handlers.go, handleCreateReservation, *)
(* with backend/internal/store/idempotency.go).                            *)
(*                                                                         *)
(* The handler's transaction claims the key row first, so requests with    *)
(* the same session and key are serialised by the database: one action is  *)
(* one transaction.  Inventory is a number of free holds, the context      *)
(* gates of RevalidateReservationContext one Boolean.  Payload, key and    *)
(* session are opaque values; a payload hash is the payload.               *)
(*                                                                         *)
(* A definition introduced as a mutation is a plausible wrong version of   *)
(* the one that follows it.  No specification uses it; a property of this  *)
(* module fails when it takes the place of the right one.                  *)
(***************************************************************************)
EXTENDS Integers, FiniteSets, Sequences

CONSTANTS
    Ops,            \* ids of queue entries (one file each)
    Keys,           \* idempotency keys
    Payloads,       \* request bodies other than key and snapshot version
    Capacity,       \* holds the facility can carry
    MaxAttempts,    \* ReplayConfig.MaxAttempts
    MaxVersion,     \* bound on the package version
    MaxFaults,      \* bound on lost answers, crashes, 5xx and 429 answers
    MaxChurn,       \* bound on other citizens' holds coming and going
    MaxRenewals,    \* bound on sessions issued to the client after the first
    MaxStrays,      \* bound on requests delivered after the client gave up
    MaxStoreless,   \* bound on answers of an instance without a database
    CancelDrains    \* may the caller cancel a drain and keep the process?

ASSUME OfflineAssumption ==
    /\ Capacity \in Nat /\ MaxAttempts \in Nat \ {0} /\ MaxVersion \in Nat \ {0}
    /\ MaxFaults \in Nat /\ MaxChurn \in Nat /\ MaxRenewals \in Nat
    /\ MaxStrays \in Nat /\ MaxStoreless \in Nat
    /\ CancelDrains \in BOOLEAN

VARIABLES
    entries,    \* disk: the queue directory
    worker,     \* memory: the running DrainQueue / Submit
    token,      \* memory: the session the TokenRef resolves to, 0 when unknown
    session,    \* the session the citizen holds
    sessionOK,  \* the server accepts it
    wire,       \* the request of the current call, or NoMsg
    answer,     \* the response of the current call, or NoMsg
    strays,     \* requests the client gave up on that may still arrive
    idem,       \* idempotency_keys of reservation.create, by <<session, key>>
    holds,      \* reservations committed for this client, oldest first
    others,     \* places held by other citizens
    sourceOpen, \* the context gates accept new commitments
    version,    \* packages.version
    budget      \* how much of each bound is used

clientVars == <<entries, worker, token>>
serverVars == <<idem, holds, others, sourceOpen, version>>
vars == <<entries, worker, token, session, sessionOK, wire, answer, strays,
          idem, holds, others, sourceOpen, version, budget>>

-----------------------------------------------------------------------------
Failed    == {"FAILED_STALE", "FAILED_PERM"}
IsTerminal(s) == s \in Failed \cup {"COMMITTED"}
Uncertain     == {"IN_FLIGHT", "PENDING_RECONCILIATION"}
OpenStates    == Uncertain \cup {"PENDING"}

\* The file <id>.json does not exist: not written yet, or purged.
Gone == {"NONE", "PURGED"}

NoMsg    == [code |-> "none"]
NoResult == [hold |-> 0]
Blank(s) == [state |-> s]

Sessions == 1..(MaxRenewals + 1)

Idle == [pc |-> "idle", todo |-> {}]

\* The answers of the server that the worker tells apart.
StaleCodes     == {"STALE_VERSION"}
PermanentCodes == {"IDEMPOTENCY_CONFLICT", "CAPACITY_CONFLICT", "VALIDATION_FAILED",
                   "DATA_UNAVAILABLE"}
RetryCodes     == {"INTERNAL", "RATE_LIMITED"}

Live == {i \in 1..Len(holds) : holds[i].live}

Spend(what) == budget' = [budget EXCEPT ![what] = @ + 1]

-----------------------------------------------------------------------------
(***************************************************************************)
(* The queue on disk.                                                      *)
(***************************************************************************)
SetState(o, s) == entries' = [entries EXCEPT ![o].state = s]

\* Enqueue compares keys with every non-terminal entry, never ids; assumed of the
\* caller: an id is used once.
Enqueue(o, k, p) ==
    /\ entries[o].state = "NONE"
    /\ worker.pc # "down"
    /\ \A e \in Ops : entries[e].state \in OpenStates => entries[e].key # k
    /\ entries' = [entries EXCEPT ![o] =
           [state |-> "PENDING", key |-> k, payload |-> p, version |-> version, expired |-> FALSE]]
    /\ UNCHANGED <<worker, token, session, sessionOK, wire, answer, strays, serverVars, budget>>

\* Time passes the entry's SelectionExpiry.
SelectionExpires(o) ==
    /\ entries[o].state = "PENDING" \/ entries[o].state \in Uncertain
    /\ ~entries[o].expired
    /\ entries' = [entries EXCEPT ![o].expired = TRUE]
    /\ UNCHANGED <<worker, token, session, sessionOK, wire, answer, strays, serverVars, budget>>

PurgeCommitted(o) ==
    /\ worker.pc # "down"
    /\ entries[o].state = "COMMITTED"
    /\ entries' = [entries EXCEPT ![o] = Blank("PURGED")]
    /\ UNCHANGED <<worker, token, session, sessionOK, wire, answer, strays, serverVars, budget>>

\* The caller removes an entry; assumed of it: never one whose outcome is unknown.
Delete(o) ==
    /\ worker.pc # "down"
    /\ entries[o].state = "PENDING" \/ IsTerminal(entries[o].state)
    /\ entries' = [entries EXCEPT ![o] = Blank("PURGED")]
    /\ UNCHANGED <<worker, token, session, sessionOK, wire, answer, strays, serverVars, budget>>

-----------------------------------------------------------------------------
(***************************************************************************)
(* The replay worker.                                                      *)
(***************************************************************************)
PeekPending == {o \in Ops : entries[o].state \in {"PENDING", "PENDING_RECONCILIATION"}}

StartDrain ==
    /\ worker.pc = "idle"
    /\ worker.todo = {}
    /\ PeekPending # {}
    /\ worker' = [worker EXCEPT !.todo = PeekPending]
    /\ UNCHANGED <<entries, token, session, sessionOK, wire, answer, strays, serverVars, budget>>

\* Submit works on its own copy of the entry; a retry sends that copy again.
Request(o, s) == [op |-> o, key |-> entries[o].key, payload |-> entries[o].payload,
                  version |-> entries[o].version, session |-> s]

\* The part of Submit before the first call.  Entries are re-read; the order of
\* a drain (by CreatedAt) is left open.
SubmitSkip(o) ==
    /\ worker.pc = "idle" /\ o \in worker.todo
    /\ entries[o].state \in Gone \/ IsTerminal(entries[o].state)
    /\ worker' = [worker EXCEPT !.todo = @ \ {o}]
    /\ UNCHANGED <<entries, token, session, sessionOK, wire, answer, strays, serverVars, budget>>

\* Mutation: an uncertain entry is failed on the client's clock too.
LocallyStaleAlways(o) == entries[o].expired

LocallyStale(o) == entries[o].state # "PENDING_RECONCILIATION" /\ entries[o].expired

SubmitStale(o) ==
    /\ worker.pc = "idle" /\ o \in worker.todo
    /\ entries[o].state \in OpenStates
    /\ LocallyStale(o)
    /\ SetState(o, "FAILED_STALE")
    /\ worker' = [worker EXCEPT !.todo = @ \ {o}]
    /\ UNCHANGED <<token, session, sessionOK, wire, answer, strays, serverVars, budget>>

\* An unknown TokenRef ends the drain; the entry stays as it is.
SubmitNoToken(o) ==
    /\ worker.pc = "idle" /\ o \in worker.todo
    /\ entries[o].state \in OpenStates
    /\ ~LocallyStale(o)
    /\ token = 0
    /\ worker' = Idle
    /\ UNCHANGED <<entries, token, session, sessionOK, wire, answer, strays, serverVars, budget>>

SubmitDispatch(o) ==
    /\ worker.pc = "idle" /\ o \in worker.todo
    /\ entries[o].state \in OpenStates
    /\ ~LocallyStale(o)
    /\ token # 0
    /\ SetState(o, "IN_FLIGHT")
    /\ wire' = Request(o, token)
    /\ worker' = [pc |-> "call", todo |-> worker.todo \ {o}, op |-> o,
                  attempt |-> 1, sent |-> Request(o, token)]
    /\ UNCHANGED <<token, session, sessionOK, answer, strays, serverVars, budget>>

\* The worker writes the verdict on the entry and goes on with the drain.
Finish(o, s) ==
    /\ SetState(o, s)
    /\ worker' = [pc |-> "idle", todo |-> worker.todo]

\* The call returns an answer.
Answered(code) ==
    /\ worker.pc = "call"
    /\ answer = [code |-> code]
    /\ answer' = NoMsg

ReceiveSuccess ==
    /\ Answered("OK")
    /\ Finish(worker.op, "COMMITTED")
    /\ UNCHANGED <<token, session, sessionOK, wire, strays, serverVars, budget>>

\* A 2xx body that validateSuccessEnvelope rejects proves nothing; neither does
\* a 401 or 403.
ReceiveUnproven ==
    /\ Answered("UNPROVEN") \/ Answered("FORBIDDEN")
    /\ Finish(worker.op, "PENDING_RECONCILIATION")
    /\ UNCHANGED <<token, session, sessionOK, wire, strays, serverVars, budget>>

ReceiveStale ==
    /\ \E c \in StaleCodes : Answered(c)
    /\ Finish(worker.op, "FAILED_STALE")
    /\ UNCHANGED <<token, session, sessionOK, wire, strays, serverVars, budget>>

ReceivePermanent ==
    /\ \E c \in PermanentCodes : Answered(c)
    /\ Finish(worker.op, "FAILED_PERM")
    /\ UNCHANGED <<token, session, sessionOK, wire, strays, serverVars, budget>>

\* Mutation: running out of attempts is taken for a definitive failure.
ReceiveExhaustedFails ==
    /\ \E c \in RetryCodes : Answered(c)
    /\ worker.attempt = MaxAttempts
    /\ Finish(worker.op, "FAILED_PERM")
    /\ UNCHANGED <<token, session, sessionOK, wire, strays, serverVars, budget>>

ReceiveExhausted ==
    /\ \E c \in RetryCodes : Answered(c)
    /\ worker.attempt = MaxAttempts
    /\ Finish(worker.op, "PENDING_RECONCILIATION")
    /\ UNCHANGED <<token, session, sessionOK, wire, strays, serverVars, budget>>

ReceiveRetry ==
    /\ \E c \in RetryCodes : Answered(c)
    /\ worker.attempt < MaxAttempts
    /\ SetState(worker.op, "IN_FLIGHT")
    /\ worker' = [worker EXCEPT !.pc = "backoff"]
    /\ UNCHANGED <<token, session, sessionOK, wire, strays, serverVars, budget>>

Resend ==
    /\ worker.pc = "backoff"
    /\ wire' = worker.sent
    /\ worker' = [worker EXCEPT !.pc = "call", !.attempt = @ + 1]
    /\ UNCHANGED <<entries, token, session, sessionOK, answer, strays, serverVars, budget>>

\* The caller's context is cancelled between two entries or during a backoff:
\* the drain returns and the entry keeps its state.
CancelDrain ==
    /\ CancelDrains
    /\ worker.pc = "backoff" \/ (worker.pc = "idle" /\ worker.todo # {})
    /\ worker' = Idle
    /\ UNCHANGED <<entries, token, session, sessionOK, wire, answer, strays, serverVars, budget>>

\* Nobody waits for the current request any more: it and its answer are lost, or
\* it still arrives some day.
GiveUp ==
    /\ budget.faults < MaxFaults
    /\ wire' = NoMsg
    /\ answer' = NoMsg
    /\ \/ strays' = strays /\ Spend("faults")
       \/ /\ wire # NoMsg
          /\ budget.strays < MaxStrays
          /\ strays' = strays \cup {wire}
          /\ budget' = [budget EXCEPT !.faults = @ + 1, !.strays = @ + 1]

\* Transport error, timeout or cancellation during the call.
CallError ==
    /\ worker.pc = "call"
    /\ Finish(worker.op, "PENDING_RECONCILIATION")
    /\ GiveUp
    /\ UNCHANGED <<token, session, sessionOK, serverVars>>

\* The process dies; the in-memory token store dies with it.
Crash ==
    /\ worker.pc # "down"
    /\ worker' = [pc |-> "down", todo |-> {}]
    /\ token' = 0
    /\ GiveUp
    /\ UNCHANGED <<entries, session, sessionOK, serverVars>>

\* Mutation: the startup pass is forgotten.
ResetNothing == entries' = entries

ResetStuckInFlight ==
    entries' = [o \in Ops |-> IF entries[o].state = "IN_FLIGHT"
                              THEN [entries[o] EXCEPT !.state = "PENDING_RECONCILIATION"]
                              ELSE entries[o]]

Restart ==
    /\ worker.pc = "down"
    /\ worker' = Idle
    /\ ResetStuckInFlight
    /\ UNCHANGED <<token, session, sessionOK, wire, answer, strays, serverVars, budget>>

\* The client puts its session's token back under the TokenRef.
PutToken ==
    /\ worker.pc # "down"
    /\ token # session
    /\ token' = session
    /\ UNCHANGED <<entries, worker, session, sessionOK, wire, answer, strays, serverVars, budget>>

\* Sessions expire after 24h and cannot be refreshed: re-authenticating issues a
\* session with a new id (IssueCitizenSession).
SessionExpires ==
    /\ sessionOK
    /\ budget.renewals < MaxRenewals
    /\ sessionOK' = FALSE
    /\ UNCHANGED <<clientVars, session, wire, answer, strays, serverVars, budget>>

Reauthenticate ==
    /\ ~sessionOK
    /\ budget.renewals < MaxRenewals
    /\ session' = session + 1
    /\ sessionOK' = TRUE
    /\ Spend("renewals")
    /\ UNCHANGED <<clientVars, wire, answer, strays, serverVars>>

-----------------------------------------------------------------------------
(***************************************************************************)
(* The handler of POST /api/v3/reservations.                               *)
(***************************************************************************)
Accepted(r) == r.session = session /\ sessionOK

Known(r) == idem[<<r.session, r.key>>] # NoResult

Fits == Cardinality(Live) + others < Capacity

Intent(r) == <<r.payload, r.version>>

\* Mutation: a completed key answers whatever the payload is.
OutcomeAnyPayload(r) ==
    IF ~Accepted(r) THEN "FORBIDDEN"
    ELSE IF Known(r) THEN "OK"
    ELSE IF ~sourceOpen THEN "VALIDATION_FAILED"
    ELSE IF r.version # version THEN "STALE_VERSION"
    ELSE IF ~Fits THEN "CAPACITY_CONFLICT"
    ELSE "OK"

\* Authenticate, Begin, RevalidateReservationContext, revalidateSnapshotVersion,
\* Reserve: the first check that fails decides the answer and rolls back the key
\* row too; a completed key answers with the stored result.
Outcome(r) ==
    IF ~Accepted(r) THEN "FORBIDDEN"
    ELSE IF Known(r) /\ idem[<<r.session, r.key>>].intent # Intent(r) THEN "IDEMPOTENCY_CONFLICT"
    ELSE IF Known(r) THEN "OK"
    ELSE IF ~sourceOpen THEN "VALIDATION_FAILED"
    ELSE IF r.version # version THEN "STALE_VERSION"
    ELSE IF ~Fits THEN "CAPACITY_CONFLICT"
    ELSE "OK"

\* Mutation: the result is not stored under the key.
CommitForgetsKey(r) ==
    /\ holds' = Append(holds, [op |-> r.op, key |-> r.key, payload |-> r.payload,
                               version |-> r.version, session |-> r.session,
                               live |-> TRUE])
    /\ UNCHANGED idem

\* Reserve and Complete commit together.
Commit(r) ==
    /\ holds' = Append(holds, [op |-> r.op, key |-> r.key, payload |-> r.payload,
                               version |-> r.version, session |-> r.session,
                               live |-> TRUE])
    /\ idem' = [idem EXCEPT ![<<r.session, r.key>>] =
                   [intent |-> Intent(r), hold |-> Len(holds) + 1]]

\* The transaction of one request.
Transact(r) ==
    \/ /\ Outcome(r) # "OK" \/ Known(r)
       /\ UNCHANGED <<idem, holds>>
    \/ /\ Outcome(r) = "OK" /\ ~Known(r)
       /\ Commit(r)

Serve ==
    /\ wire # NoMsg
    /\ Transact(wire)
    /\ answer' = [code |-> Outcome(wire)]
    /\ wire' = NoMsg
    /\ UNCHANGED <<clientVars, session, sessionOK, strays, others, sourceOpen, version, budget>>

\* The commit may have happened although the answer does not say so: a 5xx when
\* its acknowledgement was lost, or an intermediary that answers for the backend.
ServeGarbled ==
    /\ wire # NoMsg
    /\ budget.faults < MaxFaults
    /\ (UNCHANGED <<idem, holds>>) \/ Transact(wire)
    /\ \E code \in {"INTERNAL", "UNPROVEN"} : answer' = [code |-> code]
    /\ wire' = NoMsg
    /\ Spend("faults")
    /\ UNCHANGED <<clientVars, session, sessionOK, strays, others, sourceOpen, version>>

ServeRateLimited ==
    /\ wire # NoMsg
    /\ budget.faults < MaxFaults
    /\ answer' = [code |-> "RATE_LIMITED"]
    /\ wire' = NoMsg
    /\ Spend("faults")
    /\ UNCHANGED <<clientVars, session, sessionOK, strays, serverVars>>

\* An instance started without a database answers 503 DATA_UNAVAILABLE.
ServeStoreless ==
    /\ wire # NoMsg
    /\ budget.storeless < MaxStoreless
    /\ answer' = [code |-> "DATA_UNAVAILABLE"]
    /\ wire' = NoMsg
    /\ Spend("storeless")
    /\ UNCHANGED <<clientVars, session, sessionOK, strays, serverVars>>

ServeStray(r) ==
    /\ r \in strays
    /\ strays' = strays \ {r}
    /\ Transact(r)
    /\ UNCHANGED <<clientVars, session, sessionOK, wire, answer, others, sourceOpen, version, budget>>

\* Cancel, expiry and departure release a hold but keep the key row.
Release(i) ==
    /\ i \in Live
    /\ holds' = [holds EXCEPT ![i].live = FALSE]
    /\ UNCHANGED <<clientVars, session, sessionOK, wire, answer, strays, idem, others,
                   sourceOpen, version, budget>>

OthersReserve ==
    /\ Fits /\ budget.churn < MaxChurn
    /\ others' = others + 1
    /\ Spend("churn")
    /\ UNCHANGED <<clientVars, session, sessionOK, wire, answer, strays, idem, holds,
                   sourceOpen, version>>

OthersRelease ==
    /\ others > 0 /\ budget.churn < MaxChurn
    /\ others' = others - 1
    /\ Spend("churn")
    /\ UNCHANGED <<clientVars, session, sessionOK, wire, answer, strays, idem, holds,
                   sourceOpen, version>>

SourceSuspended ==
    /\ sourceOpen /\ budget.churn < MaxChurn
    /\ sourceOpen' = FALSE
    /\ Spend("churn")
    /\ UNCHANGED <<clientVars, session, sessionOK, wire, answer, strays, idem, holds,
                   others, version>>

PackageRevised ==
    /\ version < MaxVersion
    /\ version' = version + 1
    /\ UNCHANGED <<clientVars, session, sessionOK, wire, answer, strays, idem, holds,
                   others, sourceOpen, budget>>

-----------------------------------------------------------------------------
Init ==
    /\ entries = [o \in Ops |-> Blank("NONE")]
    /\ worker = Idle
    /\ token = 1 /\ session = 1 /\ sessionOK = TRUE
    /\ wire = NoMsg /\ answer = NoMsg /\ strays = {}
    /\ idem = [x \in Sessions \X Keys |-> NoResult]
    /\ holds = <<>>
    /\ others = 0 /\ sourceOpen = TRUE /\ version = 1
    /\ budget = [faults |-> 0, churn |-> 0, renewals |-> 0, strays |-> 0, storeless |-> 0]

Submit(o) == SubmitSkip(o) \/ SubmitStale(o) \/ SubmitNoToken(o) \/ SubmitDispatch(o)

Receive ==
    \/ ReceiveSuccess \/ ReceiveUnproven \/ ReceiveStale \/ ReceivePermanent
    \/ ReceiveExhausted \/ ReceiveRetry

Client ==
    \/ StartDrain \/ Receive \/ Resend \/ Restart \/ PutToken
    \/ \E o \in Ops : Submit(o)

Faults == CallError \/ Crash \/ CancelDrain \/ SessionExpires \/ Reauthenticate

Server == Serve \/ ServeGarbled \/ ServeRateLimited \/ ServeStoreless

World ==
    \/ \E r \in strays : ServeStray(r)
    \/ \E i \in 1..Len(holds) : Release(i)
    \/ OthersReserve \/ OthersRelease \/ SourceSuspended \/ PackageRevised

Next ==
    \/ \E o \in Ops, k \in Keys, p \in Payloads : Enqueue(o, k, p)
    \/ \E o \in Ops : SelectionExpires(o) \/ PurgeCommitted(o) \/ Delete(o)
    \/ Client \/ Faults \/ Server \/ World

Spec == Init /\ [][Next]_vars

\* The caller drains again and again, a call ends, a killed client is started
\* again and puts its token back, and a request on the wire is served.
Fairness ==
    /\ WF_vars(StartDrain) /\ WF_vars(\E o \in Ops : Submit(o))
    /\ WF_vars(Receive) /\ WF_vars(Resend) /\ WF_vars(Restart) /\ WF_vars(PutToken)
    /\ WF_vars(Serve)

LiveSpec == Spec /\ Fairness

-----------------------------------------------------------------------------
(***************************************************************************)
(* Properties.                                                             *)
(***************************************************************************)
Requests == [op : Ops, key : Keys, payload : Payloads, version : 1..MaxVersion,
             session : Sessions]

\* The values of the queue, the worker, the messages and the tables; in
\* particular Submit never calls more than MaxAttempts times.
TypeOK ==
    /\ \A o \in Ops :
           \/ entries[o].state \in Gone
           \/ entries[o] \in [state : OpenStates \cup Failed \cup {"COMMITTED"}, key : Keys,
                              payload : Payloads, version : 1..MaxVersion, expired : BOOLEAN]
    /\ worker.pc \in {"idle", "call", "backoff", "down"} /\ worker.todo \subseteq Ops
    /\ worker.pc \in {"call", "backoff"} =>
           worker.op \in Ops /\ worker.attempt \in 1..MaxAttempts /\ worker.sent \in Requests
    /\ token \in Sessions \cup {0} /\ session \in Sessions /\ sessionOK \in BOOLEAN
    /\ wire \in Requests \cup {NoMsg} /\ strays \subseteq Requests
    /\ \A i \in 1..Len(holds) : holds[i].op \in Ops /\ holds[i].live \in BOOLEAN
    /\ \A x \in Sessions \X Keys : idem[x].hold \in 0..Len(holds)
    /\ others \in 0..Capacity /\ sourceOpen \in BOOLEAN /\ version \in 1..MaxVersion

\* Within a session a key is committed at most once, whatever is lost, repeated,
\* delayed or restarted (idempotency.go Begin and Complete, worker.go Submit).
AtMostOncePerSession ==
    \A i, j \in 1..Len(holds) :
        (holds[i].key = holds[j].key /\ holds[i].session = holds[j].session) => i = j

\* One confirmed intent never takes two places, in whatever sessions it is sent
\* (the promise of worker.go isAuthFailure).
AtMostOnce ==
    \A i, j \in 1..Len(holds) : holds[i].key = holds[j].key => i = j

\* The queue tells the citizen "committed" only when the server did commit this
\* very intent, which may have been released since (worker.go, the 2xx branch of
\* Submit; store.go Enqueue).
CommittedIsReal ==
    \A o \in Ops :
        entries[o].state = "COMMITTED" =>
            \E i \in 1..Len(holds) :
                /\ holds[i].key = entries[o].key
                /\ holds[i].payload = entries[o].payload
                /\ holds[i].version = entries[o].version

\* The queue tells the citizen "failed, choose again" only when the submission
\* left no hold behind, although earlier attempts may have had unknown outcomes
\* (worker.go isStaleCode and isPermanentCode).
FailedMeansNoHold ==
    \A o \in Ops :
        entries[o].state \in Failed => \A i \in 1..Len(holds) : holds[i].op # o

\* An entry whose outcome is unknown keeps its key, payload and snapshot, and
\* only an answer of the server ends it; a verdict is never revised (worker.go
\* Submit, store.go UpdateState and Enqueue).
UncertainStep(o) ==
    LET old == entries[o]
        new == entries'[o]
    IN
    /\ old.state \in Uncertain =>
           /\ new.state \in Uncertain \cup {"COMMITTED"} \cup Failed
           /\ new.key = old.key /\ new.payload = old.payload /\ new.version = old.version
           /\ IsTerminal(new.state) => answer # NoMsg
    /\ IsTerminal(old.state) => new = old \/ new.state = "PURGED"

UncertainKept == [][\A o \in Ops : UncertainStep(o)]_vars

\* Every entry gets a verdict once faults stop: no crash, retry budget, lost
\* token or overlapping drain strands it (worker.go DrainQueue, store.go
\* PeekPending and ResetStuckInFlight).
EveryEntryResolved ==
    \A o \in Ops :
        entries[o].state # "NONE" ~> (IsTerminal(entries[o].state) \/ entries[o].state = "PURGED")
=============================================================================
