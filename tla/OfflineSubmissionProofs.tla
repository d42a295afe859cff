----------------------- MODULE OfflineSubmissionProofs -----------------------
(***************************************************************************)
(* Proofs about OfflineSubmission for any number of entries, keys, faults, *)
(* retries and sessions: a key is committed at most once per session, a    *)
(* "committed" verdict is real, an unknown outcome is never dropped, and,  *)
(* where no request arrives late, no instance lacks its database and the   *)
(* session stays, a "failed" verdict left no hold behind.                  *)
(***************************************************************************)
EXTENDS OfflineSubmission, FiniteSetTheorems, TLAPS

EntryStates == OpenStates \cup Failed \cup {"COMMITTED"}

\* The records of the queue, the worker and the tables.
Blanks == {Blank("NONE"), Blank("PURGED")}
Entry  == [state : EntryStates, key : Keys, payload : Payloads, version : 1..MaxVersion,
           expired : BOOLEAN]
Resting == [pc : {"idle", "down"}, todo : SUBSET Ops]
Calling == [pc : {"call", "backoff"}, todo : SUBSET Ops, op : Ops, attempt : 1..MaxAttempts,
            sent : Requests]
Hold   == [op : Ops, key : Keys, payload : Payloads, version : 1..MaxVersion,
           session : Sessions, live : BOOLEAN]
Result == [intent : Payloads \X (1..MaxVersion), hold : Nat \ {0}]
Used   == [faults : Nat, churn : Nat, renewals : 0..MaxRenewals, strays : Nat, storeless : Nat]

Codes == {"OK", "UNPROVEN", "FORBIDDEN"} \cup StaleCodes \cup PermanentCodes \cup RetryCodes

ClientTypes ==
    /\ entries \in [Ops -> Blanks \cup Entry]
    /\ worker \in Resting \cup Calling
    /\ token \in Sessions \cup {0}

SessionTypes ==
    /\ session \in Sessions /\ sessionOK \in BOOLEAN
    /\ budget \in Used /\ session = budget.renewals + 1

NetTypes ==
    /\ wire \in Requests \cup {NoMsg} /\ strays \subseteq Requests
    /\ answer = NoMsg \/ \E c \in Codes : answer = [code |-> c]

ServerTypes ==
    /\ holds \in Seq(Hold)
    /\ idem \in [Sessions \X Keys -> {NoResult} \cup Result]
    /\ others \in 0..Capacity /\ sourceOpen \in BOOLEAN /\ version \in 1..MaxVersion

OTypes == ClientTypes /\ SessionTypes /\ NetTypes /\ ServerTypes

\* Some hold was committed for this key, payload and snapshot.
Backed(e) ==
    \E i \in 1..Len(holds) :
        holds[i].key = e.key /\ holds[i].payload = e.payload /\ holds[i].version = e.version

\* The key rows and the holds point at each other.
IdemInv ==
    /\ \A i \in 1..Len(holds) : idem[<<holds[i].session, holds[i].key>>].hold = i
    /\ \A s \in Sessions, k \in Keys :
           LET x == idem[<<s, k>>]
           IN  x # NoResult =>
                   /\ x.hold \in 1..Len(holds)
                   /\ x.intent = <<holds[x.hold].payload, holds[x.hold].version>>
                   /\ holds[x.hold].key = k /\ holds[x.hold].session = s

\* The request in a call is the copy the worker took of the entry, which stays in flight;
\* there is at most one of request and answer, and only during the call; a worker that waits
\* has an attempt left; a drain still has to do no entry that is in flight.
CallInv ==
    /\ wire # NoMsg => worker.pc = "call" /\ wire = worker.sent /\ answer = NoMsg
    /\ answer # NoMsg => worker.pc = "call" /\ wire = NoMsg
    /\ worker.pc \in {"call", "backoff"} =>
           /\ worker.sent.op = worker.op /\ entries[worker.op].state = "IN_FLIGHT"
           /\ entries[worker.op].key = worker.sent.key
           /\ entries[worker.op].payload = worker.sent.payload
           /\ entries[worker.op].version = worker.sent.version
    /\ worker.pc = "backoff" => worker.attempt < MaxAttempts
    /\ \A o \in worker.todo : entries[o].state # "IN_FLIGHT"

\* An answer "OK" and a verdict "committed" stand for a hold.
TruthInv ==
    /\ answer = [code |-> "OK"] => Backed(worker.sent)
    /\ \A o \in Ops : entries[o].state = "COMMITTED" => Backed(entries[o])

\* The inductive invariant.
OInv == OTypes /\ IdemInv /\ CallInv /\ TruthInv

\* What every step does to an entry: besides UncertainStep, a purged entry stays purged and
\* an uncertain one fails only on a definitive answer to the call made for it.
EntryStep(o) ==
    /\ UncertainStep(o)
    /\ entries[o].state = "PURGED" => entries'[o] = entries[o]
    /\ entries[o].state \in Uncertain /\ entries'[o].state \in Failed =>
           /\ worker.pc = "call" /\ o = worker.op
           /\ \E c \in StaleCodes \cup PermanentCodes : answer = [code |-> c]

-----------------------------------------------------------------------------
\* An entry with a state other than NONE and PURGED has all its fields.
LEMMA EntryTyped ==
    ASSUME ClientTypes, NEW o \in Ops
    PROVE  /\ entries[o] \in Blanks \cup Entry
           /\ entries[o].state \in EntryStates => entries[o] \in Entry
           /\ entries[o].state \notin {"NONE", "PURGED"} => entries[o] \in Entry
           /\ entries[o] \in Entry => entries[o].state \in EntryStates
BY DEF ClientTypes, Blanks, Blank, Entry, EntryStates, OpenStates, Failed, Uncertain

\* A request is not the empty message, nor is an answer.
LEMMA Messages ==
    /\ \A r \in Requests : r # NoMsg
    /\ \A c \in Codes : [code |-> c] # NoMsg
<1>1. \A c \in Codes : [code |-> c].code = c
  OBVIOUS
<1>2. "none" \notin Codes
  BY DEF Codes, StaleCodes, PermanentCodes, RetryCodes
<1>3. \A c \in Codes : [code |-> c] # NoMsg
  BY <1>1, <1>2 DEF NoMsg
<1>4. \A r \in Requests : r # NoMsg
  BY DEF Requests, NoMsg
<1> QED
  BY <1>3, <1>4

\* What writing the state of an entry changes.
LEMMA SetStateWrites ==
    ASSUME ClientTypes, NEW o \in Ops, entries[o] \in Entry, NEW s \in EntryStates,
           SetState(o, s)
    PROVE  /\ entries' \in [Ops -> Blanks \cup Entry]
           /\ entries'[o] \in Entry /\ entries'[o].state = s
           /\ entries'[o].key = entries[o].key /\ entries'[o].payload = entries[o].payload
           /\ entries'[o].version = entries[o].version
           /\ \A e \in Ops : e # o => entries'[e] = entries[e]
<1>1. /\ entries \in [Ops -> Blanks \cup Entry]
      /\ entries' = [entries EXCEPT ![o] = [entries[o] EXCEPT !.state = s]]
  BY DEF ClientTypes, SetState
<1>2. /\ [entries[o] EXCEPT !.state = s] \in Entry
      /\ [entries[o] EXCEPT !.state = s].state = s
      /\ [entries[o] EXCEPT !.state = s].key = entries[o].key
      /\ [entries[o] EXCEPT !.state = s].payload = entries[o].payload
      /\ [entries[o] EXCEPT !.state = s].version = entries[o].version
  BY DEF Entry
<1> QED
  BY <1>1, <1>2

\* A step that leaves the tables of the server alone.
LEMMA TablesSame ==
    ASSUME OInv, UNCHANGED <<idem, holds>>
    PROVE  IdemInv' /\ \A e : Backed(e) => Backed(e)'
BY DEF OInv, IdemInv, Backed

\* A step that leaves every entry alone.
LEMMA EntriesSame ==
    ASSUME UNCHANGED entries
    PROVE  \A o \in Ops : EntryStep(o)
<1>1. \A o \in Ops : entries'[o] = entries[o]
  OBVIOUS
<1>2. \A s \in Uncertain : ~IsTerminal(s) /\ s \notin Failed
  BY DEF Uncertain, IsTerminal, Failed
<1> QED
  BY <1>1, <1>2 DEF EntryStep, UncertainStep

\* What a step has to show besides the types, when it leaves the tables of the server, the
\* request and the answer alone and no call is affected.
LEMMA QueueStep ==
    ASSUME OInv, NEW o \in Ops, entries' \in [Ops -> Blanks \cup Entry],
           \A e \in Ops : e # o => entries'[e] = entries[e],
           UNCHANGED <<worker, token, session, sessionOK, wire, answer, strays, serverVars, budget>>,
           entries[o].state = "IN_FLIGHT" =>
               /\ entries'[o].state = "IN_FLIGHT" /\ entries'[o].key = entries[o].key
               /\ entries'[o].payload = entries[o].payload
               /\ entries'[o].version = entries[o].version,
           entries'[o].state = "IN_FLIGHT" => entries[o].state = "IN_FLIGHT",
           entries'[o].state # "COMMITTED"
    PROVE  OInv'
<1>1. OTypes'
  BY DEF OInv, OTypes, ClientTypes, SessionTypes, NetTypes, ServerTypes, serverVars
<1>2. UNCHANGED <<idem, holds>>
  BY DEF serverVars
<1>3. worker.pc \in {"call", "backoff"} => worker.op \in Ops
  BY DEF OInv, OTypes, ClientTypes, Resting, Calling
<1>4. worker.todo \subseteq Ops
  BY DEF OInv, OTypes, ClientTypes, Resting, Calling
<1>5. CallInv'
  BY <1>3, <1>4 DEF OInv, CallInv
<1>6. TruthInv'
  BY <1>2, TablesSame DEF OInv, TruthInv
<1> QED
  BY <1>1, <1>2, <1>5, <1>6, TablesSame DEF OInv

\* A reservation is queued under an id that was never used.
LEMMA EnqueueStep ==
    ASSUME OInv, NEW o \in Ops, NEW k \in Keys, NEW p \in Payloads, Enqueue(o, k, p)
    PROVE  OInv' /\ \A e \in Ops : EntryStep(e)
<1> DEFINE new == [state |-> "PENDING", key |-> k, payload |-> p, version |-> version,
                   expired |-> FALSE]
<1>1. /\ entries[o].state = "NONE" /\ entries' = [entries EXCEPT ![o] = new]
      /\ UNCHANGED <<worker, token, session, sessionOK, wire, answer, strays, serverVars, budget>>
  BY DEF Enqueue
<1>2. new \in Entry /\ new.state = "PENDING"
  BY DEF OInv, OTypes, ServerTypes, Entry, EntryStates, OpenStates
<1> HIDE DEF new
<1>3. entries \in [Ops -> Blanks \cup Entry]
  BY DEF OInv, OTypes, ClientTypes
<1>4. /\ entries' \in [Ops -> Blanks \cup Entry] /\ entries'[o].state = "PENDING"
      /\ \A e \in Ops : e # o => entries'[e] = entries[e]
  BY <1>1, <1>2, <1>3
<1>5. OInv'
  BY <1>1, <1>4, QueueStep
<1>6. \A e \in Ops : EntryStep(e)
  BY <1>1, <1>4 DEF EntryStep, UncertainStep, Uncertain, IsTerminal, Failed
<1> QED
  BY <1>5, <1>6

\* The selection of an open entry expires.
LEMMA SelectionExpiresStep ==
    ASSUME OInv, NEW o \in Ops, SelectionExpires(o)
    PROVE  OInv' /\ \A e \in Ops : EntryStep(e)
<1>1. /\ entries[o].state = "PENDING" \/ entries[o].state \in Uncertain
      /\ entries' = [entries EXCEPT ![o] = [entries[o] EXCEPT !.expired = TRUE]]
      /\ UNCHANGED <<worker, token, session, sessionOK, wire, answer, strays, serverVars, budget>>
  BY DEF SelectionExpires
<1>2. entries \in [Ops -> Blanks \cup Entry] /\ entries[o] \in Entry
  BY <1>1, EntryTyped DEF OInv, OTypes, ClientTypes, Uncertain
<1>3. /\ entries'[o] = [entries[o] EXCEPT !.expired = TRUE]
      /\ \A e \in Ops : e # o => entries'[e] = entries[e]
  BY <1>1, <1>2
<1>4. /\ entries'[o] \in Entry /\ entries'[o].state = entries[o].state
      /\ entries'[o].key = entries[o].key /\ entries'[o].payload = entries[o].payload
      /\ entries'[o].version = entries[o].version
  BY <1>2, <1>3 DEF Entry
<1>5. entries' \in [Ops -> Blanks \cup Entry]
  BY <1>1, <1>2, <1>3, <1>4
<1>6. OInv'
  BY <1>1, <1>3, <1>4, <1>5, QueueStep DEF Uncertain
<1>7. \A e \in Ops : EntryStep(e)
  BY <1>1, <1>3, <1>4 DEF EntryStep, UncertainStep, Uncertain, IsTerminal, Failed
<1> QED
  BY <1>6, <1>7

\* An entry that is pending or has its verdict is removed.
LEMMA RemoveStep ==
    ASSUME OInv, NEW o \in Ops, PurgeCommitted(o) \/ Delete(o)
    PROVE  OInv' /\ \A e \in Ops : EntryStep(e)
<1>1. /\ entries[o].state = "PENDING" \/ IsTerminal(entries[o].state)
      /\ entries' = [entries EXCEPT ![o] = Blank("PURGED")]
      /\ UNCHANGED <<worker, token, session, sessionOK, wire, answer, strays, serverVars, budget>>
  BY DEF PurgeCommitted, Delete, IsTerminal
<1>2. entries \in [Ops -> Blanks \cup Entry]
  BY DEF OInv, OTypes, ClientTypes
<1>3. /\ entries' \in [Ops -> Blanks \cup Entry] /\ entries'[o].state = "PURGED"
      /\ \A e \in Ops : e # o => entries'[e] = entries[e]
  BY <1>1, <1>2 DEF Blanks, Blank
<1>4. OInv'
  BY <1>1, <1>3, QueueStep DEF IsTerminal, Failed
<1>5. \A e \in Ops : EntryStep(e)
  BY <1>1, <1>3 DEF EntryStep, UncertainStep, Uncertain, IsTerminal, Failed
<1> QED
  BY <1>4, <1>5

\* A step of the worker between two calls that writes no entry.
LEMMA RestingStep ==
    ASSUME OInv, worker' \in Resting, wire = NoMsg, answer = NoMsg,
           \A o \in worker'.todo : entries[o].state # "IN_FLIGHT",
           UNCHANGED <<entries, token, session, sessionOK, wire, answer, strays, serverVars, budget>>
    PROVE  OInv' /\ \A e \in Ops : EntryStep(e)
<1>1. OTypes'
  BY DEF OInv, OTypes, ClientTypes, SessionTypes, NetTypes, ServerTypes, serverVars
<1>2. UNCHANGED <<idem, holds>>
  BY DEF serverVars
<1>3. CallInv'
  BY DEF OInv, CallInv, Resting
<1>4. TruthInv'
  BY <1>2, TablesSame DEF OInv, TruthInv, NoMsg
<1> QED
  BY <1>1, <1>2, <1>3, <1>4, TablesSame, EntriesSame DEF OInv

\* Between two calls nothing is under way.
LEMMA NothingUnderWay ==
    ASSUME OInv, worker.pc # "call"
    PROVE  wire = NoMsg /\ answer = NoMsg
BY DEF OInv, CallInv

\* A drain starts, skips an entry, stops for want of a token or is cancelled.
LEMMA DrainStep ==
    ASSUME OInv,
           \/ StartDrain \/ CancelDrain
           \/ \E o \in Ops : SubmitSkip(o) \/ SubmitNoToken(o)
    PROVE  OInv' /\ \A e \in Ops : EntryStep(e)
<1>1. worker \in Resting \cup Calling /\ \A o \in worker.todo : entries[o].state # "IN_FLIGHT"
  BY DEF OInv, OTypes, ClientTypes, CallInv
<1>2. worker.pc = "idle" => worker \in Resting
  BY <1>1 DEF Calling
<1>3. CASE StartDrain
  <2>1. /\ worker.pc = "idle" /\ worker' = [worker EXCEPT !.todo = PeekPending]
        /\ UNCHANGED <<entries, token, session, sessionOK, wire, answer, strays, serverVars, budget>>
    BY <1>3 DEF StartDrain
  <2>2. PeekPending \subseteq Ops /\ \A o \in PeekPending : entries[o].state # "IN_FLIGHT"
    BY DEF PeekPending
  <2>3. worker' \in Resting /\ worker'.todo = PeekPending
    BY <1>2, <2>1, <2>2 DEF Resting
  <2> QED
    BY <2>1, <2>2, <2>3, NothingUnderWay, RestingStep
<1>4. CASE CancelDrain
  <2>1. /\ worker.pc # "call" /\ worker' = Idle
        /\ UNCHANGED <<entries, token, session, sessionOK, wire, answer, strays, serverVars, budget>>
    BY <1>4 DEF CancelDrain
  <2>2. worker' \in Resting /\ worker'.todo = {}
    BY <2>1 DEF Idle, Resting
  <2> QED
    BY <2>1, <2>2, NothingUnderWay, RestingStep
<1>5. ASSUME NEW o \in Ops, SubmitSkip(o) PROVE OInv' /\ \A e \in Ops : EntryStep(e)
  <2>1. /\ worker.pc = "idle" /\ worker' = [worker EXCEPT !.todo = @ \ {o}]
        /\ UNCHANGED <<entries, token, session, sessionOK, wire, answer, strays, serverVars, budget>>
    BY <1>5 DEF SubmitSkip
  <2>2. worker' \in Resting /\ worker'.todo \subseteq worker.todo
    BY <1>2, <2>1 DEF Resting
  <2> QED
    BY <1>1, <2>1, <2>2, NothingUnderWay, RestingStep
<1>6. ASSUME NEW o \in Ops, SubmitNoToken(o) PROVE OInv' /\ \A e \in Ops : EntryStep(e)
  <2>1. /\ worker.pc = "idle" /\ worker' = Idle
        /\ UNCHANGED <<entries, token, session, sessionOK, wire, answer, strays, serverVars, budget>>
    BY <1>6 DEF SubmitNoToken
  <2>2. worker' \in Resting /\ worker'.todo = {}
    BY <2>1 DEF Idle, Resting
  <2> QED
    BY <2>1, <2>2, NothingUnderWay, RestingStep
<1> QED
  BY <1>3, <1>4, <1>5, <1>6

\* The worker writes an entry it holds the turn for and ends, starts or goes on with a call.
LEMMA WorkerWrites ==
    ASSUME OInv, NEW o \in Ops, entries[o] \in Entry, NEW s \in EntryStates, SetState(o, s),
           ~IsTerminal(entries[o].state),
           worker' \in Resting \cup Calling, UNCHANGED <<token, session, sessionOK, serverVars>>,
           worker'.todo \subseteq worker.todo, s = "IN_FLIGHT" => o \notin worker'.todo,
           SessionTypes', NetTypes',
           wire' # NoMsg => worker'.pc = "call" /\ wire' = worker'.sent /\ answer' = NoMsg,
           answer' = NoMsg,
           worker'.pc \in {"call", "backoff"} =>
               /\ worker'.op = o /\ s = "IN_FLIGHT" /\ worker'.sent.op = o
               /\ worker'.sent.key = entries[o].key
               /\ worker'.sent.payload = entries[o].payload
               /\ worker'.sent.version = entries[o].version,
           worker'.pc = "backoff" => worker'.attempt < MaxAttempts,
           s = "COMMITTED" => Backed(entries[o])
    PROVE  OInv'
<1>1. /\ entries' \in [Ops -> Blanks \cup Entry]
      /\ entries'[o] \in Entry /\ entries'[o].state = s
      /\ entries'[o].key = entries[o].key /\ entries'[o].payload = entries[o].payload
      /\ entries'[o].version = entries[o].version
      /\ \A e \in Ops : e # o => entries'[e] = entries[e]
  BY SetStateWrites DEF OInv, OTypes
<1>2. OTypes'
  BY <1>1 DEF OInv, OTypes, ClientTypes, ServerTypes, serverVars
<1>3. UNCHANGED <<idem, holds>>
  BY DEF serverVars
<1>4. worker.todo \subseteq Ops
  BY DEF OInv, OTypes, ClientTypes, Resting, Calling
<1>5. CallInv'
  BY <1>1, <1>4 DEF OInv, CallInv
<1>6. answer' # [code |-> "OK"]
  BY DEF NoMsg
<1>7. ASSUME NEW e \in Ops, entries'[e].state = "COMMITTED" PROVE Backed(entries[e])'
  <2>1. Backed(entries[e])
    BY <1>1, <1>7 DEF OInv, TruthInv
  <2>2. /\ entries'[e].key = entries[e].key /\ entries'[e].payload = entries[e].payload
        /\ entries'[e].version = entries[e].version
    BY <1>1
  <2> QED
    BY <1>3, <2>1, <2>2 DEF Backed
<1> QED
  BY <1>2, <1>3, <1>5, <1>6, <1>7, TablesSame DEF OInv, TruthInv

\* The selection of a pending entry ran out before it was ever sent.
LEMMA SubmitStaleStep ==
    ASSUME OInv, NEW o \in Ops, SubmitStale(o)
    PROVE  OInv' /\ \A e \in Ops : EntryStep(e)
<1>1. /\ worker.pc = "idle" /\ o \in worker.todo /\ entries[o].state \in OpenStates
      /\ entries[o].state # "PENDING_RECONCILIATION" /\ SetState(o, "FAILED_STALE")
      /\ worker' = [worker EXCEPT !.todo = @ \ {o}]
      /\ UNCHANGED <<token, session, sessionOK, wire, answer, strays, serverVars, budget>>
  BY DEF SubmitStale, LocallyStale
<1>2. entries[o].state = "PENDING"
  BY <1>1 DEF OInv, CallInv, OpenStates, Uncertain
<1>3. entries[o] \in Entry /\ "FAILED_STALE" \in EntryStates
  BY <1>2, EntryTyped DEF OInv, OTypes, EntryStates, Failed
<1>4. worker' \in Resting /\ worker'.todo \subseteq worker.todo
  BY <1>1 DEF OInv, OTypes, ClientTypes, Resting, Calling
<1>5. SessionTypes' /\ NetTypes'
  BY <1>1 DEF OInv, OTypes, SessionTypes, NetTypes
<1>6. wire' = NoMsg /\ answer' = NoMsg
  BY <1>1, NothingUnderWay
<1>7. worker'.pc \notin {"call", "backoff"}
  BY <1>4 DEF Resting
<1>8. OInv'
  BY <1>1, <1>2, <1>3, <1>4, <1>5, <1>6, <1>7, WorkerWrites DEF IsTerminal, Failed
<1>9. \A e \in Ops : e # o => entries'[e] = entries[e]
  BY <1>1, <1>3, SetStateWrites DEF OInv, OTypes
<1>10. \A e \in Ops : EntryStep(e)
  BY <1>2, <1>9 DEF EntryStep, UncertainStep, Uncertain, IsTerminal, Failed
<1> QED
  BY <1>8, <1>10

\* The first call for an entry.
LEMMA SubmitDispatchStep ==
    ASSUME OInv, NEW o \in Ops, SubmitDispatch(o)
    PROVE  OInv' /\ \A e \in Ops : EntryStep(e)
<1> DEFINE r == Request(o, token)
<1>1. /\ worker.pc = "idle" /\ o \in worker.todo /\ entries[o].state \in OpenStates
      /\ token # 0 /\ SetState(o, "IN_FLIGHT") /\ wire' = r
      /\ worker' = [pc |-> "call", todo |-> worker.todo \ {o}, op |-> o, attempt |-> 1, sent |-> r]
      /\ UNCHANGED <<token, session, sessionOK, answer, strays, serverVars, budget>>
  BY DEF SubmitDispatch
<1>2. entries[o] \in Entry /\ "IN_FLIGHT" \in EntryStates
  BY <1>1, EntryTyped DEF OInv, OTypes, EntryStates, OpenStates, Uncertain
<1>3. /\ r \in Requests /\ r.op = o /\ r.key = entries[o].key
      /\ r.payload = entries[o].payload /\ r.version = entries[o].version
  BY <1>1, <1>2 DEF OInv, OTypes, ClientTypes, Request, Requests, Entry
<1> HIDE DEF r
<1>4. worker.todo \subseteq Ops
  BY DEF OInv, OTypes, ClientTypes, Resting, Calling
<1>5. /\ worker' \in Calling /\ worker'.todo = worker.todo \ {o} /\ worker'.pc = "call"
      /\ worker'.op = o /\ worker'.sent = r
  BY <1>1, <1>3, <1>4, OfflineAssumption DEF Calling
<1>6. answer = NoMsg
  BY <1>1, NothingUnderWay
<1>7. SessionTypes' /\ NetTypes'
  BY <1>1, <1>3 DEF OInv, OTypes, SessionTypes, NetTypes
<1>8. OInv'
  BY <1>1, <1>2, <1>3, <1>5, <1>6, <1>7, WorkerWrites
     DEF IsTerminal, Failed, OpenStates, Uncertain
<1>9. /\ entries'[o].state = "IN_FLIGHT"
      /\ entries'[o].key = entries[o].key /\ entries'[o].payload = entries[o].payload
      /\ entries'[o].version = entries[o].version
      /\ \A e \in Ops : e # o => entries'[e] = entries[e]
  BY <1>1, <1>2, SetStateWrites DEF OInv, OTypes
<1>10. \A e \in Ops : EntryStep(e)
  BY <1>1, <1>9 DEF EntryStep, UncertainStep, Uncertain, OpenStates, IsTerminal, Failed
<1> QED
  BY <1>8, <1>10

\* The verdict on the entry of the current call, and how the drain goes on.
LEMMA FinishStep ==
    ASSUME OInv, worker.pc = "call", NEW s \in EntryStates, Finish(worker.op, s),
           UNCHANGED <<token, session, sessionOK, serverVars>>,
           SessionTypes', NetTypes', wire' = NoMsg, answer' = NoMsg, s # "IN_FLIGHT",
           s # "PENDING",
           s \in Failed => \E c \in StaleCodes \cup PermanentCodes : answer = [code |-> c],
           s = "COMMITTED" => answer = [code |-> "OK"]
    PROVE  OInv' /\ \A e \in Ops : EntryStep(e)
<1> DEFINE o == worker.op
<1>1. /\ worker \in Calling /\ o \in Ops /\ entries[o].state = "IN_FLIGHT"
      /\ entries[o].key = worker.sent.key /\ entries[o].payload = worker.sent.payload
      /\ entries[o].version = worker.sent.version
  BY DEF OInv, OTypes, ClientTypes, CallInv, Resting, Calling
<1>2. entries[o] \in Entry
  BY <1>1, EntryTyped DEF OInv, OTypes
<1>3. SetState(o, s) /\ worker' = [pc |-> "idle", todo |-> worker.todo]
  BY DEF Finish
<1>4. worker' \in Resting /\ worker'.todo = worker.todo /\ worker'.pc = "idle"
  BY <1>1, <1>3 DEF Resting, Calling
<1>5. s = "COMMITTED" => Backed(entries[o])
  BY <1>1 DEF OInv, TruthInv, Backed
<1>6. /\ entries'[o].state = s
      /\ entries'[o].key = entries[o].key /\ entries'[o].payload = entries[o].payload
      /\ entries'[o].version = entries[o].version
      /\ \A e \in Ops : e # o => entries'[e] = entries[e]
  BY <1>1, <1>2, <1>3, SetStateWrites DEF OInv, OTypes
<1>7. IsTerminal(s) => answer # NoMsg
  BY Messages DEF IsTerminal, Codes
<1>8. s \in Uncertain \cup {"COMMITTED"} \cup Failed
  BY DEF EntryStates, OpenStates
<1>9. \A e \in Ops : EntryStep(e)
  BY <1>1, <1>6, <1>7, <1>8 DEF EntryStep, UncertainStep, Uncertain, IsTerminal, Failed
<1>10. ~IsTerminal(entries[o].state)
  BY <1>1 DEF IsTerminal, Failed
<1> HIDE DEF o
<1>11. OInv'
  BY <1>1, <1>2, <1>3, <1>4, <1>5, <1>10, WorkerWrites
<1> QED
  BY <1>9, <1>11

\* The call returns with a verdict or with an unknown outcome.
LEMMA ReceiveVerdictStep ==
    ASSUME OInv, ReceiveSuccess \/ ReceiveUnproven \/ ReceiveStale \/ ReceivePermanent
                 \/ ReceiveExhausted
    PROVE  OInv' /\ \A e \in Ops : EntryStep(e)
<1>1. /\ worker.pc = "call" /\ answer # NoMsg /\ answer' = NoMsg
      /\ UNCHANGED <<token, session, sessionOK, wire, strays, serverVars, budget>>
  BY Messages DEF ReceiveSuccess, ReceiveUnproven, ReceiveStale, ReceivePermanent,
        ReceiveExhausted, Answered, Codes
<1>2. PICK s \in {"COMMITTED", "PENDING_RECONCILIATION", "FAILED_STALE", "FAILED_PERM"} :
          /\ Finish(worker.op, s)
          /\ s = "COMMITTED" => answer = [code |-> "OK"]
          /\ s \in Failed => \E c \in StaleCodes \cup PermanentCodes : answer = [code |-> c]
  BY DEF ReceiveSuccess, ReceiveUnproven, ReceiveStale, ReceivePermanent, ReceiveExhausted,
         Answered, Failed
<1>3. s \in EntryStates
  BY DEF EntryStates, OpenStates, Uncertain, Failed
<1>4. wire' = NoMsg
  BY <1>1 DEF OInv, CallInv
<1>5. SessionTypes' /\ NetTypes'
  BY <1>1 DEF OInv, OTypes, SessionTypes, NetTypes
<1> QED
  BY <1>1, <1>2, <1>3, <1>4, <1>5, FinishStep

\* The current request is given up.
LEMMA GiveUpKeeps ==
    ASSUME OInv, GiveUp, UNCHANGED <<session, sessionOK>>
    PROVE  wire' = NoMsg /\ answer' = NoMsg /\ SessionTypes' /\ NetTypes'
<1>1. /\ wire' = NoMsg /\ answer' = NoMsg /\ strays' \subseteq strays \cup {wire}
      /\ wire = NoMsg => strays' = strays
      /\ \/ budget' = [budget EXCEPT !.faults = @ + 1]
         \/ budget' = [budget EXCEPT !.faults = @ + 1, !.strays = @ + 1]
  BY DEF GiveUp, Spend
<1>2. budget \in Used /\ session = budget.renewals + 1 /\ session \in Sessions
      /\ sessionOK \in BOOLEAN
  BY DEF OInv, OTypes, SessionTypes
<1>3. budget' \in Used /\ budget'.renewals = budget.renewals
  <2> DEFINE spent == [budget EXCEPT !.faults = @ + 1]
  <2>1. spent \in Used /\ spent.renewals = budget.renewals
    BY <1>2 DEF Used
  <2>3. \/ budget' = spent
        \/ budget' = [spent EXCEPT !.strays = @ + 1]
    BY <1>1, <1>2 DEF Used
  <2> HIDE DEF spent
  <2>2. [spent EXCEPT !.strays = @ + 1] \in Used
        /\ [spent EXCEPT !.strays = @ + 1].renewals = spent.renewals
    BY <2>1 DEF Used
  <2> QED
    BY <2>1, <2>2, <2>3
<1>4. SessionTypes'
  BY <1>2, <1>3 DEF SessionTypes
<1>5. NetTypes'
  BY <1>1 DEF OInv, OTypes, NetTypes
<1> QED
  BY <1>1, <1>4, <1>5

\* A transport error, a timeout or a cancellation during the call.
LEMMA CallErrorStep ==
    ASSUME OInv, CallError
    PROVE  OInv' /\ \A e \in Ops : EntryStep(e)
<1>1. /\ worker.pc = "call" /\ Finish(worker.op, "PENDING_RECONCILIATION") /\ GiveUp
      /\ UNCHANGED <<token, session, sessionOK, serverVars>>
  BY DEF CallError
<1>2. "PENDING_RECONCILIATION" \in EntryStates /\ "PENDING_RECONCILIATION" \notin Failed
  BY DEF EntryStates, OpenStates, Uncertain, Failed
<1> QED
  BY <1>1, <1>2, GiveUpKeeps, FinishStep

\* A retryable answer: the entry stays in flight while the worker waits.
LEMMA ReceiveRetryStep ==
    ASSUME OInv, ReceiveRetry
    PROVE  OInv' /\ \A e \in Ops : EntryStep(e)
<1> DEFINE o == worker.op
<1>1. /\ worker.pc = "call" /\ answer # NoMsg /\ answer' = NoMsg
      /\ SetState(o, "IN_FLIGHT") /\ worker' = [worker EXCEPT !.pc = "backoff"]
      /\ worker.attempt < MaxAttempts
      /\ UNCHANGED <<token, session, sessionOK, wire, strays, serverVars, budget>>
  BY Messages DEF ReceiveRetry, Answered, Codes
<1>2. /\ worker \in Calling /\ o \in Ops /\ entries[o].state = "IN_FLIGHT"
      /\ worker.sent.op = o
      /\ entries[o].key = worker.sent.key /\ entries[o].payload = worker.sent.payload
      /\ entries[o].version = worker.sent.version /\ o \notin worker.todo
  BY <1>1 DEF OInv, OTypes, ClientTypes, CallInv, Resting, Calling
<1>3. entries[o] \in Entry /\ "IN_FLIGHT" \in EntryStates
  BY <1>2, EntryTyped DEF OInv, OTypes, EntryStates, OpenStates, Uncertain
<1>4. /\ worker' \in Calling /\ worker'.todo = worker.todo /\ worker'.pc = "backoff"
      /\ worker'.op = worker.op /\ worker'.sent = worker.sent
      /\ worker'.attempt = worker.attempt
  BY <1>1, <1>2 DEF Calling
<1>5. wire' = NoMsg
  BY <1>1 DEF OInv, CallInv
<1>6. SessionTypes' /\ NetTypes'
  BY <1>1 DEF OInv, OTypes, SessionTypes, NetTypes
<1>7. /\ entries'[o].state = "IN_FLIGHT"
      /\ entries'[o].key = entries[o].key /\ entries'[o].payload = entries[o].payload
      /\ entries'[o].version = entries[o].version
      /\ \A e \in Ops : e # o => entries'[e] = entries[e]
  BY <1>1, <1>2, <1>3, SetStateWrites DEF OInv, OTypes
<1>8. \A e \in Ops : EntryStep(e)
  BY <1>2, <1>7 DEF EntryStep, UncertainStep, Uncertain, IsTerminal, Failed
<1>9. ~IsTerminal(entries[o].state)
  BY <1>2 DEF IsTerminal, Failed
<1>10. o = worker'.op
  BY <1>4
<1> HIDE DEF o
<1>11. OInv'
  BY <1>1, <1>2, <1>3, <1>4, <1>5, <1>6, <1>9, <1>10, WorkerWrites
<1> QED
  BY <1>8, <1>11

\* The next attempt sends the same copy again.
LEMMA ResendStep ==
    ASSUME OInv, Resend
    PROVE  OInv' /\ \A e \in Ops : EntryStep(e)
<1>1. /\ worker.pc = "backoff" /\ wire' = worker.sent
      /\ worker' = [worker EXCEPT !.pc = "call", !.attempt = @ + 1]
      /\ UNCHANGED <<entries, token, session, sessionOK, answer, strays, serverVars, budget>>
  BY DEF Resend
<1>2. worker \in Calling /\ wire = NoMsg /\ answer = NoMsg
  BY <1>1, NothingUnderWay DEF OInv, OTypes, ClientTypes, Resting
<1>3. worker.attempt < MaxAttempts
  BY <1>1 DEF OInv, CallInv
<1>4. /\ worker' \in Calling /\ worker'.todo = worker.todo /\ worker'.pc = "call"
      /\ worker'.op = worker.op /\ worker'.sent = worker.sent
  <2> DEFINE w == [worker EXCEPT !.pc = "call"]
  <2>1. /\ w \in Calling /\ w.pc = "call" /\ w.todo = worker.todo /\ w.op = worker.op
        /\ w.sent = worker.sent /\ w.attempt = worker.attempt
    BY <1>2 DEF Calling
  <2>2. worker' = [w EXCEPT !.attempt = @ + 1]
    BY <1>1, <1>2 DEF Calling
  <2>3. w.attempt + 1 \in 1..MaxAttempts
    BY <1>2, <1>3, <2>1, OfflineAssumption DEF Calling
  <2> HIDE DEF w
  <2> QED
    BY <2>1, <2>2, <2>3 DEF Calling
<1>5. OTypes'
  BY <1>1, <1>2, <1>4
     DEF OInv, OTypes, ClientTypes, SessionTypes, NetTypes, ServerTypes, serverVars, Calling
<1>6. CallInv'
  BY <1>1, <1>2, <1>4 DEF OInv, CallInv
<1>7. UNCHANGED <<idem, holds>>
  BY <1>1 DEF serverVars
<1>8. TruthInv'
  BY <1>1, <1>2, <1>7, TablesSame DEF OInv, TruthInv, NoMsg
<1> QED
  BY <1>1, <1>5, <1>6, <1>7, <1>8, TablesSame, EntriesSame DEF OInv

\* The process dies.
LEMMA CrashStep ==
    ASSUME OInv, Crash
    PROVE  OInv' /\ \A e \in Ops : EntryStep(e)
<1>1. /\ worker' = [pc |-> "down", todo |-> {}] /\ token' = 0 /\ GiveUp
      /\ UNCHANGED <<entries, session, sessionOK, serverVars>>
  BY DEF Crash
<1>2. wire' = NoMsg /\ answer' = NoMsg /\ SessionTypes' /\ NetTypes'
  BY <1>1, GiveUpKeeps
<1>3. worker' \in Resting /\ worker'.todo = {} /\ worker'.pc = "down"
  BY <1>1 DEF Resting
<1>4. OTypes'
  BY <1>1, <1>2, <1>3 DEF OInv, OTypes, ClientTypes, ServerTypes, serverVars
<1>5. CallInv'
  BY <1>2, <1>3 DEF CallInv
<1>6. UNCHANGED <<idem, holds>>
  BY <1>1 DEF serverVars
<1>7. TruthInv'
  BY <1>1, <1>2, <1>6, TablesSame DEF OInv, TruthInv, NoMsg
<1> QED
  BY <1>1, <1>4, <1>5, <1>6, <1>7, TablesSame, EntriesSame DEF OInv

\* The process starts again: what was in flight is now to be reconciled.
LEMMA RestartStep ==
    ASSUME OInv, Restart
    PROVE  OInv' /\ \A e \in Ops : EntryStep(e)
<1>1. /\ worker.pc = "down" /\ worker' = Idle /\ ResetStuckInFlight
      /\ UNCHANGED <<token, session, sessionOK, wire, answer, strays, serverVars, budget>>
  BY DEF Restart
<1>2. wire = NoMsg /\ answer = NoMsg
  BY <1>1, NothingUnderWay
<1>3. worker' \in Resting /\ worker'.todo = {} /\ worker'.pc = "idle"
  BY <1>1 DEF Resting, Idle
<1>4. ASSUME NEW o \in Ops
      PROVE  \/ entries'[o] = entries[o] /\ entries[o].state # "IN_FLIGHT"
                /\ entries[o] \in Blanks \cup Entry
             \/ /\ entries[o].state = "IN_FLIGHT" /\ entries[o] \in Entry /\ entries'[o] \in Entry
                /\ entries'[o].state = "PENDING_RECONCILIATION"
                /\ entries'[o].key = entries[o].key /\ entries'[o].payload = entries[o].payload
                /\ entries'[o].version = entries[o].version
  <2>1. entries'[o] = IF entries[o].state = "IN_FLIGHT"
                      THEN [entries[o] EXCEPT !.state = "PENDING_RECONCILIATION"]
                      ELSE entries[o]
    BY <1>1 DEF ResetStuckInFlight
  <2>2. /\ entries[o] \in Blanks \cup Entry /\ (entries[o].state = "IN_FLIGHT" => entries[o] \in Entry)
        /\ "PENDING_RECONCILIATION" \in EntryStates
    BY EntryTyped DEF OInv, OTypes, EntryStates, OpenStates, Uncertain
  <2> QED
    BY <2>1, <2>2 DEF Entry
<1>5. entries' \in [Ops -> Blanks \cup Entry]
  <2>1. entries' = [o \in Ops |-> entries'[o]]
    BY <1>1 DEF ResetStuckInFlight
  <2>2. \A o \in Ops : entries'[o] \in Blanks \cup Entry
    BY <1>4
  <2> QED
    BY <2>1, <2>2
<1>6. OTypes'
  BY <1>1, <1>3, <1>5 DEF OInv, OTypes, ClientTypes, SessionTypes, NetTypes, ServerTypes, serverVars
<1>7. CallInv'
  BY <1>1, <1>2, <1>3 DEF CallInv
<1>8. UNCHANGED <<idem, holds>>
  BY <1>1 DEF serverVars
<1>9. TruthInv'
  <2>1. ASSUME NEW o \in Ops, entries'[o].state = "COMMITTED" PROVE Backed(entries[o])'
    BY <1>4, <1>8, <2>1 DEF OInv, TruthInv, Backed
  <2> QED
    BY <1>1, <1>2, <2>1 DEF TruthInv, NoMsg
<1>10. \A e \in Ops : EntryStep(e)
  BY <1>4 DEF EntryStep, UncertainStep, Uncertain, IsTerminal, Failed
<1> QED
  BY <1>6, <1>7, <1>8, <1>9, <1>10, TablesSame DEF OInv

\* The token is put back, the session expires, or the citizen authenticates again.
LEMMA SessionStep ==
    ASSUME OInv, PutToken \/ SessionExpires \/ Reauthenticate
    PROVE  OInv' /\ \A e \in Ops : EntryStep(e)
<1>1. UNCHANGED <<entries, worker, wire, answer, strays, serverVars>>
  BY DEF PutToken, SessionExpires, Reauthenticate, clientVars
<1>2. token' \in Sessions \cup {0}
  BY DEF OInv, OTypes, ClientTypes, SessionTypes, PutToken, SessionExpires, Reauthenticate, clientVars
<1>3. budget \in Used /\ session = budget.renewals + 1 /\ session \in Sessions
      /\ sessionOK \in BOOLEAN
  BY DEF OInv, OTypes, SessionTypes
<1>4. SessionTypes'
  <2>1. CASE PutToken \/ SessionExpires
    BY <1>3, <2>1 DEF PutToken, SessionExpires, SessionTypes
  <2>2. CASE Reauthenticate
    <3>1. /\ budget.renewals < MaxRenewals /\ session' = session + 1 /\ sessionOK' = TRUE
          /\ budget' = [budget EXCEPT !.renewals = @ + 1]
      BY <2>2 DEF Reauthenticate, Spend
    <3>2. budget' \in Used /\ budget'.renewals = budget.renewals + 1
      BY <1>3, <3>1, OfflineAssumption DEF Used
    <3>3. session' = budget'.renewals + 1 /\ session' \in Sessions
      BY <1>3, <3>1, <3>2, OfflineAssumption DEF Used, Sessions
    <3> QED
      BY <3>1, <3>2, <3>3 DEF SessionTypes
  <2> QED
    BY <2>1, <2>2
<1>5. OTypes'
  BY <1>1, <1>2, <1>4 DEF OInv, OTypes, ClientTypes, NetTypes, ServerTypes, serverVars
<1>6. UNCHANGED <<idem, holds>>
  BY <1>1 DEF serverVars
<1>7. CallInv' /\ TruthInv'
  BY <1>1, <1>6 DEF OInv, CallInv, TruthInv, Backed
<1> QED
  BY <1>1, <1>5, <1>6, <1>7, TablesSame, EntriesSame DEF OInv

-----------------------------------------------------------------------------
\* Every hold that was committed still is, except that it may have been released.
HoldsKept ==
    \A i \in 1..Len(holds) :
        /\ i \in 1..Len(holds')
        /\ holds'[i].op = holds[i].op /\ holds'[i].key = holds[i].key
        /\ holds'[i].payload = holds[i].payload /\ holds'[i].version = holds[i].version
        /\ holds'[i].session = holds[i].session

\* What was committed stays committed.
LEMMA BackedStays ==
    ASSUME HoldsKept
    PROVE  \A e : Backed(e) => Backed(e)'
BY DEF HoldsKept, Backed

\* The transaction that commits a new hold under its key.
LEMMA CommitKeeps ==
    ASSUME OInv, NEW r \in Requests, ~Known(r), Commit(r)
    PROVE  /\ holds' \in Seq(Hold) /\ idem' \in [Sessions \X Keys -> {NoResult} \cup Result]
           /\ IdemInv' /\ HoldsKept
           /\ Len(holds') = Len(holds) + 1
           /\ holds'[Len(holds) + 1].key = r.key /\ holds'[Len(holds) + 1].op = r.op
           /\ holds'[Len(holds) + 1].payload = r.payload
           /\ holds'[Len(holds) + 1].version = r.version
           /\ holds'[Len(holds) + 1].session = r.session
<1> DEFINE h == [op |-> r.op, key |-> r.key, payload |-> r.payload, version |-> r.version,
                 session |-> r.session, live |-> TRUE]
           n == Len(holds) + 1
           x == <<r.session, r.key>>
           y == [intent |-> Intent(r), hold |-> n]
<1>1. holds' = Append(holds, h) /\ idem' = [idem EXCEPT ![x] = y] /\ idem[x] = NoResult
  BY DEF Commit, Known
<1>2. /\ h \in Hold /\ h.key = r.key /\ h.payload = r.payload /\ h.version = r.version
      /\ h.session = r.session /\ h.op = r.op
  BY DEF Hold, Requests
<1>3. /\ holds \in Seq(Hold) /\ Len(holds) \in Nat /\ n \in Nat \ {0}
      /\ idem \in [Sessions \X Keys -> {NoResult} \cup Result]
  BY DEF OInv, OTypes, ServerTypes
<1>4. /\ r.session \in Sessions /\ r.key \in Keys /\ x \in Sessions \X Keys
      /\ Intent(r) = <<r.payload, r.version>> /\ Intent(r) \in Payloads \X (1..MaxVersion)
  BY DEF Requests, Intent
<1>5. y \in Result /\ y.hold = n /\ y.intent = <<r.payload, r.version>> /\ y # NoResult
  BY <1>3, <1>4 DEF Result, NoResult
<1> HIDE DEF h, y
<1>6. /\ holds' \in Seq(Hold) /\ Len(holds') = n /\ holds'[n] = h
      /\ \A i \in 1..Len(holds) : holds'[i] = holds[i]
  BY <1>1, <1>2, <1>3
<1>7. /\ idem' \in [Sessions \X Keys -> {NoResult} \cup Result]
      /\ idem'[x] = y /\ \A z \in Sessions \X Keys : z # x => idem'[z] = idem[z]
  BY <1>1, <1>3, <1>4, <1>5
<1>8. NoResult.hold = 0
  BY DEF NoResult
<1>9. ASSUME NEW i \in 1..Len(holds')
      PROVE  idem'[<<holds'[i].session, holds'[i].key>>].hold = i
  <2>1. CASE i = n
    BY <1>2, <1>5, <1>6, <1>7, <2>1
  <2>2. CASE i # n
    <3>1. i \in 1..Len(holds) /\ holds'[i] = holds[i] /\ holds[i] \in Hold
      BY <1>3, <1>6, <2>2
    <3>2. idem[<<holds[i].session, holds[i].key>>].hold = i /\ i # 0
      BY <1>3, <3>1 DEF OInv, IdemInv
    <3>3. <<holds[i].session, holds[i].key>> # x
      BY <1>1, <1>8, <3>2
    <3>4. <<holds[i].session, holds[i].key>> \in Sessions \X Keys
      BY <3>1 DEF Hold
    <3> QED
      BY <1>7, <3>1, <3>2, <3>3, <3>4
  <2> QED
    BY <2>1, <2>2
<1>10. ASSUME NEW s \in Sessions, NEW k \in Keys, idem'[<<s, k>>] # NoResult
       PROVE  /\ idem'[<<s, k>>].hold \in 1..Len(holds')
              /\ idem'[<<s, k>>].intent = <<holds'[idem'[<<s, k>>].hold].payload,
                                            holds'[idem'[<<s, k>>].hold].version>>
              /\ holds'[idem'[<<s, k>>].hold].key = k
              /\ holds'[idem'[<<s, k>>].hold].session = s
  <2>1. CASE <<s, k>> = x
    <3>1. s = r.session /\ k = r.key
      BY <2>1
    <3>2. idem'[<<s, k>>] = y
      BY <1>7, <2>1
    <3> QED
      BY <1>2, <1>3, <1>5, <1>6, <3>1, <3>2
  <2>2. CASE <<s, k>> # x
    <3>1. idem'[<<s, k>>] = idem[<<s, k>>]
      BY <1>7, <2>2
    <3> DEFINE j == idem[<<s, k>>].hold
    <3>2. /\ j \in 1..Len(holds) /\ idem[<<s, k>>].intent = <<holds[j].payload, holds[j].version>>
          /\ holds[j].key = k /\ holds[j].session = s
      BY <1>10, <3>1 DEF OInv, IdemInv
    <3>3. j \in 1..Len(holds') /\ holds'[j] = holds[j]
      BY <1>3, <1>6, <3>2
    <3> QED
      BY <3>1, <3>2, <3>3
  <2> QED
    BY <2>1, <2>2
<1>11. IdemInv'
  BY <1>9, <1>10 DEF IdemInv
<1>12. HoldsKept
  BY <1>3, <1>6 DEF HoldsKept
<1> QED
  BY <1>2, <1>6, <1>7, <1>11, <1>12

\* The transaction of one request: it commits at most once, and an "OK" stands for a hold.
LEMMA TransactKeeps ==
    ASSUME OInv, NEW r \in Requests, Transact(r)
    PROVE  /\ holds' \in Seq(Hold) /\ idem' \in [Sessions \X Keys -> {NoResult} \cup Result]
           /\ IdemInv' /\ HoldsKept
           /\ Outcome(r) = "OK" => Backed(r)'
<1>1. CASE Outcome(r) = "OK" /\ ~Known(r) /\ Commit(r)
  <2>1. Len(holds) + 1 \in 1..Len(holds')
    BY <1>1, CommitKeeps DEF OInv, OTypes, ServerTypes
  <2>2. Backed(r)'
    BY <1>1, <2>1, CommitKeeps DEF Backed
  <2> QED
    BY <1>1, <2>2, CommitKeeps
<1>2. CASE Outcome(r) # "OK" /\ UNCHANGED <<idem, holds>>
  BY <1>2, TablesSame DEF OInv, OTypes, ServerTypes, HoldsKept
<1>3. CASE Outcome(r) = "OK" /\ Known(r) /\ UNCHANGED <<idem, holds>>
  <2>1. idem[<<r.session, r.key>>] # NoResult /\ idem[<<r.session, r.key>>].intent = Intent(r)
    BY <1>3 DEF Outcome, Known
  <2>2. r.session \in Sessions /\ r.key \in Keys /\ Intent(r) = <<r.payload, r.version>>
    BY DEF Requests, Intent
  <2>3. Backed(r)
    <3>1. PICK s \in Sessions, k \in Keys : s = r.session /\ k = r.key
      BY <2>2
    <3> DEFINE j == idem[<<s, k>>].hold
    <3>2. idem[<<s, k>>] # NoResult /\ idem[<<s, k>>].intent = <<r.payload, r.version>>
      BY <2>1, <2>2, <3>1
    <3>3. /\ j \in 1..Len(holds) /\ holds[j].key = k
          /\ idem[<<s, k>>].intent = <<holds[j].payload, holds[j].version>>
      BY <3>2 DEF OInv, IdemInv
    <3>4. holds[j].payload = r.payload /\ holds[j].version = r.version
      BY <3>2, <3>3
    <3> HIDE DEF j
    <3> QED
      BY <3>1, <3>3, <3>4 DEF Backed
  <2> QED
    BY <1>3, <2>3, TablesSame DEF OInv, OTypes, ServerTypes, HoldsKept
<1> QED
  BY <1>1, <1>2, <1>3 DEF Transact

\* What a step of the server or of the world has to show.
LEMMA ServerStep ==
    ASSUME OInv, UNCHANGED clientVars, SessionTypes', NetTypes', ServerTypes', IdemInv', HoldsKept,
           \/ UNCHANGED <<wire, answer>>
           \/ \E r \in Requests : /\ wire = r /\ wire' = NoMsg
                                  /\ answer' = [code |-> "OK"] => Backed(r)'
    PROVE  OInv' /\ \A e \in Ops : EntryStep(e)
<1>1. UNCHANGED <<entries, worker, token>>
  BY DEF clientVars
<1>2. OTypes'
  BY <1>1 DEF OInv, OTypes, ClientTypes
<1>3. CallInv'
  BY <1>1, Messages DEF OInv, CallInv
<1>4. \A o \in Ops : entries[o].state = "COMMITTED" => Backed(entries[o])'
  BY <1>1, BackedStays DEF OInv, TruthInv, Backed, HoldsKept
<1>5. answer' = [code |-> "OK"] => Backed(worker.sent)'
  <2>1. CASE UNCHANGED <<wire, answer>>
    BY <1>1, <2>1 DEF OInv, TruthInv, Backed, HoldsKept
  <2>2. ASSUME NEW r \in Requests, wire = r, answer' = [code |-> "OK"] => Backed(r)'
        PROVE  answer' = [code |-> "OK"] => Backed(worker.sent)'
    BY <1>1, <2>2, Messages DEF OInv, CallInv, Backed
  <2> QED
    BY <2>1, <2>2
<1>6. TruthInv'
  BY <1>1, <1>4, <1>5 DEF TruthInv
<1> QED
  BY <1>1, <1>2, <1>3, <1>6, EntriesSame DEF OInv

\* One more fault, answer or change is counted.
LEMMA SpendKeeps ==
    ASSUME OInv, UNCHANGED <<session, sessionOK>>,
           UNCHANGED budget \/ Spend("faults") \/ Spend("churn") \/ Spend("storeless")
    PROVE  SessionTypes'
<1>1. /\ budget \in Used /\ session = budget.renewals + 1 /\ session \in Sessions
      /\ sessionOK \in BOOLEAN
  BY DEF OInv, OTypes, SessionTypes
<1>2. budget' \in Used /\ budget'.renewals = budget.renewals
  BY <1>1 DEF Spend, Used
<1> QED
  BY <1>1, <1>2 DEF SessionTypes

\* Every answer of the handler is one the worker knows.
LEMMA OutcomeIsCode == \A r : Outcome(r) \in Codes
BY DEF Outcome, Codes, StaleCodes, PermanentCodes

\* The request on the wire is served, and the answer says so or not.
LEMMA ServeStep ==
    ASSUME OInv, Serve \/ ServeGarbled \/ ServeRateLimited \/ ServeStoreless
    PROVE  OInv' /\ \A e \in Ops : EntryStep(e)
<1>1. wire \in Requests /\ wire' = NoMsg /\ UNCHANGED <<clientVars, session, sessionOK, strays>>
  BY DEF OInv, OTypes, NetTypes, Serve, ServeGarbled, ServeRateLimited, ServeStoreless
<1>2. UNCHANGED <<others, sourceOpen, version>>
  BY DEF Serve, ServeGarbled, ServeRateLimited, ServeStoreless, serverVars
<1>3. (UNCHANGED <<idem, holds>>) \/ Transact(wire)
  BY DEF Serve, ServeGarbled, ServeRateLimited, ServeStoreless, serverVars
<1>4. UNCHANGED <<idem, holds>> =>
          /\ holds' \in Seq(Hold) /\ idem' \in [Sessions \X Keys -> {NoResult} \cup Result]
          /\ IdemInv' /\ HoldsKept
  BY TablesSame DEF OInv, OTypes, ServerTypes, HoldsKept
<1>5. /\ holds' \in Seq(Hold) /\ idem' \in [Sessions \X Keys -> {NoResult} \cup Result]
      /\ IdemInv' /\ HoldsKept
  BY <1>1, <1>3, <1>4, TransactKeeps
<1>6. ServerTypes'
  BY <1>2, <1>5 DEF OInv, OTypes, ServerTypes
<1>7. SessionTypes'
  BY <1>1, SpendKeeps DEF Serve, ServeGarbled, ServeRateLimited, ServeStoreless
<1>8. \E c \in Codes : answer' = [code |-> c]
  <2>1. {"INTERNAL", "UNPROVEN", "RATE_LIMITED", "DATA_UNAVAILABLE"} \subseteq Codes
    BY DEF Codes, PermanentCodes, RetryCodes
  <2> QED
    BY <2>1, OutcomeIsCode DEF Serve, ServeGarbled, ServeRateLimited, ServeStoreless
<1>9. NetTypes'
  BY <1>1, <1>8 DEF OInv, OTypes, NetTypes
<1>10. ASSUME NEW r \in Requests, wire = r, answer' = [code |-> "OK"]
       PROVE  Backed(r)'
  <2>1. \A c : [code |-> c].code = c
    OBVIOUS
  <2>2. Transact(r) /\ Outcome(r) = "OK"
    BY <1>10, <2>1 DEF Serve, ServeGarbled, ServeRateLimited, ServeStoreless
  <2> QED
    BY <2>2, TransactKeeps
<1>11. PICK r \in Requests : wire = r
  BY <1>1
<1> QED
  BY <1>1, <1>5, <1>6, <1>7, <1>9, <1>10, <1>11, ServerStep

\* A request the client gave up on arrives.
LEMMA ServeStrayStep ==
    ASSUME OInv, NEW r \in strays, ServeStray(r)
    PROVE  OInv' /\ \A e \in Ops : EntryStep(e)
<1>1. /\ r \in Requests /\ Transact(r) /\ strays' = strays \ {r}
      /\ UNCHANGED <<clientVars, session, sessionOK, wire, answer, others, sourceOpen, version, budget>>
  BY DEF OInv, OTypes, NetTypes, ServeStray
<1>2. /\ holds' \in Seq(Hold) /\ idem' \in [Sessions \X Keys -> {NoResult} \cup Result]
      /\ IdemInv' /\ HoldsKept
  BY <1>1, TransactKeeps
<1>3. ServerTypes' /\ NetTypes'
  BY <1>1, <1>2 DEF OInv, OTypes, ServerTypes, NetTypes
<1>4. SessionTypes'
  BY <1>1, SpendKeeps
<1> QED
  BY <1>1, <1>2, <1>3, <1>4, ServerStep

\* A hold is released; its key row stays.
LEMMA ReleaseStep ==
    ASSUME OInv, NEW i \in 1..Len(holds), Release(i)
    PROVE  OInv' /\ \A e \in Ops : EntryStep(e)
<1>1. /\ holds' = [holds EXCEPT ![i] = [holds[i] EXCEPT !.live = FALSE]]
      /\ UNCHANGED <<clientVars, session, sessionOK, wire, answer, strays, idem, others,
                     sourceOpen, version, budget>>
  BY DEF Release
<1>2. holds \in Seq(Hold) /\ holds[i] \in Hold
  BY DEF OInv, OTypes, ServerTypes
<1> DEFINE h == [holds[i] EXCEPT !.live = FALSE]
<1>3. /\ h \in Hold /\ h.key = holds[i].key /\ h.op = holds[i].op /\ h.payload = holds[i].payload
      /\ h.version = holds[i].version /\ h.session = holds[i].session
  BY <1>2 DEF Hold
<1>3a. holds' = [holds EXCEPT ![i] = h]
  BY <1>1
<1> HIDE DEF h
<1>4. /\ holds' \in Seq(Hold) /\ Len(holds') = Len(holds) /\ holds'[i] = h
      /\ \A j \in 1..Len(holds) : j # i => holds'[j] = holds[j]
  BY <1>2, <1>3, <1>3a
<1>5. HoldsKept
  BY <1>3, <1>4 DEF HoldsKept
<1>6. IdemInv'
  <2>1. \A j \in 1..Len(holds) :
            /\ holds'[j].key = holds[j].key /\ holds'[j].payload = holds[j].payload
            /\ holds'[j].version = holds[j].version /\ holds'[j].session = holds[j].session
    BY <1>5 DEF HoldsKept
  <2>2. \A j \in 1..Len(holds') : idem'[<<holds'[j].session, holds'[j].key>>].hold = j
    BY <1>1, <1>4, <2>1 DEF OInv, IdemInv
  <2>3. ASSUME NEW s \in Sessions, NEW k \in Keys, idem'[<<s, k>>] # NoResult
        PROVE  /\ idem'[<<s, k>>].hold \in 1..Len(holds')
               /\ idem'[<<s, k>>].intent = <<holds'[idem'[<<s, k>>].hold].payload,
                                             holds'[idem'[<<s, k>>].hold].version>>
               /\ holds'[idem'[<<s, k>>].hold].key = k
               /\ holds'[idem'[<<s, k>>].hold].session = s
    <3> DEFINE x == idem[<<s, k>>]
    <3>1. /\ x.hold \in 1..Len(holds) /\ x.intent = <<holds[x.hold].payload, holds[x.hold].version>>
          /\ holds[x.hold].key = k /\ holds[x.hold].session = s
      BY <1>1, <2>3 DEF OInv, IdemInv
    <3>2. idem'[<<s, k>>] = x
      BY <1>1
    <3> HIDE DEF x
    <3> QED
      BY <1>4, <2>1, <3>1, <3>2
  <2> QED
    BY <2>2, <2>3 DEF IdemInv
<1>7. ServerTypes' /\ NetTypes'
  BY <1>1, <1>4 DEF OInv, OTypes, ServerTypes, NetTypes
<1>8. SessionTypes'
  BY <1>1, SpendKeeps
<1> QED
  BY <1>1, <1>5, <1>6, <1>7, <1>8, ServerStep

\* Other citizens, the operator and the publisher change what the gates see.
LEMMA WorldStep ==
    ASSUME OInv, OthersReserve \/ OthersRelease \/ SourceSuspended \/ PackageRevised
    PROVE  OInv' /\ \A e \in Ops : EntryStep(e)
<1>1. UNCHANGED <<clientVars, session, sessionOK, wire, answer, strays, idem, holds>>
  BY DEF OthersReserve, OthersRelease, SourceSuspended, PackageRevised
<1>2. Cardinality(Live) \in Nat
  <2>1. Live \subseteq 1..Len(holds) /\ Len(holds) \in Nat
    BY DEF Live, OInv, OTypes, ServerTypes
  <2>2. IsFiniteSet(1..Len(holds))
    BY <2>1, FS_Interval
  <2>3. IsFiniteSet(Live)
    BY <2>1, <2>2, FS_Subset
  <2> QED
    BY <2>3, FS_CardinalityType
<1>3. ServerTypes'
  <2>1. /\ holds \in Seq(Hold) /\ idem \in [Sessions \X Keys -> {NoResult} \cup Result]
        /\ others \in 0..Capacity /\ sourceOpen \in BOOLEAN /\ version \in 1..MaxVersion
    BY DEF OInv, OTypes, ServerTypes
  <2>2. others' \in 0..Capacity
    BY <1>2, <2>1, OfflineAssumption
       DEF OthersReserve, OthersRelease, SourceSuspended, PackageRevised, Fits
  <2>3. sourceOpen' \in BOOLEAN
    BY <2>1 DEF OthersReserve, OthersRelease, SourceSuspended, PackageRevised
  <2>4. version' \in 1..MaxVersion
    BY <2>1, OfflineAssumption DEF OthersReserve, OthersRelease, SourceSuspended, PackageRevised
  <2> QED
    BY <1>1, <2>1, <2>2, <2>3, <2>4 DEF ServerTypes
<1>4. SessionTypes'
  BY <1>1, SpendKeeps DEF OthersReserve, OthersRelease, SourceSuspended, PackageRevised
<1>5. NetTypes'
  BY <1>1 DEF OInv, OTypes, NetTypes
<1>6. IdemInv' /\ HoldsKept
  BY <1>1, TablesSame DEF HoldsKept
<1> QED
  BY <1>1, <1>3, <1>4, <1>5, <1>6, ServerStep

-----------------------------------------------------------------------------
\* Every step keeps the invariant and treats every entry as EntryStep says.
LEMMA ONext ==
    ASSUME OInv, [Next]_vars
    PROVE  OInv' /\ \A e \in Ops : EntryStep(e)
<1>1. CASE UNCHANGED vars
  <2>1. UNCHANGED <<clientVars, session, sessionOK, wire, answer, strays, serverVars, budget>>
    BY <1>1 DEF vars, clientVars, serverVars
  <2>2. SessionTypes' /\ NetTypes' /\ ServerTypes'
    BY <2>1 DEF OInv, OTypes, SessionTypes, NetTypes, ServerTypes, serverVars
  <2>3. IdemInv' /\ HoldsKept
    BY <2>1, TablesSame DEF HoldsKept, serverVars
  <2> QED
    BY <2>1, <2>2, <2>3, ServerStep
<1>2. ASSUME NEW o \in Ops, NEW k \in Keys, NEW p \in Payloads, Enqueue(o, k, p)
      PROVE  OInv' /\ \A e \in Ops : EntryStep(e)
  BY <1>2, EnqueueStep
<1>3. ASSUME NEW o \in Ops, SelectionExpires(o) \/ PurgeCommitted(o) \/ Delete(o)
      PROVE  OInv' /\ \A e \in Ops : EntryStep(e)
  BY <1>3, SelectionExpiresStep, RemoveStep
<1>4. CASE Client
  <2>1. ASSUME NEW o \in Ops, Submit(o) PROVE OInv' /\ \A e \in Ops : EntryStep(e)
    BY <2>1, DrainStep, SubmitStaleStep, SubmitDispatchStep DEF Submit
  <2>2. CASE Receive
    BY <2>2, ReceiveVerdictStep, ReceiveRetryStep DEF Receive
  <2> QED
    BY <1>4, <2>1, <2>2, DrainStep, ResendStep, RestartStep, SessionStep DEF Client
<1>5. CASE Faults
  BY <1>5, CallErrorStep, CrashStep, DrainStep, SessionStep DEF Faults
<1>6. CASE Server
  BY <1>6, ServeStep DEF Server
<1>7. CASE World
  BY <1>7, ServeStrayStep, ReleaseStep, WorldStep DEF World
<1> QED
  BY <1>1, <1>2, <1>3, <1>4, <1>5, <1>6, <1>7 DEF Next

\* An empty queue, no session but the first, no hold.
LEMMA OInit ==
    ASSUME Init
    PROVE  OInv
<1>1. ClientTypes
  BY OfflineAssumption DEF Init, ClientTypes, Blanks, Blank, Idle, Resting, Sessions
<1>2. SessionTypes
  BY OfflineAssumption DEF Init, SessionTypes, Used, Sessions
<1>3. NetTypes
  BY DEF Init, NetTypes
<1>4. ServerTypes
  BY OfflineAssumption DEF Init, ServerTypes
<1>5. IdemInv
  BY DEF Init, IdemInv
<1>6. CallInv
  BY DEF Init, CallInv, Idle
<1>7. TruthInv
  BY DEF Init, TruthInv, NoMsg, Blank
<1> QED
  BY <1>1, <1>2, <1>3, <1>4, <1>5, <1>6, <1>7 DEF OInv, OTypes

\* The key rows and the holds point at each other, the request in a call is the copy of an
\* entry in flight, and every "OK" and every "committed" stands for a hold (idempotency.go
\* Begin and Complete, worker.go Submit).
THEOREM SubmissionInductive == Spec => []OInv
<1>1. Init => OInv
  BY OInit
<1>2. OInv /\ [Next]_vars => OInv'
  BY ONext
<1> QED
  BY <1>1, <1>2, PTL DEF Spec

\* Whatever is lost, repeated, delayed or restarted, a key is committed at most once within
\* a session (idempotency.go Begin and Complete, worker.go Submit).
THEOREM OncePerSession == Spec => []AtMostOncePerSession
<1>1. OInv => AtMostOncePerSession
  BY DEF OInv, IdemInv, AtMostOncePerSession
<1> QED
  BY <1>1, SubmissionInductive, PTL

\* The queue says "committed" only of an intent the server committed (worker.go, the 2xx
\* branch of Submit).
THEOREM CommittedHolds == Spec => []CommittedIsReal
<1>1. OInv => CommittedIsReal
  BY DEF OInv, TruthInv, Backed, CommittedIsReal
<1> QED
  BY <1>1, SubmissionInductive, PTL

\* An unknown outcome keeps its key, payload and snapshot until the server answers, and a
\* verdict is never revised (worker.go Submit, store.go UpdateState and Enqueue).
THEOREM UnknownOutcomesKept == Spec => UncertainKept
<1>1. ASSUME OInv, [Next]_vars
      PROVE  [\A o \in Ops : UncertainStep(o)]_vars
  BY <1>1, ONext DEF EntryStep
<1> QED
  BY <1>1, SubmissionInductive, PTL DEF Spec, UncertainKept

-----------------------------------------------------------------------------
(***************************************************************************)
(* The verdict "failed".  It can be wrong when a request that the client   *)
(* gave up on arrives late, when an instance without a database answers,   *)
(* or when an entry is sent again under another session.  Without these    *)
(* three it is right.                                                      *)
(***************************************************************************)
NothingLate == MaxStrays = 0 /\ MaxStoreless = 0 /\ MaxRenewals = 0

Definitive(a) == \E c \in StaleCodes \cup PermanentCodes : a = [code |-> c]

\* A hold belongs to an entry that was sent, and has its key, payload and snapshot.
Owned ==
    \A i \in 1..Len(holds) :
        LET e == entries[holds[i].op]
        IN  \/ e.state = "PURGED"
            \/ /\ e.state \in Uncertain \cup {"COMMITTED"}
               /\ e.key = holds[i].key /\ e.payload = holds[i].payload
               /\ e.version = holds[i].version

\* A definitive answer is given only when no attempt of the entry left a hold.
VerdictInv ==
    /\ strays = {}
    /\ Owned
    /\ Definitive(answer) => \A i \in 1..Len(holds) : holds[i].op # worker.op

\* The same holds, some of them released perhaps.
SameHolds == HoldsKept /\ Len(holds') = Len(holds)

\* What a step does to the answer and the holds.
Quiet ==
    /\ SameHolds /\ strays' = {}
    /\ answer' # NoMsg => answer' = answer /\ worker' = worker

\* The request on the wire is served.
ServeMoves ==
    \E r \in Requests :
        /\ wire = r /\ strays' = {} /\ UNCHANGED <<entries, worker>>
        /\ \/ SameHolds /\ ~Definitive(answer')
           \/ SameHolds /\ Outcome(r) # "OK" /\ answer' = [code |-> Outcome(r)]
           \/ ~Known(r) /\ Commit(r) /\ ~Definitive(answer')

\* A step outside the handler.
LEMMA QuietSteps ==
    ASSUME OInv, strays = {}, NothingLate,
           \/ \E o \in Ops, k \in Keys, p \in Payloads : Enqueue(o, k, p)
           \/ \E o \in Ops : SelectionExpires(o) \/ PurgeCommitted(o) \/ Delete(o)
           \/ Client \/ Faults
           \/ OthersReserve \/ OthersRelease \/ SourceSuspended \/ PackageRevised
    PROVE  Quiet
<1>1. UNCHANGED holds => SameHolds
  BY DEF SameHolds, HoldsKept
<1>2. GiveUp => strays' = {} /\ answer' = NoMsg
  BY OfflineAssumption DEF GiveUp, OInv, OTypes, SessionTypes, Used, NothingLate
<1>3. ASSUME NEW o \in Ops, NEW k \in Keys, NEW p \in Payloads, Enqueue(o, k, p) PROVE Quiet
  BY <1>1, <1>3 DEF Enqueue, Quiet, serverVars
<1>4. ASSUME NEW o \in Ops, SelectionExpires(o) \/ PurgeCommitted(o) \/ Delete(o) PROVE Quiet
  BY <1>1, <1>4 DEF SelectionExpires, PurgeCommitted, Delete, Quiet, serverVars
<1>5. ASSUME NEW o \in Ops, Submit(o) PROVE Quiet
  BY <1>1, <1>5, NothingUnderWay
     DEF Submit, SubmitSkip, SubmitStale, SubmitNoToken, SubmitDispatch, Quiet, serverVars
<1>6. CASE StartDrain \/ Resend \/ Restart \/ CancelDrain
  BY <1>1, <1>6, NothingUnderWay
     DEF StartDrain, Resend, Restart, CancelDrain, Quiet, serverVars
<1>7. CASE Receive
  BY <1>1, <1>7 DEF Receive, ReceiveSuccess, ReceiveUnproven, ReceiveStale, ReceivePermanent,
     ReceiveExhausted, ReceiveRetry, Answered, Quiet, serverVars
<1>8. CASE PutToken \/ SessionExpires \/ Reauthenticate
  BY <1>1, <1>8 DEF PutToken, SessionExpires, Reauthenticate, Quiet, serverVars, clientVars
<1>9. CASE CallError \/ Crash
  BY <1>1, <1>2, <1>9 DEF CallError, Crash, Quiet, serverVars
<1>10. CASE OthersReserve \/ OthersRelease \/ SourceSuspended \/ PackageRevised
  BY <1>1, <1>10 DEF OthersReserve, OthersRelease, SourceSuspended, PackageRevised, Quiet, clientVars
<1> QED
  BY <1>3, <1>4, <1>5, <1>6, <1>7, <1>8, <1>9, <1>10 DEF Client, Faults

\* A step of the handler.
LEMMA HandlerSteps ==
    ASSUME OInv, strays = {}, NothingLate, Server
    PROVE  ServeMoves
<1>1. UNCHANGED holds => SameHolds
  BY DEF SameHolds, HoldsKept
<1>2. ~ServeStoreless
  BY OfflineAssumption DEF ServeStoreless, OInv, OTypes, SessionTypes, Used, NothingLate
<1>3. PICK r \in Requests : wire = r
  BY DEF Server, Serve, ServeGarbled, ServeRateLimited, ServeStoreless, OInv, OTypes, NetTypes
<1>4. strays' = {} /\ UNCHANGED <<entries, worker>>
  BY DEF Server, Serve, ServeGarbled, ServeRateLimited, ServeStoreless, clientVars
<1>5. \A c \in {"OK", "INTERNAL", "UNPROVEN", "RATE_LIMITED"} : ~Definitive([code |-> c])
  <2>1. \A c, d : [code |-> c] = [code |-> d] => c = d
    <3>1. \A c : [code |-> c].code = c
      OBVIOUS
    <3> QED
      BY <3>1
  <2> QED
    BY <2>1 DEF Definitive, StaleCodes, PermanentCodes
<1>6. CASE Serve
  <2>1. Transact(r) /\ answer' = [code |-> Outcome(r)]
    BY <1>3, <1>6 DEF Serve
  <2>2. \/ SameHolds /\ Outcome(r) # "OK"
        \/ SameHolds /\ Outcome(r) = "OK"
        \/ ~Known(r) /\ Commit(r) /\ Outcome(r) = "OK"
    BY <1>1, <2>1 DEF Transact
  <2> QED
    BY <1>3, <1>4, <1>5, <2>1, <2>2 DEF ServeMoves
<1>7. CASE ServeGarbled
  <2>1. /\ (UNCHANGED <<idem, holds>>) \/ Transact(r)
        /\ \E c \in {"INTERNAL", "UNPROVEN"} : answer' = [code |-> c]
    BY <1>3, <1>7 DEF ServeGarbled
  <2>2. SameHolds \/ (~Known(r) /\ Commit(r))
    BY <1>1, <2>1 DEF Transact
  <2> QED
    BY <1>3, <1>4, <1>5, <2>1, <2>2 DEF ServeMoves
<1>8. CASE ServeRateLimited
  BY <1>1, <1>3, <1>4, <1>5, <1>8 DEF ServeMoves, ServeRateLimited, serverVars
<1> QED
  BY <1>2, <1>6, <1>7, <1>8 DEF Server

\* The release of a hold and the repetition of a state.
LEMMA OtherSteps ==
    ASSUME OInv, strays = {}, World \/ UNCHANGED vars
    PROVE  Quiet \/ OthersReserve \/ OthersRelease \/ SourceSuspended \/ PackageRevised
<1>1. ASSUME NEW i \in 1..Len(holds), Release(i) PROVE Quiet
  <2>1. /\ holds' = [holds EXCEPT ![i] = [holds[i] EXCEPT !.live = FALSE]]
        /\ strays' = {} /\ UNCHANGED <<answer, worker>>
    BY <1>1 DEF Release, clientVars
  <2>2. holds \in Seq(Hold) /\ holds[i] \in Hold
    BY DEF OInv, OTypes, ServerTypes
  <2> DEFINE h == [holds[i] EXCEPT !.live = FALSE]
  <2>3. /\ h \in Hold /\ h.key = holds[i].key /\ h.op = holds[i].op /\ h.payload = holds[i].payload
        /\ h.version = holds[i].version /\ h.session = holds[i].session
    BY <2>2 DEF Hold
  <2>4. holds' = [holds EXCEPT ![i] = h]
    BY <2>1
  <2> HIDE DEF h
  <2>5. /\ Len(holds') = Len(holds) /\ holds'[i] = h
        /\ \A j \in 1..Len(holds) : j # i => holds'[j] = holds[j]
    BY <2>2, <2>3, <2>4
  <2> QED
    BY <2>1, <2>3, <2>5 DEF Quiet, SameHolds, HoldsKept
<1>2. CASE UNCHANGED vars
  BY <1>2 DEF vars, Quiet, SameHolds, HoldsKept
<1> QED
  BY <1>1, <1>2 DEF World

\* A definitive answer to a request means that its entry has no hold.
LEMMA DefinitiveMeansNone ==
    ASSUME OInv, Owned, NothingLate, NEW r \in Requests, wire = r,
           Definitive([code |-> Outcome(r)]), Outcome(r) # "OK", NEW i \in 1..Len(holds),
           holds[i].op = worker.op
    PROVE  FALSE
<1>1. worker.pc = "call" /\ worker.sent = r
  BY Messages DEF OInv, CallInv
<1>2. /\ entries[worker.op].state = "IN_FLIGHT" /\ entries[worker.op].key = r.key
      /\ entries[worker.op].payload = r.payload /\ entries[worker.op].version = r.version
  BY <1>1 DEF OInv, CallInv
<1>3. holds[i].key = r.key /\ holds[i].payload = r.payload /\ holds[i].version = r.version
  BY <1>2 DEF Owned
<1>4. holds[i] \in Hold
  BY DEF OInv, OTypes, ServerTypes
<1>5. holds[i].session = 1 /\ r.session = 1
  BY <1>4 DEF Hold, Requests, Sessions, NothingLate
<1>6. idem[<<r.session, r.key>>].hold = i
  BY <1>3, <1>5 DEF OInv, IdemInv
<1>7. i # 0 /\ NoResult.hold = 0
  BY DEF NoResult, OInv, OTypes, ServerTypes
<1>8. Known(r)
  BY <1>6, <1>7 DEF Known
<1>9. PICK s \in Sessions, k \in Keys : s = r.session /\ k = r.key
  BY DEF Requests
<1>10. idem[<<s, k>>] # NoResult /\ idem[<<s, k>>].hold = i
  BY <1>6, <1>8, <1>9 DEF Known
<1>11. idem[<<s, k>>].intent = <<holds[i].payload, holds[i].version>>
  BY <1>10, SMTT(30) DEF OInv, IdemInv
<1>12. idem[<<r.session, r.key>>].intent = Intent(r)
  BY <1>3, <1>9, <1>11 DEF Intent
<1>13. Outcome(r) = "FORBIDDEN"
  BY <1>8, <1>12 DEF Outcome
<1>14. [code |-> "FORBIDDEN"].code = "FORBIDDEN" /\ \A c : [code |-> c].code = c
  OBVIOUS
<1> QED
  BY <1>13, <1>14 DEF Definitive, StaleCodes, PermanentCodes

\* A step that leaves the holds alone keeps them with entries that were sent.
LEMMA OwnedStays ==
    ASSUME OInv, VerdictInv, SameHolds, \A o \in Ops : EntryStep(o)
    PROVE  Owned'
<1>1. ASSUME NEW i \in 1..Len(holds')
      PROVE  \/ entries'[holds'[i].op].state = "PURGED"
             \/ /\ entries'[holds'[i].op].state \in Uncertain \cup {"COMMITTED"}
                /\ entries'[holds'[i].op].key = holds'[i].key
                /\ entries'[holds'[i].op].payload = holds'[i].payload
                /\ entries'[holds'[i].op].version = holds'[i].version
  <2>1. i \in 1..Len(holds)
    BY DEF SameHolds
  <2>2. PICK o \in Ops : o = holds[i].op
    <3>1. holds[i] \in Hold
      BY <2>1 DEF OInv, OTypes, ServerTypes
    <3>2. holds[i].op \in Ops
      BY <3>1 DEF Hold
    <3> QED
      BY <3>2
  <2>3. /\ holds'[i].op = o /\ holds'[i].key = holds[i].key /\ holds'[i].payload = holds[i].payload
        /\ holds'[i].version = holds[i].version
    BY <2>1, <2>2 DEF SameHolds, HoldsKept
  <2>4. \/ entries[o].state = "PURGED"
        \/ /\ entries[o].state \in Uncertain \cup {"COMMITTED"}
           /\ entries[o].key = holds[i].key /\ entries[o].payload = holds[i].payload
           /\ entries[o].version = holds[i].version
    BY <2>1, <2>2 DEF VerdictInv, Owned
  <2>5. EntryStep(o)
    OBVIOUS
  <2>6. CASE entries[o].state = "PURGED"
    BY <2>3, <2>5, <2>6 DEF EntryStep
  <2>7. CASE entries[o].state = "COMMITTED"
    BY <2>3, <2>4, <2>5, <2>7 DEF EntryStep, UncertainStep, IsTerminal
  <2>8. CASE entries[o].state \in Uncertain
    <3>1. entries'[o].state \notin Failed
      BY <2>1, <2>2, <2>5, <2>8 DEF EntryStep, VerdictInv, Definitive
    <3>2. /\ entries'[o].state \in Uncertain \cup {"COMMITTED"}
          /\ entries'[o].key = entries[o].key /\ entries'[o].payload = entries[o].payload
          /\ entries'[o].version = entries[o].version
      BY <2>5, <2>8, <3>1 DEF EntryStep, UncertainStep
    <3> QED
      BY <2>3, <2>4, <2>8, <3>2 DEF Uncertain
  <2> QED
    BY <2>4, <2>6, <2>7, <2>8
<1> QED
  BY <1>1 DEF Owned

\* Every step keeps the verdicts right.
LEMMA VerdictNext ==
    ASSUME OInv, VerdictInv, NothingLate, [Next]_vars
    PROVE  VerdictInv'
<1>1. \A o \in Ops : EntryStep(o)
  BY ONext
<1>2. strays = {} /\ Owned
  BY DEF VerdictInv
<1>3. Quiet \/ ServeMoves
  BY <1>2, QuietSteps, HandlerSteps, OtherSteps DEF Next
<1>4. CASE Quiet
  <2>1. Owned'
    BY <1>1, <1>4, OwnedStays DEF Quiet
  <2>2. ASSUME Definitive(answer)', NEW i \in 1..Len(holds') PROVE holds'[i].op # worker'.op
    <3>1. answer' # NoMsg
      BY <2>2, Messages DEF Definitive, Codes
    <3>2. answer' = answer /\ worker' = worker
      BY <1>4, <3>1 DEF Quiet
    <3>3. Definitive(answer)
      BY <2>2, <3>2 DEF Definitive
    <3>4. i \in 1..Len(holds) /\ holds'[i].op = holds[i].op
      BY <1>4, <2>2 DEF Quiet, SameHolds, HoldsKept
    <3> QED
      BY <3>2, <3>3, <3>4 DEF VerdictInv
  <2> QED
    BY <1>4, <2>1, <2>2 DEF VerdictInv, Quiet
<1>5. CASE ServeMoves
  <2>1. PICK r \in Requests :
            /\ wire = r /\ strays' = {} /\ UNCHANGED <<entries, worker>>
            /\ \/ SameHolds /\ ~Definitive(answer')
               \/ SameHolds /\ Outcome(r) # "OK" /\ answer' = [code |-> Outcome(r)]
               \/ ~Known(r) /\ Commit(r) /\ ~Definitive(answer')
    BY <1>5 DEF ServeMoves
  <2>2. SameHolds => Owned'
    BY <1>1, OwnedStays
  <2>3. CASE SameHolds /\ ~Definitive(answer')
    BY <2>1, <2>2, <2>3 DEF VerdictInv, Definitive
  <2>4. CASE SameHolds /\ Outcome(r) # "OK" /\ answer' = [code |-> Outcome(r)]
    <3>1. ASSUME Definitive(answer)', NEW i \in 1..Len(holds') PROVE holds'[i].op # worker'.op
      <4>1. Definitive([code |-> Outcome(r)])
        BY <2>4, <3>1 DEF Definitive
      <4>2. i \in 1..Len(holds) /\ holds'[i].op = holds[i].op
        BY <2>4, <3>1 DEF SameHolds, HoldsKept
      <4> QED
        BY <1>2, <2>1, <2>4, <4>1, <4>2, DefinitiveMeansNone
    <3> QED
      BY <2>1, <2>2, <2>4, <3>1 DEF VerdictInv
  <2>5. CASE ~Known(r) /\ Commit(r) /\ ~Definitive(answer')
    <3>1. /\ HoldsKept /\ Len(holds') = Len(holds) + 1 /\ Len(holds) \in Nat
          /\ holds'[Len(holds) + 1].key = r.key /\ holds'[Len(holds) + 1].op = r.op
          /\ holds'[Len(holds) + 1].payload = r.payload
          /\ holds'[Len(holds) + 1].version = r.version
      BY <2>5, CommitKeeps DEF OInv, OTypes, ServerTypes
    <3>2. worker.pc = "call" /\ worker.sent = r
      BY <2>1, Messages DEF OInv, CallInv
    <3>3. /\ entries[r.op].state = "IN_FLIGHT" /\ entries[r.op].key = r.key
          /\ entries[r.op].payload = r.payload /\ entries[r.op].version = r.version
      BY <3>2 DEF OInv, CallInv
    <3>4. ASSUME NEW i \in 1..Len(holds')
          PROVE  \/ entries'[holds'[i].op].state = "PURGED"
                 \/ /\ entries'[holds'[i].op].state \in Uncertain \cup {"COMMITTED"}
                    /\ entries'[holds'[i].op].key = holds'[i].key
                    /\ entries'[holds'[i].op].payload = holds'[i].payload
                    /\ entries'[holds'[i].op].version = holds'[i].version
      <4>1. CASE i = Len(holds) + 1
        BY <2>1, <3>1, <3>3, <4>1 DEF Uncertain
      <4>2. CASE i # Len(holds) + 1
        <5>1. i \in 1..Len(holds)
          BY <3>1, <4>2
        <5> QED
          BY <1>2, <2>1, <3>1, <5>1 DEF HoldsKept, Owned
      <4> QED
        BY <4>1, <4>2
    <3>5. Owned'
      BY <3>4 DEF Owned
    <3> QED
      BY <2>1, <2>5, <3>5 DEF VerdictInv, Definitive
  <2> QED
    BY <2>1, <2>3, <2>4, <2>5
<1> QED
  BY <1>3, <1>4, <1>5

\* With every abandoned request lost or already served, a database behind every instance
\* and one session, "failed, choose again" means that no attempt left a hold, however many
\* outcomes were unknown before it (worker.go isStaleCode and isPermanentCode).
THEOREM FailedLeavesNoHold ==
    ASSUME MaxStrays = 0, MaxStoreless = 0, MaxRenewals = 0
    PROVE  Spec => []FailedMeansNoHold
<1>1. NothingLate
  BY DEF NothingLate
<1>2. Init => VerdictInv
  BY DEF Init, VerdictInv, Owned, Definitive, NoMsg, StaleCodes, PermanentCodes
<1>3. OInv /\ VerdictInv /\ [Next]_vars => VerdictInv'
  BY <1>1, VerdictNext
<1>4. VerdictInv => FailedMeansNoHold
  BY DEF VerdictInv, Owned, FailedMeansNoHold, Failed, Uncertain
<1> QED
  BY <1>2, <1>3, <1>4, SubmissionInductive, PTL DEF Spec

=============================================================================
