----------------------------- MODULE WorkerPool -----------------------------
(***************************************************************************)
(* The bounded job pools of the three model workers: asrworker, ttsworker  *)
(* and middleworker (worker.go and the HTTP handlers of server.go).  A     *)
(* handler passes the readiness gate, puts its job on a buffered channel   *)
(* without blocking, and waits for the answer or for the end of its        *)
(* context; a fixed set of goroutines takes jobs until the channel is      *)
(* closed and empty.  The workers differ in their gates, in what a caller  *)
(* does when its context ends, and in the order of their shutdown steps;   *)
(* "kind" says which worker this is.                                       *)
(*                                                                         *)
(* Audio, prompts and cache identities are left out (SpeechCache has the   *)
(* TTS lookup).  A send on a closed channel panics; net/http recovers the  *)
(* panic and drops the connection, so the call ends with "panic".  The     *)
(* counters of the metrics are left out.                                   *)
(***************************************************************************)
EXTENDS Integers, Sequences

CONSTANTS PoolCalls,   \* requests of the HTTP handlers
          PoolWorkers, \* pool goroutines (MaxInFlight)
          PoolDepth    \* capacity of the job channel (QueueDepth)

ASSUME PoolAssumption ==
  /\ PoolDepth \in Nat \ {0}
  /\ PoolWorkers # {}
  /\ PoolCalls \cap {"start", "idle", "exited"} = {}

VARIABLES
  kind,      \* "asr" | "tts" | "middle"
  ready,     \* the ready flag
  shutFlag,  \* closed of the TTS worker; the others have no such flag
  chanOpen,  \* the job channel is open
  jobs,      \* its content
  modelOpen, \* the runtime is open
  pool,      \* each goroutine: "start", "idle", "exited" or the job it runs
  dispatch,  \* each call: "idle" | "gated" | "waiting" | "returned"
  ended,     \* the calls whose context has ended
  answer,    \* the content of each call's answer channel
  outcome,   \* what the handler answered each call
  shutStep   \* how many shutdown steps are done

poolVars == << kind, ready, shutFlag, chanOpen, jobs, modelOpen, pool, dispatch,
               ended, answer, outcome, shutStep >>

\* What the handlers answer before they reach the worker: credentials, method,
\* body limit, decoding, required fields and, for ASR, the audio itself.  The TTS
\* server answers DRAINING once its Cancel has begun.
AsrRefusals == {"UNAUTHORIZED", "METHOD", "BODY_TOO_LARGE", "BAD_REQUEST",
                "AUDIO_UNAVAILABLE"}
TtsRefusals == {"UNAUTHORIZED", "METHOD", "DRAINING", "BODY_TOO_LARGE", "BAD_REQUEST"}
MiddleRefusals == {"UNAUTHORIZED", "METHOD", "MALFORMED"}
Refusals(k) == CASE k = "asr" -> AsrRefusals
                 [] k = "tts" -> TtsRefusals
                 [] k = "middle" -> MiddleRefusals

\* How the handlers put the worker's outcome on the wire.  INTERRUPTED is TIMEOUT or
\* CANCELED, by the error of the context, which the pool may also hand back as its answer;
\* FAILED is whichever state the runtime's error maps to; UNSPOKEN is a typed answer of the
\* TTS pool: AUDIO_UNAVAILABLE, STALE_VERSION or UNSUPPORTED_LANGUAGE.
AsrReply(o) ==
  CASE o = "ok" -> "OK" [] o \in {"canceled", "interrupted"} -> "INTERRUPTED"
    [] o = "panic" -> "dropped" [] o = "language" -> "UNSUPPORTED_LANGUAGE"
    [] OTHER -> "UNAVAILABLE"
TtsReply(o) ==
  CASE o = "ok" -> "OK" [] o = "error" -> "UNSPOKEN" [] o = "panic" -> "dropped"
    [] OTHER -> "UNAVAILABLE"
MiddleReply(o) ==
  CASE o = "ok" -> "OK" [] o = "canceled" -> "INTERRUPTED" [] o = "panic" -> "dropped"
    [] o = "error" -> "FAILED" [] OTHER -> "UNAVAILABLE"
OnWire(k, o) == CASE k = "asr" -> AsrReply(o)
                  [] k = "tts" -> TtsReply(o)
                  [] k = "middle" -> MiddleReply(o)

Outcomes == AsrRefusals \cup TtsRefusals \cup MiddleRefusals
              \cup {"none", "OK", "INTERRUPTED", "UNSUPPORTED_LANGUAGE", "FAILED",
                    "UNSPOKEN", "UNAVAILABLE", "dropped"}

PoolTypeOK ==
  /\ kind \in {"asr", "tts", "middle"}
  /\ ready \in BOOLEAN /\ shutFlag \in BOOLEAN /\ chanOpen \in BOOLEAN
  /\ jobs \in Seq(PoolCalls) /\ Len(jobs) <= PoolDepth
  /\ modelOpen \in BOOLEAN
  /\ pool \in [PoolWorkers -> {"start", "idle", "exited"} \cup PoolCalls]
  /\ dispatch \in [PoolCalls -> {"idle", "gated", "waiting", "returned"}]
  /\ ended \subseteq PoolCalls
  /\ answer \in [PoolCalls -> {"none", "ok", "error", "interrupted"}]
  /\ outcome \in [PoolCalls -> Outcomes]
  /\ shutStep \in 0..5

\* The ASR and TTS pools start with the worker; the middle pool is started by
\* LoadAndVerify.  The TTS worker is ready from New on.
PoolInit ==
  /\ kind \in {"asr", "tts", "middle"}
  /\ ready = (kind = "tts")
  /\ shutFlag = FALSE /\ chanOpen = TRUE /\ jobs = << >> /\ modelOpen = TRUE
  /\ pool = [w \in PoolWorkers |-> IF kind = "middle" THEN "start" ELSE "idle"]
  /\ dispatch = [c \in PoolCalls |-> "idle"]
  /\ ended = {}
  /\ answer = [c \in PoolCalls |-> "none"]
  /\ outcome = [c \in PoolCalls |-> "none"]
  /\ shutStep = 0

\* LoadAndVerify: the inventory, revision, digest and languages are there.  The
\* program entry calls it once, before it serves.
AsrLoad ==
  /\ kind = "asr" /\ ready' = TRUE /\ UNCHANGED pool
MiddleLoad ==
  /\ kind = "middle" /\ ready' = TRUE /\ pool' = [w \in PoolWorkers |-> "idle"]
LoadAndVerify ==
  /\ ~ready /\ shutStep = 0
  /\ AsrLoad \/ MiddleLoad
  /\ UNCHANGED << kind, shutFlag, chanOpen, jobs, modelOpen, dispatch, ended,
                  answer, outcome, shutStep >>

------------------------------------------------------------------------------
PoolReturn(c, o) ==
  /\ dispatch' = [dispatch EXCEPT ![c] = "returned"]
  /\ outcome' = [outcome EXCEPT ![c] = OnWire(kind, o)]

\* A request that never reaches the worker.
HandlerRefuses(c) ==
  /\ dispatch[c] = "idle"
  /\ \E o \in Refusals(kind) : outcome' = [outcome EXCEPT ![c] = o]
  /\ dispatch' = [dispatch EXCEPT ![c] = "returned"]
  /\ UNCHANGED << kind, ready, shutFlag, chanOpen, jobs, modelOpen, pool, ended,
                  answer, shutStep >>

\* What refuses a call before it reaches the queue.  ASR's isShutdown needs an
\* inventory that was never scanned, which LoadAndVerify does not accept.
TtsGate == IF shutFlag THEN "shutdown" ELSE IF ~ready THEN "not_ready" ELSE "ok"
AsrGate == IF ~ready THEN "not_ready" ELSE "ok"
MiddleGate(c) == IF c \in ended THEN "canceled" ELSE IF ~ready THEN "not_ready" ELSE "ok"
Gate(c) == CASE kind = "tts" -> TtsGate
             [] kind = "asr" -> AsrGate
             [] kind = "middle" -> MiddleGate(c)

\* ASR and middle then refuse a language the runtime does not have.
PassGate(c) ==
  /\ dispatch[c] = "idle"
  /\ \/ /\ Gate(c) = "ok"
        /\ dispatch' = [dispatch EXCEPT ![c] = "gated"] /\ UNCHANGED outcome
     \/ Gate(c) = "ok" /\ kind # "tts" /\ PoolReturn(c, "language")
     \/ Gate(c) # "ok" /\ PoolReturn(c, Gate(c))
  /\ UNCHANGED << kind, ready, shutFlag, chanOpen, jobs, modelOpen, pool, ended,
                  answer, shutStep >>

\* The non-blocking send; ASR and middle also select on their context.
Enqueue(c) ==
  /\ dispatch[c] = "gated"
  /\ \/ /\ ~chanOpen
        /\ PoolReturn(c, "panic") /\ UNCHANGED jobs
     \/ /\ chanOpen /\ Len(jobs) < PoolDepth
        /\ jobs' = Append(jobs, c)
        /\ dispatch' = [dispatch EXCEPT ![c] = "waiting"] /\ UNCHANGED outcome
     \/ /\ chanOpen /\ Len(jobs) = PoolDepth
        /\ PoolReturn(c, "saturated") /\ UNCHANGED jobs
     \/ /\ kind # "tts" /\ c \in ended
        /\ PoolReturn(c, "canceled") /\ UNCHANGED jobs
  /\ UNCHANGED << kind, ready, shutFlag, chanOpen, modelOpen, pool, ended, answer,
                  shutStep >>

\* The deadline of a request passes or its client goes away.  A TTS request may
\* carry no deadline: nothing makes this happen.
ContextEnds(c) ==
  /\ dispatch[c] # "returned" /\ c \notin ended
  /\ ended' = ended \cup {c}
  /\ UNCHANGED << kind, ready, shutFlag, chanOpen, jobs, modelOpen, pool, dispatch,
                  answer, outcome, shutStep >>

AnswerArrives(c) ==
  /\ dispatch[c] = "waiting" /\ answer[c] # "none"
  /\ PoolReturn(c, answer[c])
  /\ UNCHANGED << kind, ready, shutFlag, chanOpen, jobs, modelOpen, pool, ended,
                  answer, shutStep >>

\* The context ends first: ASR and TTS leave at once (their answer channel is
\* buffered), middle waits for the pool's answer and drops it.
Abandon(c) ==
  /\ dispatch[c] = "waiting" /\ c \in ended
  /\ kind = "middle" => answer[c] # "none"
  /\ PoolReturn(c, "canceled")
  /\ UNCHANGED << kind, ready, shutFlag, chanOpen, jobs, modelOpen, pool, ended,
                  answer, shutStep >>

------------------------------------------------------------------------------
Take(w) ==
  /\ pool[w] = "idle" /\ jobs # << >>
  /\ pool' = [pool EXCEPT ![w] = Head(jobs)]
  /\ jobs' = Tail(jobs)
  /\ UNCHANGED << kind, ready, shutFlag, chanOpen, modelOpen, dispatch, ended,
                  answer, outcome, shutStep >>

\* What a job comes to.  A closed runtime fails an ASR job; a context that ended fails it
\* before the runtime is called, with the context's own error, or while it runs.  A TTS job
\* is looked up in the cache, never synthesised: it is refused, missing or found.  A middle
\* job is one call of the model server, with no retry; its timeouts, status codes, truncated
\* and undecodable answers are all errors here.
AsrVerdicts(c) ==
  {"error"} \cup (IF c \in ended THEN {"interrupted"} ELSE {})
            \cup (IF modelOpen THEN {"ok"} ELSE {})
TtsVerdicts == {"ok", "error"}
MiddleVerdicts == {"ok", "error"}
Verdicts(c) == CASE kind = "asr" -> AsrVerdicts(c)
                 [] kind = "tts" -> TtsVerdicts
                 [] kind = "middle" -> MiddleVerdicts

\* Mutation: a job whose caller has left is dropped without an answer.
HandleSkipsEnded(w) ==
  /\ pool[w] \in PoolCalls
  /\ IF pool[w] \in ended THEN UNCHANGED answer
     ELSE \E v \in Verdicts(pool[w]) : answer' = [answer EXCEPT ![pool[w]] = v]
  /\ pool' = [pool EXCEPT ![w] = "idle"]
  /\ UNCHANGED << kind, ready, shutFlag, chanOpen, jobs, modelOpen, dispatch, ended,
                  outcome, shutStep >>

\* handleJob, handle: the job is answered into its buffered channel.
Handle(w) ==
  /\ pool[w] \in PoolCalls
  /\ \E v \in Verdicts(pool[w]) : answer' = [answer EXCEPT ![pool[w]] = v]
  /\ pool' = [pool EXCEPT ![w] = "idle"]
  /\ UNCHANGED << kind, ready, shutFlag, chanOpen, jobs, modelOpen, dispatch, ended,
                  outcome, shutStep >>

\* Mutation: a closed channel ends the loop at once.
ExitAtOnce(w) ==
  /\ pool[w] = "idle" /\ ~chanOpen
  /\ pool' = [pool EXCEPT ![w] = "exited"]
  /\ UNCHANGED << kind, ready, shutFlag, chanOpen, jobs, modelOpen, dispatch, ended,
                  answer, outcome, shutStep >>

\* The range over the channel ends when it is closed and empty.
Exit(w) ==
  /\ pool[w] = "idle" /\ ~chanOpen /\ jobs = << >>
  /\ pool' = [pool EXCEPT ![w] = "exited"]
  /\ UNCHANGED << kind, ready, shutFlag, chanOpen, jobs, modelOpen, dispatch, ended,
                  answer, outcome, shutStep >>

------------------------------------------------------------------------------
\* Shutdown, once; its steps in the order of each worker's code.
TtsShutdown == << "flag", "close", "drain", "model", "unready" >>
AsrShutdown == << "close", "model", "unready", "drain" >>
MiddleShutdown == << "unready", "close", "drain" >>
Steps == CASE kind = "tts" -> TtsShutdown
           [] kind = "asr" -> AsrShutdown
           [] kind = "middle" -> MiddleShutdown

PoolDrained == \A w \in PoolWorkers : pool[w] \in {"exited", "start"}

Shutdown ==
  /\ shutStep < Len(Steps)
  /\ LET step == Steps[shutStep + 1] IN
       /\ step = "drain" => PoolDrained
       /\ shutFlag' = (shutFlag \/ step = "flag")
       /\ chanOpen' = (chanOpen /\ step # "close")
       /\ modelOpen' = (modelOpen /\ step # "model")
       /\ ready' = (ready /\ step # "unready")
  /\ shutStep' = shutStep + 1
  /\ UNCHANGED << kind, jobs, pool, dispatch, ended, answer, outcome >>

PoolNext ==
  \/ LoadAndVerify \/ Shutdown
  \/ \E c \in PoolCalls : \/ HandlerRefuses(c) \/ PassGate(c) \/ Enqueue(c)
                          \/ ContextEnds(c) \/ AnswerArrives(c) \/ Abandon(c)
  \/ \E w \in PoolWorkers : Take(w) \/ Handle(w) \/ Exit(w)

\* The goroutines run; nothing makes a context end or a shutdown begin.
PoolFairness ==
  /\ \A c \in PoolCalls : /\ WF_poolVars(Enqueue(c))
                          /\ WF_poolVars(AnswerArrives(c) \/ Abandon(c))
  /\ \A w \in PoolWorkers : WF_poolVars(Take(w) \/ Handle(w) \/ Exit(w))
  /\ WF_poolVars(shutStep > 0 /\ Shutdown)

PoolSpec == PoolInit /\ [][PoolNext]_poolVars
LivePoolSpec == PoolSpec /\ PoolFairness

------------------------------------------------------------------------------
\* Shutdown reports the pool drained only when every job that was ever admitted
\* has its answer, whatever was queued when the channel was closed and in
\* whichever order the worker's steps come (Shutdown, runWorker).
DrainedIsAnswered ==
  \A i \in 1..shutStep : Steps[i] = "drain" =>
    /\ jobs = << >>
    /\ \A c \in PoolCalls : dispatch[c] = "waiting" => answer[c] # "none"

\* Every call that passed the gate returns, with or without a deadline, also the
\* middle worker's caller that waits for an answer it will drop, and a shutdown
\* that began comes to its end (Dispatch, Synthesize, Shutdown).
EveryDispatchReturns ==
  /\ \A c \in PoolCalls : dispatch[c] = "gated" ~> dispatch[c] = "returned"
  /\ shutStep = 1 ~> shutStep = Len(Steps)
==============================================================================
