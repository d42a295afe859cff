---------------------------- MODULE VoicePipeline ----------------------------
(***************************************************************************)
(* The voice endpoints of backend/internal/orchestration (Orchestrator's   *)
(* Process, Transcribe and Synthesize), the correlation map, and the       *)
(* resolver of store/scoped.go they read the active package through.       *)
(*                                                                         *)
(* A request is a goroutine.  Each query of the store, each lock section   *)
(* of the correlation map, each call of a worker and each Acquire is a     *)
(* step; what a request computes between two of them is part of the step.  *)
(* There is one jurisdiction and one speech key, so the approvals of a     *)
(* package version are the languages whose row is active, and the rows     *)
(* that were revoked.  A row is unique per version (0008_p6_template_      *)
(* approval.sql), so a revoked language is never approved again.           *)
(* The admission queues are used through AdmissionContract.  A worker's    *)
(* last health flag may have any value, so IsReady is a free choice, as is *)
(* what a worker answers.  Texts and audio are known by their language.    *)
(***************************************************************************)
EXTENDS Integers, FiniteSets, TLC

CONSTANTS
    Requests,       \* requests, each served once
    Ids,            \* correlation ids; a client chooses its own, or gets a fixed default
    Languages,      \* languages the jurisdiction serves
    Reviewed,       \* languages approved at the start
    MaxVersion,     \* versions of its package
    MaxInflight,    \* slots of each stage's queue
    Asked,          \* what each request may ask for
    MaxChanges,     \* bound on the changes of the store
    Templates       \* <<version, language>> pairs whose registered template is usable

VARIABLES
    live,       \* the package version ResolveContext returns, 0 for none
    active,     \* the approved languages of each version
    revoked,    \* the languages of each version whose approval was revoked
    holders,    \* the requests that hold a slot of each stage
    entries,    \* the last generation claimed, per id and stage
    inflight,   \* the generation marked in flight, per id and stage; 0 for none
    at,         \* where each request is
    job,        \* what each request asked, the scoped context it resolved (ver, langs),
                \* and what it has obtained: stage, generation, proposal, audio
    expired,    \* the requests whose context is done
    out,        \* what each request was answered
    changes,    \* changes of the store so far
    fresh       \* history: the request's context was current at some instant since
                \* its last worker call ended

store == <<live, active, revoked, changes>>
correlation == <<entries, inflight>>
voiceVars == <<live, active, revoked, holders, entries, inflight, at, job, expired,
               out, changes, fresh>>

Versions == 1..MaxVersion
Stages == {"asr", "middle", "tts"}

\* What a client may ask.  A speech request names the package version it was told.
Kinds ==
    [kind : {"process"}, id : Ids, lang : Languages, input : {"audio", "transcript"},
     render : {"text", "tts"}, allowed : BOOLEAN]
    \cup [kind : {"transcribe"}, id : Ids]
    \cup [kind : {"speech"}, id : Ids, lang : Languages, names : Versions]

ASSUME VoiceAssumption ==
    /\ MaxVersion \in Nat \ {0} /\ MaxInflight \in Nat \ {0} /\ MaxChanges \in Nat
    /\ Reviewed \subseteq Languages
    /\ Asked \in [Requests -> SUBSET Kinds]
    /\ Templates \subseteq (1..MaxVersion) \X Languages

NoJob == [kind |-> "none", ver |-> 0]

\* A new request: nothing resolved, nothing obtained.
NewJob(k) ==
    LET d == [ver |-> 0, langs |-> {}, gen |-> 0, proposal |-> "none", audio |-> FALSE,
              stage |-> IF k.kind = "speech" THEN "tts" ELSE "asr"]
    IN [x \in DOMAIN k \cup DOMAIN d |-> IF x \in DOMAIN k THEN k[x] ELSE d[x]]

Served == {"answer", "transcript", "clarify"}
Refused == {"unsupported", "unavailable", "stale", "canceled", "rejected"}

\* The request goes on holding what it holds.
Goes(r, where, j) ==
    /\ at' = [at EXCEPT ![r] = where]
    /\ job' = [job EXCEPT ![r] = j]
    /\ UNCHANGED <<holders, expired, out>>

\* The request leaves its stage, whose deferred release frees the slot, and goes on.
Leaves(r, where, j) ==
    /\ at' = [at EXCEPT ![r] = where]
    /\ job' = [job EXCEPT ![r] = j]
    /\ holders' = [s \in Stages |-> holders[s] \ {r}]
    /\ UNCHANGED <<expired, out>>

\* The request is answered.
Ends(r, answer) ==
    /\ at' = [at EXCEPT ![r] = "done"]
    /\ out' = [out EXCEPT ![r] = answer]
    /\ job' = [job EXCEPT ![r] = NoJob]
    /\ holders' = [s \in Stages |-> holders[s] \ {r}]
    /\ expired' = expired \ {r}
-----------------------------------------------------------------------------
\* The three handlers of voice_process.go.  Transcribe needs no context.
HandleTranscriptions(r) ==
    \E k \in {k \in Asked[r] : k.kind = "transcribe"} : Goes(r, "ask", NewJob(k))

HandleProcess(r) ==
    \E k \in {k \in Asked[r] : k.kind = "process"} : Goes(r, "package", NewJob(k))

HandleSpeech(r) ==
    \E k \in {k \in Asked[r] : k.kind = "speech"} : Goes(r, "package", NewJob(k))

\* The checks that read only the request (body, audio, transcript, fields).
Malformed(r) == Ends(r, "unsupported")

Arrive(r) ==
    /\ at[r] = "new"
    /\ HandleTranscriptions(r) \/ HandleProcess(r) \/ HandleSpeech(r) \/ Malformed(r)
    /\ UNCHANGED <<store, correlation>>

\* Resolve, first query: ResolveContext finds the live package or fails.
ResolvePackage(r) ==
    /\ at[r] = "package"
    /\ IF live = 0 \/ r \in expired
       THEN Ends(r, "unavailable")
       ELSE Goes(r, "approvals", [job[r] EXCEPT !.ver = live])
    /\ UNCHANGED <<store, correlation>>

\* Process has its context: it checks the language and goes on to recognition.
ContextForProcess(r, found) ==
    IF job[r].allowed
    THEN Goes(r, IF job[r].input = "audio" THEN "ask" ELSE "claim", found)
    ELSE Ends(r, "unsupported")

\* Synthesize has its context: it checks the version it was given.
ContextForSpeech(r, found) ==
    IF job[r].names = job[r].ver THEN Goes(r, "checkPackage", found) ELSE Ends(r, "stale")

\* Resolve, last query: readApprovedSpeechKeys at the version found.
ResolveApprovals(r) ==
    LET found == [job[r] EXCEPT !.langs = active[job[r].ver]] IN
    /\ at[r] = "approvals"
    /\ \/ r \in expired /\ Ends(r, "unavailable")
       \/ r \notin expired /\ job[r].kind = "process" /\ ContextForProcess(r, found)
       \/ r \notin expired /\ job[r].kind = "speech" /\ ContextForSpeech(r, found)
    /\ UNCHANGED <<store, correlation>>
-----------------------------------------------------------------------------
\* A stage that fails ends the request, except that Process goes on without audio when
\* its synthesis fails, after checking its context again.
StageFails(r, answer) ==
    IF job[r].kind = "process" /\ job[r].stage = "tts"
    THEN Leaves(r, "checkPackage", job[r])
    ELSE Ends(r, answer)

SlotFree(s) == Cardinality(holders[s]) < MaxInflight

\* Acquire grants a slot.
Granted(r) ==
    /\ at[r] = "ask" /\ SlotFree(job[r].stage)
    /\ holders' = [holders EXCEPT ![job[r].stage] = @ \cup {r}]
    /\ at' = [at EXCEPT ![r] = "claim"]
    /\ UNCHANGED <<store, correlation, job, expired, out>>

\* Acquire refuses, when no slot is free, or gives up with the request's context.
NotGranted(r) ==
    /\ at[r] = "ask"
    /\ \/ ~SlotFree(job[r].stage) /\ StageFails(r, "unavailable")
       \/ r \in expired /\ StageFails(r, "canceled")
    /\ UNCHANGED <<store, correlation>>

\* Process was given a transcript: the stage is claimed, marked and consumed without a
\* slot and without a call.
SkipsWorker(r) == job[r].kind = "process" /\ job[r].input = "transcript" /\ job[r].stage = "asr"

\* IsReady is false: the last health probe of the worker failed.
NotReady(r) ==
    /\ at[r] = "claim" /\ ~SkipsWorker(r)
    /\ StageFails(r, "unavailable")
    /\ UNCHANGED <<store, correlation>>

\* CorrelationMap.Claim: the next generation of the id and stage.
Claim(r) ==
    LET i == job[r].id   s == job[r].stage IN
    /\ at[r] = "claim"
    /\ entries' = [entries EXCEPT ![i][s] = @ + 1]
    /\ Goes(r, "mark", [job[r] EXCEPT !.gen = entries[i][s] + 1])
    /\ UNCHANGED <<store, inflight>>

\* CorrelationMap.MarkInflight.  stageTTS then looks for the digest of the language the
\* client asked for, and leaves its mark behind when there is none.
MarkInflight(r) ==
    LET i == job[r].id   s == job[r].stage IN
    /\ at[r] = "mark"
    /\ inflight' = [inflight EXCEPT ![i][s] = job[r].gen]
    /\ IF job[r].kind = "process" /\ s = "tts" /\ job[r].lang \notin job[r].langs
       THEN StageFails(r, "unsupported")
       ELSE Goes(r, "call", job[r])
    /\ UNCHANGED <<store, entries>>

\* Mutation: the call is made without the request's context.
WorkerFailsAlone(r) ==
    /\ at[r] = "call" /\ ~SkipsWorker(r) /\ r \notin expired
    /\ StageFails(r, "unavailable")
    /\ UNCHANGED <<store, correlation>>

\* HTTPWorkerClient returns an error: the worker's, or the context's when it is done.
WorkerFails(r) ==
    /\ at[r] = "call" /\ ~SkipsWorker(r)
    /\ StageFails(r, "unavailable")
    /\ UNCHANGED <<store, correlation>>

\* Transcribe answers with the text.
Transcribed(r) == Ends(r, "transcript")

\* Process asks the citizen again when there is no text, and else asks the middle worker.
Recognised(r) == Ends(r, "clarify") \/ Leaves(r, "ask", [job[r] EXCEPT !.stage = "middle"])

\* stageASR: the worker reports a failure, or a text.
AfterASR(r) ==
    \/ ~SkipsWorker(r) /\ StageFails(r, "unavailable")
    \/ job[r].kind = "transcribe" /\ Transcribed(r)
    \/ job[r].kind = "process" /\ Recognised(r)

\* validateProposal and EnforceScopedContext: the proposal is well formed and has nothing
\* to speak, or its speech key is approved in the snapshot for its language.
Acceptable(r, p) == p = "silent" \/ p \in job[r].langs

\* stageMiddle, and the validators.
AfterMiddle(r) ==
    \E p \in Languages \cup {"silent", "malformed"} :
        IF Acceptable(r, p)
        THEN Leaves(r, "checkPackage", [job[r] EXCEPT !.proposal = p])
        ELSE Ends(r, "rejected")

\* The audio is not a PCM file of the length and settings it declares.
AudioRefused(r) == StageFails(r, "unavailable")

\* stageTTS: the state, the encoding, the checksum and the header of the audio are checked.
AfterTTS(r) == Leaves(r, "checkPackage", [job[r] EXCEPT !.audio = TRUE]) \/ AudioRefused(r)

\* The worker answers in time; CheckAndConsume, and what the stage does with an answer
\* that is still current.
Reply(r) ==
    LET i == job[r].id   s == job[r].stage
        current == inflight[i][s] = job[r].gen IN
    /\ at[r] = "call" /\ (r \notin expired \/ SkipsWorker(r))
    /\ inflight' = IF current THEN [inflight EXCEPT ![i][s] = 0] ELSE inflight
    /\ \/ (current \/ SkipsWorker(r)) /\ s = "asr" /\ AfterASR(r)
       \/ current /\ s = "middle" /\ AfterMiddle(r)
       \/ current /\ s = "tts" /\ AfterTTS(r)
       \/ ~current /\ ~SkipsWorker(r) /\ StageFails(r, "canceled")
    /\ UNCHANGED <<store, entries>>
-----------------------------------------------------------------------------
\* SnapshotRevalidate, first query: the live package must still be the one resolved.
CheckPackage(r) ==
    /\ at[r] = "checkPackage"
    /\ IF live # job[r].ver \/ r \in expired
       THEN Ends(r, "stale")
       ELSE Goes(r, "checkRevoked", job[r])
    /\ UNCHANGED <<store, correlation>>

\* Second query: no approval of an approved key may have been revoked.  A query that
\* fails is passed over.
CheckRevoked(r) ==
    /\ at[r] = "checkRevoked"
    /\ IF job[r].langs # {} /\ revoked[job[r].ver] # {} /\ r \notin expired
       THEN Ends(r, "stale")
       ELSE Goes(r, "checkActive", job[r])
    /\ UNCHANGED <<store, correlation>>

\* stageTemplate: the template of the key and language is usable at the snapshot's version.
Renders(r, l) == l \in job[r].langs /\ <<job[r].ver, l>> \in Templates

\* The ids of the proposal do not fit the template's argument schema: the answer has no text.
ArgumentsMisfit(r) == Ends(r, "answer")

\* Process after a check that held: it renders the proposal, without text when it cannot,
\* and has it spoken when asked to.
ProceedProcess(r) ==
    LET speaks == job[r].stage = "middle" /\ job[r].render = "tts" /\ Renders(r, job[r].proposal)
    IN \/ speaks /\ Goes(r, "ask", [job[r] EXCEPT !.stage = "tts"])
       \/ speaks /\ ArgumentsMisfit(r)
       \/ ~speaks /\ Ends(r, "answer")

\* renderTemplateArgs refuses an argument that is missing, of another type, or unclean.
SpeechArgsMisfit(r) == Ends(r, "unsupported")

\* Synthesize before the call: the approved template is rendered with the checked arguments.
RenderSpeech(r) ==
    \/ Renders(r, job[r].lang) /\ Goes(r, "ask", job[r])
    \/ Renders(r, job[r].lang) /\ SpeechArgsMisfit(r)
    \/ ~Renders(r, job[r].lang) /\ Ends(r, "unsupported")

\* Synthesize after the call.
DeliverSpeech(r) == Ends(r, "answer")

Proceed(r) ==
    \/ job[r].kind = "process" /\ ProceedProcess(r)
    \/ job[r].kind = "speech" /\ ~job[r].audio /\ RenderSpeech(r)
    \/ job[r].kind = "speech" /\ job[r].audio /\ DeliverSpeech(r)

\* Mutation: the approvals are not compared with the snapshot.
CheckActiveSkipped(r) ==
    /\ at[r] = "checkActive"
    /\ Proceed(r)
    /\ UNCHANGED <<store, correlation>>

\* Third query: the active approvals must be those of the snapshot.
CheckActive(r) ==
    /\ at[r] = "checkActive"
    /\ IF active[job[r].ver] # job[r].langs \/ r \in expired
       THEN Ends(r, "stale")
       ELSE Proceed(r)
    /\ UNCHANGED <<store, correlation>>
-----------------------------------------------------------------------------
\* The request's deadline passes or its client goes away.
Deadline(r) ==
    /\ at[r] \notin {"new", "done"} /\ r \notin expired
    /\ expired' = expired \cup {r}
    /\ UNCHANGED <<store, correlation, holders, at, job, out>>

\* The store changes; no request is touched.
Changes ==
    /\ changes < MaxChanges /\ changes' = changes + 1
    /\ UNCHANGED <<holders, correlation, at, job, expired, out>>

\* A later version becomes the live package, or the live one is withdrawn or restored.
PackageChanges ==
    /\ \E v \in 0..MaxVersion : v # live /\ (v > live \/ v = 0) /\ live' = v
    /\ UNCHANGED <<active, revoked>> /\ Changes

\* A reviewer approves a language of a version.
Approve(v, l) ==
    /\ l \notin active[v] \cup revoked[v]
    /\ active' = [active EXCEPT ![v] = @ \cup {l}]
    /\ UNCHANGED <<live, revoked>> /\ Changes

\* A reviewer revokes an approval.
Revoke(v, l) ==
    /\ l \in active[v]
    /\ active' = [active EXCEPT ![v] = @ \ {l}]
    /\ revoked' = [revoked EXCEPT ![v] = @ \cup {l}]
    /\ UNCHANGED live /\ Changes
-----------------------------------------------------------------------------
VoiceInit ==
    /\ live = 1
    /\ active = [v \in Versions |-> Reviewed]
    /\ revoked = [v \in Versions |-> {}]
    /\ holders = [s \in Stages |-> {}]
    /\ entries = [i \in Ids |-> [s \in Stages |-> 0]]
    /\ inflight = [i \in Ids |-> [s \in Stages |-> 0]]
    /\ at = [r \in Requests |-> "new"]
    /\ job = [r \in Requests |-> NoJob]
    /\ expired = {} /\ changes = 0
    /\ out = [r \in Requests |-> "none"]
    /\ fresh = [r \in Requests |-> FALSE]

\* r is past its last worker call, its package is live and its approvals are active.
Remember ==
    fresh' = [r \in Requests |->
        IF at'[r] = "done" THEN fresh[r]
        ELSE /\ at'[r] \notin {"new", "package", "approvals", "call"}
             /\ \/ fresh[r]
                \/ live' # 0 /\ live' = job'[r].ver /\ job'[r].langs \subseteq active'[live']]

\* The steps of a request that the scheduler owes it.
Serve(r) ==
    \/ ResolvePackage(r) \/ ResolveApprovals(r) \/ Granted(r) \/ Claim(r) \/ MarkInflight(r)
    \/ CheckPackage(r) \/ CheckRevoked(r) \/ CheckActive(r) \/ (SkipsWorker(r) /\ Reply(r))

VoiceNext ==
    /\ \/ \E r \in Requests : \/ Arrive(r) \/ Serve(r) \/ NotGranted(r) \/ NotReady(r)
                              \/ Reply(r) \/ WorkerFails(r) \/ Deadline(r)
       \/ PackageChanges
       \/ \E v \in Versions, l \in Languages : Approve(v, l) \/ Revoke(v, l)
    /\ Remember

VoiceSpec == VoiceInit /\ [][VoiceNext]_voiceVars

\* Goroutines run, every request has a deadline (Limits.TotalDeadline, StageDeadline), and
\* both Acquire and the worker's client return once it has passed.
VoiceFairness ==
    \A r \in Requests :
        /\ WF_voiceVars(/\ Serve(r) \/ (r \in expired /\ (NotGranted(r) \/ WorkerFails(r)))
                        /\ Remember)
        /\ WF_voiceVars(Deadline(r) /\ Remember)

LiveVoiceSpec == VoiceSpec /\ VoiceFairness
-----------------------------------------------------------------------------
\* The values the pipeline's state takes.
VoiceTypeOK ==
    /\ live \in 0..MaxVersion
    /\ active \in [Versions -> SUBSET Languages] /\ revoked \in [Versions -> SUBSET Languages]
    /\ holders \in [Stages -> SUBSET Requests]
    /\ entries \in [Ids -> [Stages -> Nat]] /\ inflight \in [Ids -> [Stages -> Nat]]
    /\ \A r \in Requests : job[r].ver \in 0..MaxVersion
    /\ out \in [Requests -> {"none"} \cup Served \cup Refused]
    /\ fresh \in [Requests -> BOOLEAN]

\* What a citizen is shown or told was still in force after inference: at some instant
\* since the last worker call of the request ended, its package was the live one and
\* every approval it was checked against was active.  SnapshotRevalidate reads
\* them with three queries, between which the store may change.
DeliveredIsCurrent == \A r \in Requests : out[r] = "answer" => fresh[r]

\* Every request is answered, whatever the workers, the queues and the store do.
EveryRequestAnswered == \A r \in Requests : at[r] # "new" ~> at[r] = "done"
=============================================================================
