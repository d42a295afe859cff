---- MODULE MCVoiceSide ----
(***************************************************************************)
(* The parts of the voice service, one behaviour each: the constant-in-    *)
(* time variable machine, chosen initially, says which part moves; the     *)
(* variables of the others keep their initial values.  The parts share no  *)
(* variables, so the run checks each part exactly as a run of its own      *)
(* would.  Their composition is in VoicePipeline, which uses the queues    *)
(* through AdmissionContract.                                              *)
(***************************************************************************)
EXTENDS VoicePipeline, BoundedQueue, CircuitBreaker, AdapterIpc, WorkerPool, TLC

VARIABLE machine

Parts == {"pipeline", "queue", "breaker", "ipc", "pool"}

voiceSideVars == <<machine, voiceVars, queueVars, breakerVars, ipcVars, poolVars>>

VoiceSideInit ==
  /\ machine \in Parts
  /\ VoiceInit /\ QueueInit /\ BreakerInit /\ IpcInit
  /\ IF machine = "pool" THEN PoolInit ELSE PoolInit /\ kind = "asr"

Pipeline == VoiceNext /\ UNCHANGED <<queueVars, breakerVars, ipcVars, poolVars>>
Queue == QueueNext /\ UNCHANGED <<voiceVars, breakerVars, ipcVars, poolVars>>
Breaker == BreakerNext /\ UNCHANGED <<voiceVars, queueVars, ipcVars, poolVars>>
Ipc == IpcNext /\ UNCHANGED <<voiceVars, queueVars, breakerVars, poolVars>>
Pool == PoolNext /\ UNCHANGED <<voiceVars, queueVars, breakerVars, ipcVars>>

VoiceSideNext ==
  /\ \/ machine = "pipeline" /\ Pipeline
     \/ machine = "queue" /\ Queue
     \/ machine = "breaker" /\ Breaker
     \/ machine = "ipc" /\ Ipc
     \/ machine = "pool" /\ Pool
  /\ UNCHANGED machine

(* The fairness that each part's own specification states, for the part    *)
(* that moves.                                                             *)
VoiceSideFairness ==
  /\ \A r \in Requests :
       /\ WF_voiceVars(/\ machine = "pipeline"
                       /\ Serve(r) \/ (r \in expired /\ (NotGranted(r) \/ WorkerFails(r)))
                       /\ Remember)
       /\ WF_voiceVars(machine = "pipeline" /\ Deadline(r) /\ Remember)
  /\ \A c \in QueueCalls :
       /\ WF_queueVars(machine = "queue" /\ Run(c))
       /\ WF_queueVars(machine = "queue" /\ ContextDone(c))
  /\ WF_breakerVars(machine = "breaker" /\ BreakerTick)
  /\ \A c \in Callers : WF_breakerVars(machine = "breaker" /\ CallAnswered(c))
  /\ WF_breakerVars(machine = "breaker" /\ \E c \in Callers : Execute(c))
  /\ \A s \in Sender :
       /\ WF_ipcVars(machine = "ipc" /\ WriteStdin(s))
       /\ WF_ipcVars(machine = "ipc" /\ WriteFails(s))
       /\ WF_ipcVars(machine = "ipc" /\ (WriteReturns(s) \/ WriteDeadline(s)))
       /\ WF_ipcVars(machine = "ipc" /\ Unwound(s))
       /\ WF_ipcVars(machine = "ipc" /\ (Answered(s) \/ GivesUp(s)))
  /\ WF_ipcVars(machine = "ipc" /\ child = "dead" /\ ReadEnds)
  /\ WF_ipcVars(machine = "ipc" /\ result[Loader] = ErrorLine /\ Close)
  /\ WF_ipcVars(machine = "ipc" /\ CloseKills)
  /\ WF_ipcVars(machine = "ipc" /\ CloseReturns)
  /\ \A c \in PoolCalls :
       /\ WF_poolVars(machine = "pool" /\ Enqueue(c))
       /\ WF_poolVars(machine = "pool" /\ (AnswerArrives(c) \/ Abandon(c)))
  /\ \A w \in PoolWorkers : WF_poolVars(machine = "pool" /\ (Take(w) \/ Handle(w) \/ Exit(w)))
  /\ WF_poolVars(machine = "pool" /\ shutStep > 0 /\ Shutdown)

VoiceSideSpec == VoiceSideInit /\ [][VoiceSideNext]_voiceSideVars /\ VoiceSideFairness

----
MCTemplates == {1} \X Languages
Ask(l, in, re, al) ==
  [kind |-> "process", id |-> "i1", lang |-> l, input |-> in, render |-> re, allowed |-> al]
MCAsked ==
  "r1" :> {Ask("l1", "audio", "tts", TRUE), Ask("l2", "transcript", "text", FALSE),
           [kind |-> "speech", id |-> "i1", lang |-> "l1", names |-> 1]}
  @@ "r2" :> {[kind |-> "transcribe", id |-> "i1"]}
MCIdOf == [c \in IpcCalls |-> "i1"]
====
