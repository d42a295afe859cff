----------------------------- MODULE AdapterIpc -----------------------------
(***************************************************************************)
(* The JSON-lines dispatcher between a worker and its model subprocess     *)
(* (asrworker/runtime_ipc.go; ttsworker/runtime_adapter.go runs the same   *)
(* protocol).  Callers register a reply channel under their request id,    *)
(* write one line to the child's stdin in a goroutine of its own, and wait *)
(* for the reader goroutine (runDemux) to hand them the answer.  The child *)
(* is external: it may stop draining its input, answer late, twice or      *)
(* never, print garbage, or die.                                           *)
(*                                                                         *)
(* Every section under d.mu is one step.  A reply channel is buffered (1). *)
(* The bytes of requests and answers are left out: an answer is the call   *)
(* it answers, and the reader sees of it only the id.  The stdout pipe is not kept: a line the reader takes is    *)
(* any line the child may have written, also after it was killed.          *)
(***************************************************************************)
EXTENDS Integers, FiniteSets

CONSTANTS IpcCalls,     \* calls of SendRequest
          IpcIds,    \* request ids
          IdOf       \* the id each call uses ([IpcCalls -> IpcIds])

VARIABLES
  child,     \* "none" | "alive" | "dead": the subprocess
  reader,    \* "none" | "running" | "exited": the runDemux goroutine
  pending,   \* registered reply channels: id -> call; Startup -> Loader
  inbox,     \* content of each reply channel: NoLine, ErrorLine or a call
  demuxErr,  \* d.demuxErr is set
  closed,    \* d.closed (d.stdin is nil exactly then)
  writer,    \* the write goroutine of each call
  received,  \* the calls whose line the child has read
  caller,    \* where each call, the loader and the closer stand
  result     \* what each call returned

ipcVars == << child, reader, pending, inbox, demuxErr, closed, writer,
              received, caller, result >>

Startup  == "__startup__"
Loader   == "loader"
Closer   == "closer"
NoLine   == "none"
ErrorLine == "error"
Sender   == IpcCalls \cup {Loader}

\* Calls may share an id: it comes from the client, or is a default, and nobody checks that it
\* is unique.  It is not the key under which the startup probe is registered.
ASSUME IpcAssumption ==
  /\ IdOf \in [IpcCalls -> IpcIds]
  /\ Startup \notin IpcIds
  /\ IpcCalls \cap {Loader, Closer, NoLine, ErrorLine} = {}

IpcTypeOK ==
  /\ child \in {"none", "alive", "dead"}
  /\ reader \in {"none", "running", "exited"}
  /\ DOMAIN pending \subseteq IpcIds \cup {Startup}
  /\ \A id \in DOMAIN pending : pending[id] \in Sender
  /\ inbox \in [Sender -> Sender \cup {NoLine, ErrorLine}]
  /\ demuxErr \in BOOLEAN /\ closed \in BOOLEAN
  /\ writer \in [Sender -> {"none", "writing", "written", "failed"}]
  /\ received \subseteq Sender
  /\ caller \in [Sender \cup {Closer} ->
                   {"idle", "registered", "writing", "unwinding", "waiting",
                    "killing", "draining", "done"}]
  /\ result \in [Sender -> Sender \cup {NoLine, ErrorLine}]

IpcInit ==
  /\ child = "none" /\ reader = "none"
  /\ pending = << >>
  /\ inbox = [s \in Sender |-> NoLine]
  /\ demuxErr = FALSE /\ closed = FALSE
  /\ writer = [s \in Sender |-> "none"]
  /\ received = {}
  /\ caller = [s \in Sender \cup {Closer} |-> "idle"]
  /\ result = [s \in Sender |-> NoLine]

Without(f, id) == [k \in DOMAIN f \ {id} |-> f[k]]
Key(s) == IF s = Loader THEN Startup ELSE IdOf[s]

\* Every registered channel gets an error unless it is full already.
Drained == [s \in Sender |->
              IF (\E id \in DOMAIN pending : pending[id] = s) /\ inbox[s] = NoLine
              THEN ErrorLine ELSE inbox[s]]

\* Mutation: the child goes on.
MarkUncertainLeavesChild ==
  /\ demuxErr' = TRUE /\ inbox' = Drained /\ pending' = << >>
  /\ UNCHANGED child

\* markUncertain: the error is recorded, everyone registered is released, and
\* the child is killed.
MarkUncertain ==
  /\ demuxErr' = TRUE /\ inbox' = Drained /\ pending' = << >>
  /\ child' = "dead"

\* The call returns; "deregister" deletes whatever is registered under its id.
Returns(s, answer) ==
  /\ caller' = [caller EXCEPT ![s] = "done"]
  /\ result' = [result EXCEPT ![s] = answer]

------------------------------------------------------------------------------
\* loadIPCRuntime up to the write: the child is started, and the startup channel
\* registered before the reader runs.
LoadRuntime ==
  /\ caller[Loader] = "idle"
  /\ child' = "alive" /\ reader' = "running"
  /\ pending' = [id \in {Startup} |-> Loader]
  /\ caller' = [caller EXCEPT ![Loader] = "registered"]
  /\ UNCHANGED << inbox, demuxErr, closed, writer, received, result >>

\* SendRequest up to the write.  The checks and the registration are one
\* section under the mutex.  The entry of another call under the same id is lost.
SendRequest(c) ==
  /\ caller[c] = "idle" /\ caller[Loader] = "done" /\ result[Loader] = Loader
  /\ IF closed \/ demuxErr
     THEN Returns(c, ErrorLine) /\ UNCHANGED pending
     ELSE /\ pending' = [id \in DOMAIN pending \cup {IdOf[c]} |->
                            IF id = IdOf[c] THEN c ELSE pending[id]]
          /\ caller' = [caller EXCEPT ![c] = "registered"]
          /\ UNCHANGED result
  /\ UNCHANGED << child, reader, inbox, demuxErr, closed, writer, received >>

\* writeStdin: refused when closed, else the write goroutine starts.  The
\* write of a caller that gives up goes on without it.
WriteStdin(s) ==
  /\ caller[s] = "registered"
  /\ IF closed
     THEN Returns(s, ErrorLine) /\ pending' = Without(pending, Key(s)) /\ UNCHANGED writer
     ELSE /\ caller' = [caller EXCEPT ![s] = "writing"]
          /\ writer' = [writer EXCEPT ![s] = "writing"]
          /\ UNCHANGED << pending, result >>
  /\ UNCHANGED << child, reader, inbox, demuxErr, closed, received >>

\* The child drains its input: it need not.
ChildReads(s) ==
  /\ writer[s] = "writing" /\ child = "alive"
  /\ writer' = [writer EXCEPT ![s] = "written"]
  /\ received' = received \cup {s}
  /\ UNCHANGED << child, reader, pending, inbox, demuxErr, closed, caller, result >>

\* A write to a dead child, or to a pipe Close has closed, fails.
WriteFails(s) ==
  /\ writer[s] = "writing"
  /\ child = "dead"
  /\ writer' = [writer EXCEPT ![s] = "failed"]
  /\ UNCHANGED << child, reader, pending, inbox, demuxErr, closed, received, caller, result >>

\* The write came back to its caller in time.
WriteReturns(s) ==
  /\ caller[s] = "writing"
  /\ \/ /\ writer[s] = "written"
        /\ caller' = [caller EXCEPT ![s] = "waiting"]
        /\ UNCHANGED << child, pending, inbox, demuxErr, result >>
     \/ /\ writer[s] = "failed"
        /\ MarkUncertain
        /\ Returns(s, ErrorLine)
  /\ UNCHANGED << reader, closed, writer, received >>

\* The budget ends while the child does not drain: the child is killed and the
\* caller waits for its write goroutine to fail.
WriteDeadline(s) ==
  /\ caller[s] = "writing"
  /\ MarkUncertain
  /\ caller' = [caller EXCEPT ![s] = "unwinding"]
  /\ UNCHANGED << reader, closed, writer, received, result >>

Unwound(s) ==
  /\ caller[s] = "unwinding" /\ writer[s] \in {"written", "failed"}
  /\ pending' = Without(pending, Key(s))
  /\ Returns(s, ErrorLine)
  /\ UNCHANGED << child, reader, inbox, demuxErr, closed, writer, received >>

\* The answer arrives.  The released channels carry no request id, so their
\* error fails the round-trip check; a load whose probe is answered with another
\* status than "ready" fails like one that times out.
Answered(s) ==
  /\ caller[s] = "waiting" /\ inbox[s] # NoLine
  /\ Returns(s, inbox[s])
  /\ UNCHANGED << child, reader, pending, inbox, demuxErr, closed, writer, received >>

\* The response timer ends, or the caller's context does, also while it is
\* still writing; the loader passes no context.
GivesUp(s) ==
  /\ caller[s] = "waiting" \/ (caller[s] = "writing" /\ s # Loader)
  /\ pending' = Without(pending, Key(s))
  /\ Returns(s, ErrorLine)
  /\ UNCHANGED << child, reader, inbox, demuxErr, closed, writer, received >>

------------------------------------------------------------------------------
\* runDemux takes an answer: the entry under its id is removed and its channel
\* filled; without an entry the line is discarded.  The probe's answer carries
\* no id and is only valid while the startup entry is there.
ReadAnswer(s) ==
  /\ reader = "running" /\ s \in received
  /\ Key(s) \in DOMAIN pending
  /\ LET to == pending[Key(s)] IN
       inbox' = IF inbox[to] = NoLine THEN [inbox EXCEPT ![to] = s] ELSE inbox
  /\ pending' = Without(pending, Key(s))
  /\ UNCHANGED << child, reader, demuxErr, closed, writer, received, caller, result >>

\* A malformed line, or one without an id after startup: the streams are out of
\* step, so everyone is released, the child killed and the reader stops.
ReadGarbage ==
  /\ reader = "running" /\ child = "alive"
  /\ MarkUncertain
  /\ reader' = "exited"
  /\ UNCHANGED << closed, writer, received, caller, result >>

\* End of stdout, or a line beyond the scanner's buffer while the child lives:
\* the deferred cleanup drains the registered channels; nobody kills the child.
ReadEnds ==
  /\ reader = "running"
  /\ reader' = "exited" /\ demuxErr' = TRUE
  /\ inbox' = Drained /\ pending' = << >>
  /\ UNCHANGED << child, closed, writer, received, caller, result >>

ChildDies ==
  /\ child = "alive" /\ child' = "dead"
  /\ UNCHANGED << reader, pending, inbox, demuxErr, closed, writer, received, caller, result >>

\* Close: the flag, a shutdown line bounded to a second, kill and reap, and
\* then the reader.  A load that failed closes the dispatcher itself.
Close ==
  /\ caller[Closer] = "idle" /\ caller[Loader] = "done"
  /\ closed' = TRUE
  /\ caller' = [caller EXCEPT ![Closer] = "killing"]
  /\ UNCHANGED << child, reader, pending, inbox, demuxErr, writer, received, result >>

CloseKills ==
  /\ caller[Closer] = "killing"
  /\ child' = "dead"
  /\ caller' = [caller EXCEPT ![Closer] = "draining"]
  /\ UNCHANGED << reader, pending, inbox, demuxErr, closed, writer, received, result >>

CloseReturns ==
  /\ caller[Closer] = "draining" /\ reader = "exited"
  /\ caller' = [caller EXCEPT ![Closer] = "done"]
  /\ UNCHANGED << child, reader, pending, inbox, demuxErr, closed, writer, received, result >>

IpcNext ==
  \/ LoadRuntime
  \/ \E c \in IpcCalls : SendRequest(c)
  \/ \E s \in Sender :
       \/ WriteStdin(s) \/ ChildReads(s) \/ WriteFails(s) \/ WriteReturns(s)
       \/ WriteDeadline(s) \/ Unwound(s) \/ Answered(s) \/ GivesUp(s)
       \/ ReadAnswer(s)
  \/ ReadGarbage \/ ReadEnds \/ ChildDies
  \/ Close \/ CloseKills \/ CloseReturns

\* Goroutines that can run do run, and timers end; the child owes nothing.  A
\* failed load closes the dispatcher; whether a loaded one is closed is open.
IpcFairness ==
  /\ \A s \in Sender :
       /\ WF_ipcVars(WriteStdin(s)) /\ WF_ipcVars(WriteFails(s))
       /\ WF_ipcVars(WriteReturns(s) \/ WriteDeadline(s))
       /\ WF_ipcVars(Unwound(s)) /\ WF_ipcVars(Answered(s) \/ GivesUp(s))
  /\ WF_ipcVars(child = "dead" /\ ReadEnds)
  /\ WF_ipcVars(result[Loader] = ErrorLine /\ Close)
  /\ WF_ipcVars(CloseKills) /\ WF_ipcVars(CloseReturns)

IpcSpec == IpcInit /\ [][IpcNext]_ipcVars
LiveIpcSpec == IpcSpec /\ IpcFairness

------------------------------------------------------------------------------

\* Whatever the child does, every registered call returns, and Close does: a
\* write that outlives its budget is unblocked by the kill, and Close waits for
\* a reader that sees the end of the killed child's output.
EveryCallReturns ==
  /\ \A s \in Sender : caller[s] = "registered" ~> caller[s] = "done"
  /\ caller[Closer] = "killing" ~> caller[Closer] = "done"
==============================================================================
