-------------------------------- MODULE ChatRun --------------------------------
(***************************************************************************)
(* One POST to the unified chat stream, from the idempotency claim to the  *)
(* last durable write: handlers.py (claim, routing, event wrapper),        *)
(* lifecycle.py (start, complete, fail, clarify, cancel), cancellation.py  *)
(* and the three engine generators.  Every value of pc is an await or a    *)
(* yield of that code, so a step of another POST, a client disconnect, a   *)
(* failed database call or a crash may come between any two of them.       *)
(*                                                                         *)
(* The documents of a run are indexed by the POST that minted its run_id.  *)
(***************************************************************************)
EXTENDS Naturals, RunStatus

CONSTANTS
  Posts,      \* deliveries of chat requests, retries and duplicates included
  RequestOf,  \* the request_id each delivery carries
  NoRequest,  \* the request_id of a caller that sends none
  Flows,      \* engines the router may select, of "v2", "v3", "v4-deep"
  Faulty      \* collections whose calls may raise, of "runs", "chats", "messages"

ASSUME FlowsAssumption == Flows \subseteq {"v2", "v3", "v4-deep"}
ASSUME RequestAssumption == DOMAIN RequestOf = Posts

VARIABLES
  pc,            \* where each handler is
  flow,          \* engine the router chose, "none" before and for duplicates
  task,          \* the engine's asyncio task
  gone,          \* the client has closed the connection
  through,       \* a cancellation absorbed by await_task_through_cancellation
  snapshot,      \* run document a duplicate loaded: [run, status, attached]
  seen,          \* events the handler has yielded
  status,        \* agent_runs: status of the run the POST created
  chat,          \* lifecycle.chat_id, and whether the run document has it
  userMessages,  \* messages: user messages persisted for the POST
  message,       \* messages: run_status of the run's assistant message
  faults         \* history: database calls that raised while it ran

processVars == <<pc, flow, task, gone, through, snapshot, seen>>
databaseVars == <<status, chat, userMessages, message>>
vars == <<processVars, databaseVars, faults>>

Messages == {"none", "completed", "failed", "cancelled", "waiting_for_input"}

\* run_state events carry a status; the others are named for their type.
Events == Statuses \cup {"chunk", "clarification", "error", "stopped", "done"}

\* Suspension points inside the engine generator's outer try block, whose
\* handler for CancelledError, ClientDisconnected and GeneratorExit cancels.
Guarded == {"start", "persist", "resolve", "engine", "finish",
            "complete_message", "complete_run", "completed",
            "compensate", "compensate_fail",
            "clarify_message", "clarify_run", "waiting", "clarify_compensate",
            "fail", "closing"}

Labels == Guarded \cup
  {"new", "lookup", "replay", "routing", "route_fail", "mark_running",
   "response", "prelude", "outer_fail", "cancel_task", "cancel_run",
   "cancel_message", "unstarted_start", "unstarted_persist", "ended", "crashed"}

Live(p) == pc[p] \notin {"new", "ended", "crashed"}

-------------------------------------------------------------------------------
(* One database call.  It succeeds, raises without effect ("reject"), or    *)
(* raises after taking effect ("lost": the acknowledgement was lost, or a   *)
(* later call of the same service method raised).                           *)

Outcomes(collection) ==
  IF collection \in Faulty THEN {"ok", "reject", "lost"} ELSE {"ok"}

FaultKinds == {"runs", "chats", "messages", "run_ack"}

FaultKind(collection, o) ==
  IF collection = "runs" /\ o = "lost" THEN "run_ack" ELSE collection

Record(p, collection, o) ==
  faults' = [faults EXCEPT
               ![p] = IF o = "ok" THEN @ ELSE @ \cup {FaultKind(collection, o)}]

\* Mutant: the update filters on the run_id alone.
SetRunUnconditionally(p, to, o) ==
  /\ status' = [status EXCEPT ![p] = IF o = "reject" THEN @ ELSE to]
  /\ Record(p, "runs", o)

\* AgentRunService.<to>(run_id): the conditional update of the run document.
SetRun(p, to, o) ==
  /\ status' = [status EXCEPT
                  ![p] = IF o = "reject" THEN @
                         ELSE Transitioned(@, FromStatuses[to], to)]
  /\ Record(p, "runs", o)

\* The call returned the updated document and not None.
Accepted(p, to, o) == o = "ok" /\ status[p] \in AllowedFrom(FromStatuses[to], to)

SetMessage(p, m, o) ==
  /\ message' = [message EXCEPT ![p] = IF o = "reject" THEN @ ELSE m]
  /\ Record(p, "messages", o)

Goto(p, label) == pc' = [pc EXCEPT ![p] = label]

Emit(p, events) == seen' = [seen EXCEPT ![p] = @ \cup events]

-------------------------------------------------------------------------------
(* claim_chat_run, the duplicate's replay, and routing *)

Existing(p) ==
  {q \in Posts : /\ status[q] # "absent"
                 /\ RequestOf[q] = RequestOf[p]
                 /\ RequestOf[p] # NoRequest}

ClaimOwned(p) ==
  /\ pc[p] = "new" /\ Existing(p) = {} /\ status[p] = "absent"
  /\ \E o \in Outcomes("runs") :
       /\ status' = [status EXCEPT ![p] = IF o = "reject" THEN @ ELSE "pending"]
       /\ Goto(p, IF o = "ok" THEN "routing" ELSE "ended")
       /\ Record(p, "runs", o)
  /\ UNCHANGED <<flow, task, gone, through, snapshot, seen, chat, userMessages, message>>

ClaimDuplicate(p) ==
  /\ pc[p] = "new" /\ Existing(p) # {}
  /\ Goto(p, "lookup")
  /\ UNCHANGED <<flow, task, gone, through, snapshot, seen, databaseVars, faults>>

\* Mutant: the duplicate polls until the run it found has left the active states.
LookupWhenSettled(p) ==
  /\ pc[p] = "lookup"
  /\ \E q \in Existing(p) :
       /\ status[q] \notin ActiveStatuses
       /\ snapshot' = [snapshot EXCEPT
            ![p] = [run |-> q, status |-> status[q], attached |-> chat[q] = "attached"]]
  /\ Goto(p, "replay")
  /\ UNCHANGED <<flow, task, gone, through, seen, databaseVars, faults>>

\* get_by_request_id after the DuplicateKeyError.
Lookup(p) ==
  /\ pc[p] = "lookup"
  /\ \E q \in Existing(p), o \in Outcomes("runs") :
       /\ IF o = "ok"
          THEN /\ snapshot' = [snapshot EXCEPT
                    ![p] = [run |-> q, status |-> status[q],
                            attached |-> chat[q] = "attached"]]
               /\ Goto(p, "replay")
          ELSE /\ Goto(p, "ended")
               /\ UNCHANGED snapshot
       /\ Record(p, "runs", o)
  /\ UNCHANGED <<flow, task, gone, through, seen, databaseVars>>

\* A clarification payload or the message text; a run without message has none.
ReplayContent(m) ==
  IF m = "none" THEN {} ELSE IF m = "waiting_for_input" THEN {"clarification"} ELSE {"chunk"}

\* What _replay_existing_run streams for a snapshot and the message read later.
ReplayEvents(s, m) ==
  {s.status} \cup
  IF s.status \in ActiveStatuses THEN {"error"}
  ELSE ReplayContent(m) \cup
       (IF s.status = "failed" THEN {"error"}
        ELSE IF s.status = "cancelled"
             THEN {"stopped"} \cup (IF m = "none" THEN {"chunk"} ELSE {})
        ELSE IF s.attached THEN {"done"} ELSE {})

\* _load_replay_message reads up to five times, then streams what it has.
Replay(p) ==
  /\ pc[p] = "replay"
  /\ \E o \in IF snapshot[p].status \in ActiveStatuses THEN {"ok"}
              ELSE Outcomes("messages") :
       /\ IF o = "ok" THEN Emit(p, ReplayEvents(snapshot[p], message[snapshot[p].run]))
          ELSE UNCHANGED seen
       /\ Record(p, "messages", o)
  /\ Goto(p, "ended")
  /\ UNCHANGED <<flow, task, gone, through, snapshot, databaseVars>>

RouteSelected(p) ==
  /\ pc[p] = "routing"
  /\ \E f \in Flows : flow' = [flow EXCEPT ![p] = f]
  /\ Goto(p, "mark_running")
  /\ UNCHANGED <<task, gone, through, snapshot, seen, databaseVars, faults>>

RouteRaised(p) ==
  /\ pc[p] = "routing"
  /\ Goto(p, "route_fail")
  /\ UNCHANGED <<flow, task, gone, through, snapshot, seen, databaseVars, faults>>

FailRouting(p) ==
  /\ pc[p] = "route_fail"
  /\ \E o \in Outcomes("runs") : SetRun(p, "failed", o)
  /\ Goto(p, "ended")
  /\ UNCHANGED <<flow, task, gone, through, snapshot, seen, chat, userMessages, message>>

\* Nothing handles an exception of mark_running: the POST just fails.
MarkRunning(p) ==
  /\ pc[p] = "mark_running"
  /\ \E o \in Outcomes("runs") :
       /\ SetRun(p, "running", o)
       /\ Goto(p, IF o = "ok" THEN "response" ELSE "ended")
  /\ UNCHANGED <<flow, task, gone, through, snapshot, seen, chat, userMessages, message>>

-------------------------------------------------------------------------------
(* The wrapped stream: routed_stream's prelude, then the engine generator *)

OpenStream(p) ==
  /\ pc[p] = "response"
  /\ Emit(p, {status[p]})
  /\ Goto(p, "prelude")
  /\ UNCHANGED <<flow, task, gone, through, snapshot, databaseVars, faults>>

BeginEngine(p) ==
  /\ pc[p] = "prelude"
  /\ Goto(p, "start")
  /\ UNCHANGED <<flow, task, gone, through, snapshot, seen, databaseVars, faults>>

\* The error event lifecycle.fail yields before it touches the run.
FailAt(p, label) == Goto(p, label) /\ Emit(p, {"error"})

\* get_or_create_chat sets lifecycle.chat_id, attach_chat writes it to the run.
AttachChat(p, created, attached) ==
  /\ chat' = [chat EXCEPT ![p] = IF created # "ok" THEN @
                                 ELSE IF attached = "reject" THEN "known"
                                 ELSE "attached"]
  /\ faults' = [faults EXCEPT
       ![p] = @ \cup (IF created = "ok" THEN {} ELSE {"chats"})
                \cup (IF attached = "ok" THEN {} ELSE {FaultKind("runs", attached)})]

\* Mutant: an error of attach_chat is swallowed.
StartUnattached(p) ==
  /\ pc[p] = "start"
  /\ \E c \in Outcomes("chats"), r \in Outcomes("runs") :
       /\ c # "ok" => r = "ok"
       /\ AttachChat(p, c, r)
       /\ IF c = "ok" THEN Goto(p, "persist") /\ UNCHANGED seen
          ELSE FailAt(p, "outer_fail")
  /\ UNCHANGED <<flow, task, gone, through, snapshot, status, userMessages, message>>

Start(p) ==
  /\ pc[p] = "start"
  /\ \E c \in Outcomes("chats"), r \in Outcomes("runs") :
       /\ c # "ok" => r = "ok"
       /\ AttachChat(p, c, r)
       /\ IF c = "ok" /\ r = "ok"
          THEN Goto(p, "persist") /\ UNCHANGED seen
          ELSE FailAt(p, "outer_fail")
  /\ UNCHANGED <<flow, task, gone, through, snapshot, status, userMessages, message>>

AddUserMessage(p, o) ==
  /\ userMessages' = [userMessages EXCEPT ![p] = IF o = "reject" THEN @ ELSE @ + 1]
  /\ Record(p, "messages", o)

\* prepare_context: the user message, then history, symbol and compaction.
Persist(p) ==
  /\ pc[p] = "persist"
  /\ \E o \in Outcomes("messages") :
       /\ AddUserMessage(p, o)
       /\ IF o # "ok" THEN FailAt(p, "outer_fail") /\ UNCHANGED task
          ELSE IF flow[p] = "v4-deep"
               THEN Goto(p, "resolve") /\ UNCHANGED <<seen, task>>
          ELSE /\ Goto(p, "engine") /\ UNCHANGED seen
               /\ task' = [task EXCEPT ![p] = "running"]
  /\ UNCHANGED <<flow, gone, through, snapshot, status, chat, message>>

ResolveSymbol(p) ==
  /\ pc[p] = "resolve"
  /\ \/ Goto(p, "engine") /\ task' = [task EXCEPT ![p] = "running"] /\ UNCHANGED seen
     \/ Goto(p, "clarify_message") /\ UNCHANGED <<task, seen>>
     \/ FailAt(p, "outer_fail") /\ UNCHANGED task
  /\ UNCHANGED <<flow, gone, through, snapshot, databaseVars, faults>>

EngineReturns(p) ==
  /\ pc[p] = "engine"
  /\ task' = [task EXCEPT ![p] = "done"]
  /\ Goto(p, "finish")
  /\ UNCHANGED <<flow, gone, through, snapshot, seen, databaseVars, faults>>

\* The engine raises or times out.  simple_agent and react_agent call
\* lifecycle.fail inside the outer try block, deep_agent in its except clause.
EngineRaises(p) ==
  /\ pc[p] = "engine"
  /\ task' = [task EXCEPT ![p] = "done"]
  /\ FailAt(p, IF flow[p] = "v4-deep" THEN "outer_fail" ELSE "fail")
  /\ UNCHANGED <<flow, gone, through, snapshot, databaseVars, faults>>

\* The answer is streamed and the disconnect grace period passes.
Finish(p) ==
  /\ pc[p] = "finish"
  /\ Emit(p, {"chunk"})
  /\ Goto(p, "complete_message")
  /\ UNCHANGED <<flow, task, gone, through, snapshot, databaseVars, faults>>

\* react and deep: the agent's result carries an error.
FinishWithError(p) ==
  /\ pc[p] = "finish" /\ flow[p] # "v2"
  /\ FailAt(p, "fail")
  /\ UNCHANGED <<flow, task, gone, through, snapshot, databaseVars, faults>>

\* deep: persist_completed_verdict raises.
VerdictNotPersisted(p) ==
  /\ pc[p] = "finish" /\ flow[p] = "v4-deep"
  /\ Goto(p, "outer_fail")
  /\ Emit(p, {"chunk", "error"})
  /\ UNCHANGED <<flow, task, gone, through, snapshot, databaseVars, faults>>

-------------------------------------------------------------------------------
(* lifecycle.complete and its compensation *)

\* Mutant: an error of the message write does not stop the completion.
CompleteMessageAnyway(p) ==
  /\ pc[p] = "complete_message"
  /\ \E o \in Outcomes("messages") : SetMessage(p, "completed", o)
  /\ Goto(p, "complete_run")
  /\ UNCHANGED <<flow, task, gone, through, snapshot, seen, status, chat, userMessages>>

CompleteMessage(p) ==
  /\ pc[p] = "complete_message"
  /\ \E o \in Outcomes("messages") :
       /\ SetMessage(p, "completed", o)
       /\ IF o = "ok" THEN Goto(p, "complete_run") /\ UNCHANGED seen
          ELSE FailAt(p, "outer_fail")
  /\ UNCHANGED <<flow, task, gone, through, snapshot, status, chat, userMessages>>

\* Mutant: an error of the run transition is only logged.
CompleteRunAnyway(p) ==
  /\ pc[p] = "complete_run"
  /\ \E o \in Outcomes("runs") : SetRun(p, "completed", o)
  /\ Goto(p, IF through[p] THEN "cancel_task" ELSE "completed")
  /\ UNCHANGED <<flow, task, gone, through, snapshot, seen, chat, userMessages, message>>

\* A rejected transition (None) is only logged; an absorbed cancellation is
\* raised again once the run document is written.
CompleteRun(p) ==
  /\ pc[p] = "complete_run"
  /\ \E o \in Outcomes("runs") :
       /\ SetRun(p, "completed", o)
       /\ IF o # "ok" THEN Goto(p, "compensate") /\ UNCHANGED seen
          ELSE IF through[p] THEN Goto(p, "cancel_task") /\ UNCHANGED seen
          ELSE /\ Goto(p, "completed")
               /\ Emit(p, IF Accepted(p, "completed", o) THEN {"completed"} ELSE {})
  /\ UNCHANGED <<flow, task, gone, through, snapshot, chat, userMessages, message>>

\* Title, latency event, done event; errors of the title update are swallowed.
\* clarify ends with the same done event.
Done(p) ==
  /\ pc[p] \in {"completed", "waiting"}
  /\ Emit(p, {"done"})
  /\ Goto(p, "closing")
  /\ UNCHANGED <<flow, task, gone, through, snapshot, databaseVars, faults>>

\* The generator resumes after its last event and returns.
Close(p) ==
  /\ pc[p] = "closing"
  /\ Goto(p, "ended")
  /\ UNCHANGED <<flow, task, gone, through, snapshot, seen, databaseVars, faults>>

Compensate(p) ==
  /\ pc[p] = "compensate"
  /\ \E o \in Outcomes("messages") : SetMessage(p, "failed", o)
  /\ Goto(p, "compensate_fail")
  /\ UNCHANGED <<flow, task, gone, through, snapshot, seen, status, chat, userMessages>>

FailedEvents(p, o) == IF Accepted(p, "failed", o) THEN {"failed"} ELSE {}

\* The compensation collects fail()'s events and yields them after the write.
CompensateFail(p) ==
  /\ pc[p] = "compensate_fail"
  /\ \E o \in Outcomes("runs") :
       /\ SetRun(p, "failed", o)
       /\ Emit(p, {"error"} \cup FailedEvents(p, o))
  /\ Goto(p, "closing")
  /\ UNCHANGED <<flow, task, gone, through, snapshot, chat, userMessages, message>>

\* lifecycle.fail after its error event; a failing write is logged and ends it.
FailRun(p) ==
  /\ pc[p] \in {"fail", "outer_fail"}
  /\ \E o \in Outcomes("runs") :
       SetRun(p, "failed", o) /\ Emit(p, FailedEvents(p, o))
  /\ Goto(p, "ended")
  /\ UNCHANGED <<flow, task, gone, through, snapshot, chat, userMessages, message>>

-------------------------------------------------------------------------------
(* lifecycle.clarify and its compensation *)

ClarifyMessage(p) ==
  /\ pc[p] = "clarify_message"
  /\ \E o \in Outcomes("messages") :
       /\ SetMessage(p, "waiting_for_input", o)
       /\ IF o = "ok" THEN Goto(p, "clarify_run") /\ Emit(p, {"clarification"})
          ELSE FailAt(p, "outer_fail")
  /\ UNCHANGED <<flow, task, gone, through, snapshot, status, chat, userMessages>>

ClarifyRun(p) ==
  /\ pc[p] = "clarify_run"
  /\ \E o \in Outcomes("runs") :
       /\ SetRun(p, "waiting_for_input", o)
       /\ IF Accepted(p, "waiting_for_input", o)
          THEN Goto(p, "waiting") /\ Emit(p, {"waiting_for_input"})
          ELSE Goto(p, "clarify_compensate") /\ UNCHANGED seen
  /\ UNCHANGED <<flow, task, gone, through, snapshot, chat, userMessages, message>>

ClarifyCompensate(p) ==
  /\ pc[p] = "clarify_compensate"
  /\ \E o \in Outcomes("messages") : SetMessage(p, "failed", o)
  /\ FailAt(p, "fail")
  /\ UNCHANGED <<flow, task, gone, through, snapshot, status, chat, userMessages>>

-------------------------------------------------------------------------------
(* lifecycle.cancel, and persist_unstarted_cancellation before an engine ran *)

\* cancel_and_await, then the wait for an in-flight terminal message write.
CancelTask(p) ==
  /\ pc[p] = "cancel_task"
  /\ task' = [task EXCEPT ![p] = IF @ = "running" THEN "cancelled" ELSE @]
  /\ Goto(p, "cancel_run")
  /\ UNCHANGED <<flow, gone, through, snapshot, seen, databaseVars, faults>>

\* react and deep: the task answers its cancellation with another exception,
\* which leaves the generator.  The wrapper fails the run when it was iterating
\* the generator, and does not when it was closing it.
CancelTaskRaises(p) ==
  /\ pc[p] = "cancel_task" /\ task[p] = "running" /\ flow[p] # "v2"
  /\ task' = [task EXCEPT ![p] = "done"]
  /\ \/ \E o \in Outcomes("runs") : SetRun(p, "failed", o)
     \/ UNCHANGED <<status, faults>>
  /\ Goto(p, "ended")
  /\ UNCHANGED <<flow, gone, through, snapshot, seen, chat, userMessages, message>>

\* Mutant: a run that has no chat yet is not cancelled.
CancelRunOfChat(p) ==
  /\ pc[p] = "cancel_run"
  /\ IF chat[p] = "none"
     THEN Goto(p, "ended") /\ UNCHANGED <<status, faults>>
     ELSE \E o \in Outcomes("runs") :
            /\ SetRun(p, "cancelled", o)
            /\ Goto(p, IF Accepted(p, "cancelled", o) THEN "cancel_message" ELSE "ended")
  /\ UNCHANGED <<flow, task, gone, through, snapshot, seen, chat, userMessages, message>>

\* persist_cancelled_run: no message unless this call cancelled the run.
CancelRun(p) ==
  /\ pc[p] = "cancel_run"
  /\ \E o \in Outcomes("runs") :
       /\ SetRun(p, "cancelled", o)
       /\ Goto(p, IF Accepted(p, "cancelled", o) /\ chat[p] # "none"
                  THEN "cancel_message" ELSE "ended")
  /\ UNCHANGED <<flow, task, gone, through, snapshot, seen, chat, userMessages, message>>

CancelMessage(p) ==
  /\ pc[p] = "cancel_message"
  /\ \E o \in Outcomes("messages") : SetMessage(p, "cancelled", o)
  /\ Goto(p, "ended")
  /\ UNCHANGED <<flow, task, gone, through, snapshot, seen, status, chat, userMessages>>

\* persist_unstarted_cancellation starts a lifecycle of its own; its start and
\* persist_request are not protected, so an exception there ends the handler.
UnstartedStart(p) ==
  /\ pc[p] = "unstarted_start"
  /\ \E c \in Outcomes("chats"), r \in Outcomes("runs") :
       /\ c # "ok" => r = "ok"
       /\ AttachChat(p, c, r)
       /\ Goto(p, IF c = "ok" /\ r = "ok" THEN "unstarted_persist" ELSE "ended")
  /\ UNCHANGED <<flow, task, gone, through, snapshot, seen, status, userMessages, message>>

UnstartedPersist(p) ==
  /\ pc[p] = "unstarted_persist"
  /\ \E o \in Outcomes("messages") :
       /\ AddUserMessage(p, o)
       /\ Goto(p, IF o = "ok" THEN "cancel_run" ELSE "ended")
  /\ UNCHANGED <<flow, task, gone, through, snapshot, seen, status, chat, message>>

-------------------------------------------------------------------------------
(* The environment: disconnects, where they reach the handler, bad events,  *)
(* and the crash of the process.                                            *)

Disconnect(p) ==
  /\ Live(p) /\ ~gone[p]
  /\ gone' = [gone EXCEPT ![p] = TRUE]
  /\ UNCHANGED <<pc, flow, task, through, snapshot, seen, databaseVars, faults>>

\* Before an engine generator runs, the handler persists the cancellation itself.
InterruptUnstarted(p) ==
  /\ gone[p] /\ pc[p] \in {"routing", "prelude"}
  /\ Goto(p, "unstarted_start")
  /\ UNCHANGED <<flow, task, gone, through, snapshot, seen, databaseVars, faults>>

\* Nobody handles a cancellation of the routing-failure write or of mark_running,
\* or a close of the generator while its last except clause yields or writes; and
\* closing a body that was never iterated runs none of its code.  The write in
\* flight may still take effect.
InterruptUnhandled(p) ==
  /\ gone[p] /\ pc[p] \in {"route_fail", "mark_running", "response", "outer_fail"}
  /\ \/ UNCHANGED status
     \/ /\ pc[p] # "response"
        /\ status' = [status EXCEPT
             ![p] = LET to == IF pc[p] = "mark_running" THEN "running" ELSE "failed"
                    IN  Transitioned(@, FromStatuses[to], to)]
  /\ Goto(p, "ended")
  /\ UNCHANGED <<flow, task, gone, through, snapshot, seen, chat, userMessages, message, faults>>

\* At a yield, at a disconnect poll, or in an await that writes nothing shared.
InterruptEngine(p) ==
  /\ gone[p]
  /\ pc[p] \in {"start", "persist", "resolve", "engine", "finish", "completed",
                "waiting", "closing", "clarify_message", "clarify_run", "fail",
                "compensate_fail"}
  /\ Goto(p, "cancel_task")
  /\ UNCHANGED <<flow, task, gone, through, snapshot, seen, databaseVars, faults>>

\* In an await whose database call takes effect although its result is dropped.
InterruptInFlight(p) ==
  /\ gone[p]
  /\ \/ /\ pc[p] = "start"
        /\ \E c \in {"known", "attached"} : chat' = [chat EXCEPT ![p] = c]
        /\ UNCHANGED <<status, userMessages, message>>
     \/ /\ pc[p] = "persist"
        /\ userMessages' = [userMessages EXCEPT ![p] = @ + 1]
        /\ UNCHANGED <<status, chat, message>>
     \/ /\ pc[p] = "clarify_message"
        /\ message' = [message EXCEPT ![p] = "waiting_for_input"]
        /\ UNCHANGED <<status, chat, userMessages>>
     \/ /\ pc[p] \in {"clarify_run", "fail", "compensate_fail"}
        /\ status' = [status EXCEPT
             ![p] = LET to == IF pc[p] = "clarify_run" THEN "waiting_for_input" ELSE "failed"
                    IN  Transitioned(@, FromStatuses[to], to)]
        /\ UNCHANGED <<chat, userMessages, message>>
  /\ Goto(p, "cancel_task")
  /\ UNCHANGED <<flow, task, gone, through, snapshot, seen, faults>>

\* The compensating upsert is terminal_task: cancel() waits for it.
InterruptCompensation(p) ==
  /\ gone[p] /\ pc[p] \in {"compensate", "clarify_compensate"}
  /\ \E o \in Outcomes("messages") : SetMessage(p, "failed", o)
  /\ Goto(p, "cancel_task")
  /\ UNCHANGED <<flow, task, gone, through, snapshot, seen, status, chat, userMessages>>

InterruptDurable(p) ==
  /\ gone[p] /\ ~through[p] /\ pc[p] \in {"complete_message", "complete_run"}
  /\ through' = [through EXCEPT ![p] = TRUE]
  /\ UNCHANGED <<pc, flow, task, gone, snapshot, seen, databaseVars, faults>>

\* Mutant: the wrapper fails the run and leaves the engine generator open.
RejectEventOnly(p) ==
  /\ pc[p] \in {"prelude", "persist", "engine", "finish", "completed", "waiting",
                "closing", "clarify_run", "fail", "outer_fail"}
  /\ \E o \in Outcomes("runs") : SetRun(p, "failed", o)
  /\ UNCHANGED <<pc, flow, task, gone, through, snapshot, seen, chat, userMessages, message>>

\* An event the envelope rejects: the wrapper fails the run, then closes the
\* engine generator, or takes the prelude's cancellation path.
RejectEvent(p) ==
  /\ pc[p] \in {"prelude", "persist", "engine", "finish", "completed", "waiting",
                "closing", "clarify_run", "fail", "outer_fail"}
  /\ \E o \in Outcomes("runs") : SetRun(p, "failed", o)
  /\ Goto(p, IF pc[p] = "prelude" THEN "unstarted_start"
             ELSE IF pc[p] = "outer_fail" THEN "ended" ELSE "cancel_task")
  /\ UNCHANGED <<flow, task, gone, through, snapshot, seen, chat, userMessages, message>>

\* The process dies with every handler in it.  Startup (main.py) recreates the
\* indexes and leaves the run documents as they are.
Crash ==
  /\ \E p \in Posts : Live(p)
  /\ pc' = [p \in Posts |-> IF Live(p) THEN "crashed" ELSE pc[p]]
  /\ task' = [p \in Posts |-> IF Live(p) THEN "none" ELSE task[p]]
  /\ UNCHANGED <<flow, gone, through, snapshot, seen, databaseVars, faults>>

-------------------------------------------------------------------------------
Init ==
  /\ pc = [p \in Posts |-> "new"]
  /\ flow = [p \in Posts |-> "none"]
  /\ task = [p \in Posts |-> "none"]
  /\ gone = [p \in Posts |-> FALSE]
  /\ through = [p \in Posts |-> FALSE]
  /\ snapshot = [p \in Posts |-> [run |-> p, status |-> "absent", attached |-> FALSE]]
  /\ seen = [p \in Posts |-> {}]
  /\ status = [p \in Posts |-> "absent"]
  /\ chat = [p \in Posts |-> "none"]
  /\ userMessages = [p \in Posts |-> 0]
  /\ message = [p \in Posts |-> "none"]
  /\ faults = [p \in Posts |-> {}]

Arrive(p) == ClaimOwned(p) \/ ClaimDuplicate(p)

\* What the event loop runs for a handler that has begun.
Progress(p) ==
  \/ Lookup(p) \/ Replay(p)
  \/ RouteSelected(p) \/ RouteRaised(p) \/ FailRouting(p) \/ MarkRunning(p)
  \/ OpenStream(p) \/ BeginEngine(p) \/ Start(p) \/ Persist(p) \/ ResolveSymbol(p)
  \/ EngineReturns(p) \/ EngineRaises(p)
  \/ Finish(p) \/ FinishWithError(p) \/ VerdictNotPersisted(p)
  \/ CompleteMessage(p) \/ CompleteRun(p) \/ Done(p) \/ Close(p)
  \/ Compensate(p) \/ CompensateFail(p) \/ FailRun(p)
  \/ ClarifyMessage(p) \/ ClarifyRun(p) \/ ClarifyCompensate(p)
  \/ CancelTask(p) \/ CancelTaskRaises(p) \/ CancelRun(p) \/ CancelMessage(p)
  \/ UnstartedStart(p) \/ UnstartedPersist(p)

Interrupt(p) ==
  \/ InterruptUnstarted(p) \/ InterruptUnhandled(p) \/ InterruptEngine(p)
  \/ InterruptInFlight(p) \/ InterruptCompensation(p) \/ InterruptDurable(p)

\* Every delivery has been answered: the service waits for requests that the
\* bound on Posts does not contain.
Idle == (\A p \in Posts : pc[p] \in {"ended", "crashed"}) /\ UNCHANGED vars

Next ==
  \/ \E p \in Posts :
       Arrive(p) \/ Progress(p) \/ Disconnect(p) \/ Interrupt(p) \/ RejectEvent(p)
  \/ Crash
  \/ Idle

\* asyncio runs every ready task, and every await of a handler is bounded: the
\* engines by 120 and 600 second timeouts, the database calls by the driver's.
\* Requests, disconnects, bad events and crashes are never forced.
Fairness == \A p \in Posts : WF_vars(Progress(p))

Spec == Init /\ [][Next]_vars

FairSpec == Spec /\ Fairness

-------------------------------------------------------------------------------
(* Properties *)

\* Every variable keeps the values the code can give it.
TypeOK ==
  /\ pc \in [Posts -> Labels]
  /\ flow \in [Posts -> {"none", "v2", "v3", "v4-deep"}]
  /\ task \in [Posts -> {"none", "running", "done", "cancelled"}]
  /\ gone \in [Posts -> BOOLEAN]
  /\ through \in [Posts -> BOOLEAN]
  /\ snapshot \in [Posts -> [run : Posts, status : StatusOrAbsent, attached : BOOLEAN]]
  /\ seen \in [Posts -> SUBSET Events]
  /\ status \in [Posts -> StatusOrAbsent]
  /\ chat \in [Posts -> {"none", "known", "attached"}]
  /\ userMessages \in [Posts -> Nat]
  /\ message \in [Posts -> Messages]
  /\ faults \in [Posts -> SUBSET FaultKinds]

\* What a delivery cost: a routing decision, a user message, an engine task.
Worked(p) == flow[p] # "none" \/ userMessages[p] > 0 \/ task[p] # "none"

\* Deliveries with one request_id route, persist the user message and run an
\* engine at most once between them, whatever failed, and no delivery persists
\* its user message twice (claim_request_run, chat_stream_unified).
SingleExecution ==
  \A p \in Posts :
    /\ userMessages[p] <= 1
    /\ Worked(p) => \A q \in Existing(p) \ {p} : ~Worked(q)

\* A message marked cancelled belongs to a cancelled run: a cancellation that
\* loses the race against completion or failure leaves the answer alone
\* (persist_cancelled_run returns when its transition was rejected).
CancelledMessageHasCancelledRun ==
  \A p \in Posts : message[p] = "cancelled" => status[p] = "cancelled"

\* A completed run has its answer in the conversation, at every moment and after
\* every failure other than a transition that raised after it was applied
\* (complete writes the message first; nothing overwrites it afterwards).
CompletedRunHasItsAnswer ==
  \A p \in Posts :
    status[p] = "completed" /\ "run_ack" \notin faults[p] => message[p] = "completed"

\* A client that got "done" from its own execution can rely on it: no error was
\* sent too, and the run is durably completed, or it asked for clarification.
DoneIsDurable ==
  \A p \in Posts :
    "done" \in seen[p] /\ Worked(p) =>
      /\ "error" \notin seen[p]
      /\ status[p] = "completed" \/ "clarification" \in seen[p]

\* A duplicate that found the run completed replays the answer and "done"; one
\* that found it waiting replays the clarification unless the run has moved on
\* between its two reads (_load_replay_message, _replay_existing_run).
ReplayIsFaithful ==
  \A p \in Posts :
    LET s == snapshot[p]
    IN  /\ pc[p] = "ended" /\ seen[p] # {}
        /\ s.status \in {"completed", "waiting_for_input"}
        /\ "run_ack" \notin faults[s.run]
        => /\ "done" \in seen[p]
           /\ s.status = "completed" => "chunk" \in seen[p]
           /\ s.status = "waiting_for_input" /\ status[s.run] = "waiting_for_input"
                => "clarification" \in seen[p]

\* No engine task outlives its handler unless the handler's own process died.
NoOrphanTask == \A p \in Posts : task[p] = "running" => Live(p)

\* Once a run is terminal its assistant message only changes to agree with it,
\* or is a completion's compensation after a transition that lost its
\* acknowledgement.
MessageConverges ==
  [][\A p \in Posts :
       status[p] \in TERMINAL_RUN_STATUSES /\ message'[p] # message[p]
         => message'[p] = status[p] \/ "run_ack" \in faults[p]]_vars

Run == INSTANCE AgentRun WITH Runs <- Posts

\* The handlers implement the promise of the agent_runs collection.
RefinesAgentRun == Run!Spec

\* Every handler comes to an end, whatever raised and whoever disconnected.
HandlersFinish ==
  \A p \in Posts : Live(p) ~> pc[p] \in {"ended", "crashed"}

\* The cancellations that no code of the handler handles: of the write of a failed
\* routing, of mark_running, of a response whose body is never iterated, and in the last
\* except clause; and a cancelled engine task that raises something else.
Unhandled(p) ==
  \/ gone[p] /\ pc[p] \in {"route_fail", "mark_running", "response", "outer_fail"}
  \/ pc[p] = "cancel_task" /\ task[p] = "running" /\ flow[p] # "v2"

\* Wherever else its client leaves, whatever its engine does and whichever of its events
\* is rejected, a handler none of whose database calls failed ends with its run settled
\* (lifecycle.cancel, persist_unstarted_cancellation and the wrapper of the stream).
EndedHandlersSettle ==
  [][\A p \in Posts :
       pc[p] # "ended" /\ pc'[p] = "ended" /\ faults'[p] = {} /\ ~Unhandled(p)
         => status'[p] \notin ActiveStatuses]_vars

-------------------------------------------------------------------------------
(* What the repository's documents claim and the code does not do *)

\* unified-chat-handler-lifecycle.md:249: a handler that ended, with its chat loaded
\* and no database call failed, leaves no active run, whenever the client left.
DisconnectSettlesRun ==
  \A p \in Posts :
    pc[p] = "ended" /\ chat[p] = "attached" /\ faults[p] = {} => status[p] \notin ActiveStatuses

===============================================================================
