----------------------------- MODULE ChatRunProofs -----------------------------
(***************************************************************************)
(* Proofs about ChatRun for every set of deliveries, requests, engines and *)
(* failing collections.                                                    *)
(***************************************************************************)
EXTENDS ChatRun, TLAPS

\* The source statuses of each conditional update, computed once.
LEMMA SourceStatuses ==
  /\ AllowedFrom(FromStatuses["running"], "running") = {"pending", "waiting_for_input"}
  /\ AllowedFrom(FromStatuses["completed"], "completed") = {"running", "waiting_for_input"}
  /\ AllowedFrom(FromStatuses["waiting_for_input"], "waiting_for_input") =
       {"pending", "running"}
  /\ AllowedFrom(FromStatuses["failed"], "failed") =
       {"pending", "running", "waiting_for_input"}
  /\ AllowedFrom(FromStatuses["cancelled"], "cancelled") =
       {"pending", "running", "waiting_for_input"}
BY DEF AllowedFrom, FromStatuses, ALLOWED_RUN_TRANSITIONS

-------------------------------------------------------------------------------
(* The inductive invariant *)

\* What a handler's position says about its own run document: only the handler
\* that minted a run_id writes the run.
PcStatus(p) ==
  /\ pc[p] \in {"new", "lookup", "replay"} => status[p] = "absent"
  /\ pc[p] \in {"routing", "route_fail", "mark_running"} => status[p] = "pending"
  /\ pc[p] \in {"response", "prelude", "start", "persist", "resolve", "engine",
                "finish", "complete_message", "complete_run", "clarify_message",
                "clarify_run", "outer_fail"} => status[p] = "running"
  /\ pc[p] \in {"fail", "clarify_compensate"} => status[p] \in {"running", "waiting_for_input"}
  /\ pc[p] \in {"compensate", "compensate_fail"} =>
       status[p] = "running" \/ (status[p] = "completed" /\ "run_ack" \in faults[p])
  /\ pc[p] \in {"unstarted_start", "unstarted_persist"} => status[p] # "absent"
  /\ pc[p] = "cancel_message" => status[p] = "cancelled"

\* What it says about the answer, and how the answer and the run agree.
AnswerAgrees(p) ==
  /\ pc[p] = "complete_run" => message[p] = "completed"
  /\ message[p] = "cancelled" => status[p] = "cancelled"
  /\ status[p] = "completed" /\ "run_ack" \notin faults[p] => message[p] = "completed"

\* The user message is persisted on one of two paths that never meet.
BeforePersist ==
  {"new", "lookup", "replay", "routing", "route_fail", "mark_running", "response",
   "prelude", "start", "persist", "unstarted_start", "unstarted_persist"}

OnePersist(p) ==
  /\ pc[p] \in BeforePersist => userMessages[p] = 0
  /\ userMessages[p] \in {0, 1}

\* Only a delivery whose insert may have won has work to its name.
WorkIsOwned(p) == Worked(p) => status[p] # "absent"

OneOwner(p) == \A q \in Posts \ {p} : status[p] # "absent" => q \notin Existing(p)

\* A duplicate replays the snapshot of a run that exists.
SnapshotTaken(p) == pc[p] = "replay" => snapshot[p].status # "absent"

\* An engine task runs only while its handler awaits it or is about to cancel it.
TaskIsAttended(p) == task[p] = "running" => pc[p] \in {"engine", "cancel_task"}

\* The last event of a stream is either "done", after the run settled, or "error".
AfterDone == {"closing", "cancel_task", "cancel_run", "cancel_message", "ended", "crashed"}

AfterError == AfterDone \cup {"compensate_fail", "fail", "outer_fail"}

StreamAgrees(p) ==
  /\ pc[p] \notin AfterDone => "done" \notin seen[p]
  /\ pc[p] \notin AfterError => "error" \notin seen[p]
  /\ pc[p] = "completed" => status[p] = "completed"
  /\ pc[p] \in {"clarify_run", "waiting"} => "clarification" \in seen[p]
  /\ "done" \in seen[p] /\ Worked(p) =>
       /\ "error" \notin seen[p]
       /\ status[p] = "completed" \/ "clarification" \in seen[p]

HandlerInv(p) ==
  /\ PcStatus(p) /\ SnapshotTaken(p) /\ AnswerAgrees(p) /\ OnePersist(p)
  /\ WorkIsOwned(p) /\ TaskIsAttended(p)

IInv == TypeOK /\ \A p \in Posts : HandlerInv(p) /\ StreamAgrees(p) /\ OneOwner(p)

\* A step that one handler takes.
Handler(p) == Arrive(p) \/ Progress(p) \/ Disconnect(p) \/ Interrupt(p) \/ RejectEvent(p)

\* It leaves what the other handlers' invariants read alone.
Local(p) ==
  \A q \in Posts \ {p} :
    /\ pc'[q] = pc[q] /\ status'[q] = status[q] /\ faults'[q] = faults[q]
    /\ message'[q] = message[q] /\ userMessages'[q] = userMessages[q]
    /\ flow'[q] = flow[q] /\ task'[q] = task[q]
    /\ snapshot'[q] = snapshot[q] /\ seen'[q] = seen[q]

\* The run it writes is its own, and moves by a claim that found no run of the
\* request or by a transition whose source statuses the service names.
StatusStep(p) ==
  \/ status'[p] = status[p]
  \/ status[p] = "absent" /\ status'[p] = "pending" /\ Existing(p) = {}
  \/ /\ status'[p] \in Statuses
     /\ status[p] \in AllowedFrom(FromStatuses[status'[p]], status'[p])

\* A terminal run's message changes to agree with it, or after a lost write.
MessageStep(p) ==
  status[p] \in TERMINAL_RUN_STATUSES /\ message'[p] # message[p]
    => message'[p] = status[p] \/ "run_ack" \in faults[p]

StepOK(p) == HandlerInv(p)' /\ Local(p) /\ StatusStep(p) /\ MessageStep(p)

-------------------------------------------------------------------------------
(* Types *)

\* The helpers of the model keep the types of the variables they assign.
LEMMA EmitType ==
  ASSUME TypeOK, NEW p \in Posts, NEW events \in SUBSET Events, Emit(p, events)
  PROVE  seen' \in [Posts -> SUBSET Events]
BY DEF TypeOK, Emit

LEMMA GotoType ==
  ASSUME TypeOK, NEW p \in Posts, NEW label \in Labels, Goto(p, label)
  PROVE  pc' \in [Posts -> Labels]
BY DEF TypeOK, Goto

LEMMA RecordType ==
  ASSUME TypeOK, NEW p \in Posts, NEW c \in {"runs", "chats", "messages"}, NEW o,
      Record(p, c, o)
  PROVE  faults' \in [Posts -> SUBSET FaultKinds]
BY DEF TypeOK, Record, FaultKind, FaultKinds

LEMMA SetRunType ==
  ASSUME TypeOK, NEW p \in Posts, NEW to \in Statuses, NEW o, SetRun(p, to, o)
  PROVE  /\ status' \in [Posts -> StatusOrAbsent]
         /\ faults' \in [Posts -> SUBSET FaultKinds]
<1>1. faults' \in [Posts -> SUBSET FaultKinds] BY RecordType DEF SetRun
<1>2. to \in StatusOrAbsent BY DEF StatusOrAbsent
<1> QED BY <1>1, <1>2 DEF TypeOK, SetRun, Transitioned

LEMMA SetMessageType ==
  ASSUME TypeOK, NEW p \in Posts, NEW m \in Messages, NEW o, SetMessage(p, m, o)
  PROVE  /\ message' \in [Posts -> Messages]
         /\ faults' \in [Posts -> SUBSET FaultKinds]
<1>1. faults' \in [Posts -> SUBSET FaultKinds] BY RecordType DEF SetMessage
<1> QED BY <1>1 DEF TypeOK, SetMessage

LEMMA AttachChatType ==
  ASSUME TypeOK, NEW p \in Posts, NEW c, NEW r, AttachChat(p, c, r)
  PROVE  /\ chat' \in [Posts -> {"none", "known", "attached"}]
         /\ faults' \in [Posts -> SUBSET FaultKinds]
BY DEF TypeOK, AttachChat, FaultKind, FaultKinds

LEMMA AddUserMessageType ==
  ASSUME TypeOK, NEW p \in Posts, NEW o, AddUserMessage(p, o)
  PROVE  /\ userMessages' \in [Posts -> Nat]
         /\ faults' \in [Posts -> SUBSET FaultKinds]
<1>1. faults' \in [Posts -> SUBSET FaultKinds] BY RecordType DEF AddUserMessage
<1>2. userMessages' \in [Posts -> Nat] BY DEF TypeOK, AddUserMessage
<1> QED BY <1>1, <1>2


\* What a duplicate replays are events of the stream.
LEMMA ReplayEventsType ==
  ASSUME NEW s, s.status \in Statuses, NEW m \in Messages
  PROVE  ReplayEvents(s, m) \in SUBSET Events
<1>1. s.status \in Events BY DEF Events
<1>2. ReplayContent(m) \in SUBSET Events BY DEF ReplayContent, Events
<1>3. {"error", "stopped", "chunk", "done"} \in SUBSET Events BY DEF Events
<1> QED BY <1>1, <1>2, <1>3 DEF ReplayEvents

\* A handler's step keeps every variable's type.
LEMMA TypeStep ==
  ASSUME TypeOK, NEW p \in Posts, HandlerInv(p), Handler(p)
  PROVE  TypeOK'
<1> USE DEF TypeOK, processVars, databaseVars
<1>1. CASE ClaimOwned(p)
  <2>1. pc' \in [Posts -> Labels] BY <1>1, GotoType DEF ClaimOwned, Labels, Guarded
  <2>2. {"pending"} \in SUBSET StatusOrAbsent
    BY DEF StatusOrAbsent, Statuses, ActiveStatuses
  <2>3. faults' \in [Posts -> SUBSET FaultKinds] BY <1>1, RecordType DEF ClaimOwned
  <2>4. status' \in [Posts -> StatusOrAbsent] BY <1>1, <2>2 DEF ClaimOwned
  <2> QED BY <1>1, <2>1, <2>3, <2>4 DEF ClaimOwned
<1>2. CASE ClaimDuplicate(p)
  <2>1. pc' \in [Posts -> Labels] BY <1>2, GotoType DEF ClaimDuplicate, Labels, Guarded
  <2> QED BY <1>2, <2>1 DEF ClaimDuplicate
<1>3. CASE Lookup(p)
  <2>1. pc' \in [Posts -> Labels] BY <1>3, GotoType DEF Lookup, Labels, Guarded
  <2>2. faults' \in [Posts -> SUBSET FaultKinds] BY <1>3, RecordType DEF Lookup
  <2>3. snapshot' \in [Posts -> [run : Posts, status : StatusOrAbsent, attached :
      BOOLEAN]]
    <3>1. PICK q \in Posts, o \in Outcomes("runs") :
            snapshot' = IF o = "ok"
                        THEN [snapshot EXCEPT ![p] = [run |-> q, status |-> status[q],
                                                      attached |-> chat[q] =
                                                          "attached"]]
                        ELSE snapshot
      BY <1>3 DEF Lookup, Existing
    <3>2. (chat[q] = "attached") \in BOOLEAN OBVIOUS
    <3>3. [run |-> q, status |-> status[q], attached |-> chat[q] = "attached"]
            \in [run : Posts, status : StatusOrAbsent, attached : BOOLEAN]
      BY <3>2
    <3> QED BY <3>1, <3>3
  <2> QED BY <1>3, <2>1, <2>2, <2>3 DEF Lookup
<1>4. CASE Replay(p)
  <2>1. pc' \in [Posts -> Labels] BY <1>4, GotoType DEF Replay, Labels, Guarded
  <2>2. faults' \in [Posts -> SUBSET FaultKinds] BY <1>4, RecordType DEF Replay
  <2>3. seen' \in [Posts -> SUBSET Events]
    <3>1. snapshot[p].run \in Posts /\ snapshot[p].status \in Statuses
      BY <1>4 DEF Replay, HandlerInv, SnapshotTaken, StatusOrAbsent
    <3>2. message[snapshot[p].run] \in Messages BY <3>1
    <3>3. ReplayEvents(snapshot[p], message[snapshot[p].run]) \in SUBSET Events
      BY <3>1, <3>2, ReplayEventsType
    <3> QED BY <1>4, <3>3, EmitType DEF Replay
  <2> QED BY <1>4, <2>1, <2>2, <2>3 DEF Replay
<1>5. CASE RouteSelected(p)
  <2>1. pc' \in [Posts -> Labels] BY <1>5, GotoType DEF RouteSelected, Labels, Guarded
  <2>2. flow' \in [Posts -> {"none", "v2", "v3", "v4-deep"}]
    BY <1>5, FlowsAssumption DEF RouteSelected
  <2> QED BY <1>5, <2>1, <2>2 DEF RouteSelected
<1>6. CASE RouteRaised(p)
  <2>1. pc' \in [Posts -> Labels] BY <1>6, GotoType DEF RouteRaised, Labels, Guarded
  <2> QED BY <1>6, <2>1 DEF RouteRaised
<1>7. CASE FailRouting(p)
  <2>1. pc' \in [Posts -> Labels] BY <1>7, GotoType DEF FailRouting, Labels, Guarded
  <2> QED BY <1>7, <2>1, SetRunType DEF FailRouting, Statuses, ActiveStatuses,
      TERMINAL_RUN_STATUSES
<1>8. CASE MarkRunning(p)
  <2>1. pc' \in [Posts -> Labels] BY <1>8, GotoType DEF MarkRunning, Labels, Guarded
  <2> QED BY <1>8, <2>1, SetRunType DEF MarkRunning, Statuses, ActiveStatuses,
      TERMINAL_RUN_STATUSES
<1>9. CASE OpenStream(p)
  <2>1. pc' \in [Posts -> Labels] BY <1>9, GotoType DEF OpenStream, Labels, Guarded
  <2>2. {status[p]} \in SUBSET Events
    BY <1>9 DEF OpenStream, HandlerInv, PcStatus, Events, Statuses, ActiveStatuses
  <2> QED BY <1>9, <2>1, <2>2, EmitType DEF OpenStream
<1>10. CASE BeginEngine(p)
  <2>1. pc' \in [Posts -> Labels] BY <1>10, GotoType DEF BeginEngine, Labels, Guarded
  <2> QED BY <1>10, <2>1 DEF BeginEngine
<1>11. CASE Start(p)
  <2>1. pc' \in [Posts -> Labels] BY <1>11, GotoType DEF Start, FailAt, Labels, Guarded
  <2>2. seen' \in [Posts -> SUBSET Events] BY <1>11, EmitType DEF Start, FailAt, Events
  <2> QED BY <1>11, <2>1, <2>2, AttachChatType DEF Start
<1>12. CASE Persist(p)
  <2>1. pc' \in [Posts -> Labels]
    BY <1>12, GotoType DEF Persist, FailAt, Labels, Guarded
  <2>2. seen' \in [Posts -> SUBSET Events]
    BY <1>12, EmitType DEF Persist, FailAt, Events
  <2> QED BY <1>12, <2>1, <2>2, AddUserMessageType DEF Persist
<1>13. CASE ResolveSymbol(p)
  <2>1. pc' \in [Posts -> Labels]
    BY <1>13, GotoType DEF ResolveSymbol, FailAt, Labels, Guarded
  <2>2. seen' \in [Posts -> SUBSET Events]
    BY <1>13, EmitType DEF ResolveSymbol, FailAt, Events
  <2> QED BY <1>13, <2>1, <2>2 DEF ResolveSymbol
<1>14. CASE EngineReturns(p)
  <2>1. pc' \in [Posts -> Labels] BY <1>14, GotoType DEF EngineReturns, Labels, Guarded
  <2> QED BY <1>14, <2>1 DEF EngineReturns
<1>15. CASE EngineRaises(p)
  <2>1. pc' \in [Posts -> Labels]
    BY <1>15, GotoType DEF EngineRaises, FailAt, Labels, Guarded
  <2>2. seen' \in [Posts -> SUBSET Events]
    BY <1>15, EmitType DEF EngineRaises, FailAt, Events
  <2> QED BY <1>15, <2>1, <2>2 DEF EngineRaises
<1>16. CASE Finish(p)
  <2>1. pc' \in [Posts -> Labels] BY <1>16, GotoType DEF Finish, Labels, Guarded
  <2>2. seen' \in [Posts -> SUBSET Events] BY <1>16, EmitType DEF Finish, Events
  <2> QED BY <1>16, <2>1, <2>2 DEF Finish
<1>17. CASE FinishWithError(p)
  <2>1. pc' \in [Posts -> Labels]
    BY <1>17, GotoType DEF FinishWithError, FailAt, Labels, Guarded
  <2>2. seen' \in [Posts -> SUBSET Events]
    BY <1>17, EmitType DEF FinishWithError, FailAt, Events
  <2> QED BY <1>17, <2>1, <2>2 DEF FinishWithError
<1>18. CASE VerdictNotPersisted(p)
  <2>1. pc' \in [Posts -> Labels]
    BY <1>18, GotoType DEF VerdictNotPersisted, Labels, Guarded
  <2>2. seen' \in [Posts -> SUBSET Events]
    BY <1>18, EmitType DEF VerdictNotPersisted, Events
  <2> QED BY <1>18, <2>1, <2>2 DEF VerdictNotPersisted
<1>19. CASE CompleteMessage(p)
  <2>1. pc' \in [Posts -> Labels]
    BY <1>19, GotoType DEF CompleteMessage, FailAt, Labels, Guarded
  <2>2. seen' \in [Posts -> SUBSET Events]
    BY <1>19, EmitType DEF CompleteMessage, FailAt, Events
  <2> QED BY <1>19, <2>1, <2>2, SetMessageType DEF CompleteMessage, Messages
<1>20. CASE CompleteRun(p)
  <2>1. pc' \in [Posts -> Labels] BY <1>20, GotoType DEF CompleteRun, Labels, Guarded
  <2>2. seen' \in [Posts -> SUBSET Events]
    BY <1>20, EmitType DEF CompleteRun, Events, FailedEvents, Statuses,
       TERMINAL_RUN_STATUSES
  <2> QED BY <1>20, <2>1, <2>2, SetRunType DEF CompleteRun, Statuses, ActiveStatuses,
      TERMINAL_RUN_STATUSES
<1>21. CASE Done(p)
  <2>1. pc' \in [Posts -> Labels] BY <1>21, GotoType DEF Done, Labels, Guarded
  <2>2. seen' \in [Posts -> SUBSET Events] BY <1>21, EmitType DEF Done, Events
  <2> QED BY <1>21, <2>1, <2>2 DEF Done
<1>22. CASE Close(p)
  <2>1. pc' \in [Posts -> Labels] BY <1>22, GotoType DEF Close, Labels, Guarded
  <2> QED BY <1>22, <2>1 DEF Close
<1>23. CASE Compensate(p)
  <2>1. pc' \in [Posts -> Labels] BY <1>23, GotoType DEF Compensate, Labels, Guarded
  <2> QED BY <1>23, <2>1, SetMessageType DEF Compensate, Messages
<1>24. CASE CompensateFail(p)
  <2>1. pc' \in [Posts -> Labels] BY <1>24, GotoType DEF CompensateFail, Labels, Guarded
  <2>2. seen' \in [Posts -> SUBSET Events]
    BY <1>24, EmitType DEF CompensateFail, Events, FailedEvents, Statuses,
       TERMINAL_RUN_STATUSES
  <2> QED BY <1>24, <2>1, <2>2, SetRunType DEF CompensateFail, Statuses, ActiveStatuses,
      TERMINAL_RUN_STATUSES
<1>25. CASE FailRun(p)
  <2>1. pc' \in [Posts -> Labels] BY <1>25, GotoType DEF FailRun, Labels, Guarded
  <2>2. seen' \in [Posts -> SUBSET Events]
    BY <1>25, EmitType DEF FailRun, Events, FailedEvents, Statuses,
       TERMINAL_RUN_STATUSES
  <2> QED BY <1>25, <2>1, <2>2, SetRunType DEF FailRun, Statuses, ActiveStatuses,
      TERMINAL_RUN_STATUSES
<1>26. CASE ClarifyMessage(p)
  <2>1. pc' \in [Posts -> Labels]
    BY <1>26, GotoType DEF ClarifyMessage, FailAt, Labels, Guarded
  <2>2. seen' \in [Posts -> SUBSET Events]
    BY <1>26, EmitType DEF ClarifyMessage, FailAt, Events
  <2> QED BY <1>26, <2>1, <2>2, SetMessageType DEF ClarifyMessage, Messages
<1>27. CASE ClarifyRun(p)
  <2>1. pc' \in [Posts -> Labels] BY <1>27, GotoType DEF ClarifyRun, Labels, Guarded
  <2>2. seen' \in [Posts -> SUBSET Events]
    BY <1>27, EmitType DEF ClarifyRun, Events, FailedEvents, Statuses,
       TERMINAL_RUN_STATUSES
  <2> QED BY <1>27, <2>1, <2>2, SetRunType DEF ClarifyRun, Statuses, ActiveStatuses,
      TERMINAL_RUN_STATUSES
<1>28. CASE ClarifyCompensate(p)
  <2>1. pc' \in [Posts -> Labels]
    BY <1>28, GotoType DEF ClarifyCompensate, FailAt, Labels, Guarded
  <2>2. seen' \in [Posts -> SUBSET Events]
    BY <1>28, EmitType DEF ClarifyCompensate, FailAt, Events
  <2> QED BY <1>28, <2>1, <2>2, SetMessageType DEF ClarifyCompensate, Messages
<1>29. CASE CancelTask(p)
  <2>1. pc' \in [Posts -> Labels] BY <1>29, GotoType DEF CancelTask, Labels, Guarded
  <2> QED BY <1>29, <2>1 DEF CancelTask
<1>30. CASE CancelTaskRaises(p)
  <2>1. pc' \in [Posts -> Labels]
    BY <1>30, GotoType DEF CancelTaskRaises, Labels, Guarded
  <2> QED BY <1>30, <2>1, SetRunType DEF CancelTaskRaises, Statuses, ActiveStatuses,
      TERMINAL_RUN_STATUSES
<1>31. CASE CancelRun(p)
  <2>1. pc' \in [Posts -> Labels] BY <1>31, GotoType DEF CancelRun, Labels, Guarded
  <2> QED BY <1>31, <2>1, SetRunType DEF CancelRun, Statuses, ActiveStatuses,
      TERMINAL_RUN_STATUSES
<1>32. CASE CancelMessage(p)
  <2>1. pc' \in [Posts -> Labels] BY <1>32, GotoType DEF CancelMessage, Labels, Guarded
  <2> QED BY <1>32, <2>1, SetMessageType DEF CancelMessage, Messages
<1>33. CASE UnstartedStart(p)
  <2>1. pc' \in [Posts -> Labels] BY <1>33, GotoType DEF UnstartedStart, Labels, Guarded
  <2> QED BY <1>33, <2>1, AttachChatType DEF UnstartedStart
<1>34. CASE UnstartedPersist(p)
  <2>1. pc' \in [Posts -> Labels]
    BY <1>34, GotoType DEF UnstartedPersist, Labels, Guarded
  <2> QED BY <1>34, <2>1, AddUserMessageType DEF UnstartedPersist
<1>35. CASE Disconnect(p)
  <2> QED BY <1>35 DEF Disconnect
<1>36. CASE InterruptUnstarted(p)
  <2>1. pc' \in [Posts -> Labels]
    BY <1>36, GotoType DEF InterruptUnstarted, Labels, Guarded
  <2> QED BY <1>36, <2>1 DEF InterruptUnstarted
<1>37. CASE InterruptUnhandled(p)
  <2>1. pc' \in [Posts -> Labels]
    BY <1>37, GotoType DEF InterruptUnhandled, Labels, Guarded
  <2>2. {"running", "failed"} \in SUBSET StatusOrAbsent
    BY DEF StatusOrAbsent, Statuses, ActiveStatuses, TERMINAL_RUN_STATUSES
  <2> QED BY <1>37, <2>1, <2>2 DEF InterruptUnhandled, Transitioned
<1>38. CASE InterruptEngine(p)
  <2>1. pc' \in [Posts -> Labels]
    BY <1>38, GotoType DEF InterruptEngine, Labels, Guarded
  <2> QED BY <1>38, <2>1 DEF InterruptEngine
<1>39. CASE InterruptInFlight(p)
  <2>1. pc' \in [Posts -> Labels]
    BY <1>39, GotoType DEF InterruptInFlight, Labels, Guarded
  <2>2. {"waiting_for_input", "failed"} \in SUBSET StatusOrAbsent
    BY DEF StatusOrAbsent, Statuses, TERMINAL_RUN_STATUSES
  <2> QED BY <1>39, <2>1, <2>2 DEF InterruptInFlight, Transitioned, Messages
<1>40. CASE InterruptCompensation(p)
  <2>1. pc' \in [Posts -> Labels]
    BY <1>40, GotoType DEF InterruptCompensation, Labels, Guarded
  <2> QED BY <1>40, <2>1, SetMessageType DEF InterruptCompensation, Messages
<1>41. CASE InterruptDurable(p)
  <2> QED BY <1>41 DEF InterruptDurable
<1>42. CASE RejectEvent(p)
  <2>1. pc' \in [Posts -> Labels] BY <1>42, GotoType DEF RejectEvent, Labels, Guarded
  <2> QED BY <1>42, <2>1, SetRunType DEF RejectEvent, Statuses, ActiveStatuses,
      TERMINAL_RUN_STATUSES
<1> QED BY <1>1, <1>2, <1>3, <1>4, <1>5, <1>6, <1>7, <1>8, <1>9, <1>10, <1>11, <1>12,
    <1>13, <1>14, <1>15, <1>16, <1>17, <1>18, <1>19, <1>20, <1>21, <1>22, <1>23, <1>24,
    <1>25, <1>26, <1>27, <1>28, <1>29, <1>30, <1>31, <1>32, <1>33, <1>34, <1>35, <1>36,
    <1>37, <1>38, <1>39, <1>40, <1>41, <1>42 DEF Handler, Arrive, Progress, Interrupt
-------------------------------------------------------------------------------
(* The invariant of one handler *)

\* A handler's step keeps its own invariant, and the others' by leaving them alone.
LEMMA HandlerStep ==
  ASSUME TypeOK, NEW p \in Posts, HandlerInv(p), Handler(p)
  PROVE  StepOK(p)
<1> USE DEF StepOK, StatusStep, MessageStep, TERMINAL_RUN_STATUSES, Statuses,
    ActiveStatuses, TypeOK, HandlerInv, PcStatus, SnapshotTaken, AnswerAgrees,
    OnePersist, BeforePersist,
            WorkIsOwned, Worked, TaskIsAttended, Local, Outcomes, processVars, databaseVars
<1>1. CASE ClaimOwned(p)
  BY <1>1, SMTT(30) DEF ClaimOwned, Record, FaultKind, Goto
<1>2. CASE ClaimDuplicate(p)
  BY <1>2, SMTT(30) DEF ClaimDuplicate, Goto
<1>3. CASE Lookup(p)
  BY <1>3, SMTT(30) DEF Lookup, Record, FaultKind, Existing, Goto
<1>4. CASE Replay(p)
  BY <1>4, SMTT(30) DEF Replay, Record, FaultKind, Emit, Goto
<1>5. CASE RouteSelected(p)
  BY <1>5, SMTT(30) DEF RouteSelected, Goto
<1>6. CASE RouteRaised(p)
  BY <1>6, SMTT(30) DEF RouteRaised, Goto
<1>7. CASE FailRouting(p)
  BY <1>7, SourceStatuses, SMTT(30) DEF FailRouting, SetRun, Record, FaultKind,
      Transitioned, Goto
<1>8. CASE MarkRunning(p)
  BY <1>8, SourceStatuses, SMTT(30) DEF MarkRunning, SetRun, Record, FaultKind,
      Transitioned, Goto
<1>9. CASE OpenStream(p)
  BY <1>9, SMTT(30) DEF OpenStream, Emit, Goto
<1>10. CASE BeginEngine(p)
  BY <1>10, SMTT(30) DEF BeginEngine, Goto
<1>11. CASE Start(p)
  BY <1>11, SMTT(30) DEF Start, AttachChat, FailAt, Emit, FaultKind, Goto
<1>12. CASE Persist(p)
  BY <1>12, SMTT(30) DEF Persist, AddUserMessage, Record, FaultKind, FailAt, Emit, Goto
<1>13. CASE ResolveSymbol(p)
  BY <1>13, SMTT(30) DEF ResolveSymbol, FailAt, Emit, Goto
<1>14. CASE EngineReturns(p)
  BY <1>14, SMTT(30) DEF EngineReturns, Goto
<1>15. CASE EngineRaises(p)
  BY <1>15, SMTT(30) DEF EngineRaises, FailAt, Emit, Goto
<1>16. CASE Finish(p)
  BY <1>16, SMTT(30) DEF Finish, Emit, Goto
<1>17. CASE FinishWithError(p)
  BY <1>17, SMTT(30) DEF FinishWithError, FailAt, Emit, Goto
<1>18. CASE VerdictNotPersisted(p)
  BY <1>18, SMTT(30) DEF VerdictNotPersisted, Emit, Goto
<1>19. CASE CompleteMessage(p)
  BY <1>19, SMTT(30) DEF CompleteMessage, SetMessage, Record, FaultKind, FailAt, Emit,
      Goto
<1>20. CASE CompleteRun(p)
  BY <1>20, SourceStatuses, SMTT(30) DEF CompleteRun, SetRun, Record, FaultKind,
      Transitioned, Accepted, Emit, Goto
<1>21. CASE Done(p)
  BY <1>21, SMTT(30) DEF Done, Emit, Goto
<1>22. CASE Close(p)
  BY <1>22, SMTT(30) DEF Close, Goto
<1>23. CASE Compensate(p)
  BY <1>23, SMTT(30) DEF Compensate, SetMessage, Record, FaultKind, Goto
<1>24. CASE CompensateFail(p)
  BY <1>24, SourceStatuses, SMTT(30) DEF CompensateFail, SetRun, Record, FaultKind,
      Transitioned, Accepted, Emit, FailedEvents, Goto
<1>25. CASE FailRun(p)
  BY <1>25, SourceStatuses, SMTT(30) DEF FailRun, SetRun, Record, FaultKind,
      Transitioned, Accepted, Emit, FailedEvents, Goto
<1>26. CASE ClarifyMessage(p)
  BY <1>26, SMTT(30) DEF ClarifyMessage, SetMessage, Record, FaultKind, FailAt, Emit,
      Goto
<1>27. CASE ClarifyRun(p)
  BY <1>27, SourceStatuses, SMTT(30) DEF ClarifyRun, SetRun, Record, FaultKind,
      Transitioned, Accepted, Emit, Goto
<1>28. CASE ClarifyCompensate(p)
  BY <1>28, SMTT(30) DEF ClarifyCompensate, SetMessage, Record, FaultKind, FailAt, Emit,
      Goto
<1>29. CASE CancelTask(p)
  BY <1>29, SMTT(30) DEF CancelTask, Goto
<1>30. CASE CancelTaskRaises(p)
  BY <1>30, SourceStatuses, SMTT(30) DEF CancelTaskRaises, SetRun, Record, FaultKind,
      Transitioned, Goto
<1>31. CASE CancelRun(p)
  BY <1>31, SourceStatuses, SMTT(30) DEF CancelRun, SetRun, Record, FaultKind,
      Transitioned, Accepted, Goto
<1>32. CASE CancelMessage(p)
  BY <1>32, SMTT(30) DEF CancelMessage, SetMessage, Record, FaultKind, Goto
<1>33. CASE UnstartedStart(p)
  BY <1>33, SMTT(30) DEF UnstartedStart, AttachChat, FaultKind, Goto
<1>34. CASE UnstartedPersist(p)
  <2>1. userMessages'[p] \in {0, 1} /\ pc'[p] \notin BeforePersist
    BY <1>34 DEF UnstartedPersist, AddUserMessage, Goto
  <2> QED BY <1>34, <2>1 DEF UnstartedPersist, AddUserMessage, Record, FaultKind, Goto
<1>35. CASE Disconnect(p)
  BY <1>35, SMTT(30) DEF Disconnect, Goto
<1>36. CASE InterruptUnstarted(p)
  BY <1>36, SMTT(30) DEF InterruptUnstarted, Goto
<1>37. CASE InterruptUnhandled(p)
  BY <1>37, SourceStatuses, SMTT(30) DEF InterruptUnhandled, Transitioned, Goto
<1>38. CASE InterruptEngine(p)
  BY <1>38, SMTT(30) DEF InterruptEngine, Goto
<1>39. CASE InterruptInFlight(p)
  BY <1>39, SourceStatuses, SMTT(30) DEF InterruptInFlight, Transitioned, Goto
<1>40. CASE InterruptCompensation(p)
  BY <1>40, SMTT(30) DEF InterruptCompensation, SetMessage, Record, FaultKind, Goto
<1>41. CASE InterruptDurable(p)
  BY <1>41, SMTT(30) DEF InterruptDurable, Goto
<1>42. CASE RejectEvent(p)
  BY <1>42, SourceStatuses, SMTT(30) DEF RejectEvent, SetRun, Record, FaultKind,
      Transitioned, Goto
<1> QED BY <1>1, <1>2, <1>3, <1>4, <1>5, <1>6, <1>7, <1>8, <1>9, <1>10, <1>11, <1>12,
    <1>13, <1>14, <1>15, <1>16, <1>17, <1>18, <1>19, <1>20, <1>21, <1>22, <1>23, <1>24,
    <1>25, <1>26, <1>27, <1>28, <1>29, <1>30, <1>31, <1>32, <1>33, <1>34, <1>35, <1>36,
    <1>37, <1>38, <1>39, <1>40, <1>41, <1>42 DEF Handler, Arrive, Progress, Interrupt

\* A handler's step keeps the order of its stream's last events.
LEMMA StreamStep ==
  ASSUME TypeOK, NEW p \in Posts, HandlerInv(p), StreamAgrees(p), Handler(p)
  PROVE  StreamAgrees(p)'
<1> USE DEF TypeOK, HandlerInv, PcStatus, WorkIsOwned, StreamAgrees, AfterDone,
      AfterError, Worked,
            Outcomes, processVars, databaseVars, Statuses, ActiveStatuses,
      TERMINAL_RUN_STATUSES
<1>1. CASE ClaimOwned(p)
  BY <1>1, SMTT(30) DEF ClaimOwned, Record, FaultKind, Goto
<1>2. CASE ClaimDuplicate(p)
  BY <1>2, SMTT(30) DEF ClaimDuplicate, Goto
<1>3. CASE Lookup(p)
  BY <1>3, SMTT(30) DEF Lookup, Record, FaultKind, Existing, Goto
<1>4. CASE Replay(p)
  BY <1>4, SMTT(30) DEF Replay, Record, FaultKind, Emit, Goto
<1>5. CASE RouteSelected(p)
  BY <1>5, SMTT(30) DEF RouteSelected, Goto
<1>6. CASE RouteRaised(p)
  BY <1>6, SMTT(30) DEF RouteRaised, Goto
<1>7. CASE FailRouting(p)
  BY <1>7, SourceStatuses, SMTT(30) DEF FailRouting, SetRun, Record, FaultKind,
      Transitioned, Goto
<1>8. CASE MarkRunning(p)
  BY <1>8, SourceStatuses, SMTT(30) DEF MarkRunning, SetRun, Record, FaultKind,
      Transitioned, Goto
<1>9. CASE OpenStream(p)
  BY <1>9, SMTT(30) DEF OpenStream, Emit, Goto
<1>10. CASE BeginEngine(p)
  BY <1>10, SMTT(30) DEF BeginEngine, Goto
<1>11. CASE Start(p)
  BY <1>11, SMTT(30) DEF Start, AttachChat, FailAt, Emit, FaultKind, Goto
<1>12. CASE Persist(p)
  BY <1>12, SMTT(30) DEF Persist, AddUserMessage, Record, FaultKind, FailAt, Emit, Goto
<1>13. CASE ResolveSymbol(p)
  BY <1>13, SMTT(30) DEF ResolveSymbol, FailAt, Emit, Goto
<1>14. CASE EngineReturns(p)
  BY <1>14, SMTT(30) DEF EngineReturns, Goto
<1>15. CASE EngineRaises(p)
  BY <1>15, SMTT(30) DEF EngineRaises, FailAt, Emit, Goto
<1>16. CASE Finish(p)
  BY <1>16, SMTT(30) DEF Finish, Emit, Goto
<1>17. CASE FinishWithError(p)
  BY <1>17, SMTT(30) DEF FinishWithError, FailAt, Emit, Goto
<1>18. CASE VerdictNotPersisted(p)
  BY <1>18, SMTT(30) DEF VerdictNotPersisted, Emit, Goto
<1>19. CASE CompleteMessage(p)
  BY <1>19, SMTT(30) DEF CompleteMessage, SetMessage, Record, FaultKind, FailAt, Emit,
      Goto
<1>20. CASE CompleteRun(p)
  BY <1>20, SourceStatuses, SMTT(30) DEF CompleteRun, SetRun, Record, FaultKind,
      Transitioned, Accepted, Emit, Goto
<1>21. CASE Done(p)
  BY <1>21, SMTT(30) DEF Done, Emit, Goto
<1>22. CASE Close(p)
  BY <1>22, SMTT(30) DEF Close, Goto
<1>23. CASE Compensate(p)
  BY <1>23, SMTT(30) DEF Compensate, SetMessage, Record, FaultKind, Goto
<1>24. CASE CompensateFail(p)
  BY <1>24, SourceStatuses, SMTT(30) DEF CompensateFail, SetRun, Record, FaultKind,
      Transitioned, Accepted, Emit, FailedEvents, Goto
<1>25. CASE FailRun(p)
  BY <1>25, SourceStatuses, SMTT(30) DEF FailRun, SetRun, Record, FaultKind,
      Transitioned, Accepted, Emit, FailedEvents, Goto
<1>26. CASE ClarifyMessage(p)
  BY <1>26, SMTT(30) DEF ClarifyMessage, SetMessage, Record, FaultKind, FailAt, Emit,
      Goto
<1>27. CASE ClarifyRun(p)
  BY <1>27, SourceStatuses, SMTT(30) DEF ClarifyRun, SetRun, Record, FaultKind,
      Transitioned, Accepted, Emit, Goto
<1>28. CASE ClarifyCompensate(p)
  BY <1>28, SMTT(30) DEF ClarifyCompensate, SetMessage, Record, FaultKind, FailAt, Emit,
      Goto
<1>29. CASE CancelTask(p)
  BY <1>29, SMTT(30) DEF CancelTask, Goto
<1>30. CASE CancelTaskRaises(p)
  <2>1. status[p] = "completed" => status'[p] = "completed"
    BY <1>30, SourceStatuses DEF CancelTaskRaises, SetRun, Transitioned
  <2>2. seen' = seen /\ flow' = flow /\ userMessages' = userMessages /\ pc'[p] = "ended"
    BY <1>30 DEF CancelTaskRaises, Goto
  <2>3. task[p] # "none" BY <1>30 DEF CancelTaskRaises
  <2> QED BY <2>1, <2>2, <2>3
<1>31. CASE CancelRun(p)
  BY <1>31, SourceStatuses, SMTT(30) DEF CancelRun, SetRun, Record, FaultKind,
      Transitioned, Accepted, Goto
<1>32. CASE CancelMessage(p)
  BY <1>32, SMTT(30) DEF CancelMessage, SetMessage, Record, FaultKind, Goto
<1>33. CASE UnstartedStart(p)
  BY <1>33, SMTT(30) DEF UnstartedStart, AttachChat, FaultKind, Goto
<1>34. CASE UnstartedPersist(p)
  BY <1>34, SMTT(30) DEF UnstartedPersist, AddUserMessage, Record, FaultKind, Goto
<1>35. CASE Disconnect(p)
  BY <1>35, SMTT(30) DEF Disconnect, Live, Goto
<1>36. CASE InterruptUnstarted(p)
  BY <1>36, SMTT(30) DEF InterruptUnstarted, Goto
<1>37. CASE InterruptUnhandled(p)
  BY <1>37, SourceStatuses, SMTT(30) DEF InterruptUnhandled, Transitioned, Goto
<1>38. CASE InterruptEngine(p)
  BY <1>38, SMTT(30) DEF InterruptEngine, Goto
<1>39. CASE InterruptInFlight(p)
  BY <1>39, SourceStatuses, SMTT(30) DEF InterruptInFlight, Transitioned, Goto
<1>40. CASE InterruptCompensation(p)
  BY <1>40, SMTT(30) DEF InterruptCompensation, SetMessage, Record, FaultKind, Goto
<1>41. CASE InterruptDurable(p)
  BY <1>41, SMTT(30) DEF InterruptDurable, Goto
<1>42. CASE RejectEvent(p)
  BY <1>42, SourceStatuses, SMTT(30) DEF RejectEvent, SetRun, Record, FaultKind,
      Transitioned, Goto
<1> QED BY <1>1, <1>2, <1>3, <1>4, <1>5, <1>6, <1>7, <1>8, <1>9, <1>10, <1>11, <1>12,
      <1>13, <1>14, <1>15, <1>16, <1>17, <1>18, <1>19, <1>20, <1>21, <1>22, <1>23,
      <1>24, <1>25, <1>26, <1>27, <1>28, <1>29, <1>30, <1>31, <1>32, <1>33, <1>34,
      <1>35, <1>36, <1>37, <1>38, <1>39, <1>40, <1>41, <1>42 DEF Handler, Arrive,
      Progress, Interrupt

-------------------------------------------------------------------------------
(* The invariant of the system *)

LEMMA Initially == Init => IInv
<1> SUFFICES ASSUME Init PROVE IInv OBVIOUS
<1>1. TypeOK
  BY DEF Init, TypeOK, Labels, StatusOrAbsent, Messages
<1>2. ASSUME NEW p \in Posts PROVE HandlerInv(p) /\ StreamAgrees(p) /\ OneOwner(p)
  BY DEF Init, HandlerInv, PcStatus, SnapshotTaken, AnswerAgrees, OnePersist, WorkIsOwned,
         Worked, TaskIsAttended, StreamAgrees, AfterDone, AfterError, OneOwner
<1> QED BY <1>1, <1>2 DEF IInv

\* A handler's step keeps the invariants of the others and the single owner.
LEMMA FrameStep ==
  ASSUME IInv, TypeOK', NEW p \in Posts, StepOK(p), StreamAgrees(p)'
  PROVE  IInv'
<1>1. ASSUME NEW q \in Posts PROVE HandlerInv(q)' /\ StreamAgrees(q)'
  <2>1. CASE q = p BY <2>1 DEF StepOK
  <2>2. CASE q # p
    BY <2>2 DEF StepOK, Local, IInv, HandlerInv, PcStatus, SnapshotTaken, AnswerAgrees,
                OnePersist, WorkIsOwned, Worked, TaskIsAttended, StreamAgrees
  <2> QED BY <2>1, <2>2
<1>2. ASSUME NEW q \in Posts, NEW r \in Posts, r # q, status'[q] # "absent",
             status'[r] # "absent", RequestOf[q] = RequestOf[r], RequestOf[q] # NoRequest
      PROVE  FALSE
  <2>1. \A s \in Posts \ {p} : status'[s] = status[s] BY DEF StepOK, Local
  <2>2. CASE status[p] = "absent" /\ Existing(p) = {}
    <3>1. q = p \/ r = p BY <1>2, <2>1, <2>2 DEF IInv, OneOwner, Existing
    <3> QED BY <1>2, <2>1, <2>2, <3>1 DEF Existing
  <2>3. CASE status[p] = "absent" => status'[p] = "absent"
    BY <1>2, <2>1, <2>3 DEF IInv, OneOwner, Existing
  <2>4. \/ status[p] = "absent" /\ Existing(p) = {}
        \/ status[p] = "absent" => status'[p] = "absent"
    <3>1. ASSUME NEW from, NEW to PROVE "absent" \notin AllowedFrom(from, to)
      BY DEF AllowedFrom, ALLOWED_RUN_TRANSITIONS
    <3> QED BY <3>1 DEF StepOK, StatusStep
  <2> QED BY <2>2, <2>3, <2>4
<1>3. \A q \in Posts : OneOwner(q)' BY <1>2 DEF OneOwner, Existing
<1> QED BY <1>1, <1>3 DEF IInv

\* The crash of the process moves only the handlers and their tasks.
LEMMA CrashStep == ASSUME IInv, Crash PROVE IInv'
<1>1. TypeOK'
  BY DEF IInv, TypeOK, Crash, databaseVars, Labels
<1>2. ASSUME NEW q \in Posts PROVE HandlerInv(q)' /\ StreamAgrees(q)' /\ OneOwner(q)'
  <2>1. \/ pc'[q] = pc[q] /\ task'[q] = task[q]
        \/ pc'[q] = "crashed" /\ task'[q] = "none"
    <3>1. CASE Live(q) BY <3>1 DEF Crash
    <3>2. CASE ~Live(q) BY <3>2 DEF Crash
    <3> QED BY <3>1, <3>2
  <2>2. UNCHANGED <<flow, snapshot, seen, databaseVars, faults>> BY DEF Crash
  <2> USE <2>1, <2>2 DEF databaseVars
  <2>3. HandlerInv(q)'
    BY DEF IInv, HandlerInv, PcStatus, SnapshotTaken, AnswerAgrees, OnePersist, BeforePersist,
           WorkIsOwned, Worked, TaskIsAttended
  <2>4. StreamAgrees(q)'
    BY DEF IInv, HandlerInv, WorkIsOwned, StreamAgrees, AfterDone, AfterError, Worked
  <2>5. OneOwner(q)' BY DEF IInv, OneOwner, Existing
  <2> QED BY <2>3, <2>4, <2>5
<1> QED BY <1>1, <1>2 DEF IInv

LEMMA Inductive == IInv /\ [Next]_vars => IInv'
<1> SUFFICES ASSUME IInv, [Next]_vars PROVE IInv' OBVIOUS
<1>1. ASSUME NEW p \in Posts, Handler(p) PROVE IInv'
  <2>1. TypeOK /\ HandlerInv(p) /\ StreamAgrees(p) BY DEF IInv
  <2> QED BY <1>1, <2>1, TypeStep, HandlerStep, StreamStep, FrameStep
<1>2. CASE Crash BY <1>2, CrashStep
<1>3. CASE UNCHANGED vars
  BY <1>3 DEF vars, processVars, databaseVars, IInv, TypeOK, HandlerInv, PcStatus, SnapshotTaken,
              AnswerAgrees, OnePersist, BeforePersist, WorkIsOwned, Worked, TaskIsAttended,
              StreamAgrees, OneOwner, Existing
<1> QED BY <1>1, <1>2, <1>3 DEF Next, Idle, Handler

LEMMA Invariance == Spec => []IInv
BY Initially, Inductive, PTL DEF Spec

-------------------------------------------------------------------------------
(* Replays: what a duplicate read of the run, and later of its message *)

\* From here on the chat of a handler is known to the run document.
Started ==
  {"persist", "resolve", "engine", "finish", "complete_message", "complete_run",
   "clarify_message", "clarify_run"}

\* A run that is completed or waits has its chat, and one that waits its question.
Settled(p) ==
  /\ pc[p] \in Started => chat[p] = "attached"
  /\ status[p] \in {"completed", "waiting_for_input"} =>
       chat[p] = "attached" /\ pc[p] # "unstarted_start"
  /\ pc[p] = "clarify_run" => message[p] = "waiting_for_input"
  /\ status[p] = "waiting_for_input" /\ "run_ack" \notin faults[p] =>
       message[p] = "waiting_for_input" /\ pc[p] # "clarify_compensate"

\* Where a run that has this status may still go.
Beyond(s) ==
  IF s = "waiting_for_input" THEN {"waiting_for_input", "failed", "cancelled"} ELSE {s}

Settles(p) ==
  /\ faults[p] \subseteq faults'[p]
  /\ status[p] \in TERMINAL_RUN_STATUSES \cup {"waiting_for_input"} =>
       status'[p] \in Beyond(status[p])
  /\ \A q \in Posts \ {p} : chat'[q] = chat[q]

Replaying == {"new", "lookup", "replay"}

\* An owner never looks a run up.
Owns(p) ==
  /\ snapshot' = snapshot
  /\ \/ pc'[p] = pc[p] /\ seen'[p] = seen[p]
     \/ pc[p] \notin Replaying \cup {"ended", "crashed"} /\ pc'[p] \notin Replaying

Faithful(p) ==
  LET s == snapshot[p]
  IN  /\ pc[p] = "ended" /\ seen[p] # {}
      /\ s.status \in {"completed", "waiting_for_input"} /\ "run_ack" \notin faults[s.run]
      => /\ "done" \in seen[p]
         /\ s.status = "completed" => "chunk" \in seen[p]
         /\ s.status = "waiting_for_input" /\ status[s.run] = "waiting_for_input"
              => "clarification" \in seen[p]

\* What the duplicate found the run to be, the run still is, or has ended since.
Replayed(p) ==
  LET s == snapshot[p]
  IN  /\ pc[p] \in Replaying => seen[p] = {}
      /\ s.status # "absent" => pc[p] \in {"replay", "ended", "crashed"}
      /\ s.status \in {"completed", "waiting_for_input"} =>
           s.attached /\ status[s.run] \in Beyond(s.status)
      /\ Faithful(p)

ReplayInv == \A p \in Posts : Settled(p) /\ Replayed(p)

\* The steps that decide what a duplicate replays.
Duplicates(p) == ClaimOwned(p) \/ ClaimDuplicate(p) \/ Lookup(p) \/ Replay(p)

\* What went wrong is not forgotten.
LEMMA RecordGrows ==
  ASSUME TypeOK, NEW p \in Posts, NEW c, NEW o, Record(p, c, o)
  PROVE  faults[p] \subseteq faults'[p]
BY DEF TypeOK, Record

\* A handler's step keeps what its own run has, and ends no run anew.
LEMMA SettledStep ==
  ASSUME TypeOK, NEW p \in Posts, HandlerInv(p), Settled(p), Handler(p)
  PROVE  Settled(p)' /\ Settles(p) /\ (Duplicates(p) \/ Owns(p))
<1> USE DEF TypeOK, HandlerInv, PcStatus, Settled, Settles, Owns, Started, Replaying, Beyond,
      Outcomes, processVars, databaseVars, TERMINAL_RUN_STATUSES
<1>1. CASE ClaimOwned(p)
  <2>1. pc'[p] \in {"routing", "ended"} /\ status'[p] \in {"absent", "pending"}
    BY <1>1 DEF ClaimOwned, Goto
  <2>2. status[p] = "absent" /\ chat' = chat BY <1>1 DEF ClaimOwned
  <2>3. faults[p] \subseteq faults'[p] BY <1>1, RecordGrows DEF ClaimOwned
  <2> QED BY <1>1, <2>1, <2>2, <2>3 DEF Duplicates
<1>2. CASE ClaimDuplicate(p)
  BY <1>2, SMTT(30) DEF Duplicates, ClaimDuplicate, Goto
<1>3. CASE Lookup(p)
  <2>1. pc'[p] \in {"replay", "ended"} BY <1>3 DEF Lookup, Goto
  <2>2. status[p] = "absent" /\ status' = status /\ chat' = chat BY <1>3 DEF Lookup
  <2>3. faults[p] \subseteq faults'[p] BY <1>3, RecordGrows DEF Lookup
  <2> QED BY <1>3, <2>1, <2>2, <2>3 DEF Duplicates
<1>4. CASE Replay(p)
  <2>1. pc'[p] = "ended" BY <1>4 DEF Replay, Goto
  <2>2. status[p] = "absent" /\ status' = status /\ chat' = chat BY <1>4 DEF Replay
  <2>3. faults[p] \subseteq faults'[p] BY <1>4, RecordGrows DEF Replay
  <2> QED BY <1>4, <2>1, <2>2, <2>3 DEF Duplicates
<1>5. CASE RouteSelected(p)
  BY <1>5, SMTT(30) DEF RouteSelected, Goto
<1>6. CASE RouteRaised(p)
  BY <1>6, SMTT(30) DEF RouteRaised, Goto
<1>7. CASE FailRouting(p)
  BY <1>7, SourceStatuses, SMTT(30) DEF FailRouting, SetRun, Record, FaultKind,
      Transitioned, Goto
<1>8. CASE MarkRunning(p)
  BY <1>8, SourceStatuses, SMTT(30) DEF MarkRunning, SetRun, Record, FaultKind,
      Transitioned, Goto
<1>9. CASE OpenStream(p)
  BY <1>9, SMTT(30) DEF OpenStream, Emit, Goto
<1>10. CASE BeginEngine(p)
  BY <1>10, SMTT(30) DEF BeginEngine, Goto
<1>11. CASE Start(p)
  BY <1>11, SMTT(30) DEF Start, AttachChat, FailAt, Emit, FaultKind, Goto
<1>12. CASE Persist(p)
  BY <1>12, SMTT(30) DEF Persist, AddUserMessage, Record, FaultKind, FailAt, Emit, Goto
<1>13. CASE ResolveSymbol(p)
  BY <1>13, SMTT(30) DEF ResolveSymbol, FailAt, Emit, Goto
<1>14. CASE EngineReturns(p)
  BY <1>14, SMTT(30) DEF EngineReturns, Goto
<1>15. CASE EngineRaises(p)
  BY <1>15, SMTT(30) DEF EngineRaises, FailAt, Emit, Goto
<1>16. CASE Finish(p)
  BY <1>16, SMTT(30) DEF Finish, Emit, Goto
<1>17. CASE FinishWithError(p)
  BY <1>17, SMTT(30) DEF FinishWithError, FailAt, Emit, Goto
<1>18. CASE VerdictNotPersisted(p)
  BY <1>18, SMTT(30) DEF VerdictNotPersisted, Emit, Goto
<1>19. CASE CompleteMessage(p)
  BY <1>19, SMTT(30) DEF CompleteMessage, SetMessage, Record, FaultKind, FailAt, Emit,
      Goto
<1>20. CASE CompleteRun(p)
  BY <1>20, SourceStatuses, SMTT(30) DEF CompleteRun, SetRun, Record, FaultKind,
      Transitioned, Accepted, Emit, Goto
<1>21. CASE Done(p)
  BY <1>21, SMTT(30) DEF Done, Emit, Goto
<1>22. CASE Close(p)
  BY <1>22, SMTT(30) DEF Close, Goto
<1>23. CASE Compensate(p)
  BY <1>23, SMTT(30) DEF Compensate, SetMessage, Record, FaultKind, Goto
<1>24. CASE CompensateFail(p)
  BY <1>24, SourceStatuses, SMTT(30) DEF CompensateFail, SetRun, Record, FaultKind,
      Transitioned, Accepted, Emit, FailedEvents, Goto
<1>25. CASE FailRun(p)
  BY <1>25, SourceStatuses, SMTT(30) DEF FailRun, SetRun, Record, FaultKind,
      Transitioned, Accepted, Emit, FailedEvents, Goto
<1>26. CASE ClarifyMessage(p)
  BY <1>26, SMTT(30) DEF ClarifyMessage, SetMessage, Record, FaultKind, FailAt, Emit,
      Goto
<1>27. CASE ClarifyRun(p)
  BY <1>27, SourceStatuses, SMTT(30) DEF ClarifyRun, SetRun, Record, FaultKind,
      Transitioned, Accepted, Emit, Goto
<1>28. CASE ClarifyCompensate(p)
  BY <1>28, SMTT(30) DEF ClarifyCompensate, SetMessage, Record, FaultKind, FailAt, Emit,
      Goto
<1>29. CASE CancelTask(p)
  BY <1>29, SMTT(30) DEF CancelTask, Goto
<1>30. CASE CancelTaskRaises(p)
  BY <1>30, SourceStatuses, SMTT(30) DEF CancelTaskRaises, SetRun, Record, FaultKind,
      Transitioned, Goto
<1>31. CASE CancelRun(p)
  BY <1>31, SourceStatuses, SMTT(30) DEF CancelRun, SetRun, Record, FaultKind,
      Transitioned, Accepted, Goto
<1>32. CASE CancelMessage(p)
  BY <1>32, SMTT(30) DEF CancelMessage, SetMessage, Record, FaultKind, Goto
<1>33. CASE UnstartedStart(p)
  BY <1>33, SMTT(30) DEF UnstartedStart, AttachChat, FaultKind, Goto
<1>34. CASE UnstartedPersist(p)
  BY <1>34, SMTT(30) DEF UnstartedPersist, AddUserMessage, Record, FaultKind, Goto
<1>35. CASE Disconnect(p)
  BY <1>35, SMTT(30) DEF Disconnect, Live, Goto
<1>36. CASE InterruptUnstarted(p)
  BY <1>36, SMTT(30) DEF InterruptUnstarted, Goto
<1>37. CASE InterruptUnhandled(p)
  BY <1>37, SourceStatuses, SMTT(30) DEF InterruptUnhandled, Transitioned, Goto
<1>38. CASE InterruptEngine(p)
  BY <1>38, SMTT(30) DEF InterruptEngine, Goto
<1>39. CASE InterruptInFlight(p)
  <2>1. pc'[p] = "cancel_task" /\ faults' = faults /\ snapshot' = snapshot
    BY <1>39 DEF InterruptInFlight, Goto
  <2>2. CASE pc[p] = "start"
    BY <1>39, <2>1, <2>2 DEF InterruptInFlight
  <2>3. CASE pc[p] \in {"persist", "clarify_message"}
    BY <1>39, <2>1, <2>3 DEF InterruptInFlight
  <2>4. CASE pc[p] \in {"clarify_run", "fail", "compensate_fail"}
    <3>1. chat' = chat /\ message' = message BY <1>39, <2>4 DEF InterruptInFlight
    <3>2. pc[p] = "clarify_run" => status'[p] = "waiting_for_input"
      BY <1>39, SourceStatuses DEF InterruptInFlight, Transitioned
    <3>3. pc[p] # "clarify_run" =>
            status'[p] = IF status[p] \in {"pending", "running", "waiting_for_input"}
                         THEN "failed" ELSE status[p]
      BY <1>39, <2>4, SourceStatuses DEF InterruptInFlight, Transitioned
    <3>4. CASE pc[p] = "clarify_run" BY <2>1, <3>1, <3>2, <3>4
    <3>5. CASE pc[p] # "clarify_run" BY <2>1, <2>4, <3>1, <3>3, <3>5
    <3> QED BY <3>4, <3>5
  <2> QED BY <1>39, <2>2, <2>3, <2>4 DEF InterruptInFlight
<1>40. CASE InterruptCompensation(p)
  BY <1>40, SMTT(30) DEF InterruptCompensation, SetMessage, Record, FaultKind, Goto
<1>41. CASE InterruptDurable(p)
  BY <1>41, SMTT(30) DEF InterruptDurable, Goto
<1>42. CASE RejectEvent(p)
  BY <1>42, SourceStatuses, SMTT(30) DEF RejectEvent, SetRun, Record, FaultKind,
      Transitioned, Goto
<1> QED BY <1>1, <1>2, <1>3, <1>4, <1>5, <1>6, <1>7, <1>8, <1>9, <1>10, <1>11, <1>12,
      <1>13, <1>14, <1>15, <1>16, <1>17, <1>18, <1>19, <1>20, <1>21, <1>22, <1>23,
      <1>24, <1>25, <1>26, <1>27, <1>28, <1>29, <1>30, <1>31, <1>32, <1>33, <1>34,
      <1>35, <1>36, <1>37, <1>38, <1>39, <1>40, <1>41, <1>42 DEF Handler, Arrive,
      Progress, Interrupt

\* A duplicate's look at a run, and at its message, keeps what it replays true.
LEMMA ReplayStep ==
  ASSUME IInv, ReplayInv, NEW p \in Posts, Duplicates(p), Settles(p)
  PROVE  Replayed(p)'
<1> DEFINE s == snapshot[p]
<1>1. status[p] = "absent" /\ pc[p] \in Replaying /\ seen[p] = {}
  BY DEF Duplicates, ClaimOwned, ClaimDuplicate, Lookup, Replay, IInv, HandlerInv, PcStatus,
         ReplayInv, Replayed, Replaying
<1>2. CASE ClaimOwned(p) \/ ClaimDuplicate(p)
  <2>1. snapshot' = snapshot /\ seen' = seen /\ snapshot[p].status = "absent"
    BY <1>2 DEF ClaimOwned, ClaimDuplicate, ReplayInv, Replayed
  <2> QED BY <1>1, <2>1 DEF Replayed, Faithful
<1>3. CASE Lookup(p)
  <2>1. seen'[p] = {} /\ status' = status /\ chat' = chat BY <1>1, <1>3 DEF Lookup, databaseVars
  <2>2. CASE pc'[p] = "ended" /\ snapshot' = snapshot
    <3>1. Faithful(p)' BY <2>1 DEF Faithful
    <3>2. Replayed(p) BY DEF ReplayInv
    <3> QED BY <2>1, <2>2, <3>1, <3>2 DEF Replayed, Replaying
  <2>3. ASSUME NEW q \in Posts, pc'[p] = "replay",
               snapshot'[p] = [run |-> q, status |-> status[q], attached |-> chat[q] = "attached"]
        PROVE  Replayed(p)'
    <3>1. Settled(q) BY DEF ReplayInv
    <3>2. /\ snapshot'[p].run = q /\ snapshot'[p].status = status[q]
          /\ snapshot'[p].attached = (chat[q] = "attached")
      BY <2>3
    <3>3. Faithful(p)' BY <2>1 DEF Faithful
    <3>4. snapshot'[p].status \in {"completed", "waiting_for_input"} =>
            snapshot'[p].attached /\ status'[snapshot'[p].run] \in Beyond(snapshot'[p].status)
      BY <2>1, <3>1, <3>2 DEF Settled, Beyond
    <3> QED BY <2>1, <2>3, <3>3, <3>4 DEF Replayed
  <2>4. \/ pc'[p] = "ended" /\ snapshot' = snapshot
        \/ \E q \in Posts :
             /\ pc'[p] = "replay"
             /\ snapshot'[p] = [run |-> q, status |-> status[q],
                                attached |-> chat[q] = "attached"]
    BY <1>3 DEF Lookup, Goto, IInv, TypeOK, Existing
  <2> QED BY <2>2, <2>3, <2>4
<1>4. CASE Replay(p)
  <2>1. snapshot' = snapshot /\ status' = status /\ pc'[p] = "ended"
    BY <1>4 DEF Replay, databaseVars, Goto, IInv, TypeOK
  <2>2. s.run \in Posts BY DEF IInv, TypeOK
  <2>3. seen'[p] = {} \/ seen'[p] = ReplayEvents(s, message[s.run])
    BY <1>1, <1>4 DEF Replay, Emit, IInv, TypeOK
  <2>4. faults[s.run] \subseteq faults'[s.run]
    BY <1>4, <2>2, RecordGrows DEF Replay, Record, IInv, TypeOK
  <2>5. CASE seen'[p] = ReplayEvents(s, message[s.run])
    <3>1. ASSUME s.status = "completed", "run_ack" \notin faults'[s.run]
          PROVE  "done" \in seen'[p] /\ "chunk" \in seen'[p]
      <4>1. s.attached /\ status[s.run] = "completed"
        BY <3>1 DEF ReplayInv, Replayed, Beyond
      <4>2. message[s.run] = "completed"
        BY <2>2, <2>4, <3>1, <4>1 DEF IInv, HandlerInv, AnswerAgrees
      <4> QED BY <2>5, <3>1, <4>1, <4>2 DEF ReplayEvents, ReplayContent, ActiveStatuses
    <3>2. ASSUME s.status = "waiting_for_input", "run_ack" \notin faults'[s.run]
          PROVE  /\ "done" \in seen'[p]
                 /\ status[s.run] = "waiting_for_input" => "clarification" \in seen'[p]
      <4>1. s.attached BY <3>2 DEF ReplayInv, Replayed
      <4>2. status[s.run] = "waiting_for_input" => message[s.run] = "waiting_for_input"
        BY <2>2, <2>4, <3>2 DEF ReplayInv, Settled
      <4> QED BY <2>5, <3>2, <4>1, <4>2 DEF ReplayEvents, ReplayContent, ActiveStatuses
    <3>3. Faithful(p)' BY <2>1, <3>1, <3>2 DEF Faithful
    <3> QED BY <2>1, <3>3 DEF ReplayInv, Replayed, Replaying
  <2>6. CASE seen'[p] = {}
    BY <2>1, <2>6 DEF ReplayInv, Replayed, Faithful, Replaying
  <2> QED BY <2>3, <2>5, <2>6
<1> QED BY <1>2, <1>3, <1>4 DEF Duplicates

\* What another run has settled stays settled.
LEMMA StaysReplayed ==
  ASSUME IInv, ReplayInv, NEW p \in Posts, snapshot'[p] = snapshot[p], seen'[p] = seen[p],
         pc'[p] = pc[p] \/ pc'[p] = "crashed",
         \A q \in Posts :
           /\ faults[q] \subseteq faults'[q]
           /\ status[q] \in TERMINAL_RUN_STATUSES \cup {"waiting_for_input"} =>
                status'[q] \in Beyond(status[q])
  PROVE  Replayed(p)'
<1> DEFINE s == snapshot[p]
<1>1. s.run \in Posts BY DEF IInv, TypeOK
<1>2. Replayed(p) BY DEF ReplayInv
<1>3. s.status \in {"completed", "waiting_for_input"} =>
        /\ status'[s.run] \in Beyond(s.status)
        /\ status'[s.run] = "waiting_for_input" => status[s.run] = "waiting_for_input"
  BY <1>1, <1>2 DEF Replayed, Beyond, TERMINAL_RUN_STATUSES
<1>4. Faithful(p)' BY <1>1, <1>2, <1>3 DEF Replayed, Faithful
<1> QED BY <1>2, <1>3, <1>4 DEF Replayed, Replaying

LEMMA ReplayInductive == IInv /\ ReplayInv /\ [Next]_vars => ReplayInv'
<1> SUFFICES ASSUME IInv, ReplayInv, [Next]_vars PROVE ReplayInv' OBVIOUS
<1>1. ASSUME NEW p \in Posts, Handler(p) PROVE ReplayInv'
  <2>1. Settled(p)' /\ Settles(p) /\ (Duplicates(p) \/ Owns(p))
    BY <1>1, SettledStep DEF IInv, ReplayInv
  <2>2. StepOK(p) BY <1>1, HandlerStep DEF IInv
  <2>3. \A q \in Posts :
          /\ faults[q] \subseteq faults'[q]
          /\ status[q] \in TERMINAL_RUN_STATUSES \cup {"waiting_for_input"} =>
               status'[q] \in Beyond(status[q])
    BY <2>1, <2>2 DEF Settles, StepOK, Local, Beyond
  <2>4. ASSUME NEW q \in Posts \ {p} PROVE Settled(q)' /\ Replayed(q)'
    <3>1. Settled(q)' BY <2>1, <2>2 DEF Settles, StepOK, Local, ReplayInv, Settled
    <3>2. Replayed(q)' BY <2>2, <2>3, StaysReplayed DEF StepOK, Local
    <3> QED BY <3>1, <3>2
  <2>5. Replayed(p)'
    <3>1. CASE Duplicates(p) BY <2>1, <3>1, ReplayStep
    <3>2. CASE Owns(p) /\ pc'[p] = pc[p] /\ seen'[p] = seen[p]
      BY <2>3, <3>2, StaysReplayed DEF Owns
    <3>3. CASE Owns(p) /\ pc[p] \notin Replaying \cup {"ended", "crashed"} /\ pc'[p] \notin Replaying
      BY <3>3 DEF Owns, ReplayInv, Replayed, Faithful, Replaying
    <3> QED BY <2>1, <3>1, <3>2, <3>3 DEF Owns
  <2> QED BY <2>1, <2>4, <2>5 DEF ReplayInv
<1>2. ASSUME UNCHANGED <<flow, snapshot, seen, databaseVars, faults>>,
             \A p \in Posts : pc'[p] = pc[p] \/ pc'[p] = "crashed"
      PROVE  ReplayInv'
  <2>1. ASSUME NEW p \in Posts PROVE Settled(p)'
    BY <1>2 DEF databaseVars, ReplayInv, Settled, Started
  <2>2. ASSUME NEW p \in Posts PROVE Replayed(p)'
    BY <1>2, StaysReplayed DEF databaseVars, Beyond
  <2> QED BY <2>1, <2>2 DEF ReplayInv
<1>3. CASE Crash BY <1>2, <1>3 DEF Crash
<1>4. CASE UNCHANGED vars BY <1>2, <1>4 DEF vars, processVars, databaseVars
<1> QED BY <1>1, <1>3, <1>4 DEF Next, Idle, Handler

LEMMA ReplayInvariance == Spec => []ReplayInv
<1>1. Init => ReplayInv
  BY DEF Init, ReplayInv, Settled, Started, Replayed, Replaying, Faithful
<1> QED BY <1>1, Invariance, ReplayInductive, PTL DEF Spec

-------------------------------------------------------------------------------
(* How handlers end *)

\* The last event of a stream waits to be yielded: the run is settled, or a call failed.
AtLast(p) ==
  pc[p] \in {"completed", "waiting", "closing"} =>
    status[p] \notin ActiveStatuses \/ faults[p] # {}

\* The handler does not end with its run active, but where nothing could settle it.
Ends(p) ==
  pc[p] # "ended" /\ pc'[p] = "ended" /\ faults'[p] = {} /\ ~Unhandled(p)
    => status'[p] \notin ActiveStatuses

\* A call that did not fail is the only one that leaves no fault.
LEMMA FaultIsNoted ==
  ASSUME TypeOK, NEW p \in Posts, NEW c, NEW o, Record(p, c, o)
  PROVE  faults'[p] = {} => o = "ok"
BY DEF TypeOK, Record

\* A transition to a terminal status settles the run, or its call failed.
LEMMA SetRunSettles ==
  ASSUME TypeOK, NEW p \in Posts, NEW to \in {"failed", "cancelled"}, NEW o, SetRun(p, to, o)
  PROVE  faults'[p] # {} \/ status'[p] \notin ActiveStatuses
<1>1. faults'[p] = {} => o = "ok" BY FaultIsNoted DEF SetRun
<1>2. o = "ok" => status'[p] = Transitioned(status[p], FromStatuses[to], to)
  BY DEF SetRun, TypeOK
<1>3. Transitioned(status[p], FromStatuses[to], to) \notin ActiveStatuses
  BY SourceStatuses DEF Transitioned, ActiveStatuses
<1> QED BY <1>1, <1>2, <1>3

\* A step that ends elsewhere than in a last event or at the end.
LEMMA GoesOn ==
  ASSUME TypeOK, NEW p \in Posts,
         \E l \in Labels \ {"completed", "waiting", "closing", "ended"} : Goto(p, l)
  PROVE  AtLast(p)' /\ Ends(p)
BY DEF TypeOK, Goto, AtLast, Ends

LEMMA EndingStep ==
  ASSUME TypeOK, NEW p \in Posts, HandlerInv(p), AtLast(p), Handler(p)
  PROVE  AtLast(p)' /\ Ends(p)
<1> USE DEF Outcomes
<1>1. CASE \/ ClaimDuplicate(p) \/ RouteSelected(p) \/ RouteRaised(p) \/ OpenStream(p)
           \/ BeginEngine(p) \/ EngineReturns(p) \/ Finish(p) \/ Compensate(p)
           \/ CancelTask(p) \/ InterruptUnstarted(p) \/ InterruptEngine(p)
           \/ InterruptInFlight(p) \/ InterruptCompensation(p) \/ VerdictNotPersisted(p)
  <2>1. \E l \in {"lookup", "mark_running", "route_fail", "prelude", "start", "finish",
                  "complete_message", "compensate_fail", "cancel_run", "unstarted_start",
                  "cancel_task", "outer_fail"} : Goto(p, l)
    BY <1>1 DEF ClaimDuplicate, RouteSelected, RouteRaised, OpenStream, BeginEngine,
       EngineReturns, Finish, Compensate, CancelTask, InterruptUnstarted, InterruptEngine,
       InterruptInFlight, InterruptCompensation, VerdictNotPersisted
  <2> QED BY <2>1, GoesOn DEF Labels, Guarded
<1>2. CASE \/ Start(p) \/ Persist(p) \/ ResolveSymbol(p) \/ EngineRaises(p)
           \/ FinishWithError(p) \/ CompleteMessage(p) \/ ClarifyMessage(p)
           \/ ClarifyCompensate(p)
  <2>1. \E l \in {"persist", "resolve", "engine", "fail", "outer_fail", "complete_run",
                  "clarify_message", "clarify_run"} : Goto(p, l)
    BY <1>2 DEF Start, Persist, ResolveSymbol, EngineRaises, FinishWithError,
       CompleteMessage, ClarifyMessage, ClarifyCompensate, FailAt
  <2> QED BY <2>1, GoesOn DEF Labels, Guarded
<1>3. CASE Lookup(p) \/ Replay(p)
  <2>1. status'[p] = "absent"
    BY <1>3 DEF Lookup, Replay, HandlerInv, PcStatus, databaseVars
  <2> QED BY <2>1 DEF AtLast, Ends, ActiveStatuses
<1>4. CASE FailRouting(p) \/ FailRun(p) \/ CompensateFail(p) \/ RejectEvent(p)
  <2>1. faults'[p] # {} \/ status'[p] \notin ActiveStatuses
    BY <1>4, SetRunSettles DEF FailRouting, FailRun, CompensateFail, RejectEvent
  <2> QED BY <2>1 DEF AtLast, Ends
<1>5. CASE CancelRun(p)
  <2>1. faults'[p] # {} \/ status'[p] \notin ActiveStatuses
    BY <1>5, SetRunSettles DEF CancelRun
  <2> QED BY <2>1 DEF AtLast, Ends
<1>6. CASE CancelMessage(p)
  <2>1. status'[p] = "cancelled"
    BY <1>6 DEF CancelMessage, HandlerInv, PcStatus
  <2> QED BY <2>1 DEF AtLast, Ends, ActiveStatuses
<1>7. CASE CancelTaskRaises(p) \/ InterruptUnhandled(p)
  <2>1. Unhandled(p) /\ pc'[p] = "ended"
    BY <1>7 DEF CancelTaskRaises, InterruptUnhandled, Unhandled, Goto, TypeOK
  <2> QED BY <2>1 DEF AtLast, Ends
<1>8. CASE ClaimOwned(p)
  <2>1. PICK o \in Outcomes("runs") :
          Goto(p, IF o = "ok" THEN "routing" ELSE "ended") /\ Record(p, "runs", o)
    BY <1>8 DEF ClaimOwned
  <2>2. faults'[p] = {} => o = "ok" BY <2>1, FaultIsNoted
  <2> QED BY <2>1, <2>2 DEF AtLast, Ends, Goto, TypeOK
<1>9. CASE MarkRunning(p)
  <2>1. PICK o \in Outcomes("runs") :
          SetRun(p, "running", o) /\ Goto(p, IF o = "ok" THEN "response" ELSE "ended")
    BY <1>9 DEF MarkRunning
  <2>2. faults'[p] = {} => o = "ok" BY <2>1, FaultIsNoted DEF SetRun
  <2> QED BY <2>1, <2>2 DEF AtLast, Ends, Goto, TypeOK
<1>10. CASE UnstartedStart(p)
  <2>1. PICK c \in Outcomes("chats"), r \in Outcomes("runs") :
          /\ AttachChat(p, c, r)
          /\ Goto(p, IF c = "ok" /\ r = "ok" THEN "unstarted_persist" ELSE "ended")
    BY <1>10 DEF UnstartedStart
  <2>2. faults'[p] = {} => c = "ok" /\ r = "ok"
    BY <2>1 DEF AttachChat, TypeOK
  <2> QED BY <2>1, <2>2 DEF AtLast, Ends, Goto, TypeOK
<1>11. CASE UnstartedPersist(p)
  <2>1. PICK o \in Outcomes("messages") :
          AddUserMessage(p, o) /\ Goto(p, IF o = "ok" THEN "cancel_run" ELSE "ended")
    BY <1>11 DEF UnstartedPersist
  <2>2. faults'[p] = {} => o = "ok" BY <2>1, FaultIsNoted DEF AddUserMessage
  <2> QED BY <2>1, <2>2 DEF AtLast, Ends, Goto, TypeOK
<1>12. CASE CompleteRun(p)
  <2>1. pc'[p] # "ended"
    BY <1>12 DEF CompleteRun, Goto, TypeOK
  <2>2. pc'[p] \in {"completed", "waiting", "closing"} => status'[p] = "completed"
    BY <1>12, SourceStatuses DEF CompleteRun, SetRun, Transitioned, Goto, TypeOK,
       HandlerInv, PcStatus
  <2> QED BY <2>1, <2>2 DEF AtLast, Ends, ActiveStatuses
<1>13. CASE ClarifyRun(p)
  <2>1. pc'[p] # "ended"
    BY <1>13 DEF ClarifyRun, Goto, TypeOK
  <2>2. pc'[p] \in {"completed", "waiting", "closing"} => status'[p] = "waiting_for_input"
    BY <1>13, SourceStatuses DEF ClarifyRun, SetRun, Transitioned, Accepted, Goto, TypeOK,
       HandlerInv, PcStatus
  <2> QED BY <2>1, <2>2 DEF AtLast, Ends, ActiveStatuses
<1>14. CASE Done(p) \/ Close(p)
  <2>1. pc[p] \in {"completed", "waiting", "closing"} /\ status' = status /\ faults' = faults
    BY <1>14 DEF Done, Close, databaseVars
  <2> QED BY <2>1 DEF AtLast, Ends
<1>15. CASE Disconnect(p) \/ InterruptDurable(p)
  <2>1. pc' = pc /\ status' = status /\ faults' = faults
    BY <1>15 DEF Disconnect, InterruptDurable, databaseVars
  <2> QED BY <2>1 DEF AtLast, Ends
<1> QED BY <1>1, <1>2, <1>3, <1>4, <1>5, <1>6, <1>7, <1>8, <1>9, <1>10, <1>11, <1>12,
    <1>13, <1>14, <1>15 DEF Handler, Arrive, Progress, Interrupt

EndInv == \A p \in Posts : AtLast(p)

\* Every step keeps the invariant, and lets no handler end that leaves its run active.
LEMMA EndInductive ==
  ASSUME IInv, EndInv, [Next]_vars
  PROVE  EndInv' /\ \A p \in Posts : Ends(p)
<1>1. ASSUME NEW p \in Posts, Handler(p) PROVE EndInv' /\ \A q \in Posts : Ends(q)
  <2>1. AtLast(p)' /\ Ends(p) BY <1>1, EndingStep DEF IInv, EndInv
  <2>2. Local(p) BY <1>1, HandlerStep DEF IInv, StepOK
  <2>3. ASSUME NEW q \in Posts \ {p} PROVE AtLast(q)' /\ Ends(q)
    BY <2>2 DEF Local, EndInv, AtLast, Ends
  <2> QED BY <2>1, <2>3 DEF EndInv
<1>2. CASE Crash
  BY <1>2 DEF Crash, Live, databaseVars, EndInv, AtLast, Ends
<1>3. CASE UNCHANGED vars
  BY <1>3 DEF vars, processVars, databaseVars, EndInv, AtLast, Ends
<1> QED BY <1>1, <1>2, <1>3 DEF Next, Idle, Handler

LEMMA EndInvariance == Spec => []EndInv
<1>1. Init => EndInv BY DEF Init, EndInv, AtLast
<1>2. IInv /\ EndInv /\ [Next]_vars => EndInv' BY EndInductive
<1> QED BY <1>1, <1>2, Invariance, PTL DEF Spec

-------------------------------------------------------------------------------
(* Theorems *)

\* Every variable keeps the values the handlers can give it, for every set of
\* deliveries, engines and failing collections.
THEOREM TypeCorrect == Spec => []TypeOK
<1>1. IInv => TypeOK BY DEF IInv
<1> QED BY <1>1, Invariance, PTL

\* Deliveries that share a request_id do the work of the request at most once
\* between them (claim_request_run), whatever fails or crashes.
THEOREM SingleExecutionHolds == Spec => []SingleExecution
<1>1. IInv => SingleExecution
  BY DEF IInv, TypeOK, HandlerInv, OnePersist, WorkIsOwned, OneOwner, SingleExecution, Existing
<1> QED BY <1>1, Invariance, PTL

\* A cancellation that lost its race leaves no cancelled marker behind
\* (persist_cancelled_run).
THEOREM CancelledMessageHolds == Spec => []CancelledMessageHasCancelledRun
<1>1. IInv => CancelledMessageHasCancelledRun
  BY DEF IInv, HandlerInv, AnswerAgrees, CancelledMessageHasCancelledRun
<1> QED BY <1>1, Invariance, PTL

\* A completed run has its answer (lifecycle.complete writes the answer first
\* and every later writer asks the run).
THEOREM CompletedRunHolds == Spec => []CompletedRunHasItsAnswer
<1>1. IInv => CompletedRunHasItsAnswer
  BY DEF IInv, HandlerInv, AnswerAgrees, CompletedRunHasItsAnswer
<1> QED BY <1>1, Invariance, PTL

\* A client that saw "done" from its own execution can rely on it: lifecycle.done
\* follows the durable transition and no failure event precedes it.
THEOREM DoneIsDurableHolds == Spec => []DoneIsDurable
<1>1. IInv => DoneIsDurable BY DEF IInv, StreamAgrees, DoneIsDurable
<1> QED BY <1>1, Invariance, PTL

\* A duplicate that found the run completed or waiting replays its answer or its
\* question (_replay_existing_run), however many deliveries there are.
THEOREM ReplayIsFaithfulHolds == Spec => []ReplayIsFaithful
<1>1. ReplayInv => ReplayIsFaithful
  BY DEF ReplayInv, Replayed, Faithful, ReplayIsFaithful
<1> QED BY <1>1, ReplayInvariance, PTL

\* No engine task outlives its handler (await_task_or_disconnect, cancel).
THEOREM NoOrphanTaskHolds == Spec => []NoOrphanTask
<1>1. IInv => NoOrphanTask BY DEF IInv, HandlerInv, TaskIsAttended, NoOrphanTask, Live
<1> QED BY <1>1, Invariance, PTL

\* A step of the handlers is a step of one run, or of none.
LEMMA StatusOfOneStep ==
  ASSUME IInv, [Next]_vars
  PROVE  \/ status' = status
         \/ \E p \in Posts : StepOK(p)
<1>1. ASSUME NEW p \in Posts, Handler(p) PROVE StepOK(p)
  BY <1>1, HandlerStep DEF IInv
<1>2. CASE Crash \/ UNCHANGED vars BY <1>2 DEF Crash, vars, databaseVars
<1> QED BY <1>1, <1>2 DEF Next, Idle, Handler

\* The answer of a terminal run only changes to agree with the run, or after a
\* transition whose acknowledgement was lost.
THEOREM MessageConvergesHolds == Spec => MessageConverges
<1> DEFINE Converges ==
      \A p \in Posts :
        status[p] \in TERMINAL_RUN_STATUSES /\ message'[p] # message[p]
          => message'[p] = status[p] \/ "run_ack" \in faults[p]
<1>1. ASSUME IInv, [Next]_vars PROVE [Converges]_vars
  <2>1. ASSUME NEW p \in Posts, Handler(p) PROVE Converges
    <3>1. StepOK(p) BY <1>1, <2>1, HandlerStep DEF IInv
    <3> QED BY <3>1 DEF StepOK, Local, MessageStep
  <2>2. CASE Crash BY <2>2 DEF Crash, databaseVars
  <2>3. CASE UNCHANGED vars BY <2>3
  <2> QED BY <1>1, <2>1, <2>2, <2>3 DEF Next, Idle, Handler
<1> QED BY <1>1, Invariance, PTL DEF Spec, MessageConverges

\* A client may leave at any await or yield of its handler, and an engine or an event fail
\* anywhere: the run is settled when the handler ends, but for what Unhandled names.
THEOREM EndedHandlersSettleHolds == Spec => EndedHandlersSettle
<1>1. ASSUME IInv, EndInv, [Next]_vars
      PROVE  [\A p \in Posts :
                pc[p] # "ended" /\ pc'[p] = "ended" /\ faults'[p] = {} /\ ~Unhandled(p)
                  => status'[p] \notin ActiveStatuses]_vars
  BY <1>1, EndInductive DEF Ends
<1> QED BY <1>1, Invariance, EndInvariance, PTL DEF Spec, EndedHandlersSettle

\* The handlers implement the promise of the agent_runs collection: one owner
\* per request, moves along the status graph only, and no move out of a
\* terminal status.
THEOREM Refinement == Spec => RefinesAgentRun
<1>1. Init => Run!Init BY DEF Init, Run!Init
<1>2. Run!Statuses = Statuses /\ Run!ALLOWED_RUN_TRANSITIONS = ALLOWED_RUN_TRANSITIONS
  BY DEF Run!Statuses, Run!ActiveStatuses, Run!TERMINAL_RUN_STATUSES, Statuses, ActiveStatuses,
         TERMINAL_RUN_STATUSES, Run!ALLOWED_RUN_TRANSITIONS, ALLOWED_RUN_TRANSITIONS
<1>3. ASSUME IInv, IInv', [Next]_vars PROVE [Run!Next]_status
  <2>1. CASE status' = status BY <2>1
  <2>2. ASSUME NEW p \in Posts, StepOK(p) PROVE [Run!Next]_status
    <3>1. status' = [status EXCEPT ![p] = status'[p]]
      BY <1>3, <2>2 DEF StepOK, Local, IInv, TypeOK
    <3>2. CASE status'[p] = status[p] BY <3>1, <3>2, <1>3 DEF IInv, TypeOK
    <3>3. CASE status[p] = "absent" /\ status'[p] = "pending" /\ Existing(p) = {}
      <4>1. \A s \in Posts : Run!SameRequest(p, s) => status[s] = "absent"
        BY <3>3 DEF Run!SameRequest, Existing
      <4>2. Run!Claim(p) BY <3>1, <3>3, <4>1 DEF Run!Claim
      <4> QED BY <4>2 DEF Run!Next
    <3>4. CASE /\ status'[p] \in Statuses
               /\ status[p] \in AllowedFrom(FromStatuses[status'[p]], status'[p])
      <4>1. <<status[p], status'[p]>> \in ALLOWED_RUN_TRANSITIONS BY <3>4 DEF AllowedFrom
      <4>2. status[p] \in Statuses
        BY <4>1 DEF ALLOWED_RUN_TRANSITIONS, Statuses, ActiveStatuses
      <4>3. Run!Move(p, status'[p])
        BY <3>1, <4>1, <4>2, <1>2 DEF Run!Move
      <4> QED BY <3>4, <4>3, <1>2 DEF Run!Next
    <3> QED BY <2>2, <3>2, <3>3, <3>4 DEF StepOK, StatusStep
  <2> QED BY <1>3, <2>1, <2>2, StatusOfOneStep
<1> QED BY <1>1, <1>3, Invariance, PTL DEF Spec, RefinesAgentRun, Run!Spec

===============================================================================
