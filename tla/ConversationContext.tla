-------------------------- MODULE ConversationContext --------------------------
(***************************************************************************)
(* The messages of one chat and the turns that read, summarise and extend  *)
(* them.  A chat that belongs to a symbol has three kinds of turns, which  *)
(* run beside each other and take no lock:                                 *)
(*                                                                         *)
(*   chat      a user's message to an engine                               *)
(*             (conversation_context_service.py)                           *)
(*   analysis  the watchlist's analysis (watchlist/context_handler.py)     *)
(*   research  phase 1 of a portfolio flow (portfolio/phase1_research.py)  *)
(*                                                                         *)
(* When what a turn reads is too long, it has all but the last messages    *)
(* summarised.  A chat turn and an analysis store the summary and delete   *)
(* what is older, each in its own way.                                     *)
(*                                                                         *)
(* A message is what it tells: a plain one tells itself, a summary what    *)
(* the messages in it told.  Whether the messages are too long is any      *)
(* answer.  Collections are sorted by their timestamps, and by the order   *)
(* of their insertion where these agree, as the index on them is.          *)
(***************************************************************************)
EXTENDS Integers, FiniteSets

CONSTANTS
  Turns,         \* slots for turns in progress
  TailKeep,      \* tail_messages_keep
  PageSize,      \* how many messages get_by_chat returns
  Kinds,         \* the kinds of turns that arrive
  InitialSizes,  \* how many messages there may be at first
  MaxMessages    \* bound: no turn arrives once there have been so many

ASSUME TailAssumption == TailKeep \in Nat
ASSUME PageAssumption == PageSize \in Nat
ASSUME KindAssumption == Kinds \subseteq {"chat", "analysis", "research"}
ASSUME SizeAssumption == InitialSizes \subseteq Nat /\ MaxMessages \in Nat

VARIABLES
  messages,      \* the collection
  next,          \* the number of messages ever inserted
  pc, mem,       \* a turn: its place; its kind, its own message and what it read and made
  said,          \* history: the plain messages there ever were
  forgotten      \* history: those a summary was made of that does not tell them, or trimmed

vars == <<messages, next, pc, mem, said, forgotten>>

Roles == {"system", "user", "assistant"}

\* A message that is inserted now.  Its timestamp is a number, less some microseconds.
Plain(role) ==
  [id |-> next, at |-> next, less |-> 0, role |-> role, summary |-> FALSE, tells |-> {next}]

Told(ms) == UNION {m.tells : m \in ms}

Earlier(m, n) ==
  \/ m.at < n.at
  \/ m.at = n.at /\ m.less > n.less
  \/ m.at = n.at /\ m.less = n.less /\ m.id < n.id

\* get_by_chat: the oldest first, and no more than a page.
Oldest(ms) == {m \in ms : Cardinality({n \in ms : Earlier(n, m)}) < PageSize}

Newest(ms) == {m \in ms : Cardinality({n \in ms : Earlier(m, n)}) < TailKeep}

\* extract_context_structure.
Head(ms) == {m \in ms : \A n \in ms : n = m \/ Earlier(n, m) => n.role = "system"}

Tail(ms) == Newest(ms) \ Head(ms)

Body(ms) == ms \ (Head(ms) \cup Tail(ms))

\* What of these an engine is given.
Heard(ms) == {m \in ms : m.role \in {"user", "assistant"}}

NoMemory == [kind |-> "chat", own |-> -1, page |-> {}, kept |-> {}, made |-> -1,
             context |-> {}, before |-> {}, untold |-> {}]

-------------------------------------------------------------------------------
(* Steps *)

Goto(r, label, m) == pc' = [pc EXCEPT ![r] = label] /\ mem' = [mem EXCEPT ![r] = m]

End(r) == Goto(r, "idle", NoMemory)

\* MessageRepository.create of a message that says something new.
Insert(role) ==
  /\ messages' = messages \cup {Plain(role)}
  /\ next' = next + 1 /\ said' = said \cup {next}

\* persist_request: what the user sends is stored first.  Of a message that is not for an
\* engine this is all.
Post(r) ==
  /\ pc[r] = "idle" /\ "chat" \in Kinds /\ next < MaxMessages
  /\ \E role \in Roles :
       /\ Insert(role)
       /\ \/ role = "user" /\ Goto(r, "load", [NoMemory EXCEPT !.own = next])
          \/ UNCHANGED <<pc, mem>>
  /\ UNCHANGED forgotten

BeginTurn(r, kind) ==
  /\ pc[r] = "idle" /\ kind \in Kinds /\ next < MaxMessages
  /\ Goto(r, "load", [NoMemory EXCEPT !.kind = kind])
  /\ UNCHANGED <<messages, next, said, forgotten>>

\* The watchlist analyses the chat's symbol, or a portfolio flow does.
BeginAnalysis(r) == BeginTurn(r, "analysis")

BeginResearch(r) == BeginTurn(r, "research")

\* What a turn that reads the chat now need not be told: what only its own message, a
\* system message or messages beyond the page tell, and what no message tells any more
\* since a summary was made of it without the language model or an analysis trimmed it.
Unheard(r) ==
  LET heard == {m \in Heard(Oldest(messages)) : m.id # mem[r].own}
  IN  (Told(messages) \ Told(heard)) \cup (forgotten \ Told(messages))

\* Mutant: summaries are left out of what the turn goes on with.
LoadPlain(r) ==
  /\ pc[r] = "load"
  /\ LET page == {m \in Oldest(messages) : m.id # mem[r].own /\ ~m.summary}
         read == [mem[r] EXCEPT !.page = page, !.context = Heard(page), !.before = said \ Unheard(r)]
     IN  \/ Goto(r, "engine", read)
         \/ Body(page) # {} /\ Goto(r, "summarise", read)
  /\ UNCHANGED <<messages, next, said, forgotten>>

\* The turn reads the chat, and leaves out its own message.
Load(r) ==
  /\ pc[r] = "load"
  /\ LET page == {m \in Oldest(messages) : m.id # mem[r].own}
         read == [mem[r] EXCEPT !.page = page, !.context = Heard(page), !.before = said \ Unheard(r)]
     IN  \/ Goto(r, "engine", read)
         \/ Body(page) # {} /\ Goto(r, "summarise", read)
  /\ UNCHANGED <<messages, next, said, forgotten>>

\* summarize_history: by the language model or, when that fails, by a text that tells
\* nothing of the messages.
Texts(r) == {Told(Body(mem[r].page)), {}}

Recap(tells) ==
  [id |-> next, at |-> next, less |-> 0, role |-> "assistant", summary |-> TRUE, tells |-> tells]

\* What the engine is given instead of the body.
Condensed(r, recap) ==
  [mem[r] EXCEPT !.made = recap.id,
                 !.context = Heard(Head(mem[r].page) \cup {recap} \cup Tail(mem[r].page)),
                 !.untold = Told(Body(mem[r].page)) \ recap.tells]

Store(r, recap) ==
  /\ messages' = messages \cup {recap} /\ next' = next + 1
  /\ forgotten' = forgotten \cup (Told(Body(mem[r].page)) \ recap.tells)

\* Just before the tail, or in the place of the last of the body.
InPlace(r, recap) ==
  LET tail == Tail(mem[r].page)
      first == CHOOSE n \in tail : \A k \in tail : k = n \/ Earlier(n, k)
      last == CHOOSE n \in Body(mem[r].page) : \A k \in Body(mem[r].page) : k = n \/ Earlier(k, n)
  IN  CASE tail # {} -> [recap EXCEPT !.at = first.at, !.less = first.less + 1]
        [] OTHER     -> [recap EXCEPT !.at = last.at, !.less = last.less]

\* _compact_if_needed of a chat turn; without a text it raises.
Compact(r) ==
  /\ pc[r] = "summarise" /\ mem[r].kind = "chat"
  /\ \E tells \in Texts(r) :
       LET recap == InPlace(r, Recap(tells))
       IN  Store(r, recap) /\ Goto(r, "delete", Condensed(r, recap))
  /\ UNCHANGED said

\* prepare_conversation_history of an analysis; without a text it stores nothing.
CompactAnalysis(r) ==
  /\ pc[r] = "summarise" /\ mem[r].kind = "analysis"
  /\ \/ \E tells \in Texts(r) :
          Store(r, Recap(tells)) /\ Goto(r, "keep", Condensed(r, Recap(tells)))
     \/ Goto(r, "engine", Condensed(r, Recap({}))) /\ UNCHANGED <<messages, next, forgotten>>
  /\ UNCHANGED said

\* A research stores no summary.
CompactResearch(r) ==
  /\ pc[r] = "summarise" /\ mem[r].kind = "research"
  /\ \E tells \in Texts(r) : Goto(r, "engine", Condensed(r, Recap(tells)))
  /\ UNCHANGED <<messages, next, said, forgotten>>

\* Mutant: whatever is not in the new context goes.
DeleteOthers(r) ==
  /\ pc[r] = "delete"
  /\ messages' = {m \in messages : m.summary \/ m \in mem[r].context}
  /\ Goto(r, "engine", mem[r])
  /\ UNCHANGED <<next, said, forgotten>>

\* delete_messages_by_ids: what was summarised.
Delete(r) ==
  /\ pc[r] = "delete"
  /\ messages' = {m \in messages : \A n \in Body(mem[r].page) : m.id # n.id}
  /\ Goto(r, "engine", mem[r])
  /\ UNCHANGED <<next, said, forgotten>>

\* delete_old_messages_keep_recent: which messages are the newest ...
Keep(r) ==
  /\ pc[r] = "keep"
  /\ Goto(r, "trim", [mem[r] EXCEPT !.kept = {m.id : m \in Newest(messages)}])
  /\ UNCHANGED <<messages, next, said, forgotten>>

\* ... and the rest goes, but for the summaries.
Trim(r) ==
  /\ pc[r] = "trim"
  /\ LET kept == {m \in messages : m.id \in mem[r].kept \/ m.summary}
     IN  /\ messages' = kept
         /\ forgotten' = forgotten \cup (Told(messages) \ Told(kept))
  /\ Goto(r, "engine", mem[r])
  /\ UNCHANGED <<next, said>>

\* The engine answers, and the answer is stored.
Answer(r) ==
  /\ pc[r] = "engine"
  /\ Insert("assistant")
  /\ End(r)
  /\ UNCHANGED forgotten

\* A call fails, the client hangs up or the process dies: nothing is undone.
Fail(r) ==
  /\ pc[r] # "idle" /\ End(r)
  /\ UNCHANGED <<messages, next, said, forgotten>>

-------------------------------------------------------------------------------
(* The specification *)

Init ==
  /\ \E n \in InitialSizes :
       /\ messages = {[id |-> i, at |-> i, less |-> 0, role |-> "user", summary |-> FALSE,
                       tells |-> {i}] : i \in 0..(n - 1)}
       /\ next = n /\ said = 0..(n - 1)
  /\ pc = [r \in Turns |-> "idle"] /\ mem = [r \in Turns |-> NoMemory]
  /\ forgotten = {}

Next ==
  \E r \in Turns :
    \/ Post(r) \/ BeginAnalysis(r) \/ BeginResearch(r) \/ Load(r)
    \/ Compact(r) \/ CompactAnalysis(r) \/ CompactResearch(r)
    \/ Delete(r) \/ Keep(r) \/ Trim(r) \/ Answer(r) \/ Fail(r)

Spec == Init /\ [][Next]_vars

-------------------------------------------------------------------------------
(* Properties *)

\* Whatever was said is still told by a message of the chat, unless a summary was made
\* without the language model or an analysis trimmed it away: summaries that overlap, fail
\* half-way or are summarised again lose nothing (conversation_context_service.py:143).
NothingIsLost == said \subseteq Told(messages) \cup forgotten

\* An engine is told, by what its turn read and summarised, all that was ever said in the
\* chat (conversation_context_service.py:65), with four exceptions and no other: what its
\* own summary left out when it was made without the language model; what only its own
\* message or a system message tells; what only messages beyond the page tell; and what no
\* message told any more when the turn read, because a summary had been made of it
\* without the language model or an analysis had trimmed it.  What others delete between
\* the turn's reading and its engine is no exception.
ContextIsWhole ==
  \A r \in Turns :
    pc[r] = "engine" => mem[r].before \subseteq Told(mem[r].context) \cup mem[r].untold

\* The last messages are kept as they are (context_window_manager.py:130).
TailIsKept ==
  [][\A r \in Turns :
       pc[r] \in {"delete", "trim"} /\ pc'[r] = "engine" =>
         Tail(mem[r].page) \cap messages \subseteq messages']_vars

===============================================================================
