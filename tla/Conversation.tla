---------------------------- MODULE Conversation ----------------------------
(***************************************************************************)
(* The memory of a chat: the messages and the summary the database keeps    *)
(* (tables llmchat and l3_memory), the layered view the agent's process     *)
(* builds from them (memory/store.py), and what becomes of both when a task *)
(* commits a new version, fails or is replayed.                             *)
(*                                                                         *)
(* A message is its place in llmchat, which is its id; a summary is the set *)
(* of the messages it was made from.  One turn counts as one token.         *)
(***************************************************************************)
EXTENDS Integers, Sequences, FiniteSets

CONSTANTS
  Tasks,        \* the texts a client may send
  Budget,       \* l2_token_budget
  MaxCalls,     \* bound: tool calls in one message of the model
  MaxRequests,  \* bound: requests of the client
  MaxFailures,  \* bound: runs that fail, commit or are killed
  MaxMessages   \* bound: messages in llmchat

ASSUME BoundsAssumption ==
  /\ Budget \in Nat
  /\ MaxCalls \in Nat \ {0}
  /\ MaxRequests \in Nat
  /\ MaxFailures \in Nat
  /\ MaxMessages \in Nat

VARIABLES
  chat,       \* table llmchat, by id
  l3,         \* the chat's row of l3_memory
  tail,       \* MemoryStore.tail
  summaries,  \* MemoryStore.summaries
  watermark,  \* MemoryStore.last_compressed_message_id
  changed,    \* maybe_compress has compressed something
  task,       \* the text the run works on
  resume,     \* resume_task
  calls,      \* tool calls of the last message not answered yet
  phase,      \* where the run stands
  probation,  \* the supervisor holds a PENDING version
  requests,   \* requests taken so far
  cuts        \* runs cut short so far

store == <<tail, summaries, watermark, changed>>
run == <<task, resume, calls>>
counts == <<probation, requests, cuts>>
vars == <<chat, l3, store, run, phase, counts>>

-----------------------------------------------------------------------------
None == 0
NoTask == "none"
Catalog == "[skills_list]"
Texts == Tasks \cup {NoTask, Catalog}
Roles == {"user", "call", "tool", "assistant"}
\* "request" is history: how many requests were taken when it was recorded.
Message == [role : Roles, text : Texts, request : 0 .. MaxRequests]
Ids == 1 .. Len(chat)

\* A turn of the tail; its id is known only when it came from the database.
Turn == [msg : Ids, id : Ids \cup {None}]

Messages(turns) == {turns[i].msg : i \in DOMAIN turns}
Summarised(texts) == UNION {texts[i] : i \in DOMAIN texts}

Largest(S) == CHOOSE x \in S : \A y \in S : y <= x
Smallest(S) == CHOOSE x \in S : \A y \in S : x <= y

Phases == {"idle", "replay", "start", "catalog", "compress", "ask", "tools", "review",
           "report"}
Running == phase \notin {"idle", "replay"}

TypeOK ==
  /\ chat \in Seq(Message)
  /\ l3 \in [summary : SUBSET Ids, last_message_id : Ids \cup {None}]
  /\ tail \in Seq(Turn)
  /\ summaries \in Seq(SUBSET Ids)
  /\ watermark \in Ids \cup {None}
  /\ changed \in BOOLEAN /\ resume \in BOOLEAN /\ probation \in BOOLEAN
  /\ task \in Tasks \cup {NoTask}
  /\ calls \in 0 .. MaxCalls
  /\ phase \in Phases
  /\ requests \in 0 .. MaxRequests
  /\ cuts \in 0 .. MaxFailures

Init ==
  /\ chat = << >>
  /\ l3 = [summary |-> {}, last_message_id |-> None]
  /\ tail = << >>
  /\ summaries = << >>
  /\ watermark = None
  /\ changed = FALSE
  /\ task = NoTask
  /\ resume = FALSE
  /\ calls = 0
  /\ phase = "idle"
  /\ probation = FALSE
  /\ requests = 0
  /\ cuts = 0

-----------------------------------------------------------------------------
(* The store.                                                              *)

RoleOf(turn) == chat[turn.msg].role
UserTurns(turns) == {i \in DOMAIN turns : RoleOf(turns[i]) = "user"}

\* Variant: only the last turn is protected.
ProtectLastTurn == Len(tail)

\* _current_turn_start: the latest user message, or past the end.
CurrentTurnStart ==
  IF UserTurns(tail) = {} THEN Len(tail) + 1 ELSE Largest(UserTurns(tail))

\* Variant of _compression_segment: the oldest turn alone.
OldestTurn == IF CurrentTurnStart <= 1 THEN 0 ELSE 1

\* _compression_segment: the oldest exchange is the turns up to the number
\* given here; none (0) when the tail begins with the current exchange.
SegmentEnd ==
  LET next == {i \in 2 .. CurrentTurnStart - 1 : i \in UserTurns(tail)} IN
    IF CurrentTurnStart <= 1 THEN 0
    ELSE IF next # {} THEN Smallest(next) - 1
    ELSE CurrentTurnStart - 1

\* The messages of the table after the given one.
TurnsAfter(id) == [i \in 1 .. Len(chat) - id |-> [msg |-> id + i, id |-> id + i]]

\* Variant: the summary of the chat is not read back.
LoadTail ==
  /\ tail' = TurnsAfter(l3.last_message_id)
  /\ summaries' = << >>
  /\ watermark' = None
  /\ changed' = FALSE

\* from_llm_chat: what the summary covers is not loaded again.
Load ==
  LET saved == l3.summary # {} IN
    /\ tail' = TurnsAfter(IF saved THEN l3.last_message_id ELSE None)
    /\ summaries' = IF saved THEN <<l3.summary>> ELSE << >>
    /\ watermark' = IF saved THEN l3.last_message_id ELSE None
    /\ changed' = FALSE

\* add_message and store.append: a turn of this run has no id in the store.
Record(role, text) ==
  /\ Len(chat) < MaxMessages
  /\ chat' = Append(chat, [role |-> role, text |-> text, request |-> requests])
  /\ tail' = Append(tail, [msg |-> Len(chat) + 1, id |-> None])
  /\ UNCHANGED <<l3, summaries, watermark, changed>>

\* build_chat: what the model sees of the chat.  Every turn of the tail is in it;
\* only arguments of earlier tool calls are shortened.
InPrompt == Messages(tail) \cup Summarised(summaries)

-----------------------------------------------------------------------------
(* A run of the agent.                                                     *)

\* A start command with a new task (client and supervisor).
Request ==
  /\ phase = "idle"
  /\ requests < MaxRequests
  /\ requests' = requests + 1
  /\ task' \in Tasks
  /\ resume' = FALSE
  /\ Load
  /\ calls' = 0
  /\ phase' = "start"
  /\ UNCHANGED <<chat, l3, probation, cuts>>

\* A start command with replayed_task or error_text: the same task again.
Replay ==
  /\ phase = "replay"
  /\ resume' = TRUE
  /\ Load
  /\ calls' = 0
  /\ phase' = "start"
  /\ UNCHANGED <<chat, l3, task, counts>>

\* Variant: a replayed task is recorded like a new one.
SetTaskAgain ==
  /\ phase = "start"
  /\ Record("user", task)
  /\ phase' = "catalog"
  /\ UNCHANGED <<run, counts>>

\* set_task: a replayed task is recorded unless it is the latest one.
SetTask ==
  /\ phase = "start"
  /\ IF /\ resume
        /\ UserTurns(tail) # {}
        /\ chat[tail[Largest(UserTurns(tail))].msg].text = task
       THEN phase' = "compress" /\ UNCHANGED <<chat, l3, store>>
       ELSE phase' = "catalog" /\ Record("user", task)
  /\ UNCHANGED <<run, counts>>

\* The rest of start_node: the catalog of skills, if there are any, recorded as a
\* tool message though no call asked for it.
AddCatalog ==
  /\ phase = "catalog"
  /\ Record("tool", Catalog) \/ UNCHANGED <<chat, l3, store>>
  /\ phase' = "compress"
  /\ UNCHANGED <<run, counts>>

\* An iteration of maybe_compress.  Turns of this run have no id; the oldest
\* exchange has none of them.
Compress ==
  LET segment == SubSeq(tail, 1, SegmentEnd)
      ids == {segment[i].id : i \in DOMAIN segment} \ {None}
  IN
    /\ phase = "compress"
    /\ Len(tail) > Budget
    /\ SegmentEnd > 0
    /\ summaries' = Append(summaries, Messages(segment))
    /\ watermark' = IF ids = {} THEN watermark ELSE Largest(ids)
    /\ tail' = SubSeq(tail, SegmentEnd + 1, Len(tail))
    /\ changed' = TRUE
    /\ UNCHANGED <<chat, l3, run, phase, counts>>

\* Variant: the newest summary replaces the older ones.
SaveLast ==
  l3' = IF changed /\ watermark # None
          THEN [summary |-> summaries[Len(summaries)], last_message_id |-> watermark]
          ELSE l3

\* The end of maybe_compress, and add_l3_memory.
SaveL3 ==
  l3' = IF changed /\ watermark # None
          THEN [summary |-> Summarised(summaries), last_message_id |-> watermark]
          ELSE l3

\* Enough is compressed, nothing more can be, or the summary came out empty.
EndCompress ==
  /\ phase = "compress"
  /\ SaveL3
  /\ changed' = FALSE
  /\ phase' = "ask"
  /\ UNCHANGED <<chat, tail, summaries, watermark, run, counts>>

\* call_model: the answer goes to the review; tool calls are recorded.
Answer ==
  /\ phase = "ask"
  /\ phase' = "review"
  /\ UNCHANGED <<chat, l3, store, run, counts>>
\* Variant: an empty list of calls is taken for a call.
CallAnyTools ==
  /\ phase = "ask"
  /\ Record("call", NoTask)
  /\ calls' \in 0 .. MaxCalls
  /\ phase' = "tools"
  /\ UNCHANGED <<task, resume, counts>>
CallTools ==
  /\ phase = "ask"
  /\ Record("call", NoTask)
  /\ calls' \in 1 .. MaxCalls
  /\ phase' = "tools"
  /\ UNCHANGED <<task, resume, counts>>

\* _run_tool.
UseTool ==
  /\ phase = "tools"
  /\ Record("tool", NoTask)
  /\ calls' = calls - 1
  /\ phase' = IF calls = 1 THEN "compress" ELSE "tools"
  /\ UNCHANGED <<task, resume, counts>>

\* The review sends the model back, or the answer is recorded, or the run ends
\* with an answer nobody verified, which is not.
Rejected ==
  /\ phase = "review"
  /\ phase' = "compress"
  /\ UNCHANGED <<chat, l3, store, run, counts>>
Accepted ==
  /\ phase = "review"
  /\ Record("assistant", NoTask)
  /\ phase' = "report"
  /\ UNCHANGED <<run, counts>>
Unverified ==
  /\ phase = "review"
  /\ phase' = "report"
  /\ UNCHANGED <<chat, l3, store, run, counts>>

\* The run is over: its ack settles the version on probation.
Ack ==
  /\ phase = "report"
  /\ phase' = "idle"
  /\ probation' = FALSE
  /\ UNCHANGED <<chat, l3, store, run, requests, cuts>>

\* version_commit: the supervisor restarts the agent before the call returns.
Commit ==
  /\ phase = "tools"
  /\ cuts < MaxFailures
  /\ cuts' = cuts + 1
  /\ probation' = TRUE
  /\ phase' = "replay"
  /\ UNCHANGED <<chat, l3, store, run, requests>>

\* The run raises: a version on probation is rolled back and the task replayed,
\* otherwise the task has failed.
Fail ==
  /\ Running
  /\ cuts < MaxFailures
  /\ cuts' = cuts + 1
  /\ phase' = IF probation THEN "replay" ELSE "idle"
  /\ probation' = FALSE
  /\ UNCHANGED <<chat, l3, store, run, requests>>

\* The agent's container dies: Docker restarts it, for the next start command.
Kill ==
  /\ Running
  /\ cuts < MaxFailures
  /\ cuts' = cuts + 1
  /\ phase' = "idle"
  /\ UNCHANGED <<chat, l3, store, run, probation, requests>>

Next ==
  \/ Request \/ Replay \/ SetTask \/ AddCatalog \/ Compress \/ EndCompress
  \/ Answer \/ CallTools \/ UseTool \/ Rejected
  \/ Accepted \/ Unverified \/ Ack
  \/ Commit \/ Fail \/ Kill

Spec == Init /\ [][Next]_vars

-----------------------------------------------------------------------------
(* Properties.                                                             *)

\* When the model is asked, every message of the chat is before it, in the tail
\* or in a summary and never in both, whatever was summarised in earlier runs
\* and wherever those were cut short.
NothingForgotten ==
  phase = "ask"
    => /\ InPrompt = Ids
       /\ Messages(tail) \cap Summarised(summaries) = {}

\* The task the run works on, and all that was done for it before a restart, is in
\* the tail and never summarised: compression takes older exchanges only.
UserMessages == {i \in Ids : chat[i].role = "user"}
ExchangeInView ==
  phase = "ask"
    => /\ chat[Largest(UserMessages)].text = task
       /\ Largest(UserMessages) .. Len(chat) \subseteq Messages(tail)

\* "Choose an old complete exchange without orphaning tool messages": no tool
\* message is in the tail without what it came from, in this run or after the
\* history is loaded again.  A result came from the call that asked for it; the
\* catalog, which no call asked for, from the request recorded just before it.
IsCatalog(i) == chat[i].role = "tool" /\ chat[i].text = Catalog
IsResult(i) == chat[i].role = "tool" /\ chat[i].text # Catalog
OriginInView ==
  \A i \in Messages(tail) :
    /\ IsResult(i)
         => Largest({j \in 1 .. i : chat[j].role = "call"}) \in Messages(tail)
    /\ IsCatalog(i) => i - 1 \in Messages(tail) /\ chat[i - 1].role = "user"

\* Each request is recorded once at most, however often it is replayed.
RecordedAtMostOnce ==
  \A i, j \in UserMessages : chat[i].request = chat[j].request => i = j

\* What was once summarised in the database stays summarised.
SummaryGrows ==
  [][l3.summary \subseteq l3'.summary
     /\ l3.last_message_id <= l3'.last_message_id]_l3
=============================================================================
