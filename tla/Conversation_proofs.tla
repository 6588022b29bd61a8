------------------------- MODULE Conversation_proofs -------------------------
(***************************************************************************)
(* Theorems about the memory of a chat, for every budget, every number of   *)
(* requests, failures and messages, and every set of tasks.                 *)
(*                                                                         *)
(* The argument: the turns of the store are the end of the chat in their    *)
(* order, the summaries its beginning, and an exchange begins where they    *)
(* meet.  So does one where the saved summary ends.  Only turns of the       *)
(* current exchange lack an id, so the watermark is where the summaries end. *)
(***************************************************************************)
EXTENDS Conversation, Extremes, FiniteSetTheorems, SequenceTheorems, TLAPS

\* The messages that only the summaries hold.
Base == Len(chat) - Len(tail)

\* The tail is the end of the chat, the summaries are what comes before.
TailIsEnd ==
  /\ Len(tail) <= Len(chat)
  /\ \A i \in 1 .. Len(tail) : /\ tail[i].msg = Base + i
                               /\ tail[i].id # None => tail[i].id = tail[i].msg
  /\ Summarised(summaries) = 1 .. Base
  /\ watermark = Base

\* An exchange begins after the message, unless it is none.
ExchangeBeginsAfter(id) ==
  id # None => id < Len(chat) /\ chat[id + 1].role = "user"

\* The saved summary is a beginning of the chat too, and behind the store by
\* what was compressed since.
SavedIsBeginning ==
  /\ l3.summary = 1 .. l3.last_message_id
  /\ l3.last_message_id <= Base
  /\ ~changed => l3.last_message_id = Base
  /\ changed => Base # None
  /\ ExchangeBeginsAfter(Base)
  /\ ExchangeBeginsAfter(l3.last_message_id)

\* The latest request is the task of the run.
IsLatest(i) ==
  /\ i \in UserMessages
  /\ chat[i].text = task
  /\ \A j \in UserMessages : j <= i

\* Once the task is set, the tail has the exchange of the task, and every turn
\* before it has its id.
Exchange(i) ==
  /\ IsLatest(i)
  /\ Base < i
  /\ \A j \in 1 .. Len(tail) : tail[j].msg < i => tail[j].id # None
Working == phase \in {"catalog", "compress", "ask", "tools", "review", "report"}
CurrentExchange ==
  /\ phase = "start" => \A i \in 1 .. Len(tail) : tail[i].id # None
  /\ Working => \E i \in Ids : Exchange(i)

\* Between the result of a tool and its call there are only other calls and
\* results.
IsToolTurn(i) == chat[i].role = "call" \/ IsResult(i)
ToolsFollowCalls ==
  /\ phase = "tools" => calls > 0 /\ Len(chat) > 0 /\ IsToolTurn(Len(chat))
  /\ \A i \in Ids : IsResult(i)
       => \E j \in 1 .. i : /\ chat[j].role = "call"
                            /\ \A k \in j .. i : IsToolTurn(k)

\* The catalog is recorded right after a request.
CatalogFollowsRequest ==
  /\ phase = "catalog" => Len(chat) > 0 /\ chat[Len(chat)].role = "user"
  /\ \A i \in Ids : IsCatalog(i) => i > 1 /\ chat[i - 1].role = "user"

\* A task that will be recorded was requested since; one that is replayed was
\* recorded, or its request has no message yet.
RequestsRecorded ==
  /\ \A i \in UserMessages : chat[i].request <= requests
  /\ RecordedAtMostOnce
  /\ phase \in {"replay", "start"}
       => \/ \A i \in UserMessages : chat[i].request < requests
          \/ /\ \E i \in Ids : IsLatest(i)
             /\ phase = "start" => resume

IInv ==
  /\ TypeOK
  /\ TailIsEnd
  /\ SavedIsBeginning
  /\ CurrentExchange
  /\ ToolsFollowCalls
  /\ CatalogFollowsRequest
  /\ RequestsRecorded

-----------------------------------------------------------------------------
(* The operators of the model.                                             *)

\* The largest element of a set that has one.
LEMMA LargestIs ==
  ASSUME NEW S \in SUBSET Int, NEW x \in S, \A y \in S : y <= x
  PROVE  Largest(S) = x
<1>1. \A z \in S : (\A y \in S : y <= z) => z = x
  OBVIOUS
<1>2. Largest(S) \in S /\ \A y \in S : y <= Largest(S)
  BY DEF Largest
<1> QED BY <1>1, <1>2

\* The smallest and the largest element, where there is one.
LEMMA SmallestExists ==
  ASSUME NEW S \in SUBSET Nat, S # {}
  PROVE  Smallest(S) \in S /\ \A y \in S : Smallest(S) <= y
BY LeastElement DEF Smallest

LEMMA LargestExists ==
  ASSUME NEW n \in Nat, NEW S \in SUBSET (0 .. n), S # {}
  PROVE  Largest(S) \in S /\ \A y \in S : y <= Largest(S)
BY GreatestElement DEF Largest

\* What appending a summary adds.
LEMMA SummarisedAppend ==
  ASSUME NEW U, NEW texts \in Seq(U), NEW text \in U
  PROVE  Summarised(Append(texts, text)) = Summarised(texts) \cup text
<1> DEFINE more == Append(texts, text)
<1>1. DOMAIN texts = 1 .. Len(texts) /\ DOMAIN more = 1 .. Len(texts) + 1
  OBVIOUS
<1>2. \A i \in DOMAIN texts : more[i] = texts[i]
  OBVIOUS
<1>3. more[Len(texts) + 1] = text
  OBVIOUS
<1>4. DOMAIN more = DOMAIN texts \cup {Len(texts) + 1}
  BY <1>1
<1> HIDE DEF more
<1>5. UNION {more[i] : i \in DOMAIN more}
        = (UNION {texts[i] : i \in DOMAIN texts}) \cup text
  BY <1>2, <1>3, <1>4
<1> QED BY <1>5 DEF Summarised, more

\* What loading builds: the messages after the saved summary, which is read back.
LEMMA Loaded ==
  ASSUME IInv, Load, chat' = chat
  PROVE  /\ tail' \in Seq(Turn) /\ Len(tail') = Len(chat) - l3.last_message_id
         /\ \A i \in 1 .. Len(tail') :
              tail'[i] = [msg |-> l3.last_message_id + i, id |-> l3.last_message_id + i]
         /\ summaries' \in Seq(SUBSET Ids)
         /\ Summarised(summaries') = 1 .. l3.last_message_id
         /\ watermark' = l3.last_message_id
         /\ l3.last_message_id \in 0 .. Len(chat)
<1> DEFINE last == l3.last_message_id
<1>1. /\ last \in Int /\ 0 <= last /\ last <= Len(chat) /\ Len(chat) \in Nat
      /\ l3.summary = 1 .. last /\ l3.summary \in SUBSET Ids
  BY DEF IInv, TypeOK, SavedIsBeginning, Ids, None
<1>2. (l3.summary # {}) <=> last # 0
  BY <1>1
<1>3. /\ tail' = TurnsAfter(last)
      /\ summaries' = IF last # 0 THEN <<l3.summary>> ELSE << >>
      /\ watermark' = last
  BY <1>1, <1>2 DEF Load, None
<1>4. /\ tail' \in Seq(Turn) /\ Len(tail') = Len(chat) - last
      /\ \A i \in 1 .. Len(tail') : tail'[i] = [msg |-> last + i, id |-> last + i]
  <2> DEFINE turns == TurnsAfter(last)
  <2>1. turns = [i \in 1 .. Len(chat) - last |-> [msg |-> last + i, id |-> last + i]]
    BY DEF TurnsAfter
  <2>2. \A i \in 1 .. Len(chat) - last : [msg |-> last + i, id |-> last + i] \in Turn
    BY <1>1 DEF Turn, Ids
  <2>3. turns \in [1 .. Len(chat) - last -> Turn]
    BY <2>1, <2>2
  <2>4. turns \in Seq(Turn) /\ Len(turns) = Len(chat) - last
    BY <1>1, <2>3
  <2> QED BY <1>3, <2>1, <2>4
<1>5. summaries' \in Seq(SUBSET Ids) /\ Summarised(summaries') = 1 .. last
  <2>1. CASE last # 0
    <3>1. summaries' = <<l3.summary>>
      BY <1>3, <2>1
    <3>2. DOMAIN summaries' = {1} /\ summaries'[1] = l3.summary
      BY <3>1
    <3> QED BY <1>1, <3>1, <3>2 DEF Summarised
  <2>2. CASE last = 0
    BY <1>1, <1>3, <2>2 DEF Summarised
  <2> QED BY <2>1, <2>2
<1> QED BY <1>1, <1>3, <1>4, <1>5

\* What recording builds.
LEMMA Recorded ==
  ASSUME IInv, NEW role \in Roles, NEW text \in Texts, Record(role, text)
  PROVE  /\ chat' \in Seq(Message) /\ Len(chat') = Len(chat) + 1
         /\ \A i \in Ids : chat'[i] = chat[i]
         /\ chat'[Len(chat) + 1] = [role |-> role, text |-> text, request |-> requests]
         /\ Ids' = Ids \cup {Len(chat) + 1}
         /\ Len(tail') = Len(tail) + 1
         /\ \A i \in 1 .. Len(tail) : tail'[i] = tail[i]
         /\ tail'[Len(tail) + 1] = [msg |-> Len(chat) + 1, id |-> None]
         /\ tail' \in Seq([msg : Ids', id : Ids' \cup {None}])
         /\ UNCHANGED <<l3, summaries, watermark, changed>>
<1>1. /\ chat \in Seq(Message) /\ tail \in Seq(Turn) /\ Len(tail) \in Nat
      /\ [role |-> role, text |-> text, request |-> requests] \in Message
  BY DEF IInv, TypeOK, Message
<1>2. /\ chat' = Append(chat, [role |-> role, text |-> text, request |-> requests])
      /\ tail' = Append(tail, [msg |-> Len(chat) + 1, id |-> None])
      /\ UNCHANGED <<l3, summaries, watermark, changed>>
  BY DEF Record
<1>3. /\ chat' \in Seq(Message) /\ Len(chat') = Len(chat) + 1 /\ Len(chat) \in Nat
      /\ \A i \in Ids : chat'[i] = chat[i]
      /\ chat'[Len(chat) + 1] = [role |-> role, text |-> text, request |-> requests]
  BY <1>1, <1>2 DEF Ids
<1>4. Ids' = Ids \cup {Len(chat) + 1}
  BY <1>3 DEF Ids
<1>5. tail \in Seq([msg : Ids', id : Ids' \cup {None}])
  <2>1. Turn \subseteq [msg : Ids', id : Ids' \cup {None}]
    BY <1>4 DEF Turn
  <2> QED BY <1>1, <2>1, SeqMonotonic
<1>6. [msg |-> Len(chat) + 1, id |-> None] \in [msg : Ids', id : Ids' \cup {None}]
  BY <1>4
<1> HIDE DEF Ids
<1>7. /\ Len(tail') = Len(tail) + 1
      /\ \A i \in 1 .. Len(tail) : tail'[i] = tail[i]
      /\ tail'[Len(tail) + 1] = [msg |-> Len(chat) + 1, id |-> None]
      /\ tail' \in Seq([msg : Ids', id : Ids' \cup {None}])
  BY <1>2, <1>5, <1>6
<1> QED BY <1>2, <1>3, <1>4, <1>7

\* What a step may do to the chat and the store.
LEMMA StoreChanges ==
  ASSUME TypeOK, [Next]_vars
  PROVE  \/ Load /\ UNCHANGED <<chat, l3>>
         \/ \E role \in Roles, text \in Texts : Record(role, text)
         \/ Compress
         \/ EndCompress
         \/ UNCHANGED <<chat, l3, store>>
<1>1. task \in Texts /\ NoTask \in Texts /\ Catalog \in Texts
  BY DEF TypeOK, Texts
<1>2. {"user", "call", "tool", "assistant"} = Roles
  BY DEF Roles
<1>3. CASE Request \/ Replay
  BY <1>3 DEF Request, Replay
<1>4. CASE SetTask
  BY <1>1, <1>2, <1>4 DEF SetTask
<1>5. CASE AddCatalog \/ CallTools \/ UseTool \/ Accepted
  BY <1>1, <1>2, <1>5 DEF AddCatalog, CallTools, UseTool, Accepted
<1>6. CASE Answer \/ Rejected \/ Unverified \/ Ack \/ Commit \/ Fail \/ Kill
  BY <1>6 DEF Answer, Rejected, Unverified, Ack, Commit, Fail, Kill
<1>7. CASE UNCHANGED vars
  BY <1>7 DEF vars
<1> QED BY <1>3, <1>4, <1>5, <1>6, <1>7 DEF Next

\* The messages before the tail.
LEMMA Counts ==
  ASSUME IInv
  PROVE  /\ chat \in Seq(Message) /\ tail \in Seq(Turn)
         /\ Len(chat) \in Nat /\ Len(tail) \in Nat /\ Base \in Nat
         /\ Base + Len(tail) = Len(chat)
BY DEF IInv, TypeOK, TailIsEnd, Base

\* The user turns of the tail are the user messages after the summaries.
LEMMA UserTurnsAre ==
  ASSUME IInv
  PROVE  /\ UserTurns(tail) = {j \in 1 .. Len(tail) : chat[Base + j].role = "user"}
         /\ \A j \in 1 .. Len(tail) : tail[j].msg = Base + j
<1>1. \A j \in 1 .. Len(tail) : tail[j].msg = Base + j
  BY DEF IInv, TailIsEnd
<1>2. DOMAIN tail = 1 .. Len(tail)
  BY DEF IInv, TypeOK
<1> QED BY <1>1, <1>2 DEF UserTurns, RoleOf

\* The latest user message, when it is in the tail, is the last user turn there.
LEMMA LatestInTail ==
  ASSUME IInv, NEW i \in UserMessages, \A j \in UserMessages : j <= i, Base < i
  PROVE  /\ i - Base \in UserTurns(tail)
         /\ i - Base \in 1 .. Len(tail)
         /\ Largest(UserTurns(tail)) = i - Base
         /\ tail[i - Base].msg = i
<1> DEFINE c == i - Base
<1>1. i \in 1 .. Len(chat) /\ chat[i].role = "user"
  BY DEF UserMessages, Ids
<1>2. c \in 1 .. Len(tail) /\ Base + c = i
  BY <1>1, Counts
<1>3. c \in UserTurns(tail)
  BY <1>1, <1>2, UserTurnsAre
<1>4. \A j \in UserTurns(tail) : j <= c
  <2> SUFFICES ASSUME NEW j \in UserTurns(tail) PROVE j <= c
    OBVIOUS
  <2>1. j \in 1 .. Len(tail) /\ chat[Base + j].role = "user"
    BY UserTurnsAre
  <2>2. Base + j \in UserMessages
    BY <2>1, Counts DEF UserMessages, Ids
  <2> QED BY <1>2, <2>1, <2>2, Counts
<1>5. UserTurns(tail) \in SUBSET Int
  BY UserTurnsAre
<1> HIDE DEF c
<1>6. Largest(UserTurns(tail)) = c
  BY <1>3, <1>4, <1>5, LargestIs
<1> QED BY <1>2, <1>3, <1>6, UserTurnsAre DEF c

\* The oldest exchange ends where another begins, before the task of the run,
\* and all its turns have their ids.
LEMMA SegmentIsExchange ==
  ASSUME IInv, phase = "compress", SegmentEnd > 0
  PROVE  /\ SegmentEnd \in 1 .. Len(tail) - 1
         /\ chat[Base + SegmentEnd + 1].role = "user"
         /\ \A j \in 1 .. SegmentEnd : tail[j].id = Base + j /\ tail[j].msg = Base + j
         /\ \A i \in Ids : IsLatest(i) => Base + SegmentEnd < i
<1>1. PICK i \in Ids : /\ IsLatest(i)
                       /\ Base < i
                       /\ \A j \in 1 .. Len(tail) : tail[j].msg < i => tail[j].id # None
  BY DEF IInv, CurrentExchange, Working, Exchange
<1> DEFINE c == i - Base
<1>2. /\ Len(chat) \in Nat /\ Len(tail) \in Nat
      /\ Base \in Nat /\ Base + Len(tail) = Len(chat)
  BY Counts
<1>3. \A j \in 1 .. Len(tail) : /\ tail[j].msg = Base + j
                                /\ tail[j].id # None => tail[j].id = tail[j].msg
  BY DEF IInv, TailIsEnd
<1>4. /\ c \in UserTurns(tail) /\ c \in 1 .. Len(tail) /\ Base + c = i
      /\ Largest(UserTurns(tail)) = c
  BY <1>1, <1>2, LatestInTail DEF IsLatest, Ids
<1>5. UserTurns(tail) = {j \in 1 .. Len(tail) : chat[Base + j].role = "user"}
  BY UserTurnsAre
<1> HIDE DEF c, Base
<1>6. CurrentTurnStart = c
  BY <1>4 DEF CurrentTurnStart
<1> DEFINE next == {k \in 2 .. c - 1 : k \in UserTurns(tail)}
<1>7. SegmentEnd = IF c <= 1 THEN 0
                   ELSE IF next # {} THEN Smallest(next) - 1
                   ELSE c - 1
  BY <1>6 DEF SegmentEnd
<1>8. /\ SegmentEnd \in 1 .. c - 1
       /\ SegmentEnd + 1 \in UserTurns(tail)
  <2>1. c > 1
    BY <1>4, <1>7
  <2>2. CASE next # {}
    <3>1. next \in SUBSET Nat
      BY <1>4
    <3>2. Smallest(next) \in next
      BY <2>2, <3>1, SmallestExists
    <3>3. Smallest(next) \in 2 .. c - 1 /\ Smallest(next) \in UserTurns(tail)
      BY <3>2
    <3> HIDE DEF next
    <3> QED BY <1>4, <1>7, <2>1, <2>2, <3>3
  <2>3. CASE next = {}
    <3> HIDE DEF next
    <3> QED BY <1>4, <1>6, <1>7, <2>1, <2>3
  <2> QED BY <2>2, <2>3
<1> HIDE DEF next
<1>9. SegmentEnd \in 1 .. Len(tail) - 1 /\ chat[Base + SegmentEnd + 1].role = "user"
  BY <1>2, <1>4, <1>5, <1>8
<1>10. \A j \in 1 .. SegmentEnd : tail[j].id = Base + j /\ tail[j].msg = Base + j
  BY <1>1, <1>2, <1>3, <1>4, <1>8
<1>11. \A k \in Ids : IsLatest(k) => Base + SegmentEnd < k
  <2> SUFFICES ASSUME NEW k \in Ids, IsLatest(k) PROVE k = i
    BY <1>2, <1>4, <1>8 DEF Ids
  <2>1. i \in UserMessages /\ k \in UserMessages /\ i <= k /\ k <= i
    BY <1>1 DEF IsLatest
  <2> QED BY <1>1, <1>2, <2>1 DEF Ids
<1> QED BY <1>9, <1>10, <1>11

\* What an iteration of the compression leaves.
LEMMA Compressed ==
  ASSUME IInv, Compress
  PROVE  /\ tail' \in Seq(Turn) /\ Len(tail') = Len(tail) - SegmentEnd
         /\ \A j \in 1 .. Len(tail') : SegmentEnd + j \in 1 .. Len(tail)
                                    /\ tail'[j] = tail[SegmentEnd + j]
         /\ Base' = Base + SegmentEnd
         /\ summaries' \in Seq(SUBSET Ids)
         /\ Summarised(summaries') = 1 .. Base'
         /\ watermark' = Base'
         /\ changed' = TRUE
         /\ UNCHANGED <<chat, l3, run, phase, counts>>
<1> DEFINE end == SegmentEnd
           segment == SubSeq(tail, 1, end)
           ids == {segment[i].id : i \in DOMAIN segment} \ {None}
<1>1. phase = "compress" /\ end > 0
  BY DEF Compress
<1>2. /\ end \in 1 .. Len(tail) - 1
      /\ \A j \in 1 .. end : tail[j].id = Base + j /\ tail[j].msg = Base + j
  BY <1>1, SegmentIsExchange
<1>3. /\ summaries' = Append(summaries, Messages(segment))
      /\ watermark' = IF ids = {} THEN watermark ELSE Largest(ids)
      /\ tail' = SubSeq(tail, end + 1, Len(tail))
      /\ changed' = TRUE
  BY DEF Compress
<1>u. UNCHANGED <<chat, l3, run, phase, counts>>
  BY DEF Compress
<1>4. /\ Len(chat) \in Nat /\ Len(tail) \in Nat /\ tail \in Seq(Turn)
     
      /\ Base \in Nat /\ Base + Len(tail) = Len(chat)
      /\ summaries \in Seq(SUBSET Ids) /\ Summarised(summaries) = 1 .. Base
  BY DEF IInv, TypeOK, TailIsEnd, Base
<1> HIDE DEF end
<1>5. /\ tail' \in Seq(Turn) /\ Len(tail') = Len(tail) - end
      /\ \A j \in 1 .. Len(tail') : end + j \in 1 .. Len(tail) /\ tail'[j] = tail[end + j]
  <2>1. /\ tail' \in Seq(Turn) /\ Len(tail') = Len(tail) - end
        /\ \A j \in 1 .. Len(tail) - end : tail'[j] = tail[end + 1 + j - 1]
    BY <1>2, <1>3, <1>4, SubSeqProperties
  <2> QED BY <1>2, <1>4, <2>1
<1>6. Base' = Base + end
  BY <1>4, <1>2, <1>5, <1>u DEF Base
<1>7. /\ DOMAIN segment = 1 .. end
      /\ \A j \in 1 .. end : segment[j] = tail[j]
  <2>1. /\ segment \in Seq(Turn) /\ Len(segment) = end
        /\ \A j \in 1 .. end : segment[j] = tail[1 + j - 1]
    BY <1>2, <1>4, SubSeqProperties
  <2> HIDE DEF segment
  <2> QED BY <1>2, <2>1
<1> HIDE DEF segment
<1>8. Messages(segment) = Base + 1 .. Base + end
  <2>1. Messages(segment) = {Base + j : j \in 1 .. end}
    BY <1>2, <1>7 DEF Messages
  <2>2. \A m \in Base + 1 .. Base + end : m - Base \in 1 .. end /\ m = Base + (m - Base)
    BY <1>2, <1>4
  <2>3. \A j \in 1 .. end : Base + j \in Base + 1 .. Base + end
    BY <1>2, <1>4
  <2> QED BY <2>1, <2>2, <2>3
<1>9. ids = Base + 1 .. Base + end
  <2>1. {segment[i].id : i \in DOMAIN segment} = {Base + j : j \in 1 .. end}
    BY <1>2, <1>7
  <2>2. \A m \in Base + 1 .. Base + end : m - Base \in 1 .. end /\ m = Base + (m - Base)
    BY <1>2, <1>4
  <2>3. \A j \in 1 .. end : Base + j \in Base + 1 .. Base + end /\ Base + j # None
    BY <1>2, <1>4 DEF None
  <2> QED BY <2>1, <2>2, <2>3
<1> HIDE DEF ids
<1>10. watermark' = Base + end
  <2>1. Base + end \in ids /\ ids \in SUBSET Int /\ \A m \in ids : m <= Base + end
    BY <1>2, <1>4, <1>9
  <2> QED BY <1>3, <2>1, LargestIs
<1>11. /\ summaries' \in Seq(SUBSET Ids)
       /\ Summarised(summaries') = 1 .. Base + end
  <2>1. Messages(segment) \in SUBSET Ids
    BY <1>2, <1>4, <1>8 DEF Ids
  <2>2. Summarised(summaries') = (1 .. Base) \cup (Base + 1 .. Base + end)
    <3>1. Summarised(Append(summaries, Messages(segment)))
            = Summarised(summaries) \cup Messages(segment)
      BY <1>4, <2>1, SummarisedAppend
    <3> QED BY <1>3, <1>4, <1>8, <3>1
  <2>3. (1 .. Base) \cup (Base + 1 .. Base + end) = 1 .. Base + end
    BY <1>2, <1>4
  <2> QED BY <1>3, <1>4, <2>1, <2>2, <2>3
<1> QED BY <1>3, <1>u, <1>5, <1>6, <1>10, <1>11 DEF end

-----------------------------------------------------------------------------
(* The invariant.                                                          *)

\* It holds of an empty table.
LEMMA InitIInv == Init => IInv
<1> SUFFICES ASSUME Init PROVE IInv
  OBVIOUS
<1>1. changed \in BOOLEAN /\ resume \in BOOLEAN /\ probation \in BOOLEAN
  BY Zenon DEF Init
<1>2. chat = << >> /\ tail = << >> /\ Len(chat) = 0 /\ Ids = {} /\ Base = 0
  BY DEF Init, Ids, Base
<1>3. TypeOK
  BY <1>1, <1>2, BoundsAssumption DEF Init, TypeOK, None, Phases, BoundsAssumption
<1>4. TailIsEnd
  BY <1>2 DEF Init, TailIsEnd, Summarised, None
<1>5. SavedIsBeginning
  BY <1>2 DEF Init, SavedIsBeginning, ExchangeBeginsAfter, None
<1>6. CurrentExchange /\ ToolsFollowCalls /\ CatalogFollowsRequest
  BY <1>2 DEF Init, CurrentExchange, Working, ToolsFollowCalls, CatalogFollowsRequest
<1>7. RequestsRecorded
  <2>1. UserMessages = {}
    BY <1>2 DEF UserMessages
  <2> QED BY <2>1 DEF Init, RequestsRecorded, RecordedAtMostOnce
<1> QED BY <1>3, <1>4, <1>5, <1>6, <1>7 DEF IInv

\* The turns, the summaries and the watermark stay where they are in the chat.
LEMMA StepTailIsEnd == IInv /\ [Next]_vars => TailIsEnd'
<1> SUFFICES ASSUME IInv, [Next]_vars PROVE TailIsEnd'
  OBVIOUS
<1>0. /\ Len(chat) \in Nat /\ Len(tail) \in Nat
      /\ Len(tail) <= Len(chat)
      /\ \A i \in 1 .. Len(tail) : /\ tail[i].msg = Base + i
                                   /\ tail[i].id # None => tail[i].id = tail[i].msg
      /\ Summarised(summaries) = 1 .. Base
      /\ watermark = Base
  BY DEF IInv, TypeOK, TailIsEnd
<1>1. CASE Load /\ UNCHANGED <<chat, l3>>
  <2> DEFINE last == l3.last_message_id
  <2>1. /\ tail' \in Seq(Turn) /\ Len(tail') = Len(chat) - last
        /\ \A i \in 1 .. Len(tail') : tail'[i] = [msg |-> last + i, id |-> last + i]
        /\ Summarised(summaries') = 1 .. last
        /\ watermark' = last
        /\ last \in 0 .. Len(chat)
    BY <1>1, Loaded
  <2> HIDE DEF last
  <2>2. Base' = last
    BY <1>0, <1>1, <2>1 DEF Base
  <2>3. Len(tail') <= Len(chat')
    BY <1>0, <1>1, <2>1
  <2>4. \A i \in 1 .. Len(tail') : /\ tail'[i].msg = Base' + i
                                   /\ tail'[i].id # None => tail'[i].id = tail'[i].msg
    BY <2>1, <2>2
  <2>5. Summarised(summaries') = 1 .. Base' /\ watermark' = Base'
    BY <2>1, <2>2
  <2> QED BY <2>3, <2>4, <2>5 DEF TailIsEnd
<1>2. ASSUME NEW role \in Roles, NEW text \in Texts, Record(role, text)
      PROVE  TailIsEnd'
  <2>1. /\ Len(chat') = Len(chat) + 1
        /\ Len(tail') = Len(tail) + 1
        /\ \A i \in 1 .. Len(tail) : tail'[i] = tail[i]
        /\ tail'[Len(tail) + 1] = [msg |-> Len(chat) + 1, id |-> None]
        /\ UNCHANGED <<l3, summaries, watermark, changed>>
    BY <1>2, Recorded
  <2>2. Base' = Base /\ Base + Len(tail) = Len(chat)
    BY <1>0, <2>1 DEF Base
  <2>3. Summarised(summaries') = Summarised(summaries)
    BY <2>1
  <2>4. \A i \in 1 .. Len(tail') : /\ tail'[i].msg = Base' + i
                                   /\ tail'[i].id # None => tail'[i].id = tail'[i].msg
    <3> SUFFICES ASSUME NEW i \in 1 .. Len(tail')
                 PROVE  /\ tail'[i].msg = Base' + i
                        /\ tail'[i].id # None => tail'[i].id = tail'[i].msg
      OBVIOUS
    <3>1. CASE i \in 1 .. Len(tail)
      <4>1. tail'[i] = tail[i] /\ Base' = Base
        BY <2>1, <2>2, <3>1
      <4>2. tail[i].msg = Base + i /\ (tail[i].id # None => tail[i].id = tail[i].msg)
        BY <1>0, <3>1
      <4> QED BY <4>1, <4>2
    <3>2. CASE i = Len(tail) + 1
      <4>1. Base + i = Len(chat) + 1
        BY <1>0, <2>2, <3>2 DEF Base
      <4> QED BY <2>1, <2>2, <3>2, <4>1
    <3> QED BY <2>1, <3>1, <3>2
  <2>5. Len(tail') <= Len(chat')
    BY <1>0, <2>1
  <2>6. Summarised(summaries') = 1 .. Base' /\ watermark' = Base'
    BY <1>0, <2>1, <2>2, <2>3
  <2> QED BY <2>4, <2>5, <2>6 DEF TailIsEnd
<1>3. CASE Compress
  <2>1. /\ Len(tail') = Len(tail) - SegmentEnd
        /\ \A j \in 1 .. Len(tail') : SegmentEnd + j \in 1 .. Len(tail)
                                   /\ tail'[j] = tail[SegmentEnd + j]
        /\ Base' = Base + SegmentEnd
        /\ Summarised(summaries') = 1 .. Base'
        /\ watermark' = Base'
        /\ chat' = chat /\ tail' \in Seq(Turn)
    BY <1>3, Compressed
  <2>2. SegmentEnd \in 1 .. Len(tail) - 1
    BY <1>3, SegmentIsExchange DEF Compress
  <2>3. Len(tail') \in Nat
    BY <2>1
  <2>4. Base \in Nat
    BY <1>0 DEF Base
  <2>5. \A j \in 1 .. Len(tail') : /\ tail'[j].msg = Base' + j
                                   /\ tail'[j].id # None => tail'[j].id = tail'[j].msg
    <3> SUFFICES ASSUME NEW j \in 1 .. Len(tail')
                 PROVE  /\ tail'[j].msg = Base' + j
                        /\ tail'[j].id # None => tail'[j].id = tail'[j].msg
      OBVIOUS
    <3> DEFINE k == SegmentEnd + j
    <3>1. k \in 1 .. Len(tail) /\ tail'[j] = tail[k]
      BY <2>1
    <3>2. tail[k].msg = Base + k /\ (tail[k].id # None => tail[k].id = tail[k].msg)
      BY <1>0, <3>1
    <3>3. Base + k = Base' + j
      BY <2>1, <2>2, <2>3, <2>4
    <3> QED BY <3>1, <3>2, <3>3
  <2>6. Len(tail') <= Len(chat')
    BY <1>0, <2>1, <2>2
  <2>7. Summarised(summaries') = 1 .. Base' /\ watermark' = Base'
    BY <2>1
  <2> QED BY <2>5, <2>6, <2>7 DEF TailIsEnd
<1>4. CASE EndCompress \/ UNCHANGED <<chat, l3, store>>
  <2>1. UNCHANGED <<chat, tail, summaries, watermark>>
    BY <1>4 DEF EndCompress, store
  <2> QED BY <1>0, <2>1 DEF TailIsEnd, Base, Summarised
<1> QED BY <1>1, <1>2, <1>3, <1>4, StoreChanges DEF IInv

\* The saved summary grows to where the store's summaries end.
LEMMA StepSavedIsBeginning == IInv /\ [Next]_vars => SavedIsBeginning'
<1> SUFFICES ASSUME IInv, [Next]_vars PROVE SavedIsBeginning'
  OBVIOUS
<1> DEFINE last == l3.last_message_id
<1>0. /\ Len(chat) \in Nat /\ Len(tail) \in Nat /\ Len(tail) <= Len(chat)
      /\ Base \in Nat /\ last \in Nat
      /\ l3.summary = 1 .. last /\ last <= Base
      /\ ~changed => last = Base
      /\ changed => Base # None
      /\ ExchangeBeginsAfter(Base) /\ ExchangeBeginsAfter(last)
      /\ Summarised(summaries) = 1 .. Base /\ watermark = Base
  BY DEF IInv, TypeOK, TailIsEnd, SavedIsBeginning, Base, Ids, None
<1>1. CASE Load /\ UNCHANGED <<chat, l3>>
  <2>1. Len(tail') = Len(chat) - last
    BY <1>1, Loaded
  <2>2. changed' = FALSE
    BY <1>1 DEF Load
  <2>3. Base' = last
    BY <1>0, <1>1, <2>1 DEF Base
  <2> QED BY <1>0, <1>1, <2>2, <2>3 DEF SavedIsBeginning, ExchangeBeginsAfter
<1>2. ASSUME NEW role \in Roles, NEW text \in Texts, Record(role, text)
      PROVE  SavedIsBeginning'
  <2>1. /\ Len(chat') = Len(chat) + 1 /\ Len(tail') = Len(tail) + 1
        /\ \A i \in Ids : chat'[i] = chat[i]
        /\ l3' = l3 /\ changed' = changed
    BY <1>2, Recorded
  <2>2. Base' = Base
    BY <1>0, <2>1 DEF Base
  <2>3. ASSUME NEW id \in Nat, ExchangeBeginsAfter(id)
        PROVE  id # None => id < Len(chat') /\ chat'[id + 1].role = "user"
    BY <1>0, <2>1, <2>3 DEF ExchangeBeginsAfter, Ids
  <2> QED BY <1>0, <2>1, <2>2, <2>3 DEF SavedIsBeginning, ExchangeBeginsAfter
<1>3. CASE Compress
  <2>1. Base' = Base + SegmentEnd /\ changed' = TRUE /\ chat' = chat /\ l3' = l3
    BY <1>3, Compressed
  <2>2. SegmentEnd \in 1 .. Len(tail) - 1 /\ chat[Base + SegmentEnd + 1].role = "user"
    BY <1>3, SegmentIsExchange DEF Compress
  <2>3. Base + SegmentEnd < Len(chat)
    BY <1>0, <2>2 DEF Base
  <2> HIDE DEF Base
  <2> QED BY <1>0, <2>1, <2>2, <2>3 DEF SavedIsBeginning, ExchangeBeginsAfter, None
<1>4. CASE EndCompress
  <2>1. UNCHANGED <<chat, tail>> /\ SaveL3
    BY <1>4 DEF EndCompress
  <2>2. Base' = Base
    BY <2>1 DEF Base
  <2>3. changed' = FALSE
    BY <1>4 DEF EndCompress
  <2>4. CASE changed
    <3>1. l3' = [summary |-> 1 .. Base, last_message_id |-> Base]
      BY <1>0, <2>1, <2>4 DEF SaveL3
    <3> HIDE DEF Base
    <3> QED BY <1>0, <2>1, <2>2, <2>3, <3>1 DEF SavedIsBeginning, ExchangeBeginsAfter
  <2>5. CASE ~changed
    <3>1. l3' = l3
      BY <2>1, <2>5 DEF SaveL3
    <3> HIDE DEF Base
    <3> QED BY <1>0, <2>1, <2>2, <2>3, <2>5, <3>1 DEF SavedIsBeginning, ExchangeBeginsAfter
  <2> QED BY <2>4, <2>5
<1>5. CASE UNCHANGED <<chat, l3, store>>
  BY <1>0, <1>5 DEF SavedIsBeginning, ExchangeBeginsAfter, Base, store
<1> QED BY <1>1, <1>2, <1>3, <1>4, <1>5, StoreChanges DEF IInv

\* Every step preserves the types.
LEMMA StepTypeOK == IInv /\ [Next]_vars => TypeOK'
<1> SUFFICES ASSUME IInv, [Next]_vars PROVE TypeOK'
  OBVIOUS
<1>1. /\ chat \in Seq(Message) /\ Len(chat) \in Nat
      /\ l3 \in [summary : SUBSET Ids, last_message_id : Ids \cup {None}]
      /\ tail \in Seq(Turn) /\ summaries \in Seq(SUBSET Ids) /\ watermark \in Ids \cup {None}
      /\ changed \in BOOLEAN /\ Summarised(summaries) = 1 .. Base /\ watermark = Base
      /\ Base \in Nat /\ Base <= Len(chat)
  BY DEF IInv, TypeOK, TailIsEnd, Base
<1>2. /\ chat' \in Seq(Message)
      /\ tail' \in Seq(Turn)'
      /\ summaries' \in Seq(SUBSET Ids)'
      /\ l3' \in [summary : SUBSET Ids, last_message_id : Ids \cup {None}]'
  <2>1. CASE Load /\ UNCHANGED <<chat, l3>>
    BY <1>1, <2>1, Loaded DEF Turn, Ids, None
  <2>2. ASSUME NEW role \in Roles, NEW text \in Texts, Record(role, text)
        PROVE  <1>2!:
    <3>1. /\ chat' \in Seq(Message) /\ tail' \in Seq([msg : Ids', id : Ids' \cup {None}])
          /\ Ids' = Ids \cup {Len(chat) + 1}
          /\ UNCHANGED <<l3, summaries>>
      BY <2>2, Recorded
    <3>2. summaries \in Seq(SUBSET Ids')
      <4>1. SUBSET Ids \subseteq SUBSET Ids'
        BY <3>1
      <4> QED BY <1>1, <4>1, SeqMonotonic
    <3>3. l3 \in [summary : SUBSET Ids', last_message_id : Ids' \cup {None}]
      BY <1>1, <3>1
    <3> QED BY <3>1, <3>2, <3>3 DEF Turn
  <2>3. CASE Compress
    BY <1>1, <2>3, Compressed DEF Turn, Ids, None
  <2>4. CASE EndCompress
    <3>1. UNCHANGED <<chat, tail, summaries>> /\ SaveL3
      BY <2>4 DEF EndCompress
    <3>2. Ids' = Ids
      BY <3>1 DEF Ids
    <3>3. l3' \in [summary : SUBSET Ids, last_message_id : Ids \cup {None}]
      <4>1. 1 .. Base \in SUBSET Ids
        BY <1>1 DEF Ids
      <4> QED BY <1>1, <3>1, <4>1 DEF SaveL3
    <3> QED BY <1>1, <3>1, <3>2, <3>3 DEF Turn
  <2>5. CASE UNCHANGED <<chat, l3, store>>
    BY <1>1, <2>5 DEF store, Turn, Ids, None
  <2> QED BY <2>1, <2>2, <2>3, <2>4, <2>5, StoreChanges DEF IInv
<1>3. watermark' \in Ids' \cup {None}
  <2>1. Len(chat') \in Nat /\ Len(tail') \in Nat
    BY <1>2
  <2>2. Len(tail') <= Len(chat') /\ watermark' = Base'
    BY StepTailIsEnd DEF TailIsEnd
  <2> QED BY <2>1, <2>2 DEF Base, Ids, None
<1>4. changed' \in BOOLEAN
  <2>1. CASE Load \/ Compress \/ EndCompress
    BY <2>1, Zenon DEF Load, Compress, EndCompress
  <2>2. CASE changed' = changed
    BY <1>1, <2>2
  <2>3. (\E role \in Roles, text \in Texts : Record(role, text))
          => changed' = changed
    BY Zenon DEF Record
  <2>4. UNCHANGED <<chat, l3, store>> => changed' = changed
    BY DEF store
  <2> QED BY <2>1, <2>2, <2>3, <2>4, StoreChanges, Zenon DEF IInv
<1>5. resume' \in BOOLEAN /\ probation' \in BOOLEAN
  <2>1. resume \in BOOLEAN /\ probation \in BOOLEAN
    BY DEF IInv, TypeOK
  <2>2. CASE Request \/ Replay
    BY <2>1, <2>2, Zenon DEF Request, Replay, counts
  <2>3. CASE SetTask \/ AddCatalog \/ Compress \/ EndCompress \/ Answer \/ CallTools
             \/ UseTool \/ Rejected \/ Accepted \/ Unverified
    BY <2>1, <2>3
    DEF SetTask, AddCatalog, Compress, EndCompress, Answer, CallTools, UseTool, Rejected,
        Accepted, Unverified, run, counts
  <2>4. CASE Ack \/ Commit \/ Fail
    <3>1. resume' = resume
      BY <2>4 DEF Ack, Commit, Fail, run
    <3>2. probation' \in BOOLEAN
      BY <2>4, Zenon DEF Ack, Commit, Fail
    <3> QED BY <2>1, <3>1, <3>2
  <2>5. CASE Kill \/ UNCHANGED vars
    BY <2>1, <2>5 DEF Kill, vars, run, counts
  <2> QED BY <2>2, <2>3, <2>4, <2>5, Zenon DEF Next
<1>6. /\ task' \in Tasks \cup {NoTask}
      /\ calls' \in 0 .. MaxCalls
      /\ phase' \in Phases
      /\ requests' \in 0 .. MaxRequests
      /\ cuts' \in 0 .. MaxFailures
  <2> USE BoundsAssumption
      DEF BoundsAssumption, IInv, TypeOK, ToolsFollowCalls, Phases, run, counts
  <2>1. CASE Request \/ Replay \/ SetTask \/ AddCatalog \/ Compress \/ EndCompress
    BY <2>1 DEF Request, Replay, SetTask, AddCatalog, Compress, EndCompress
  <2>2. CASE Answer \/ CallTools \/ UseTool \/ Rejected \/ Accepted \/ Unverified
    BY <2>2 DEF Answer, CallTools, UseTool, Rejected, Accepted, Unverified
  <2>3. CASE Ack \/ Commit \/ Fail \/ Kill \/ UNCHANGED vars
    BY <2>3 DEF Ack, Commit, Fail, Kill, vars
  <2> QED BY <2>1, <2>2, <2>3 DEF Next
<1> QED BY <1>2, <1>3, <1>4, <1>5, <1>6 DEF TypeOK

\* Recording anything but a request leaves the latest request what it is.
LEMMA LatestKept ==
  ASSUME IInv, NEW role \in Roles \ {"user"}, NEW text \in Texts,
         Record(role, text)
  PROVE  /\ UserMessages' = UserMessages
         /\ \A i \in UserMessages : chat'[i] = chat[i]
<1>0. role \in Roles /\ role # "user"
  OBVIOUS
<1>1. /\ \A i \in Ids : chat'[i] = chat[i]
      /\ chat'[Len(chat) + 1] = [role |-> role, text |-> text, request |-> requests]
      /\ Ids' = Ids \cup {Len(chat) + 1}
  BY <1>0, Recorded
<1>2. chat'[Len(chat) + 1].role # "user"
  BY <1>0, <1>1
<1> QED BY <1>1, <1>2 DEF UserMessages

\* A request that is recorded is the latest one.
LEMMA LatestRecorded ==
  ASSUME IInv, NEW text \in Texts, Record("user", text)
  PROVE  /\ UserMessages' = UserMessages \cup {Len(chat) + 1}
         /\ \A i \in UserMessages : i <= Len(chat)
         /\ chat'[Len(chat) + 1].text = text
         /\ chat'[Len(chat) + 1].request = requests
         /\ \A i \in UserMessages : chat'[i] = chat[i]
<1>1. "user" \in Roles
  BY DEF Roles
<1>2. /\ \A i \in Ids : chat'[i] = chat[i]
      /\ chat'[Len(chat) + 1] = [role |-> "user", text |-> text, request |-> requests]
      /\ Ids' = Ids \cup {Len(chat) + 1}
  BY <1>1, Recorded
<1>3. \A i \in UserMessages : i <= Len(chat)
  BY Counts DEF UserMessages, Ids
<1> QED BY <1>2, <1>3 DEF UserMessages

\* The latest request is in the tail, whatever it is: an exchange begins there.
LEMMA LatestNotSummarised ==
  ASSUME IInv, NEW i \in UserMessages, \A j \in UserMessages : j <= i
  PROVE  Base < i
<1>1. CASE Base = 0
  BY <1>1 DEF UserMessages, Ids
<1>2. CASE Base # 0
  <2>1. Base < Len(chat) /\ chat[Base + 1].role = "user"
    BY <1>2 DEF IInv, SavedIsBeginning, ExchangeBeginsAfter, None
  <2>2. Base + 1 \in UserMessages
    BY <2>1, Counts DEF UserMessages, Ids
  <2> QED BY <2>2, Counts DEF UserMessages, Ids
<1> QED BY <1>1, <1>2

\* Within a run, a step keeps the exchange of the task.
LEMMA ExchangeKept ==
  ASSUME IInv, NEW i \in Ids, Exchange(i), task' = task,
         \/ \E role \in Roles \ {"user"}, text \in Texts : Record(role, text)
         \/ Compress
         \/ UNCHANGED <<chat, tail>>
  PROVE  i \in Ids' /\ Exchange(i)'
<1>1. ASSUME NEW role \in Roles \ {"user"}, NEW text \in Texts,
             Record(role, text)
      PROVE  i \in Ids' /\ Exchange(i)'
  <2>1. /\ Len(tail') = Len(tail) + 1 /\ Len(chat') = Len(chat) + 1
        /\ \A j \in 1 .. Len(tail) : tail'[j] = tail[j]
        /\ tail'[Len(tail) + 1] = [msg |-> Len(chat) + 1, id |-> None]
        /\ Ids' = Ids \cup {Len(chat) + 1}
    BY <1>1, Recorded
  <2>2. Base' = Base
    BY <2>1, Counts DEF Base
  <2>3. IsLatest(i)'
    BY <1>1, LatestKept DEF IsLatest, Exchange
  <2>4. ~(Len(chat) + 1 < i)
    BY Counts DEF Ids
  <2>5. \A j \in 1 .. Len(tail') : tail'[j].msg < i => tail'[j].id # None
    <3> SUFFICES ASSUME NEW j \in 1 .. Len(tail'), tail'[j].msg < i PROVE tail'[j].id # None
      OBVIOUS
    <3>1. j \in 1 .. Len(tail)
      BY <2>1, <2>4, Counts
    <3> QED BY <2>1, <3>1 DEF Exchange
  <2> QED BY <2>1, <2>2, <2>3, <2>5 DEF Exchange
<1>2. CASE Compress
  <2>1. /\ chat' = chat /\ Base' = Base + SegmentEnd
        /\ \A j \in 1 .. Len(tail') : SegmentEnd + j \in 1 .. Len(tail)
                                     /\ tail'[j] = tail[SegmentEnd + j]
    BY <1>2, Compressed
  <2>2. Base + SegmentEnd < i
    BY <1>2, SegmentIsExchange DEF Compress, Exchange
  <2> QED BY <2>1, <2>2 DEF Exchange, IsLatest, UserMessages, Ids
<1>3. CASE UNCHANGED <<chat, tail>>
  BY <1>3 DEF Exchange, IsLatest, UserMessages, Ids, Base
<1> QED BY <1>1, <1>2, <1>3

\* The exchange of the task is in the tail from the step that sets the task.
LEMMA StepCurrentExchange == IInv /\ [Next]_vars => CurrentExchange'
<1> SUFFICES ASSUME IInv, [Next]_vars PROVE CurrentExchange'
  OBVIOUS
<1> DEFINE Kept ==
      \/ \E role \in Roles \ {"user"}, text \in Texts : Record(role, text)
      \/ Compress
      \/ UNCHANGED <<chat, tail>>
<1>1. ASSUME Working, Kept, task' = task, phase' # "start"
      PROVE  CurrentExchange'
  <2>1. PICK i \in Ids : Exchange(i)
    BY <1>1 DEF IInv, CurrentExchange
  <2>2. i \in Ids' /\ Exchange(i)'
    BY <1>1, <2>1, ExchangeKept
  <2> QED BY <1>1, <2>2 DEF CurrentExchange
<1>2. CASE Request \/ Replay
  <2>1. Load /\ chat' = chat /\ l3' = l3 /\ phase' = "start"
    BY <1>2 DEF Request, Replay
  <2>2. \A i \in 1 .. Len(tail') : tail'[i].id # None
    <3> DEFINE last == l3.last_message_id
    <3>1. /\ \A i \in 1 .. Len(tail') : tail'[i] = [msg |-> last + i, id |-> last + i]
          /\ last \in 0 .. Len(chat)
      BY <2>1, Loaded
    <3> HIDE DEF last
    <3>2. last \in Nat
      BY <3>1, Counts
    <3>3. \A i \in 1 .. Len(tail') : last + i # 0
      BY <3>2
    <3> SUFFICES ASSUME NEW i \in 1 .. Len(tail') PROVE tail'[i].id # None
      OBVIOUS
    <3>4. tail'[i] = [msg |-> last + i, id |-> last + i]
      BY <3>1
    <3>5. tail'[i].id = last + i
      BY <3>4
    <3> QED BY <3>3, <3>5 DEF None
  <2> QED BY <2>1, <2>2 DEF CurrentExchange, Working
<1>3. CASE SetTask
  <2>1. phase = "start" /\ task' = task
    BY <1>3 DEF SetTask, run
  <2>2. \A j \in 1 .. Len(tail) : tail[j].id # None
    BY <2>1 DEF IInv, CurrentExchange
  <2>3. CASE /\ resume
             /\ UserTurns(tail) # {}
             /\ chat[tail[Largest(UserTurns(tail))].msg].text = task
             /\ phase' = "compress" /\ UNCHANGED <<chat, l3, store>>
    <3> DEFINE c == Largest(UserTurns(tail))
    <3>1. /\ UserTurns(tail) = {j \in 1 .. Len(tail) : chat[Base + j].role = "user"}
          /\ \A j \in 1 .. Len(tail) : tail[j].msg = Base + j
      BY UserTurnsAre
    <3>2. c \in UserTurns(tail) /\ \A j \in UserTurns(tail) : j <= c
      <4>1. UserTurns(tail) \in SUBSET (0 .. Len(tail)) /\ Len(tail) \in Nat
        BY <3>1, Counts
      <4> QED BY <2>3, <4>1, LargestExists
    <3> HIDE DEF c
    <3>3. Base + c \in UserMessages /\ Base < Base + c /\ tail[c].msg = Base + c
      BY <3>1, <3>2, Counts DEF UserMessages, Ids
    <3>4. \A j \in UserMessages : j <= Base + c
      <4> SUFFICES ASSUME NEW j \in UserMessages, j > Base + c PROVE FALSE
        BY <3>1, <3>2, Counts DEF UserMessages, Ids
      <4>1. j - Base \in 1 .. Len(tail) /\ Base + (j - Base) = j
        BY <3>1, <3>2, Counts DEF UserMessages, Ids
      <4>2. j - Base \in UserTurns(tail)
        BY <3>1, <4>1 DEF UserMessages
      <4> QED BY <3>1, <3>2, <4>2, Counts DEF UserMessages, Ids
    <3> PICK i : i = Base + c
      OBVIOUS
    <3>5. Exchange(i)
      BY <2>2, <2>3, <3>3, <3>4 DEF Exchange, IsLatest, c
    <3>6. i \in Ids /\ UNCHANGED <<chat, tail>>
      BY <2>3, <3>3 DEF UserMessages, store
    <3>7. i \in Ids' /\ Exchange(i)'
      BY <2>1, <3>5, <3>6, ExchangeKept
    <3> QED BY <2>3, <3>7 DEF CurrentExchange
  <2>4. CASE phase' = "catalog" /\ Record("user", task)
    <3> PICK i : i = Len(chat) + 1
      OBVIOUS
    <3>0. task \in Texts /\ "user" \in Roles
      BY DEF IInv, TypeOK, Roles, Texts
    <3>1. /\ UserMessages' = UserMessages \cup {i}
          /\ \A j \in UserMessages : j <= Len(chat) /\ j \in Int
          /\ chat'[i].text = task
      BY <2>4, <3>0, LatestRecorded DEF UserMessages, Ids
    <3>2. /\ Len(chat') = i /\ Len(tail') = Len(tail) + 1 /\ Ids' = Ids \cup {i}
          /\ \A j \in 1 .. Len(tail) : tail'[j] = tail[j]
          /\ tail'[Len(tail) + 1] = [msg |-> i, id |-> None]
      BY <2>4, <3>0, Recorded
    <3>3. Base' < i
      BY <3>2, Counts DEF Base
    <3>4. IsLatest(i)'
      BY <2>1, <3>1, Counts DEF IsLatest
    <3>5. \A j \in 1 .. Len(tail') : tail'[j].msg < i => tail'[j].id # None
      <4> SUFFICES ASSUME NEW j \in 1 .. Len(tail'), tail'[j].msg < i
                   PROVE  tail'[j].id # None
        OBVIOUS
      <4>1. CASE j = Len(tail) + 1
        BY <3>2, <4>1, Counts
      <4>2. CASE j \in 1 .. Len(tail)
        BY <2>2, <3>2, <4>2
      <4> QED BY <3>2, <4>1, <4>2, Counts
    <3>6. Exchange(i)' /\ i \in Ids'
      BY <3>2, <3>3, <3>4, <3>5 DEF Exchange
    <3> QED BY <2>4, <3>6 DEF CurrentExchange
  <2> QED BY <1>3, <2>3, <2>4 DEF SetTask
<1>4. CASE AddCatalog \/ CallTools \/ UseTool \/ Accepted
  <2>1. {"call", "tool", "assistant"} \subseteq Roles \ {"user"} /\ {NoTask, Catalog} \subseteq Texts
    BY DEF Roles, Texts
  <2>2. Working /\ task' = task /\ phase' # "start"
    BY <1>4 DEF AddCatalog, CallTools, UseTool, Accepted, Working, run
  <2>3. \/ \E role \in {"call", "tool", "assistant"}, text \in {NoTask, Catalog} : Record(role, text)
        \/ UNCHANGED <<chat, l3, store>>
    BY <1>4 DEF AddCatalog, CallTools, UseTool, Accepted
  <2>4. Kept
    BY <2>1, <2>3 DEF store
  <2> QED BY <1>1, <2>2, <2>4
<1>5. CASE Compress
  BY <1>1, <1>5 DEF Compress, Working, run
<1>6. CASE EndCompress \/ Answer \/ Rejected \/ Unverified
  <2>1. Working /\ task' = task /\ phase' # "start" /\ UNCHANGED <<chat, tail>>
    BY <1>6 DEF EndCompress, Answer, Rejected, Unverified, Working, run, store
  <2> QED BY <1>1, <2>1
<1>7. CASE Ack \/ Commit \/ Fail \/ Kill
  BY <1>7 DEF Ack, Commit, Fail, Kill, CurrentExchange, Working
<1>8. CASE UNCHANGED vars
  BY <1>8 DEF vars, store, run, IInv, CurrentExchange, Working, Exchange, IsLatest,
              UserMessages, Ids, Base
<1> QED BY <1>2, <1>3, <1>4, <1>5, <1>6, <1>7, <1>8 DEF Next

\* A result of a tool is recorded after the call or another result.
LEMMA StepToolsFollowCalls == IInv /\ [Next]_vars => ToolsFollowCalls'
<1> SUFFICES ASSUME IInv, [Next]_vars PROVE ToolsFollowCalls'
  OBVIOUS
<1> DEFINE Preceded(i) ==
      IsResult(i) => \E j \in 1 .. i : /\ chat[j].role = "call"
                                       /\ \A k \in j .. i : IsToolTurn(k)
<1>1. \A i \in Ids : Preceded(i)
  BY DEF IInv, ToolsFollowCalls
<1>2. ASSUME NEW role \in Roles, NEW text \in Texts, Record(role, text),
             role = "tool" /\ text # Catalog => Len(chat) > 0 /\ IsToolTurn(Len(chat))
      PROVE  /\ \A i \in Ids' : Preceded(i)'
             /\ Len(chat') > 0
             /\ chat'[Len(chat')].role = role /\ chat'[Len(chat')].text = text
  <2> DEFINE n == Len(chat) + 1
  <2>1. /\ Len(chat') = n /\ Ids' = Ids \cup {n}
        /\ \A i \in Ids : chat'[i] = chat[i]
        /\ chat'[n].role = role /\ chat'[n].text = text
    <3>1. /\ Len(chat') = n /\ Ids' = Ids \cup {n}
          /\ \A i \in Ids : chat'[i] = chat[i]
          /\ chat'[n] = [role |-> role, text |-> text, request |-> requests]
      BY <1>2, Recorded
    <3> QED BY <3>1
  <2>2. n \in Nat /\ n > 0 /\ Ids = 1 .. n - 1 /\ Len(chat) = n - 1
    BY Counts DEF Ids
  <2> HIDE DEF n
  <2>3. ASSUME NEW i \in Ids PROVE Preceded(i)'
    <3>1. \A k \in 1 .. i : chat'[k] = chat[k]
      BY <2>1, <2>2
    <3> SUFFICES ASSUME IsResult(i)'
                 PROVE  \E j \in 1 .. i : /\ chat'[j].role = "call"
                                          /\ \A k \in j .. i : IsToolTurn(k)'
      OBVIOUS
    <3>2. IsResult(i)
      BY <2>2, <3>1 DEF IsResult
    <3>3. PICK j \in 1 .. i : chat[j].role = "call" /\ \A k \in j .. i : IsToolTurn(k)
      BY <1>1, <3>2
    <3>4. chat'[j].role = "call"
      BY <3>1, <3>3
    <3>5. \A k \in j .. i : IsToolTurn(k)'
      BY <2>2, <3>1, <3>3 DEF IsToolTurn, IsResult
    <3> QED BY <3>4, <3>5
  <2>4. ASSUME NEW i, i = n PROVE Preceded(i)'
    <3> SUFFICES ASSUME IsResult(i)'
                 PROVE  \E j \in 1 .. i : /\ chat'[j].role = "call"
                                          /\ \A k \in j .. i : IsToolTurn(k)'
      OBVIOUS
    <3>1. role = "tool" /\ text # Catalog
      BY <2>1, <2>4 DEF IsResult
    <3>2. n - 1 \in Ids /\ IsToolTurn(n - 1)
      BY <1>2, <2>2, <3>1
    <3>3. PICK j \in 1 .. n - 1 : chat[j].role = "call" /\ \A k \in j .. n - 1 : IsToolTurn(k)
      <4>1. CASE IsResult(n - 1)
        BY <1>1, <3>2, <4>1
      <4>2. CASE chat[n - 1].role = "call"
        <5>1. \A k \in n - 1 .. n - 1 : IsToolTurn(k)
          BY <2>2, <3>2
        <5> QED BY <2>2, <3>2, <4>2, <5>1
      <4> QED BY <3>2, <4>1, <4>2 DEF IsToolTurn
    <3>4. chat'[j].role = "call" /\ j \in 1 .. i
      BY <2>1, <2>2, <2>4, <3>3
    <3>5. \A k \in j .. i : IsToolTurn(k)'
      <4> SUFFICES ASSUME NEW k \in j .. i PROVE IsToolTurn(k)'
        OBVIOUS
      <4>1. CASE k = n
        BY <2>1, <3>1, <4>1 DEF IsToolTurn, IsResult
      <4>2. CASE k # n
        <5>1. k \in j .. n - 1 /\ k \in Ids
          BY <2>2, <2>4, <3>3, <4>2
        <5> QED BY <2>1, <3>3, <5>1 DEF IsToolTurn, IsResult
      <4> QED BY <4>1, <4>2
    <3> QED BY <3>4, <3>5
  <2>5. Len(chat') > 0 /\ chat'[Len(chat')].role = role /\ chat'[Len(chat')].text = text
    BY <2>1, <2>2
  <2>6. \A i \in Ids' : Preceded(i)'
    BY <2>1, <2>3, <2>4
  <2> QED BY <2>5, <2>6
<1>3. ASSUME chat' = chat PROVE \A i \in Ids' : Preceded(i)'
  BY <1>1, <1>3 DEF Ids, IsToolTurn, IsResult
<1> HIDE DEF Preceded
<1>4. CASE SetTask \/ AddCatalog \/ Accepted
  <2>1. {"user", "tool", "assistant"} \subseteq Roles /\ {NoTask, task, Catalog} \subseteq Texts
    BY DEF Roles, Texts, IInv, TypeOK
  <2>2. \/ Record("user", task) \/ Record("tool", Catalog) \/ Record("assistant", NoTask)
        \/ chat' = chat
    BY <1>4 DEF SetTask, AddCatalog, Accepted
  <2>3. phase' # "tools"
    BY <1>4 DEF SetTask, AddCatalog, Accepted
  <2>4. \A i \in Ids' : Preceded(i)'
    BY <1>2, <1>3, <2>1, <2>2
  <2> QED BY <2>3, <2>4 DEF ToolsFollowCalls, Preceded
<1>5. CASE CallTools \/ UseTool
  <2>1. {"call", "tool"} \subseteq Roles /\ NoTask \in Texts /\ NoTask # Catalog
    BY DEF Roles, Texts, NoTask, Catalog
  <2>2. \E role \in {"call", "tool"} :
          /\ Record(role, NoTask)
          /\ role = "tool" => Len(chat) > 0 /\ IsToolTurn(Len(chat))
    BY <1>5 DEF CallTools, UseTool, IInv, ToolsFollowCalls
  <2>3. /\ \A i \in Ids' : Preceded(i)'
        /\ Len(chat') > 0 /\ chat'[Len(chat')].role \in {"call", "tool"}
        /\ chat'[Len(chat')].text # Catalog
    BY <1>2, <2>1, <2>2
  <2>4. phase' = "tools" => calls' > 0
    BY <1>5, BoundsAssumption
    DEF CallTools, UseTool, IInv, TypeOK, ToolsFollowCalls, BoundsAssumption
  <2> QED BY <2>3, <2>4 DEF ToolsFollowCalls, Preceded, IsToolTurn, IsResult
<1>6. CASE Request \/ Replay \/ EndCompress \/ Answer \/ Rejected \/ Unverified \/ Ack
           \/ Commit \/ Fail \/ Kill
  <2>1. chat' = chat /\ phase' # "tools"
    BY <1>6 DEF Request, Replay, EndCompress, Answer, Rejected, Unverified, Ack,
                Commit, Fail, Kill
  <2> QED BY <1>3, <2>1 DEF ToolsFollowCalls, Preceded
<1>7. CASE Compress \/ UNCHANGED vars
  <2>1. chat' = chat /\ (phase' = "tools" => phase = "tools" /\ calls' = calls)
    BY <1>7 DEF Compress, vars, run
  <2> QED BY <1>3, <2>1 DEF IInv, ToolsFollowCalls, Preceded, IsToolTurn, IsResult
<1> QED BY <1>4, <1>5, <1>6, <1>7 DEF Next

\* The step that records a request leads to the one that may record the catalog.
LEMMA StepCatalogFollowsRequest == IInv /\ [Next]_vars => CatalogFollowsRequest'
<1> SUFFICES ASSUME IInv, [Next]_vars PROVE CatalogFollowsRequest'
  OBVIOUS
<1> DEFINE Follows(i) == IsCatalog(i) => i > 1 /\ chat[i - 1].role = "user"
<1>1. \A i \in Ids : Follows(i)
  BY DEF IInv, CatalogFollowsRequest
<1>2. ASSUME NEW role \in Roles, NEW text \in Texts, Record(role, text),
             role = "tool" /\ text = Catalog
               => Len(chat) > 0 /\ chat[Len(chat)].role = "user"
      PROVE  /\ \A i \in Ids' : Follows(i)'
             /\ Len(chat') > 0 /\ chat'[Len(chat')].role = role
  <2> DEFINE n == Len(chat) + 1
  <2>1. /\ Len(chat') = n /\ Ids' = Ids \cup {n}
        /\ \A i \in Ids : chat'[i] = chat[i]
        /\ chat'[n] = [role |-> role, text |-> text, request |-> requests]
    BY <1>2, Recorded
  <2>2. n \in Nat /\ n > 0 /\ Ids = 1 .. n - 1 /\ Len(chat) = n - 1
    BY Counts DEF Ids
  <2> HIDE DEF n
  <2>3. chat'[n].role = role /\ chat'[n].text = text
    BY <2>1
  <2>4. ASSUME NEW i \in Ids PROVE Follows(i)'
    BY <1>1, <2>1, <2>2 DEF IsCatalog
  <2>5. ASSUME NEW i, i = n PROVE Follows(i)'
    <3> SUFFICES ASSUME IsCatalog(i)' PROVE i > 1 /\ chat'[i - 1].role = "user"
      OBVIOUS
    <3>1. role = "tool" /\ text = Catalog
      BY <2>3, <2>5 DEF IsCatalog
    <3>2. n - 1 > 0 /\ chat[n - 1].role = "user"
      BY <1>2, <2>2, <3>1
    <3> QED BY <2>1, <2>2, <2>5, <3>2
  <2> QED BY <2>1, <2>2, <2>3, <2>4, <2>5
<1>3. ASSUME chat' = chat PROVE \A i \in Ids' : Follows(i)'
  BY <1>1, <1>3 DEF Ids, IsCatalog
<1> HIDE DEF Follows
<1>4. {"user", "call", "tool", "assistant"} = Roles /\ {NoTask, task, Catalog} \subseteq Texts
  BY DEF Roles, Texts, IInv, TypeOK
<1>5. CASE SetTask
  <2>1. Record("user", task) \/ (chat' = chat /\ phase' # "catalog")
    BY <1>5 DEF SetTask
  <2> QED BY <1>2, <1>3, <1>4, <2>1 DEF CatalogFollowsRequest, Follows
<1>6. CASE AddCatalog \/ CallTools \/ UseTool \/ Accepted
  <2>1. phase' # "catalog"
    BY <1>6 DEF AddCatalog, CallTools, UseTool, Accepted
  <2>2. CASE Record("tool", Catalog) /\ phase = "catalog"
    <3>1. Len(chat) > 0 /\ chat[Len(chat)].role = "user"
      BY <2>2 DEF IInv, CatalogFollowsRequest
    <3> QED BY <1>2, <1>4, <2>1, <2>2, <3>1 DEF CatalogFollowsRequest, Follows
  <2>3. CASE \E role \in Roles : Record(role, NoTask)
    <3>1. NoTask # Catalog
      BY DEF NoTask, Catalog
    <3> QED BY <1>2, <1>4, <2>1, <2>3, <3>1 DEF CatalogFollowsRequest, Follows
  <2>4. CASE chat' = chat
    BY <1>3, <2>1, <2>4 DEF CatalogFollowsRequest, Follows
  <2> QED BY <1>4, <1>6, <2>2, <2>3, <2>4 DEF AddCatalog, CallTools, UseTool, Accepted
<1>7. CASE Request \/ Replay \/ Compress \/ EndCompress \/ Answer \/ Rejected \/ Unverified
           \/ Ack \/ Commit \/ Fail \/ Kill
  <2>1. chat' = chat /\ phase' # "catalog"
    BY <1>7 DEF Request, Replay, Compress, EndCompress, Answer, Rejected, Unverified, Ack,
                Commit, Fail, Kill
  <2> QED BY <1>3, <2>1 DEF CatalogFollowsRequest, Follows
<1>8. CASE UNCHANGED vars
  BY <1>3, <1>8 DEF vars, IInv, CatalogFollowsRequest, Follows
<1> QED BY <1>5, <1>6, <1>7, <1>8 DEF Next

\* A request is recorded once, by the run it started or by one that replays it.
LEMMA StepRequestsRecorded == IInv /\ [Next]_vars => RequestsRecorded'
<1> SUFFICES ASSUME IInv, [Next]_vars PROVE RequestsRecorded'
  OBVIOUS
<1> DEFINE Older == \A i \in UserMessages : chat[i].request < requests
<1>0. /\ requests \in Nat
      /\ \A i \in UserMessages : chat[i].request \in Nat /\ chat[i].request <= requests
      /\ \A i, j \in UserMessages : chat[i].request = chat[j].request => i = j
      /\ phase \in {"replay", "start"}
           => Older \/ ((\E i \in Ids : IsLatest(i)) /\ (phase = "start" => resume))
  <2>1. \A i \in Ids : chat[i].request \in Nat
    <3>1. chat \in Seq(Message) /\ \A m \in Message : m.request \in Nat
      BY BoundsAssumption DEF IInv, TypeOK, Message, BoundsAssumption
    <3> QED BY <3>1 DEF Ids
  <2> QED BY <2>1 DEF IInv, TypeOK, RequestsRecorded, RecordedAtMostOnce, UserMessages
<1>1. ASSUME UNCHANGED <<chat, task>>
      PROVE  (\E i \in Ids : IsLatest(i)) => (\E i \in Ids : IsLatest(i))'
  BY <1>1 DEF UserMessages, Ids, IsLatest
<1>2. Working => \E i \in Ids : IsLatest(i)
  BY DEF IInv, CurrentExchange, Exchange
<1>u. ASSUME /\ UserMessages' = UserMessages
             /\ \A i \in UserMessages : chat'[i] = chat[i]
             /\ requests' \in {requests, requests + 1}
      PROVE  /\ \A i \in UserMessages' : chat'[i].request <= requests'
             /\ RecordedAtMostOnce'
             /\ requests' = requests + 1 => Older'
             /\ requests' = requests => Older' = Older
  BY <1>0, <1>u DEF RecordedAtMostOnce
<1> HIDE DEF Older
<1>3. CASE Request
  <2>1. chat' = chat /\ requests' = requests + 1
    BY <1>3 DEF Request
  <2>2. UserMessages' = UserMessages
    BY <2>1 DEF UserMessages, Ids
  <2> QED BY <1>u, <2>1, <2>2 DEF RequestsRecorded, Older
<1>4. CASE Replay
  <2>1. chat' = chat /\ task' = task /\ requests' = requests /\ phase = "replay"
    BY <1>4 DEF Replay, counts
  <2>2. resume' = TRUE
    BY <1>4 DEF Replay
  <2>3. UserMessages' = UserMessages
    BY <2>1 DEF UserMessages, Ids
  <2> QED BY <1>0, <1>1, <1>u, <2>1, <2>2, <2>3 DEF RequestsRecorded, Older
<1>5. CASE SetTask
  <2>1. requests' = requests /\ phase = "start" /\ phase' \notin {"replay", "start"}
    BY <1>5 DEF SetTask, counts
  <2>2. CASE chat' = chat
    <3>1. UserMessages' = UserMessages
      BY <2>2 DEF UserMessages, Ids
    <3> QED BY <1>u, <2>1, <2>2, <3>1 DEF RequestsRecorded
  <2>3. CASE /\ ~(/\ resume
                  /\ UserTurns(tail) # {}
                  /\ chat[tail[Largest(UserTurns(tail))].msg].text = task)
             /\ Record("user", task)
    <3>1. Older
      <4> SUFFICES ASSUME ~Older PROVE FALSE
        OBVIOUS
      <4>1. PICK i \in Ids : IsLatest(i)
        BY <1>0, <2>1
      <4>2. resume
        BY <1>0, <2>1
      <4>3. /\ i \in UserMessages /\ chat[i].text = task
            /\ \A j \in UserMessages : j <= i
        BY <4>1 DEF IsLatest
      <4>4. Base < i
        BY <4>3, LatestNotSummarised
      <4>5. /\ UserTurns(tail) # {}
            /\ tail[Largest(UserTurns(tail))].msg = i
        BY <4>3, <4>4, LatestInTail
      <4> QED BY <2>3, <4>2, <4>3, <4>5
    <3>2. task \in Texts
      BY DEF IInv, TypeOK, Texts
    <3> PICK n : n = Len(chat) + 1
      OBVIOUS
    <3>3. /\ UserMessages' = UserMessages \cup {n}
          /\ chat'[n].request = requests
          /\ \A i \in UserMessages : chat'[i] = chat[i]
      BY <2>3, <3>2, LatestRecorded
    <3>4. \A i \in UserMessages : chat'[i].request < requests
      BY <3>1, <3>3 DEF Older
    <3>5. \A i \in UserMessages' : chat'[i].request <= requests'
      BY <1>0, <2>1, <3>3, <3>4
    <3>6. RecordedAtMostOnce'
      <4>1. \A i, j \in UserMessages' : chat'[i].request = chat'[j].request => i = j
        <5> SUFFICES ASSUME NEW i \in UserMessages', NEW j \in UserMessages',
                            chat'[i].request = chat'[j].request
                     PROVE  i = j
          OBVIOUS
        <5>1. CASE i \in UserMessages /\ j \in UserMessages
          BY <1>0, <3>3, <5>1
        <5>2. CASE i = n \/ j = n
          BY <1>0, <3>3, <3>4, <5>2
        <5> QED BY <3>3, <5>1, <5>2
      <4> QED BY <4>1 DEF RecordedAtMostOnce
    <3> QED BY <2>1, <3>5, <3>6 DEF RequestsRecorded
  <2> QED BY <1>5, <2>2, <2>3 DEF SetTask
<1>6. CASE AddCatalog \/ CallTools \/ UseTool \/ Accepted
  <2>1. {"call", "tool", "assistant"} \subseteq Roles \ {"user"} /\ {NoTask, Catalog} \subseteq Texts
    BY DEF Roles, Texts
  <2>2. \/ \E role \in {"call", "tool", "assistant"}, text \in {NoTask, Catalog} : Record(role, text)
        \/ chat' = chat
    BY <1>6 DEF AddCatalog, CallTools, UseTool, Accepted
  <2>3. UserMessages' = UserMessages /\ \A i \in UserMessages : chat'[i] = chat[i]
    <3>1. CASE chat' = chat
      BY <3>1 DEF UserMessages, Ids
    <3> QED BY <2>1, <2>2, <3>1, LatestKept
  <2>4. phase' \notin {"replay", "start"} /\ requests' = requests
    BY <1>6 DEF AddCatalog, CallTools, UseTool, Accepted, counts
  <2> QED BY <1>u, <2>3, <2>4 DEF RequestsRecorded
<1>7. CASE Compress \/ EndCompress \/ Answer \/ Rejected \/ Unverified \/ Ack \/ Kill
  <2>1. chat' = chat /\ phase' \notin {"replay", "start"} /\ requests' = requests
    BY <1>7 DEF Compress, EndCompress, Answer, Rejected, Unverified, Ack, Kill, counts
  <2>2. UserMessages' = UserMessages
    BY <2>1 DEF UserMessages, Ids
  <2> QED BY <1>u, <2>1, <2>2 DEF RequestsRecorded
<1>8. CASE Commit \/ Fail
  <2>1. /\ UNCHANGED <<chat, task, requests>> /\ phase' # "start"
        /\ Working \/ phase = "start"
    BY <1>8 DEF Commit, Fail, Running, Working, run, IInv, TypeOK, Phases
  <2>2. UserMessages' = UserMessages
    BY <2>1 DEF UserMessages, Ids
  <2> QED BY <1>0, <1>1, <1>2, <1>u, <2>1, <2>2 DEF RequestsRecorded, Older
<1>9. CASE UNCHANGED vars
  <2>1. UNCHANGED <<chat, task, requests, phase, resume>>
    BY <1>9 DEF vars, run, counts
  <2>2. UserMessages' = UserMessages
    BY <2>1 DEF UserMessages, Ids
  <2> QED BY <1>0, <1>1, <1>u, <2>1, <2>2 DEF RequestsRecorded, Older
<1> QED BY <1>3, <1>4, <1>5, <1>6, <1>7, <1>8, <1>9 DEF Next

\* Every step preserves the invariant.
LEMMA StepIInv == IInv /\ [Next]_vars => IInv'
BY StepTypeOK, StepTailIsEnd, StepSavedIsBeginning, StepCurrentExchange,
   StepToolsFollowCalls, StepCatalogFollowsRequest, StepRequestsRecorded DEF IInv

\* The invariant of every state.
LEMMA Invariant == Spec => []IInv
BY InitIInv, StepIInv, PTL DEF Spec

-----------------------------------------------------------------------------
\* What the tail and the summaries hold.
LEMMA InTail ==
  ASSUME IInv
  PROVE  /\ Messages(tail) = Base + 1 .. Len(chat)
         /\ Summarised(summaries) = 1 .. Base
<1>1. Messages(tail) = {tail[j].msg : j \in 1 .. Len(tail)}
  BY DEF Messages, IInv, TypeOK
<1>2. \A j \in 1 .. Len(tail) : tail[j].msg = Base + j /\ Base + j \in Base + 1 .. Len(chat)
  BY UserTurnsAre, Counts
<1>3. \A m \in Base + 1 .. Len(chat) : m - Base \in 1 .. Len(tail) /\ Base + (m - Base) = m
  BY Counts
<1>4. Messages(tail) = Base + 1 .. Len(chat)
  BY <1>1, <1>2, <1>3
<1> QED BY <1>4 DEF IInv, TailIsEnd

\* The memory of the chat, the database's and the process's, has its types: no
\* turn, summary or watermark points past the end of the chat (store.py).
THEOREM TypeCorrect == Spec => []TypeOK
BY Invariant, PTL DEF IInv

\* Whenever the model is asked, every message of the chat is in the tail or in a
\* summary, and in one of them only, whatever earlier runs compressed and
\* wherever they were cut (store.py, react_agent.py:maybe_compress).
THEOREM NeverForgets == Spec => []NothingForgotten
<1>1. IInv => NothingForgotten
  <2> SUFFICES ASSUME IInv PROVE NothingForgotten
    OBVIOUS
  <2>1. (Base + 1 .. Len(chat)) \cup (1 .. Base) = Ids
    BY Counts DEF Ids
  <2>2. (Base + 1 .. Len(chat)) \cap (1 .. Base) = {}
    BY Counts
  <2> QED BY <2>1, <2>2, InTail DEF NothingForgotten, InPrompt
<1> QED BY <1>1, Invariant, PTL

\* The task of the run, and everything done for it so far, is in the tail whenever
\* the model is asked: compression takes older exchanges only (store.py).
THEOREM TaskInView == Spec => []ExchangeInView
<1>1. IInv => ExchangeInView
  <2> SUFFICES ASSUME IInv, phase = "ask"
               PROVE  /\ chat[Largest(UserMessages)].text = task
                      /\ Largest(UserMessages) .. Len(chat) \subseteq Messages(tail)
    BY DEF ExchangeInView
  <2>1. PICK i \in Ids : Exchange(i)
    BY DEF IInv, CurrentExchange, Working
  <2>2. UserMessages \in SUBSET Int
    BY DEF UserMessages, Ids
  <2>3. Largest(UserMessages) = i
    BY <2>1, <2>2, LargestIs DEF Exchange, IsLatest
  <2>4. i .. Len(chat) \subseteq Base + 1 .. Len(chat)
    BY <2>1, Counts DEF Exchange, Ids
  <2> QED BY <2>1, <2>3, <2>4, InTail DEF Exchange, IsLatest
<1> QED BY <1>1, Invariant, PTL

\* No result of a tool is in the tail without the call that asked for it, and no
\* catalog without its request, after any compression and after any reload of the
\* history (store.py).
THEOREM OriginsStay == Spec => []OriginInView
<1>1. IInv => OriginInView
  <2> SUFFICES ASSUME IInv, NEW i \in Messages(tail)
               PROVE  /\ IsResult(i) => Largest({j \in 1 .. i : chat[j].role = "call"})
                                          \in Messages(tail)
                      /\ IsCatalog(i) => i - 1 \in Messages(tail) /\ chat[i - 1].role = "user"
    BY DEF OriginInView
  <2> DEFINE callsTo == {j \in 1 .. i : chat[j].role = "call"}
  <2>1. /\ i \in Ids /\ i \in Int /\ Base < i /\ i <= Len(chat)
        /\ Base \in Nat /\ Len(chat) \in Nat
    <3>1. i \in Base + 1 .. Len(chat)
      BY InTail
    <3>2. Base \in Nat /\ Len(chat) \in Nat
      BY Counts
    <3> HIDE DEF Base
    <3> QED BY <3>1, <3>2 DEF Ids
  <2>2. Base # 0 => chat[Base + 1].role = "user"
    BY DEF IInv, SavedIsBeginning, ExchangeBeginsAfter, None
  <2>3. ASSUME IsResult(i) PROVE Largest(callsTo) \in Messages(tail)
    <3>1. PICK j \in 1 .. i : chat[j].role = "call" /\ \A k \in j .. i : IsToolTurn(k)
      BY <2>1, <2>3 DEF IInv, ToolsFollowCalls
    <3>2. Base < j
      <4> SUFFICES ASSUME j <= Base PROVE FALSE
        BY <2>1
      <4>1. Base + 1 \in j .. i /\ Base # 0
        BY <2>1, <3>1
      <4> QED BY <2>2, <3>1, <4>1 DEF IsToolTurn, IsResult
    <3>3. Largest(callsTo) \in callsTo /\ j <= Largest(callsTo)
      <4>1. callsTo \in SUBSET (0 .. i) /\ i \in Nat /\ j \in callsTo
        BY <2>1, <3>1 DEF Ids
      <4> HIDE DEF callsTo
      <4> QED BY <4>1, LargestExists
    <3>4. Largest(callsTo) \in 1 .. i
      BY <3>3
    <3> HIDE DEF callsTo, Base
    <3>5. Largest(callsTo) \in Base + 1 .. Len(chat)
      BY <2>1, <3>1, <3>2, <3>3, <3>4
    <3> QED BY <3>5, InTail
  <2>4. ASSUME IsCatalog(i) PROVE i - 1 \in Messages(tail) /\ chat[i - 1].role = "user"
    <3>1. i > 1 /\ chat[i - 1].role = "user"
      BY <2>1, <2>4 DEF IInv, CatalogFollowsRequest
    <3>2. chat[i].role = "tool"
      BY <2>4 DEF IsCatalog
    <3>3. Base # i - 1
      BY <2>1, <2>2, <3>1, <3>2
    <3> HIDE DEF Base
    <3>4. i - 1 \in Base + 1 .. Len(chat)
      BY <2>1, <3>1, <3>3
    <3> QED BY <3>1, <3>4, InTail
  <2> QED BY <2>3, <2>4
<1> QED BY <1>1, Invariant, PTL

\* Each request is recorded once at most, through every commit, rollback and replay
\* of its run (react_agent.py:set_task).
THEOREM RequestsRecordedOnce == Spec => []RecordedAtMostOnce
<1>1. IInv => RecordedAtMostOnce
  BY DEF IInv, RequestsRecorded, RecordedAtMostOnce
<1> QED BY <1>1, Invariant, PTL

\* Saving a summary never takes back what an earlier one covered
\* (crud.py:add_l3_memory).
THEOREM SavedSummaryGrows == Spec => SummaryGrows
<1>1. IInv /\ [Next]_vars
        => [l3.summary \subseteq l3'.summary
            /\ l3.last_message_id <= l3'.last_message_id]_l3
  <2> SUFFICES ASSUME IInv, [Next]_vars, l3' # l3
               PROVE  /\ l3.summary \subseteq l3'.summary
                      /\ l3.last_message_id <= l3'.last_message_id
    OBVIOUS
  <2>1. /\ l3.last_message_id \in Nat /\ l3.last_message_id <= Base
        /\ l3.summary = 1 .. l3.last_message_id
        /\ Summarised(summaries) = 1 .. Base /\ watermark = Base /\ Base \in Nat
    BY Counts DEF IInv, TypeOK, SavedIsBeginning, TailIsEnd, Ids, None
  <2>2. SaveL3
    BY Recorded, Compressed, StoreChanges DEF EndCompress, IInv, store
  <2>3. l3' = [summary |-> 1 .. Base, last_message_id |-> Base]
    BY <2>1, <2>2 DEF SaveL3
  <2> QED BY <2>1, <2>3
<1> QED BY <1>1, Invariant, PTL DEF Spec, SummaryGrows

=============================================================================
