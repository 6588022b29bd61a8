------------------------- MODULE ModelStream_proofs -------------------------
(***************************************************************************)
(* What the clients make of a stream, for any number of calls in any        *)
(* number of pieces: a slot holds the pieces of its call that have come,    *)
(* in their order, and the message is the slots in theirs.                  *)
(***************************************************************************)
EXTENDS ModelStream, Extremes, FiniteSetTheorems, SequenceTheorems

\* A slot holds the pieces of its call that have come; Ollama's calls come whole
\* and one after the other.
SlotsHoldPieces ==
  /\ \A call \in Calls : call > sent => arrived[call] = 0
  /\ DOMAIN slots = {call \in Calls : arrived[call] > 0}
  /\ \A call \in DOMAIN slots :
       /\ Len(slots[call]) = arrived[call]
       /\ \A p \in 1 .. arrived[call] : slots[call][p] = [call |-> call, part |-> p - 1]
  /\ provider = "ollama" => \E k \in 0 .. sent : DOMAIN slots = 1 .. k

StreamInv == StreamOK /\ SlotsHoldPieces

-----------------------------------------------------------------------------
\* A set of calls has a k-th one, for every k up to their number.
LEMMA RankExists ==
  ASSUME NEW n \in Nat, NEW D \in SUBSET (1 .. n), NEW k \in 1 .. Cardinality(D)
  PROVE  \E s \in D : Cardinality({t \in D : t < s}) = k - 1
<1> DEFINE Below(s) == {t \in D : t < s}
           Missing == {j \in 1 .. Cardinality(D) : ~ \E s \in D : Cardinality(Below(s)) = j - 1}
<1>1. IsFiniteSet(D) /\ Cardinality(D) \in Nat
  <2>1. IsFiniteSet(1 .. n)
    BY FS_Interval
  <2>2. IsFiniteSet(D)
    BY <2>1, FS_Subset
  <2> QED BY <2>2, FS_CardinalityType
<1>2. \A s \in D : IsFiniteSet(Below(s)) /\ Cardinality(Below(s)) \in Nat
  <2> SUFFICES ASSUME NEW s \in D PROVE IsFiniteSet(Below(s)) /\ Cardinality(Below(s)) \in Nat
    OBVIOUS
  <2>1. Below(s) \in SUBSET D
    OBVIOUS
  <2>2. IsFiniteSet(Below(s))
    BY <1>1, <2>1, FS_Subset
  <2> QED BY <2>2, FS_CardinalityType
<1> SUFFICES ASSUME Missing # {} PROVE FALSE
  OBVIOUS
<1>3. PICK m \in Missing : \A j \in Missing : m <= j
  <2>1. Missing \in SUBSET Nat
    BY <1>1
  <2> QED BY <2>1, LeastElement
<1>4. m \in 1 .. Cardinality(D) /\ m \in Nat
  BY <1>1, <1>3
<1>5. D \in SUBSET Nat
  OBVIOUS
<1>6. ASSUME NEW r \in D, Cardinality(Below(r)) = m - 1 PROVE FALSE
  BY <1>3, <1>6
<1>7. CASE m = 1
  <2>1. D # {}
    BY <1>1, <1>4, FS_EmptySet
  <2>2. PICK s \in D : \A t \in D : s <= t
    BY <1>5, <2>1, LeastElement
  <2>3. Below(s) = {}
    <3> SUFFICES ASSUME NEW t \in Below(s) PROVE FALSE
      OBVIOUS
    <3>1. t \in D /\ t < s
      OBVIOUS
    <3>2. s <= t /\ s \in Nat /\ t \in Nat
      BY <1>5, <2>2, <3>1
    <3> QED BY <3>1, <3>2
  <2> QED BY <1>6, <1>7, <2>3, FS_EmptySet
<1>8. CASE m > 1
  <2>1. m - 1 \in 1 .. Cardinality(D) /\ m - 1 \notin Missing
    BY <1>1, <1>3, <1>4, <1>8
  <2>2. PICK s \in D : Cardinality(Below(s)) = m - 2
    <3>1. \E s \in D : Cardinality(Below(s)) = (m - 1) - 1
      BY <2>1
    <3>2. (m - 1) - 1 = m - 2
      BY <1>4
    <3> QED BY <3>1, <3>2
  <2> DEFINE Low == Below(s) \cup {s}
             Rest == D \ Low
  <2>3. IsFiniteSet(Low) /\ Cardinality(Low) = m - 1
    <3>1. s \notin Below(s)
      BY <1>5
    <3>2. Cardinality(Below(s) \cup {s}) = Cardinality(Below(s)) + 1
      BY <1>2, <3>1, FS_AddElement
    <3>3. IsFiniteSet(Low)
      BY <1>2, FS_AddElement
    <3> QED BY <1>4, <2>2, <3>2, <3>3
  <2>4. Rest # {}
    <3>1. m <= Cardinality(D) /\ m - 1 < m
      BY <1>1, <1>4
    <3>2. Low # D
      <4> HIDE DEF Low
      <4> QED BY <1>1, <1>4, <2>3, <3>1
    <3> QED BY <3>2
  <2>5. Rest \in SUBSET Nat
    BY <1>5
  <2>6. PICK r \in Rest : \A t \in Rest : r <= t
    BY <2>4, <2>5, LeastElement
  <2>7. r \in D /\ s < r
    BY <1>5, <2>6
  <2>8. Below(r) = Low
    <3>1. \A t \in D : t < r => t \in Low
      BY <1>5, <2>6, <2>7
    <3>2. \A t \in Low : t \in D /\ t < r
      BY <1>5, <2>7
    <3> QED BY <3>1, <3>2
  <2> QED BY <1>6, <2>3, <2>7, <2>8
<1> QED BY <1>4, <1>7, <1>8

\* The message is the slots in the order of their indexes, none missing and none
\* twice: the k-th has exactly k - 1 before it (sorted(tool_calls_acc)).
THEOREM AssembledInOrder ==
  ASSUME DOMAIN slots \subseteq Calls
  PROVE  /\ Len(Assembled) = Cardinality(DOMAIN slots)
         /\ Cardinality(DOMAIN slots) \in Nat
         /\ DOMAIN Assembled = 1 .. Len(Assembled)
         /\ \A k \in 1 .. Cardinality(DOMAIN slots) : \E s \in DOMAIN slots :
              /\ Assembled[k] = slots[s]
              /\ Cardinality({t \in DOMAIN slots : t < s}) = k - 1
<1> DEFINE D == DOMAIN slots
           nth(k) == CHOOSE s \in D : Cardinality({t \in D : t < s}) = k - 1
<1>1. IsFiniteSet(D) /\ Cardinality(D) \in Nat
  <2>1. IsFiniteSet(1 .. MaxCalls) /\ MaxCalls \in Nat
    BY StreamAssumption, FS_Interval DEF StreamAssumption
  <2>2. IsFiniteSet(D)
    BY <2>1, FS_Subset DEF Calls
  <2> QED BY <2>2, FS_CardinalityType
<1>2. Assembled = [k \in 1 .. Cardinality(D) |-> slots[nth(k)]]
  BY DEF Assembled
<1>3. \A k \in 1 .. Cardinality(D) :
        nth(k) \in D /\ Cardinality({t \in D : t < nth(k)}) = k - 1
  <2>1. D \in SUBSET (1 .. MaxCalls) /\ MaxCalls \in Nat
    BY StreamAssumption DEF StreamAssumption, Calls
  <2> HIDE DEF D
  <2> SUFFICES ASSUME NEW k \in 1 .. Cardinality(D)
               PROVE  nth(k) \in D /\ Cardinality({t \in D : t < nth(k)}) = k - 1
    OBVIOUS
  <2>2. \E s \in D : Cardinality({t \in D : t < s}) = k - 1
    BY <2>1, RankExists
  <2> QED BY <2>2
<1>4. Len(Assembled) = Cardinality(D) /\ DOMAIN Assembled = 1 .. Cardinality(D)
  <2> HIDE DEF D, nth
  <2> QED BY <1>1, <1>2
<1> QED BY <1>1, <1>2, <1>3, <1>4

-----------------------------------------------------------------------------
(* The invariant of the stream.                                            *)

\* A call with all its pieces.
LEMMA WholeIs ==
  ASSUME NEW call \in Calls
  PROVE  /\ Whole(call) \in Seq(Piece) /\ Len(Whole(call)) = ArgPieces + 1
         /\ \A p \in 1 .. ArgPieces + 1 : Whole(call)[p] = [call |-> call, part |-> p - 1]
<1>1. ArgPieces + 1 \in Nat
  BY StreamAssumption DEF StreamAssumption
<1>2. \A p \in 1 .. ArgPieces + 1 : [call |-> call, part |-> p - 1] \in Piece
  BY StreamAssumption DEF StreamAssumption, Piece
<1>3. Whole(call) \in [1 .. ArgPieces + 1 -> Piece]
  BY <1>2 DEF Whole
<1>4. \A p \in 1 .. ArgPieces + 1 : Whole(call)[p] = [call |-> call, part |-> p - 1]
  BY DEF Whole
<1>5. Whole(call) \in Seq(Piece) /\ Len(Whole(call)) = ArgPieces + 1
  BY <1>1, <1>3
<1> QED BY <1>4, <1>5

\* Before the first stream no slot has anything, ...
LEMMA NothingArrived ==
  ASSUME StreamInit
  PROVE  StreamInv
<1> USE StreamAssumption DEF StreamAssumption, StreamOK, SlotsHoldPieces
<1>1. slots = << >> /\ sent = 0 /\ arrived = [call \in Calls |-> 0]
  BY DEF StreamInit
<1>2. DOMAIN slots = {} /\ {call \in Calls : arrived[call] > 0} = {} /\ 1 .. 0 = {}
  BY <1>1
<1>3. StreamOK
  BY <1>1, <1>2 DEF StreamInit
<1>4. SlotsHoldPieces
  BY <1>1, <1>2
<1> QED BY <1>3, <1>4 DEF StreamInv

\* ... nor at the start of a stream, nor when it is over.
LEMMA NothingLeft ==
  ASSUME StreamOK,
         \/ OpenStream
         \/ CloseStream("no") \/ CloseStream("done") \/ CloseStream("cut")
  PROVE  StreamInv'
<1> USE StreamAssumption DEF StreamAssumption, StreamOK, SlotsHoldPieces
<1>1. /\ slots' = << >> /\ arrived' = [call \in Calls |-> 0] /\ provider' = provider
      /\ sent' \in 0 .. MaxCalls /\ ended' \in {"no", "done", "cut"}
  BY DEF OpenStream, CloseStream
<1>2. DOMAIN slots' = {} /\ {call \in Calls : arrived'[call] > 0} = {} /\ 1 .. 0 = {}
  BY <1>1
<1>3. StreamOK'
  BY <1>1, <1>2 DEF Calls
<1>4. SlotsHoldPieces'
  BY <1>1, <1>2 DEF Calls
<1> QED BY <1>3, <1>4 DEF StreamInv

\* A piece is added to the slot of its call.
LEMMA OpenaiKeepsOrder ==
  ASSUME StreamInv, NEW call \in Calls, OpenaiPiece(call)
  PROVE  StreamInv'
<1> DEFINE n == arrived[call]
           piece == [call |-> call, part |-> n]
           before == IF call \in DOMAIN slots THEN slots[call] ELSE << >>
<1> USE StreamAssumption DEF StreamAssumption
<1>1. /\ provider = "openai" /\ call <= sent /\ n <= ArgPieces
      /\ slots' = [s \in DOMAIN slots \cup {call} |->
              (IF s \in DOMAIN slots THEN slots[s] ELSE << >>)
                \o (IF s = call THEN <<piece>> ELSE << >>)]
      /\ arrived' = [arrived EXCEPT ![call] = @ + 1]
      /\ UNCHANGED <<provider, sent, ended>>
  BY DEF OpenaiPiece, Accumulate
<1>2. /\ provider \in {"openai", "ollama"} /\ sent \in 0 .. MaxCalls
      /\ arrived \in [Calls -> 0 .. ArgPieces + 1] /\ n \in 0 .. ArgPieces
      /\ DOMAIN slots \subseteq Calls
      /\ \A s \in DOMAIN slots : slots[s] \in Seq(Piece)
      /\ ended \in {"no", "done", "cut"}
  BY <1>1 DEF StreamInv, StreamOK
<1>3. /\ \A c \in Calls : c > sent => arrived[c] = 0
      /\ DOMAIN slots = {c \in Calls : arrived[c] > 0}
      /\ \A c \in DOMAIN slots :
           /\ Len(slots[c]) = arrived[c]
           /\ \A p \in 1 .. arrived[c] : slots[c][p] = [call |-> c, part |-> p - 1]
  BY DEF StreamInv, SlotsHoldPieces
<1>4. /\ before \in Seq(Piece) /\ Len(before) = n
      /\ \A p \in 1 .. n : before[p] = [call |-> call, part |-> p - 1]
  <2>1. CASE call \in DOMAIN slots
    BY <1>2, <1>3, <2>1
  <2>2. CASE call \notin DOMAIN slots
    <3>1. n = 0
      BY <1>2, <1>3, <2>2
    <3> QED BY <2>2, <3>1
  <2> QED BY <2>1, <2>2
<1>5. DOMAIN slots' = DOMAIN slots \cup {call}
  BY <1>1
<1>6. slots'[call] = before \o <<piece>>
  BY <1>1
<1>7. \A s \in DOMAIN slots \ {call} : slots'[s] = slots[s]
  <2> SUFFICES ASSUME NEW s \in DOMAIN slots \ {call} PROVE slots'[s] = slots[s]
    OBVIOUS
  <2>1. slots'[s] = slots[s] \o << >>
    BY <1>1
  <2> QED BY <1>2, <2>1, ConcatEmptySeq
<1>8. piece \in Piece
  BY <1>2 DEF Piece
<1>9. /\ arrived' \in [Calls -> 0 .. ArgPieces + 1]
      /\ arrived'[call] = n + 1
      /\ \A c \in Calls \ {call} : arrived'[c] = arrived[c]
  BY <1>1, <1>2
<1> HIDE DEF n, piece, before
<1>10. /\ slots'[call] \in Seq(Piece) /\ Len(slots'[call]) = n + 1
       /\ \A p \in 1 .. n : slots'[call][p] = before[p]
       /\ slots'[call][n + 1] = piece
  <2>1. <<piece>> \in Seq(Piece) /\ Len(<<piece>>) = 1 /\ <<piece>>[1] = piece
    BY <1>8
  <2>2. n \in Nat /\ n + 1 \in 1 .. n + 1 /\ (n + 1) - n = 1
    BY <1>2
  <2> DEFINE last == <<piece>>
             more == before \o last
  <2>3. /\ more \in Seq(Piece) /\ Len(more) = Len(before) + Len(last)
        /\ \A i \in 1 .. Len(before) + Len(last) :
             more[i] = IF i <= Len(before) THEN before[i] ELSE last[i - Len(before)]
    BY <1>4, <2>1, ConcatProperties
  <2>4. slots'[call] = more /\ Len(last) = 1 /\ last[1] = piece
    BY <1>6, <2>1
  <2> HIDE DEF last, more
  <2>5. Len(more) = n + 1 /\ \A p \in 1 .. n : more[p] = before[p]
    BY <1>4, <2>2, <2>3, <2>4
  <2>6. more[n + 1] = piece
    BY <1>4, <2>2, <2>3, <2>4
  <2> QED BY <2>3, <2>4, <2>5, <2>6
<1>11. StreamOK'
  BY <1>1, <1>2, <1>5, <1>7, <1>9, <1>10 DEF StreamOK
<1>12. DOMAIN slots' = {c \in Calls : arrived'[c] > 0}
  BY <1>2, <1>3, <1>5, <1>9
<1>13. \A c \in DOMAIN slots' :
          /\ Len(slots'[c]) = arrived'[c]
          /\ \A p \in 1 .. arrived'[c] : slots'[c][p] = [call |-> c, part |-> p - 1]
  <2> SUFFICES ASSUME NEW c \in DOMAIN slots'
               PROVE  /\ Len(slots'[c]) = arrived'[c]
                      /\ \A p \in 1 .. arrived'[c] :
                           slots'[c][p] = [call |-> c, part |-> p - 1]
    OBVIOUS
  <2>1. CASE c = call
    <3>1. piece = [call |-> call, part |-> n]
      BY DEF piece
    <3>2. \A p \in 1 .. n + 1 : slots'[call][p] = [call |-> call, part |-> p - 1]
      <4> SUFFICES ASSUME NEW p \in 1 .. n + 1
                   PROVE  slots'[call][p] = [call |-> call, part |-> p - 1]
        OBVIOUS
      <4>1. CASE p \in 1 .. n
        BY <1>4, <1>10, <4>1
      <4>2. CASE p = n + 1
        <5>1. p - 1 = n
          BY <1>2, <4>2
        <5> QED BY <1>10, <3>1, <4>2, <5>1
      <4> QED BY <1>2, <4>1, <4>2
    <3> QED BY <1>9, <1>10, <2>1, <3>2
  <2>2. CASE c # call
    <3>1. c \in DOMAIN slots /\ c \in Calls
      BY <1>2, <1>5, <2>2
    <3> QED BY <1>3, <1>7, <1>9, <2>2, <3>1
  <2> QED BY <2>1, <2>2
<1>14. \A c \in Calls : c > sent' => arrived'[c] = 0
  BY <1>1, <1>2, <1>3, <1>9 DEF Calls
<1>15. SlotsHoldPieces'
  BY <1>1, <1>12, <1>13, <1>14 DEF SlotsHoldPieces
<1> QED BY <1>11, <1>15 DEF StreamInv

\* A call that comes whole has all its pieces.
LEMMA OllamaKeepsOrder ==
  ASSUME StreamInv, NEW call \in Calls, OllamaCall(call)
  PROVE  StreamInv'
<1> USE StreamAssumption DEF StreamAssumption
<1>1. /\ provider = "ollama" /\ call <= sent
      /\ call = Cardinality(DOMAIN slots) + 1
      /\ slots' = [s \in 1 .. call |-> IF s = call THEN Whole(call) ELSE slots[s]]
      /\ arrived' = [arrived EXCEPT ![call] = ArgPieces + 1]
      /\ UNCHANGED <<provider, sent, ended>>
  BY DEF OllamaCall
<1>2. /\ sent \in 0 .. MaxCalls
      /\ arrived \in [Calls -> 0 .. ArgPieces + 1]
      /\ \A s \in DOMAIN slots : slots[s] \in Seq(Piece)
      /\ ended \in {"no", "done", "cut"}
      /\ call \in Nat
  BY DEF StreamInv, StreamOK, Calls
<1>3. /\ \A c \in Calls : c > sent => arrived[c] = 0
      /\ DOMAIN slots = {c \in Calls : arrived[c] > 0}
      /\ \A c \in DOMAIN slots :
           /\ Len(slots[c]) = arrived[c]
           /\ \A p \in 1 .. arrived[c] : slots[c][p] = [call |-> c, part |-> p - 1]
  BY DEF StreamInv, SlotsHoldPieces
<1>4. DOMAIN slots = 1 .. call - 1
  <2>1. PICK k \in 0 .. sent : DOMAIN slots = 1 .. k
    BY <1>1 DEF StreamInv, SlotsHoldPieces
  <2>2. Cardinality(1 .. k) = k
    <3>1. k \in Int /\ k >= 0
      BY <1>2, <2>1
    <3> QED BY <3>1, FS_Interval
  <2>3. k = call - 1
    BY <1>1, <1>2, <2>1, <2>2
  <2> QED BY <2>1, <2>3
<1>5. DOMAIN slots' = 1 .. call /\ slots'[call] = Whole(call)
  <2>1. call \in 1 .. call
    BY <1>2 DEF Calls
  <2> QED BY <1>1, <2>1
<1>6. \A s \in 1 .. call - 1 : slots'[s] = slots[s]
  BY <1>1, <1>2
<1>7. /\ arrived' \in [Calls -> 0 .. ArgPieces + 1]
      /\ arrived'[call] = ArgPieces + 1
      /\ \A c \in Calls \ {call} : arrived'[c] = arrived[c]
  BY <1>1, <1>2
<1>8. StreamOK'
  <2>1. \A s \in 1 .. call : s \in Calls /\ slots'[s] \in Seq(Piece)
    BY <1>2, <1>4, <1>5, <1>6, WholeIs DEF Calls
  <2> QED BY <1>1, <1>2, <1>5, <1>7, <2>1 DEF StreamOK
<1>9. DOMAIN slots' = {c \in Calls : arrived'[c] > 0}
  <2>1. \A c \in Calls : c \in 1 .. call <=> arrived'[c] > 0
    <3> SUFFICES ASSUME NEW c \in Calls PROVE c \in 1 .. call <=> arrived'[c] > 0
      OBVIOUS
    <3>1. CASE c = call
      BY <1>2, <1>7, <3>1
    <3>2. CASE c # call
      <4>1. c \in 1 .. call <=> c \in DOMAIN slots
        BY <1>2, <1>4, <3>2 DEF Calls
      <4> QED BY <1>3, <1>7, <3>2, <4>1
    <3> QED BY <3>1, <3>2
  <2> QED BY <1>2, <1>5, <2>1 DEF Calls
<1>10. \A c \in DOMAIN slots' :
          /\ Len(slots'[c]) = arrived'[c]
          /\ \A p \in 1 .. arrived'[c] : slots'[c][p] = [call |-> c, part |-> p - 1]
  <2> SUFFICES ASSUME NEW c \in DOMAIN slots'
               PROVE  /\ Len(slots'[c]) = arrived'[c]
                      /\ \A p \in 1 .. arrived'[c] :
                           slots'[c][p] = [call |-> c, part |-> p - 1]
    OBVIOUS
  <2>1. CASE c = call
    BY <1>5, <1>7, <2>1, WholeIs
  <2>2. CASE c # call
    <3>1. c \in 1 .. call - 1 /\ c \in Calls
      BY <1>2, <1>5, <2>2 DEF Calls
    <3> QED BY <1>3, <1>4, <1>6, <1>7, <2>2, <3>1
  <2> QED BY <2>1, <2>2
<1>11. \A c \in Calls : c > sent' => arrived'[c] = 0
  BY <1>1, <1>2, <1>3, <1>7 DEF Calls
<1>12. SlotsHoldPieces'
  <2>1. call \in 0 .. sent'
    BY <1>1, <1>2
  <2> QED BY <1>5, <1>9, <1>10, <1>11, <2>1 DEF SlotsHoldPieces
<1> QED BY <1>8, <1>12 DEF StreamInv

-----------------------------------------------------------------------------
\* Of a stream that has ended the message has every call of the provider's, with
\* all its pieces, at its place (openai_client.py, ollama_client.py).
THEOREM DoneIsWhole ==
  ASSUME StreamInv, StreamDone
  PROVE  Len(Assembled) = sent /\ \A k \in 1 .. sent : Assembled[k] = Whole(k)
<1> USE StreamAssumption DEF StreamAssumption
<1>1. /\ sent \in Nat /\ sent <= MaxCalls
      /\ \A call \in 1 .. sent : arrived[call] = ArgPieces + 1 /\ call \in Calls
      /\ \A call \in Calls : call > sent => arrived[call] = 0
      /\ DOMAIN slots = {call \in Calls : arrived[call] > 0}
      /\ \A call \in DOMAIN slots :
           /\ slots[call] \in Seq(Piece)
           /\ Len(slots[call]) = arrived[call]
           /\ \A p \in 1 .. arrived[call] : slots[call][p] = [call |-> call, part |-> p - 1]
  BY DEF StreamInv, StreamOK, SlotsHoldPieces, StreamDone, Calls
<1>2. DOMAIN slots = 1 .. sent
  <2>1. \A call \in 1 .. sent : call \in Calls /\ arrived[call] > 0
    BY <1>1
  <2>2. \A call \in Calls : arrived[call] > 0 => call \in 1 .. sent
    BY <1>1 DEF Calls
  <2> QED BY <1>1, <2>1, <2>2
<1>3. \A k \in 1 .. sent : slots[k] = Whole(k)
  <2> SUFFICES ASSUME NEW k \in 1 .. sent PROVE slots[k] = Whole(k)
    OBVIOUS
  <2>1. k \in DOMAIN slots /\ k \in Calls /\ arrived[k] = ArgPieces + 1
    BY <1>1, <1>2
  <2>2. /\ slots[k] \in Seq(Piece) /\ Len(slots[k]) = ArgPieces + 1
        /\ \A p \in 1 .. ArgPieces + 1 : slots[k][p] = [call |-> k, part |-> p - 1]
    BY <1>1, <2>1
  <2>3. /\ Whole(k) \in Seq(Piece) /\ Len(Whole(k)) = ArgPieces + 1
        /\ \A p \in 1 .. ArgPieces + 1 : Whole(k)[p] = [call |-> k, part |-> p - 1]
    BY <2>1, WholeIs
  <2>4. \A p \in 1 .. Len(slots[k]) : slots[k][p] = Whole(k)[p]
    BY <2>2, <2>3
  <2> QED BY <2>2, <2>3, <2>4, SeqEqual
<1>4. /\ Len(Assembled) = Cardinality(1 .. sent)
      /\ \A k \in 1 .. Cardinality(1 .. sent) : \E s \in 1 .. sent :
           /\ Assembled[k] = slots[s]
           /\ Cardinality({t \in 1 .. sent : t < s}) = k - 1
  <2>1. DOMAIN slots \subseteq Calls
    BY <1>1
  <2> QED BY <1>2, <2>1, AssembledInOrder
<1>5. Cardinality(1 .. sent) = sent
  BY <1>1, FS_Interval
<1>6. ASSUME NEW s \in 1 .. sent PROVE Cardinality({t \in 1 .. sent : t < s}) = s - 1
  <2>1. {t \in 1 .. sent : t < s} = 1 .. s - 1
    BY <1>1
  <2>2. Cardinality(1 .. s - 1) = s - 1
    <3>1. s - 1 \in Int /\ s - 1 >= 0
      BY <1>1
    <3> QED BY <3>1, FS_Interval
  <2> QED BY <2>1, <2>2
<1>7. \A k \in 1 .. sent : Assembled[k] = Whole(k)
  <2> SUFFICES ASSUME NEW k \in 1 .. sent PROVE Assembled[k] = Whole(k)
    OBVIOUS
  <2>1. PICK s \in 1 .. sent : /\ Assembled[k] = slots[s]
                              /\ Cardinality({t \in 1 .. sent : t < s}) = k - 1
    BY <1>4, <1>5
  <2>2. s = k
    <3>1. s - 1 = k - 1
      BY <1>6, <2>1
    <3> QED BY <1>1, <3>1
  <2> QED BY <1>3, <2>1, <2>2
<1> QED BY <1>4, <1>5, <1>7

\* The calls of any stream, a cut one too, have at least their name.
LEMMA AssembledCalls ==
  ASSUME StreamInv
  PROVE  /\ Assembled \in Seq(Seq(Piece))
         /\ \A k \in 1 .. Len(Assembled) : Assembled[k] # << >>
         /\ \A k \in 1 .. Len(Assembled) : \A j \in 1 .. k - 1 :
              Assembled[j][1].call < Assembled[k][1].call
<1>1. /\ DOMAIN slots \subseteq Calls
      /\ \A s \in DOMAIN slots : slots[s] \in Seq(Piece) /\ Len(slots[s]) > 0
  BY DEF StreamInv, StreamOK, SlotsHoldPieces
<1> DEFINE n == Cardinality(DOMAIN slots)
<1>2. /\ Len(Assembled) = n /\ n \in Nat /\ DOMAIN Assembled = 1 .. n
      /\ \A k \in 1 .. n : \E s \in DOMAIN slots : Assembled[k] = slots[s]
  BY <1>1, AssembledInOrder
<1>3. \A k \in 1 .. n : Assembled[k] \in Seq(Piece) /\ Assembled[k] # << >>
  BY <1>1, <1>2
<1>4. Assembled = [k \in 1 .. n |-> Assembled[k]]
  BY <1>2 DEF Assembled
<1> HIDE DEF n
<1>5. Assembled \in Seq(Seq(Piece))
  BY <1>2, <1>3, <1>4
<1>6. ASSUME NEW k \in 1 .. n, NEW j \in 1 .. k - 1
      PROVE  Assembled[j][1].call < Assembled[k][1].call
  <2> DEFINE Below(s) == {t \in DOMAIN slots : t < s}
  <2>1. j \in 1 .. n
    BY <1>2
  <2>2. /\ \E s \in DOMAIN slots : Assembled[j] = slots[s] /\ Cardinality(Below(s)) = j - 1
        /\ \E s \in DOMAIN slots : Assembled[k] = slots[s] /\ Cardinality(Below(s)) = k - 1
    BY <1>1, <2>1, AssembledInOrder DEF n
  <2>3. PICK s \in DOMAIN slots : Assembled[j] = slots[s] /\ Cardinality(Below(s)) = j - 1
    BY <2>2
  <2>4. PICK t \in DOMAIN slots : Assembled[k] = slots[t] /\ Cardinality(Below(t)) = k - 1
    BY <2>2
  <2>5. s \in Nat /\ t \in Nat
    BY <1>1 DEF Calls
  <2>6. s < t
    <3> SUFFICES ASSUME t <= s PROVE FALSE
      BY <2>5
    <3>1. IsFiniteSet(Below(s))
      <4>1. IsFiniteSet(Calls)
        BY StreamAssumption, FS_Interval DEF Calls, StreamAssumption
      <4>2. Below(s) \subseteq Calls
        BY <1>1
      <4> QED BY <4>1, <4>2, FS_Subset
    <3>2. \A u \in DOMAIN slots : u \in Nat
      BY <1>1 DEF Calls
    <3>3. Below(t) \subseteq Below(s)
      BY <2>5, <3>2
    <3>4. Cardinality(Below(t)) <= Cardinality(Below(s))
      BY <3>1, <3>3, FS_Subset
    <3> QED BY <1>2, <2>3, <2>4, <3>4
  <2>7. \A u \in DOMAIN slots : slots[u][1].call = u
    <3> SUFFICES ASSUME NEW u \in DOMAIN slots PROVE slots[u][1].call = u
      OBVIOUS
    <3>1. /\ Len(slots[u]) = arrived[u] /\ arrived[u] \in Nat
          /\ \A p \in 1 .. arrived[u] : slots[u][p] = [call |-> u, part |-> p - 1]
      BY <1>1, StreamAssumption DEF StreamInv, StreamOK, SlotsHoldPieces, StreamAssumption
    <3>2. Len(slots[u]) > 0
      BY <1>1
    <3>3. 1 \in 1 .. arrived[u]
      BY <3>1, <3>2
    <3>4. slots[u][1] = [call |-> u, part |-> 1 - 1]
      BY <3>1, <3>3
    <3> QED BY <3>4
  <2> QED BY <2>3, <2>4, <2>6, <2>7
<1> QED BY <1>2, <1>3, <1>5, <1>6

\* Arguments run as sent only when every piece of them has come; those of a call
\* that has just its name count as none, and all others raise (_normalize_args).
THEOREM ArgumentsAreWholeOrNone ==
  ASSUME StreamInv, NEW s \in DOMAIN slots
  PROVE  Arguments(slots[s]) = IF arrived[s] = ArgPieces + 1 THEN "all"
                               ELSE IF arrived[s] = 1 THEN "none" ELSE "raises"
<1> USE StreamAssumption DEF StreamAssumption
<1>1. /\ s \in Calls /\ slots[s] \in Seq(Piece)
      /\ Len(slots[s]) = arrived[s] /\ arrived[s] \in 1 .. ArgPieces + 1
      /\ \A p \in 1 .. arrived[s] : slots[s][p] = [call |-> s, part |-> p - 1]
  <2>1. /\ s \in Calls /\ slots[s] \in Seq(Piece) /\ arrived \in [Calls -> 0 .. ArgPieces + 1]
        /\ arrived[s] > 0 /\ Len(slots[s]) = arrived[s]
        /\ \A p \in 1 .. arrived[s] : slots[s][p] = [call |-> s, part |-> p - 1]
    BY DEF StreamInv, StreamOK, SlotsHoldPieces
  <2>2. arrived[s] \in 1 .. ArgPieces + 1
    BY <2>1
  <2> QED BY <2>1, <2>2
<1>2. CASE arrived[s] = ArgPieces + 1
  <2>1. /\ Whole(s) \in Seq(Piece) /\ Len(Whole(s)) = Len(slots[s])
        /\ \A p \in 1 .. Len(slots[s]) : slots[s][p] = Whole(s)[p]
    BY <1>1, <1>2, WholeIs
  <2>2. slots[s] = Whole(s)
    BY <1>1, <2>1, SeqEqual
  <2> QED BY <1>1, <1>2, <2>2 DEF Arguments
<1>3. CASE arrived[s] # ArgPieces + 1
  <2>1. ~ \E call \in Calls : slots[s] = Whole(call)
    BY <1>1, <1>3, WholeIs
  <2> QED BY <1>1, <1>3, <2>1 DEF Arguments
<1> QED BY <1>2, <1>3
=============================================================================
