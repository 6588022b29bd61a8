---------------------------- MODULE ModelStream ----------------------------
(***************************************************************************)
(* A message of the model as it comes from the provider, and what the      *)
(* clients make of it (openai_client.py, ollama_client.py, registry.py).   *)
(*                                                                         *)
(* A tool call is its place in the provider's message, cut into pieces:    *)
(* piece 0 carries id and name, the others the arguments.  OpenAI's pieces *)
(* of different calls may interleave, each with the index of its call;     *)
(* Ollama sends a call whole.  The connection may close early; without an  *)
(* exception both clients take what came for the message.  A provider that *)
(* stops at its token limit is the same thing with a [DONE] at the end.    *)
(***************************************************************************)
EXTENDS Integers, Sequences, FiniteSets

CONSTANTS
  MaxCalls,   \* bound: tool calls in one message
  ArgPieces   \* pieces the arguments of a call come in

ASSUME StreamAssumption ==
  /\ MaxCalls \in Nat
  /\ ArgPieces \in Nat \ {0}

VARIABLES
  provider,  \* which client is in use
  sent,      \* the provider's message has the calls 1 .. sent
  arrived,   \* how many pieces of each call have come
  slots,     \* tool_calls_acc (OpenAI), llm_message.tool_calls (Ollama)
  ended      \* how the stream ended: "no", "done", "cut"

stream == <<provider, sent, arrived, slots, ended>>

Calls == 1 .. MaxCalls
Piece == [call : Calls, part : 0 .. ArgPieces]
Whole(call) == [p \in 1 .. ArgPieces + 1 |-> [call |-> call, part |-> p - 1]]

StreamOK ==
  /\ provider \in {"openai", "ollama"}
  /\ sent \in 0 .. MaxCalls
  /\ arrived \in [Calls -> 0 .. ArgPieces + 1]
  /\ DOMAIN slots \subseteq Calls
  /\ \A s \in DOMAIN slots : slots[s] \in Seq(Piece)
  /\ ended \in {"no", "done", "cut"}

StreamInit ==
  /\ provider \in {"openai", "ollama"}
  /\ sent = 0
  /\ arrived = [call \in Calls |-> 0]
  /\ slots = << >>
  /\ ended = "no"

\* requests.post(..., stream=True).
OpenStream ==
  /\ sent' \in 0 .. MaxCalls
  /\ arrived' = [call \in Calls |-> 0]
  /\ slots' = << >>
  /\ ended' = "no"
  /\ UNCHANGED provider

\* Variant: only a call's first piece is put by its index, the others go to the
\* newest call.
AccumulateNewest(slot, piece) ==
  LET into == IF piece.part = 0 THEN slot
              ELSE CHOOSE s \in DOMAIN slots : \A t \in DOMAIN slots : t <= s
  IN slots' = [s \in DOMAIN slots \cup {into} |->
                 (IF s \in DOMAIN slots THEN slots[s] ELSE << >>)
                   \o (IF s = into THEN <<piece>> ELSE << >>)]

\* tool_calls_acc.setdefault(idx, ...), idx = tc["index"], then id,
\* name and arguments += .
Accumulate(slot, piece) ==
  slots' = [s \in DOMAIN slots \cup {slot} |->
              (IF s \in DOMAIN slots THEN slots[s] ELSE << >>)
                \o (IF s = slot THEN <<piece>> ELSE << >>)]

OpenaiPiece(call) ==
  /\ provider = "openai"
  /\ ended = "no"
  /\ call <= sent
  /\ arrived[call] <= ArgPieces
  /\ Accumulate(call, [call |-> call, part |-> arrived[call]])
  /\ arrived' = [arrived EXCEPT ![call] = @ + 1]
  /\ UNCHANGED <<provider, sent, ended>>

\* tool_calls = (tool_calls or []) + delta.tool_calls.
OllamaCall(call) ==
  /\ provider = "ollama"
  /\ ended = "no"
  /\ call <= sent
  /\ call = Cardinality(DOMAIN slots) + 1
  /\ slots' = [s \in 1 .. call |-> IF s = call THEN Whole(call) ELSE slots[s]]
  /\ arrived' = [arrived EXCEPT ![call] = ArgPieces + 1]
  /\ UNCHANGED <<provider, sent, ended>>

\* The stream and what it was put together in are gone.
CloseStream(how) ==
  /\ sent' = 0
  /\ arrived' = [call \in Calls |-> 0]
  /\ slots' = << >>
  /\ ended' = how
  /\ UNCHANGED provider

\* "[DONE]", or the line with done: the provider has sent all there is.
StreamDone ==
  /\ ended = "no"
  /\ \A call \in 1 .. sent : arrived[call] = ArgPieces + 1
  /\ CloseStream("done")

\* The lines stop coming before that, and nothing is raised.
StreamCut ==
  /\ ended = "no"
  /\ CloseStream("cut")

\* [tool_calls_acc[i] for i in sorted(tool_calls_acc)].
Assembled ==
  LET nth(k) == CHOOSE s \in DOMAIN slots :
                  Cardinality({t \in DOMAIN slots : t < s}) = k - 1
  IN [k \in 1 .. Cardinality(DOMAIN slots) |-> slots[nth(k)]]

\* Variant of _normalize_args: what cannot be parsed counts as no arguments.
LenientArguments(slot) ==
  IF \E call \in Calls : slot = Whole(call) THEN "all"
  ELSE IF Len(slot) > 1 THEN "some" ELSE "none"

\* _normalize_args: json.loads raises on a JSON object that is cut, and the empty
\* string a call has before its first piece of arguments stands for {}.
Arguments(slot) ==
  IF \E call \in Calls : slot = Whole(call) THEN "all"
  ELSE IF Len(slot) > 1 THEN "raises" ELSE "none"
=============================================================================
