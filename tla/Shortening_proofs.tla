-------------------------- MODULE Shortening_proofs --------------------------
(***************************************************************************)
(* What truncate_middle keeps, for every length and every limit.           *)
(***************************************************************************)
EXTENDS Shortening, TLAPS

\* With a limit of 1 or more, a text that is too long keeps exactly as much as
\* the limit says, of which nothing is kept twice, and the mark in the middle
\* counts what is gone (registry.py:191-199).
THEOREM CutsToLimit ==
  ASSUME NEW n \in Nat, NEW max \in Nat \ {0}, n > max
  PROVE  /\ HeadKept(n, max) + TailKept(n, max) = max
         /\ Missing(n, max) = n - (HeadKept(n, max) + TailKept(n, max))
<1> DEFINE h == max \div 2
<1>1. h \in Nat /\ h <= max /\ h < max
  OBVIOUS
<1>2. HeadKept(n, max) = h
  BY <1>1 DEF HeadKept, FirstOf
<1>3. TailKept(n, max) = max - h
  BY <1>1 DEF TailKept, LastOf
<1>4. QED
  BY <1>1, <1>2, <1>3 DEF Missing

\* With a limit of 0, which a model may give fetch_url, nothing is cut: the end
\* that is kept is the whole text (text[-0:]), although the mark counts it as gone.
THEOREM ZeroKeepsAll ==
  ASSUME NEW n \in Nat, n > 0
  PROVE  /\ HeadKept(n, 0) + TailKept(n, 0) = n
         /\ Missing(n, 0) = n
  BY DEF HeadKept, TailKept, Missing, FirstOf, LastOf

\* Whatever the limit is, beginning and end that are kept are each no more than
\* the text.
LEMMA PartsOfText ==
  ASSUME NEW n \in Nat, NEW max \in Int
  PROVE  /\ HeadKept(n, max) \in 0 .. n
         /\ TailKept(n, max) \in 0 .. n
<1>1. max \div 2 \in Int /\ max - max \div 2 \in Int
  OBVIOUS
<1>2. ASSUME NEW count \in Int
      PROVE  FirstOf(n, count) \in 0 .. n
  BY DEF FirstOf
<1>3. ASSUME NEW count \in Int, count > 0 \/ n + count <= n
      PROVE  LastOf(n, count) \in 0 .. n
  BY DEF LastOf
<1>4. QED
  BY <1>1, <1>2, <1>3 DEF HeadKept, TailKept

\* The conversation records no more of a tool's output than MAX_TOOL_RESULT_CHARS
\* and the mark, whatever limit the model has called the tool with: also when one
\* of 0 or less makes the tool return its whole output, or most of it twice
\* (builtin.py:118, react_agent.py:291).
THEOREM ResultBounded ==
  ASSUME NEW n \in Nat, NEW limit \in Int, NEW maxLimit \in Nat,
         NEW maxResult \in Nat \ {0}, NEW mark \in Nat
  PROVE  Recorded(n, limit, maxLimit, maxResult, mark) \in 0 .. maxResult + mark
<1> DEFINE own == IF limit < maxLimit THEN limit ELSE maxLimit
           m == Truncated(n, own, mark)
<1>1. own \in Int
  OBVIOUS
<1>2. m \in Nat
  <2> HIDE DEF own
  <2>1. HeadKept(n, own) \in Nat /\ TailKept(n, own) \in Nat
    <3>1. HeadKept(n, own) \in 0 .. n /\ TailKept(n, own) \in 0 .. n
      BY <1>1, PartsOfText
    <3>2. QED
      BY <3>1
  <2>2. QED
    BY <2>1 DEF Truncated
<1>3. Recorded(n, limit, maxLimit, maxResult, mark) = Truncated(m, maxResult, mark)
  BY DEF Recorded
<1> HIDE DEF own, m
<1>4. CASE m <= maxResult
  BY <1>2, <1>3, <1>4 DEF Truncated, HeadKept, TailKept
<1>5. CASE m > maxResult
  <2>1. HeadKept(m, maxResult) + TailKept(m, maxResult) = maxResult
    BY <1>2, <1>5, CutsToLimit
  <2>2. Truncated(m, maxResult, mark) = maxResult + mark
    BY <1>2, <1>5, <2>1 DEF Truncated
  <2>3. QED
    BY <1>3, <2>2
<1>6. QED
  BY <1>2, <1>4, <1>5
=============================================================================
