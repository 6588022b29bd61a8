----------------------------- MODULE Shortening -----------------------------
(***************************************************************************)
(* What is left out of the text the model is given: the middle of a long   *)
(* tool result (registry.py, truncate_middle) and the arguments of all but *)
(* the last calls of each tool (context_manager.py).                       *)
(*                                                                         *)
(* A text is its length; what is kept of it is the length of its beginning *)
(* and of its end.  A call is the name of its tool.                        *)
(***************************************************************************)
EXTENDS Integers, Sequences

\* text[:count] of n characters, as long as Python's slice makes it.
FirstOf(n, count) ==
  IF count < 0 THEN (IF n + count < 0 THEN 0 ELSE n + count)
               ELSE (IF count < n THEN count ELSE n)

\* text[-count:]: -0 is the beginning of the text, not its end.
LastOf(n, count) ==
  IF count <= 0 THEN (IF n + count < 0 THEN 0 ELSE n + count)
                ELSE (IF count < n THEN count ELSE n)

HeadKept(n, max) == IF n <= max THEN n ELSE FirstOf(n, max \div 2)
TailKept(n, max) == IF n <= max THEN 0 ELSE LastOf(n, max - max \div 2)

\* The number of characters that the mark in the middle says are missing.
Missing(n, max) == IF n <= max THEN 0 ELSE n - max

\* truncate_middle, with a mark of the length given.
Truncated(n, max, mark) ==
  HeadKept(n, max) + TailKept(n, max) + (IF n <= max THEN 0 ELSE mark)

\* What the conversation keeps of the output of a tool like fetch_url, which truncates
\* to the limit it was called with, at most MAX_LIMIT_CHARS; _run_tool truncates to
\* MAX_TOOL_RESULT_CHARS.
Recorded(n, limit, maxLimit, maxResult, mark) ==
  LET own == IF limit < maxLimit THEN limit ELSE maxLimit
  IN Truncated(Truncated(n, own, mark), maxResult, mark)

-----------------------------------------------------------------------------
KEEP_FULL_TOOL_CALLS == 2

\* seen_calls after the first i calls; after the last, total_calls.
SeenCalls(calls) ==
  LET names == {calls[i] : i \in DOMAIN calls}
      seen[i \in 0 .. Len(calls)] ==
        IF i = 0 THEN [name \in names |-> 0]
                 ELSE [seen[i - 1] EXCEPT ![calls[i]] = @ + 1]
  IN seen

\* keep_full: the arguments of call i are left as they are.
KeepFull(calls, i) ==
  SeenCalls(calls)[Len(calls)][calls[i]] - SeenCalls(calls)[i][calls[i]]
    < KEEP_FULL_TOOL_CALLS
=============================================================================
