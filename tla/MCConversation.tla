--------------------------- MODULE MCConversation ---------------------------
(* Conversation on small sets, and what Shortening computes compared with   *)
(* what it means.                                                           *)
EXTENDS Conversation, Shortening, FiniteSets, TLC

TaskSymmetry == Permutations(Tasks)

\* Python's text[:h] and text[-t:], position by position.
ASSUME SlicesArePython ==
  \A n \in 0 .. 9, max \in -9 .. 9 :
    LET head == max \div 2
        tail_ == max - head
        positions == 0 .. n - 1
        from(i) == IF i < 0 THEN n + i ELSE i
    IN n > max =>
         /\ HeadKept(n, max) = Cardinality({i \in positions : i < from(head)})
         /\ TailKept(n, max) = Cardinality({i \in positions : i >= from(-tail_)})

\* keep_full's counting keeps the last calls of each tool, and no other.
ASSUME LastCallsKept ==
  \A names \in UNION {[1 .. n -> {"run_bash", "run_python"}] : n \in 0 .. 6} :
    \A i \in DOMAIN names :
      KeepFull(names, i) <=>
        Cardinality({j \in i + 1 .. Len(names) : names[j] = names[i]})
          < KEEP_FULL_TOOL_CALLS
=============================================================================
