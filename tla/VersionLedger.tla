---------------------------- MODULE VersionLedger ----------------------------
(***************************************************************************)
(* What the version history promises its users (version_log, the rollback, *)
(* a person reading the `snapshots` table), whatever crashes, failures and *)
(* message orders the supervisor meets: commits are only appended, only    *)
(* HEAD gets a snapshot, at most one version is on probation at a time,    *)
(* and a verdict (STABLE or ERROR) is final.                               *)
(***************************************************************************)
EXTENDS Naturals, Sequences

CONSTANT Codes

VARIABLE ledger   \* a sequence of [code, status]

OnProbation == {i \in 1 .. Len(ledger) : ledger[i].status = "PENDING"}

\* A commit without a snapshot.
Add ==
  \E code \in Codes :
    ledger' = Append(ledger, [code |-> code, status |-> "NONE"])

\* HEAD's snapshot: accepted at once, or on probation if nothing else is.
Register(status) ==
  /\ ledger # << >>
  /\ ledger[Len(ledger)].status = "NONE"
  /\ status = "PENDING" => OnProbation = {}
  /\ ledger' = [ledger EXCEPT ![Len(ledger)].status = status]

\* The end of a probation.
Decide(verdict) ==
  \E i \in OnProbation : ledger' = [ledger EXCEPT ![i].status = verdict]

Init == ledger = << >>

Next ==
  \/ Add
  \/ \E status \in {"PENDING", "STABLE"} : Register(status)
  \/ \E verdict \in {"STABLE", "ERROR"} : Decide(verdict)

Spec == Init /\ [][Next]_ledger
=============================================================================
