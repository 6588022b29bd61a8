-------------------------- MODULE ReactAgent_proofs --------------------------
(***************************************************************************)
(* Theorems about one run of the ReAct graph, for every set of tools, every *)
(* number of iterations and every step limit.                               *)
(*                                                                         *)
(* The invariant ties the engine's step count to the iterations: two steps  *)
(* for each, one for start, and at most one after the last.                 *)
(***************************************************************************)
EXTENDS ReactAgent, FiniteSetTheorems, TLAPS

\* Where the run stands after so many steps and iterations.
Counted ==
  /\ Len(prompts) = iterations
  /\ frontier = "start" => steps = 0 /\ iterations = 0
  /\ frontier = "model" => steps = 2 * iterations + 1 /\ iterations < Budget
  /\ frontier \in {"tools", "review"} => steps = 2 * iterations /\ iterations > 0
  /\ frontier \in {"finalize", "learn", "verification_failed", "limit"}
       => steps = 2 * iterations + 1
  /\ frontier = "learn" => steps < maxSteps
  /\ frontier = "limit" \/ error = "limit" => iterations = Budget

\* The corrections left while the run can still come back to the review.
CorrectionsLeft ==
  frontier \in {"start", "model", "tools", "review"}
    => retries < MAX_COMPLETION_RETRIES

\* What an answer under review, and a final one, went through.
Reviewed ==
  /\ frontier = "review" => message = << >>
  /\ frontier \in {"finalize", "learn"} => verified /\ available /\ message = << >>
  /\ answer = "final" \/ learned
       => verified /\ available /\ message = << >> /\ frontier \in {"learn", "end"}

\* A run that raised is over, and raised by the step limit only with a limit
\* too small for its iterations.
Raised ==
  /\ error # "none" => frontier = "end"
  /\ error = "steps" => maxSteps < 2 * Budget + 2

IInv == TypeOK /\ Counted /\ CorrectionsLeft /\ Reviewed /\ Raised

\* The counter of failures is the length of the streak that ends the tool
\* turns; IsLast says of a turn that it could belong to it.
IsLast(i) == uses[i].failed /\ uses[i].tool = lastTool
FailuresCounted ==
  /\ failures <= Len(uses)
  /\ uses # << >> => lastTool = uses[Len(uses)].tool
  /\ \A i \in Len(uses) - failures + 1 .. Len(uses) : IsLast(i)
  /\ failures < Len(uses) => ~IsLast(Len(uses) - failures)

\* Nothing else is on the model's mind when the tools decide on the nudge.
NudgeTold ==
  /\ frontier = "start" => uses = << >> /\ message = << >>
  /\ frontier = "tools" => feedback = "none"
  /\ frontier = "model" /\ message # << >>
       => (feedback = "nudge" <=> failures = TOOL_FAILURE_NUDGE_THRESHOLD)

-----------------------------------------------------------------------------
\* The calls of a message are a sequence of tools.
LEMMA MessagesAreSequences == \A m \in Messages : m \in Seq(Tools)
BY DEF Messages

\* A message without tool calls is a message.
LEMMA NoCallsIsMessage == << >> \in Messages
<1>1. << >> \in [1 .. 0 -> Tools]
  OBVIOUS
<1> QED BY <1>1, BoundsAssumption DEF Messages, BoundsAssumption

\* Whatever MAX_ITERATIONS says, one call of the model is made, and the iterations
\* have reached it exactly when they have reached the budget.
LEMMA BudgetIsPositive ==
  /\ Budget \in Nat /\ Budget > 0
  /\ \A n \in 1 .. Budget : n >= MaxIterations <=> n = Budget
BY BoundsAssumption DEF Budget, BoundsAssumption

\* The initial state satisfies the invariant.
LEMMA InitIInv == Init => IInv
<1> SUFFICES ASSUME Init PROVE IInv
  OBVIOUS
<1>1. verified \in BOOLEAN /\ available \in BOOLEAN /\ learned \in BOOLEAN
  BY Zenon DEF Init
<1>2. TypeOK
  BY <1>1, NoCallsIsMessage, BudgetIsPositive, BoundsAssumption
  DEF Init, TypeOK, Nodes, Feedback, MAX_COMPLETION_RETRIES, BoundsAssumption
<1>3. Counted /\ CorrectionsLeft /\ Reviewed /\ Raised
  BY DEF Init, Counted, CorrectionsLeft, Reviewed, Raised, MAX_COMPLETION_RETRIES
<1> QED BY <1>2, <1>3 DEF IInv

\* Every step preserves the types.
LEMMA StepTypeOK == IInv /\ [Next]_vars => TypeOK'
<1> SUFFICES ASSUME IInv, [Next]_vars PROVE TypeOK'
  OBVIOUS
<1> USE BoundsAssumption, BudgetIsPositive
    DEF BoundsAssumption, IInv, TypeOK, Nodes, MAX_COMPLETION_RETRIES,
        engine, tooling, asking, reviewing, result
<1>1. CASE Start
  <2>1. verified' \in BOOLEAN /\ available' \in BOOLEAN
    BY <1>1, Zenon DEF Start
  <2> QED BY <1>1, <2>1 DEF Start, Runs, Leave, Feedback
<1>2. CASE Model
  <2>1. message' \in Messages /\ todo' \in Seq(Tools)
    BY <1>2, MessagesAreSequences DEF Model, PrepareContext
  <2>2. prompts' \in Seq(Feedback)
    BY <1>2 DEF Model, PrepareContext
  <2>3. iterations' \in 0 .. Budget
    BY <1>2, BudgetIsPositive DEF Model, PrepareContext, Runs, Counted
  <2> QED BY <1>2, <2>1, <2>2, <2>3 DEF Model, PrepareContext, Runs, Leave, Feedback
<1>3. CASE UseTool
  <2>1. PICK failed \in BOOLEAN :
          /\ uses' = Append(uses, [tool |-> Head(todo), failed |-> failed])
          /\ failures' = IF ~failed THEN 0
                         ELSE IF Head(todo) = lastTool THEN failures + 1
                         ELSE 1
    BY <1>3 DEF UseTool, RunTool
  <2>2. Head(todo) \in Tools /\ todo' \in Seq(Tools)
    BY <1>3 DEF UseTool, RunTool
  <2>3. uses' \in Seq(Uses) /\ failures' \in Nat
    BY <2>1, <2>2 DEF Uses
  <2> QED BY <1>3, <2>2, <2>3 DEF UseTool, RunTool
<1>4. CASE ToolsDone
  BY <1>4 DEF ToolsDone, Runs, Leave, RouteTools, Feedback
<1>5. CASE Review
  <2>1. PICK done, reviewed \in BOOLEAN :
          /\ verified' = done
          /\ available' = reviewed
          /\ retries' = IF done THEN retries ELSE retries + 1
          /\ feedback' = IF done THEN feedback ELSE "fix"
          /\ Leave(RouteReview(done, reviewed, retries'))
    BY <1>5 DEF Review, Verdict
  <2>2. retries' \in 0 .. MAX_COMPLETION_RETRIES
    BY <1>5, <2>1 DEF Review, Verdict, Runs, CorrectionsLeft
  <2> QED BY <1>5, <2>1, <2>2 DEF Review, Verdict, Runs, Leave, RouteReview, RouteTools, Feedback
<1>6. CASE Finalize \/ Learn \/ VerificationFailed \/ Limit
  BY <1>6 DEF Finalize, Learn, Consider, VerificationFailed, Limit, Runs, Leave, Counted
<1>7. CASE StepLimit \/ Raise \/ Exit
  BY <1>7 DEF StepLimit, Raise, Exit, Runs
<1>8. CASE UNCHANGED vars
  BY <1>8 DEF vars
<1> QED BY <1>1, <1>2, <1>3, <1>4, <1>5, <1>6, <1>7, <1>8 DEF Next

\* Every step preserves the count of steps and iterations.
LEMMA StepCounted == IInv /\ [Next]_vars => Counted'
<1> SUFFICES ASSUME IInv, [Next]_vars PROVE Counted'
  OBVIOUS
<1> USE BoundsAssumption, BudgetIsPositive
    DEF BoundsAssumption, IInv, TypeOK, Counted, Nodes,
        engine, tooling, asking, reviewing, result
<1>1. CASE Start
  BY <1>1 DEF Start, Runs, Leave, Raised
<1>2. CASE Model
  <2>1. Len(prompts') = iterations + 1
    BY <1>2 DEF Model, PrepareContext
  <2> QED BY <1>2, <2>1 DEF Model, PrepareContext, Runs, Leave, Raised
<1>3. CASE UseTool
  BY <1>3 DEF UseTool, RunTool
<1>4. CASE ToolsDone
  <2>1. iterations >= MaxIterations <=> iterations = Budget
    <3>1. iterations \in 1 .. Budget
      BY <1>4 DEF ToolsDone, Runs
    <3> QED BY ONLY <3>1, BudgetIsPositive
  <2> QED BY <1>4, <2>1 DEF ToolsDone, Runs, Leave, RouteTools
<1>5. CASE Review
  <2>1. iterations >= MaxIterations <=> iterations = Budget
    <3>1. iterations \in 1 .. Budget
      BY <1>5 DEF Review, Runs
    <3> QED BY ONLY <3>1, BudgetIsPositive
  <2>2. /\ frontier' \in {"finalize", "verification_failed", RouteTools}
        /\ frontier = "review" /\ steps' = steps + 1 /\ UNCHANGED <<prompts, iterations, error>>
    BY <1>5 DEF Review, Runs, Leave, RouteReview
  <2> QED BY <2>1, <2>2 DEF RouteTools, Raised
<1>6. CASE Finalize \/ Learn \/ VerificationFailed \/ Limit
  BY <1>6 DEF Finalize, Learn, Consider, VerificationFailed, Limit, Runs, Leave
<1>7. CASE StepLimit \/ Raise \/ Exit
  BY <1>7 DEF StepLimit, Raise, Exit, Runs
<1>8. CASE UNCHANGED vars
  BY <1>8 DEF vars
<1> QED BY <1>1, <1>2, <1>3, <1>4, <1>5, <1>6, <1>7, <1>8 DEF Next

\* Every step preserves what is known of corrections, reviews and errors.
LEMMA StepRest ==
  IInv /\ [Next]_vars => CorrectionsLeft' /\ Reviewed' /\ Raised'
<1> SUFFICES ASSUME IInv, [Next]_vars
             PROVE  CorrectionsLeft' /\ Reviewed' /\ Raised'
  OBVIOUS
<1> USE DEF IInv, CorrectionsLeft, Reviewed, Raised,
            engine, tooling, asking, reviewing, result
<1>1. CASE Start
  <2>1. error = "none" /\ answer # "final" /\ ~learned
    BY <1>1 DEF Start, Runs
  <2> QED BY <1>1, <2>1 DEF Start, Leave, MAX_COMPLETION_RETRIES
<1>2. CASE Model
  BY <1>2 DEF Model, PrepareContext, Runs, Leave
<1>3. CASE UseTool \/ ToolsDone
  BY <1>3 DEF UseTool, RunTool, ToolsDone, Runs, Leave, RouteTools
<1>4. CASE Review
  BY <1>4 DEF Review, Verdict, Runs, Leave, RouteReview, RouteTools, TypeOK,
              MAX_COMPLETION_RETRIES
<1>5. CASE Finalize \/ Learn \/ VerificationFailed \/ Limit
  BY <1>5 DEF Finalize, Learn, Consider, VerificationFailed, Limit, Runs, Leave
<1>6. CASE StepLimit
  \* The step limit is met at step 2 * iterations + 1 or before.
  BY <1>6, BoundsAssumption, BudgetIsPositive
  DEF StepLimit, Counted, TypeOK, Nodes, BoundsAssumption
<1>7. CASE Raise \/ Exit
  BY <1>7 DEF Raise, Exit, Runs, Nodes
<1>8. CASE UNCHANGED vars
  BY <1>8 DEF vars
<1> QED BY <1>1, <1>2, <1>3, <1>4, <1>5, <1>6, <1>7, <1>8 DEF Next

\* The invariant holds in every reachable state.
LEMMA Invariance == Spec => []IInv
<1>1. IInv /\ [Next]_vars => IInv'
  BY StepTypeOK, StepCounted, StepRest DEF IInv
<1> QED BY InitIInv, <1>1, PTL DEF Spec

-----------------------------------------------------------------------------
\* Every variable of a run keeps its type: in particular the engine never runs
\* more than max_steps nodes and no answer is reviewed a third time.
THEOREM TypeCorrect == Spec => []TypeOK
<1>1. IInv => TypeOK
  BY DEF IInv
<1> QED BY <1>1, Invariance, PTL

\* The reviewer's verdict gates the answer and the skill, whatever the model
\* and the reviewer answer and wherever the run fails.
THEOREM VerdictGates == Spec => []FinalIsVerified
<1>1. IInv => FinalIsVerified
  BY DEF IInv, Reviewed, FinalIsVerified
<1> QED BY <1>1, Invariance, PTL

\* No run asks the model more often than MAX_ITERATIONS, or than once if that is
\* less than one.
THEOREM BudgetKept == Spec => []WithinBudget
<1>1. IInv => WithinBudget
  BY DEF IInv, TypeOK, Counted, WithinBudget
<1> QED BY <1>1, Invariance, PTL

\* The two invariants about the nudge are inductive together with the first.
LEMMA InitNudge == Init => FailuresCounted /\ NudgeTold
BY DEF Init, FailuresCounted, NudgeTold

\* A tool call keeps the counter equal to the streak.
LEMMA StepFailures ==
  IInv /\ NudgeTold /\ FailuresCounted /\ [Next]_vars => FailuresCounted'
<1> SUFFICES ASSUME IInv, NudgeTold, FailuresCounted, [Next]_vars
             PROVE  FailuresCounted'
  OBVIOUS
<1>1. CASE UseTool
  <2>1. PICK failed \in BOOLEAN :
          /\ uses' = Append(uses, [tool |-> Head(todo), failed |-> failed])
          /\ failures' = IF ~failed THEN 0
                         ELSE IF Head(todo) = lastTool THEN failures + 1
                         ELSE 1
    BY <1>1 DEF UseTool, RunTool
  <2>2. uses \in Seq(Uses) /\ failures \in Nat
    BY DEF IInv, TypeOK
  <2>3. /\ Len(uses') = Len(uses) + 1
        /\ uses'[Len(uses')] = [tool |-> Head(todo), failed |-> failed]
        /\ \A i \in 1 .. Len(uses) : uses'[i] = uses[i]
    BY <2>1, <2>2
  <2>4. lastTool' = Head(todo)
    BY <1>1 DEF UseTool, RunTool
  <2>5. CASE ~failed
    BY <2>1, <2>2, <2>3, <2>4, <2>5 DEF FailuresCounted, IsLast
  <2>6. CASE failed /\ Head(todo) = lastTool
    BY <2>1, <2>2, <2>3, <2>4, <2>6 DEF FailuresCounted, IsLast
  <2>7. CASE failed /\ Head(todo) # lastTool
    BY <2>1, <2>2, <2>3, <2>4, <2>7 DEF FailuresCounted, IsLast
  <2> QED BY <2>5, <2>6, <2>7
<1>2. CASE Start
  BY <1>2 DEF Start, Runs, FailuresCounted, NudgeTold
<1>3. CASE UNCHANGED <<uses, failures, lastTool>>
  BY <1>3 DEF FailuresCounted, IsLast
<1> QED
  BY <1>1, <1>2, <1>3
  DEF Next, Model, PrepareContext, ToolsDone, Review, Finalize, Learn, VerificationFailed,
      Limit, StepLimit, Raise, Exit, vars, tooling

\* Only tool_node gives the nudge, and the review no feedback in its place.
LEMMA StepNudge == IInv /\ NudgeTold /\ [Next]_vars => NudgeTold'
<1> SUFFICES ASSUME IInv, NudgeTold, [Next]_vars PROVE NudgeTold'
  OBVIOUS
<1> USE DEF NudgeTold, tooling, asking, engine
<1>1. CASE Start \/ UseTool
  BY <1>1 DEF Start, UseTool, RunTool, Runs, Leave
<1>2. CASE Model
  BY <1>2 DEF Model, PrepareContext, Runs, Leave
<1>3. CASE ToolsDone
  BY <1>3 DEF ToolsDone, Runs, Leave, RouteTools, TOOL_FAILURE_NUDGE_THRESHOLD
<1>4. CASE Review
  BY <1>4 DEF Review, Verdict, Runs, Leave, RouteReview, RouteTools, IInv, Reviewed
<1>5. CASE Finalize \/ Learn \/ VerificationFailed \/ Limit
  BY <1>5 DEF Finalize, Learn, Consider, VerificationFailed, Limit, Leave
<1>6. CASE StepLimit \/ Raise \/ Exit
  BY <1>6 DEF StepLimit, Raise, Exit, Runs
<1>7. CASE UNCHANGED vars
  BY <1>7 DEF vars
<1> QED BY <1>1, <1>2, <1>3, <1>4, <1>5, <1>6, <1>7 DEF Next

\* A streak of three and not of four is what the counter calls three.
LEMMA CounterIsStreak ==
  ASSUME TypeOK, FailuresCounted
  PROVE  failures = TOOL_FAILURE_NUDGE_THRESHOLD <=> Streak(3) /\ ~Streak(4)
<1> USE DEF TypeOK, FailuresCounted, IsLast, Streak, TOOL_FAILURE_NUDGE_THRESHOLD
<1>1. ASSUME failures = 3 PROVE Streak(3) /\ ~Streak(4)
  <2>1. Streak(3)
    BY <1>1
  <2>2. ~Streak(4)
    BY <1>1
  <2> QED BY <2>1, <2>2
<1>2. ASSUME failures < 3 PROVE ~Streak(3)
  BY <1>2
<1>3. ASSUME failures > 3 PROVE Streak(4)
  BY <1>3
<1> QED BY <1>1, <1>2, <1>3

\* The nudge tells the truth and is never forgotten, for any number of tools,
\* of calls in a message and of iterations.
THEOREM NudgeIsTrue == Spec => []NudgeAtThree
<1>1. IInv /\ FailuresCounted /\ NudgeTold => NudgeAtThree
  BY CounterIsStreak DEF IInv, NudgeTold, NudgeAtThree
<1> QED BY <1>1, Invariance, InitNudge, StepFailures, StepNudge, PTL DEF Spec

\* With 2 * MAX_ITERATIONS + 2 steps allowed, the engine's limit is never met.
THEOREM StepsSuffice == Spec => []StepLimitUnreached
<1>1. IInv => StepLimitUnreached
  BY BoundsAssumption, BudgetIsPositive
  DEF BoundsAssumption, IInv, TypeOK, Raised, StepLimitUnreached
<1> QED BY <1>1, Invariance, PTL

-----------------------------------------------------------------------------
\* The prompts that told a correction, and those still to tell it.
Fixes == {i \in DOMAIN prompts : prompts[i] = "fix"}
Untold == IF feedback = "fix" THEN 1 ELSE 0

TellsFixes ==
  /\ frontier = "start" => prompts = << >>
  /\ frontier = "model" => Cardinality(Fixes) + Untold = retries
  /\ frontier \in {"tools", "review", "finalize"} => Cardinality(Fixes) = retries
  /\ frontier \in {"tools", "review"} => feedback = "none"

\* A prompt adds the correction that it tells, if it tells one.
LEMMA PromptTells ==
  ASSUME prompts \in Seq(Feedback), feedback \in Feedback, PrepareContext
  PROVE  Cardinality(Fixes') = Cardinality(Fixes) + Untold /\ Cardinality(Fixes) \in Nat
<1>1. /\ Len(prompts) \in Nat /\ DOMAIN prompts = 1 .. Len(prompts)
      /\ Len(prompts') = Len(prompts) + 1 /\ DOMAIN prompts' = 1 .. Len(prompts')
      /\ prompts'[Len(prompts) + 1] = feedback
      /\ \A i \in 1 .. Len(prompts) : prompts'[i] = prompts[i]
  BY DEF PrepareContext
<1>2. IsFiniteSet(Fixes)
  <2>1. IsFiniteSet(1 .. Len(prompts))
    BY <1>1, FS_Interval
  <2>2. Fixes \subseteq 1 .. Len(prompts)
    BY <1>1 DEF Fixes
  <2> QED BY <2>1, <2>2, FS_Subset
<1>3. Len(prompts) + 1 \notin Fixes
  BY <1>1 DEF Fixes
<1>4. Cardinality(Fixes) \in Nat
  BY <1>2, FS_CardinalityType
<1>5. CASE feedback = "fix"
  <2>1. Fixes' = Fixes \cup {Len(prompts) + 1}
    BY <1>1, <1>5 DEF Fixes
  <2>2. Cardinality(Fixes \cup {Len(prompts) + 1}) = Cardinality(Fixes) + 1
    BY <1>2, <1>3, FS_AddElement
  <2> QED BY <1>4, <1>5, <2>1, <2>2 DEF Untold
<1>6. CASE feedback # "fix"
  <2>1. Fixes' = Fixes
    BY <1>1, <1>6 DEF Fixes
  <2> QED BY <1>4, <1>6, <2>1 DEF Untold
<1> QED BY <1>5, <1>6

\* Nothing but the model takes feedback, and nothing but a review or a streak of
\* failures gives any.
LEMMA StepTells == IInv /\ TellsFixes /\ [Next]_vars => TellsFixes'
<1> SUFFICES ASSUME IInv, TellsFixes, [Next]_vars PROVE TellsFixes'
  OBVIOUS
<1>0. /\ prompts \in Seq(Feedback) /\ feedback \in Feedback
      /\ retries \in 0 .. MAX_COMPLETION_RETRIES
  BY DEF IInv, TypeOK
<1> USE DEF TellsFixes, engine, tooling, asking, reviewing, result
<1>1. CASE Start
  <2>1. prompts' = << >> /\ feedback' = "none" /\ retries' = 0 /\ frontier' = "model"
    BY <1>1 DEF Start, Runs, Leave
  <2>2. Fixes' = {}
    BY <2>1 DEF Fixes
  <2>3. Cardinality(Fixes') = 0
    BY <2>2, FS_EmptySet
  <2> QED BY <2>1, <2>3 DEF Untold
<1>2. CASE Model
  <2>1. PrepareContext /\ frontier = "model" /\ UNCHANGED retries
        /\ frontier' \in {"tools", "review"}
    BY <1>2 DEF Model, Runs, Leave
  <2>2. Cardinality(Fixes') = Cardinality(Fixes) + Untold
    BY <1>0, <2>1, PromptTells
  <2> QED BY <2>1, <2>2 DEF PrepareContext
<1>3. CASE UseTool
  BY <1>3 DEF UseTool, RunTool, Runs, Fixes
<1>4. CASE ToolsDone
  <2>1. /\ frontier = "tools" /\ UNCHANGED <<prompts, retries>>
        /\ feedback' # "fix" /\ frontier' \in {"model", "limit"}
    BY <1>4 DEF ToolsDone, Runs, Leave, RouteTools
  <2>2. Cardinality(Fixes') + Untold' = retries'
    BY <1>0, <2>1 DEF Fixes, Untold
  <2> QED BY <2>1, <2>2
<1>5. CASE Review
  <2>1. /\ frontier = "review" /\ UNCHANGED prompts
        /\ \/ frontier' = "finalize" /\ UNCHANGED retries
           \/ frontier' = "model" /\ retries' = retries + 1 /\ feedback' = "fix"
           \/ frontier' \in {"verification_failed", "limit"}
    BY <1>5 DEF Review, Verdict, Runs, Leave, RouteReview, RouteTools
  <2>2. UNCHANGED Fixes
    BY <2>1 DEF Fixes
  <2> QED BY <1>0, <2>1, <2>2 DEF Untold
<1>6. CASE Finalize \/ Learn \/ VerificationFailed \/ Limit \/ StepLimit \/ Raise \/ Exit
  BY <1>6 DEF Finalize, Learn, VerificationFailed, Limit, StepLimit, Raise, Exit, Leave
<1>7. CASE UNCHANGED vars
  <2>1. UNCHANGED <<frontier, prompts, feedback, retries>>
    BY <1>7 DEF vars
  <2> QED BY <2>1 DEF Fixes, Untold
<1> QED BY <1>1, <1>2, <1>3, <1>4, <1>5, <1>6, <1>7 DEF Next

\* A correction that the reviewer asked for reaches the model in one prompt, for any
\* number of tool calls and nudges between two reviews.
THEOREM EachFixIsTold == Spec => []CorrectionsTold
<1>1. Init => TellsFixes
  BY DEF Init, TellsFixes
<1>2. TellsFixes => CorrectionsTold
  BY DEF TellsFixes, CorrectionsTold, Fixes
<1> QED BY <1>1, <1>2, Invariance, StepTells, PTL DEF Spec
=============================================================================
