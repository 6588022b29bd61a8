----------------------------- MODULE ReactAgent -----------------------------
(***************************************************************************)
(* One run of the agent's ReAct graph (react_agent.py) on the graph engine *)
(* (agent_graph.py): start -> model <-> tools, and model -> review ->      *)
(* finalize | verification_failed | limit | model.                         *)
(*                                                                         *)
(* The model and the reviewer are language models: what they answer is     *)
(* free.  A step of the engine runs the node `frontier` names; inside a    *)
(* node, each tool call and the two halves of finalize are steps.          *)
(***************************************************************************)
EXTENDS Integers, Sequences, FiniteSets

CONSTANTS
  Tools,
  MaxIterations,  \* MAX_ITERATIONS, whatever integer the environment says
  StepLimits,     \* the values AgentGraph's max_steps may have
  MaxCalls        \* bound: tool calls in one message of the model

ASSUME BoundsAssumption ==
  /\ MaxIterations \in Int
  /\ StepLimits \subseteq Nat
  /\ MaxCalls \in Nat

VARIABLES
  frontier,    \* the node to run; "learn" is the second half of finalize
  steps,       \* nodes run
  maxSteps,    \* max_steps of the engine that runs them
  message,     \* the tool calls of the model's last message, << >> if none
  todo,        \* those of them not run yet
  uses,        \* the tool turns this run added to the memory store
  failures,    \* consecutive_tool_failures
  lastTool,    \* last_tool_name
  iterations,  \* calls of the model
  feedback,    \* completion_feedback
  prompts,     \* the feedback that each call of the model was given
  retries,     \* completion_retries
  verified,    \* completion_verified
  available,   \* review_available
  answer,      \* what the user was told
  learned,     \* a skill was saved
  error        \* how the run raised; "exit" passes every `except Exception`

engine == <<frontier, steps, maxSteps>>
tooling == <<todo, uses, failures, lastTool>>
asking == <<message, iterations, prompts>>
reviewing == <<retries, verified, available>>
result == <<answer, learned, error>>
vars == <<engine, tooling, asking, feedback, reviewing, result>>

-----------------------------------------------------------------------------
MAX_COMPLETION_RETRIES == 2
TOOL_FAILURE_NUDGE_THRESHOLD == 3

\* The calls of the model that a run may make: one at least.
Budget == IF MaxIterations < 1 THEN 1 ELSE MaxIterations

NoTool == "none"
Messages == UNION {[1 .. n -> Tools] : n \in 0 .. MaxCalls}
Uses == [tool : Tools, failed : BOOLEAN]
Feedback == {"none", "nudge", "fix"}
Nodes == {"start", "model", "tools", "review", "finalize",
          "verification_failed", "limit"}

TypeOK ==
  /\ frontier \in Nodes \cup {"learn", "end"}
  /\ maxSteps \in StepLimits /\ steps \in 0 .. maxSteps
  /\ message \in Messages
  /\ todo \in Seq(Tools)
  /\ uses \in Seq(Uses)
  /\ failures \in Nat
  /\ lastTool \in Tools \cup {NoTool}
  /\ iterations \in 0 .. Budget
  /\ feedback \in Feedback
  /\ prompts \in Seq(Feedback)
  /\ retries \in 0 .. MAX_COMPLETION_RETRIES
  /\ verified \in BOOLEAN /\ available \in BOOLEAN /\ learned \in BOOLEAN
  /\ answer \in {"none", "final", "unverified", "unavailable"}
  /\ error \in {"none", "limit", "steps", "exception", "exit"}

Init ==
  /\ frontier = "start"
  /\ steps = 0
  /\ maxSteps \in StepLimits
  /\ message = << >>
  /\ todo = << >>
  /\ uses = << >>
  /\ failures = 0
  /\ lastTool = NoTool
  /\ iterations = 0
  /\ feedback = "none"
  /\ prompts = << >>
  /\ retries = 0
  /\ verified = FALSE
  /\ available = TRUE
  /\ answer = "none"
  /\ learned = FALSE
  /\ error = "none"

-----------------------------------------------------------------------------
(* The engine.                                                             *)

\* _drive runs the frontier unless the step limit is reached.
Runs(node) == frontier = node /\ steps < maxSteps
Leave(successor) ==
  frontier' = successor /\ steps' = steps + 1 /\ UNCHANGED maxSteps

StepLimit ==
  /\ frontier \in Nodes
  /\ steps >= maxSteps
  /\ frontier' = "end"
  /\ error' = "steps"
  /\ UNCHANGED <<steps, maxSteps, tooling, asking, feedback, reviewing,
                answer, learned>>

\* A node raises: the provider, the summarizer, a tool's arguments that are not
\* JSON, an RPC that times out, a write of the history.  The checker turns what
\* it meets into a review that is not available.
Raise ==
  /\ frontier \in {"learn"} \cup (Nodes \ {"review", "limit"})
  /\ frontier' = "end"
  /\ error' = "exception"
  /\ UNCHANGED <<steps, maxSteps, tooling, asking, feedback, reviewing,
                answer, learned>>

\* A tool's own code leaves with SystemExit: execute_tool does not catch it, and
\* neither does the loop that would report it, so the process ends untold.
Exit ==
  /\ Runs("tools")
  /\ todo # << >>
  /\ frontier' = "end"
  /\ error' = "exit"
  /\ UNCHANGED <<steps, maxSteps, tooling, asking, feedback, reviewing,
                answer, learned>>

-----------------------------------------------------------------------------
(* The nodes.                                                              *)

Start ==
  /\ Runs("start")
  /\ iterations' = 0
  /\ retries' = 0
  /\ feedback' = "none"
  /\ verified' = FALSE
  /\ available' = TRUE
  /\ failures' = 0
  /\ lastTool' = NoTool
  /\ Leave("model")
  /\ UNCHANGED <<message, prompts, todo, uses, result>>

\* Variant: the feedback stays for the next call.
PrepareContextAgain ==
  /\ iterations' = iterations + 1
  /\ prompts' = Append(prompts, feedback)
  /\ UNCHANGED feedback

\* prepare_context: the feedback goes into one prompt.
PrepareContext ==
  /\ iterations' = iterations + 1
  /\ prompts' = Append(prompts, feedback)
  /\ feedback' = "none"

\* prepare_context, call_model, record_assistant, route_model.
Model ==
  /\ Runs("model")
  /\ PrepareContext
  /\ message' \in Messages
  /\ todo' = message'
  /\ Leave(IF message' # << >> THEN "tools" ELSE "review")
  /\ UNCHANGED <<uses, failures, lastTool, reviewing, result>>

\* _run_tool: the result is recorded; it is a failure when it says so.
RunTool(tool, failed) == uses' = Append(uses, [tool |-> tool, failed |-> failed])

\* Variant: failures of different tools add up.
UseAnyTool ==
  /\ Runs("tools")
  /\ todo # << >>
  /\ \E failed \in BOOLEAN :
       /\ RunTool(Head(todo), failed)
       /\ failures' = IF failed THEN failures + 1 ELSE 0
  /\ lastTool' = Head(todo)
  /\ todo' = Tail(todo)
  /\ UNCHANGED <<engine, asking, feedback, reviewing, result>>

\* An iteration of tool_node's loop.
UseTool ==
  /\ Runs("tools")
  /\ todo # << >>
  /\ \E failed \in BOOLEAN :
       /\ RunTool(Head(todo), failed)
       /\ failures' = IF ~failed THEN 0
                      ELSE IF Head(todo) = lastTool THEN failures + 1
                      ELSE 1
  /\ lastTool' = Head(todo)
  /\ todo' = Tail(todo)
  /\ UNCHANGED <<engine, asking, feedback, reviewing, result>>

\* Variant: the run goes on for as long as the model calls tools.
AlwaysToModel == "model"

RouteTools == IF iterations >= MaxIterations THEN "limit" ELSE "model"

\* The rest of tool_node, and route_tools.
ToolsDone ==
  /\ Runs("tools")
  /\ todo = << >>
  /\ feedback' = IF failures = TOOL_FAILURE_NUDGE_THRESHOLD THEN "nudge"
                                                            ELSE feedback
  /\ Leave(RouteTools)
  /\ UNCHANGED <<tooling, asking, reviewing, result>>

\* Variants of route_review: an answer nobody could check passes; the
\* corrections, or the iterations, are not counted.
RouteReviewOpen(done, reviewed, tries) ==
  IF done \/ ~reviewed THEN "finalize"
  ELSE IF tries >= MAX_COMPLETION_RETRIES THEN "verification_failed"
  ELSE RouteTools
RouteReviewTireless(done, reviewed, tries) ==
  IF done THEN "finalize"
  ELSE IF ~reviewed THEN "verification_failed"
  ELSE RouteTools
RouteReviewUnlimited(done, reviewed, tries) ==
  IF done THEN "finalize"
  ELSE IF ~reviewed \/ tries >= MAX_COMPLETION_RETRIES THEN "verification_failed"
  ELSE "model"

RouteReview(done, reviewed, tries) ==
  IF done THEN "finalize"
  ELSE IF ~reviewed \/ tries >= MAX_COMPLETION_RETRIES THEN "verification_failed"
  ELSE RouteTools

\* The checker finds the task complete, or not, or it cannot tell: its request
\* failed, or the answer gave no verdict with a reason, two times.
Verdict(done, reviewed) == done => reviewed

\* review_node and route_review.
Review ==
  /\ Runs("review")
  /\ \E done, reviewed \in BOOLEAN :
       /\ Verdict(done, reviewed)
       /\ verified' = done
       /\ available' = reviewed
       /\ retries' = IF done THEN retries ELSE retries + 1
       /\ feedback' = IF done THEN feedback ELSE "fix"
       /\ Leave(RouteReview(done, reviewed, retries'))
  /\ UNCHANGED <<tooling, asking, result>>

\* consider saves a skill or does not: nothing to learn, a skill it has, or an
\* exception, which it only logs.
Consider == learned' \in BOOLEAN

\* finalize_node: the answer is stored and shown, then a skill may be saved, then
\* the user is told of it.
Finalize ==
  /\ Runs("finalize")
  /\ frontier' = "learn"
  /\ answer' = "final"
  /\ UNCHANGED <<steps, maxSteps, tooling, asking, feedback, reviewing,
                learned, error>>

Learn ==
  /\ frontier = "learn"
  /\ Consider
  /\ \/ Leave("end") /\ UNCHANGED error
     \/ /\ frontier' = "end"
        /\ error' = "exception"
        /\ UNCHANGED <<steps, maxSteps>>
  /\ UNCHANGED <<tooling, asking, feedback, reviewing, answer>>

VerificationFailed ==
  /\ Runs("verification_failed")
  /\ answer' = IF available THEN "unverified" ELSE "unavailable"
  /\ Leave("end")
  /\ UNCHANGED <<tooling, asking, feedback, reviewing, learned, error>>

Limit ==
  /\ Runs("limit")
  /\ frontier' = "end"
  /\ error' = "limit"
  /\ UNCHANGED <<steps, maxSteps, tooling, asking, feedback, reviewing,
                answer, learned>>

Next ==
  \/ Start \/ Model \/ UseTool \/ ToolsDone \/ Review
  \/ Finalize \/ Learn \/ VerificationFailed \/ Limit
  \/ StepLimit \/ Raise \/ Exit

Spec == Init /\ [][Next]_vars

-----------------------------------------------------------------------------
(* Properties.                                                             *)

\* An answer is final, and a skill learned from it, only when the reviewer
\* found that very answer complete: it fails closed when the reviewer is down,
\* and no message of the model comes between the review and the answer.
FinalIsVerified ==
  (answer = "final" \/ learned) => verified /\ available /\ message = << >>

\* After the tools of a message, the model is told "the last 3 attempts to use X
\* failed" exactly when the last three tool calls, whatever messages they came in,
\* were failures of one tool and the one before was not.
Streak(n) ==
  /\ Len(uses) >= n
  /\ \A i \in Len(uses) - n + 1 .. Len(uses) :
       uses[i].failed /\ uses[i].tool = uses[Len(uses)].tool
NudgeAtThree ==
  frontier = "model" /\ message # << >>
    => (feedback = "nudge" <=> Streak(3) /\ ~Streak(4))

\* The limit is on every path back to the model: it is called MAX_ITERATIONS
\* times at most, or once if that is less, and a run that "exceeded" them has had
\* them all.
WithinBudget ==
  /\ Len(prompts) <= Budget
  /\ error = "limit" => Len(prompts) = Budget

\* With a step for start, one for the last node and two for each iteration, a
\* run never ends in the engine's "probably a loop" (by default 42 of 1000).
StepLimitUnreached ==
  maxSteps >= 2 * Budget + 2 => error # "steps"

\* Each correction the reviewer asked for is in one prompt of the model: no nudge
\* took its place, and no later call of the same correction was given it again.
CorrectionsTold ==
  frontier \in {"tools", "review", "finalize"}
    => Cardinality({i \in DOMAIN prompts : prompts[i] = "fix"}) = retries

\* "The task could not be verified after 2 correction attempts": the model was
\* asked to correct its answer twice.
TwoCorrections ==
  answer = "unverified"
    => \E i, j \in 1 .. Len(prompts) :
         i < j /\ prompts[i] = "fix" /\ prompts[j] = "fix"
=============================================================================
