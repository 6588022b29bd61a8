# A TLA+ verification of HyperAgent

HyperAgent gives every user a personal stack of containers with an LLM agent
that may edit, commit and roll back its own source code. This directory holds
TLA+ models of the parts of the server where order, failure and concurrency
matter, the TLC runs that check them, and theorems proved with TLAPS.

Contents: [the system](#the-system) ·
[the modules](#the-modules) · [the runs](#the-runs) ·
[fairness](#fairness) · [the proofs](#the-proofs) ·
[where code and texts disagree](#where-the-code-and-its-texts-disagree) ·
[what is not modelled](#what-is-not-modelled) · [plan](#plan)

## The system

```
 client ──login/logout──► router ──docker compose──► one stack per user:
   │                        │
   │                     users DB        supervisor ◄──supervisor_queue── agent
   └──start, login, data──► (broker) ──►     │  │ ────agent_queue────►     │
                                             │  └─ git + snapshots table    │
                                             └──── work tree  ◄── edits ────┘
                                                  chat DB (llmchat, l3_memory)
```

| Component (`src/`) | State | Operations | Hard behaviour | Correct when |
|---|---|---|---|---|
| version store (`supervisor/git_service`, `database/crud.py`) | work tree, commits, `snapshots` rows | commit, check, restore, status changes | crash between `git commit` and the INSERT; the agent edits the same tree | history append-only, one PENDING version, verdicts final and about what really ran |
| supervisor (`supervisor/`) | `agent_ready`, message in hand | start, login, ack, error, git requests, client data | a handler restarts the sender of its own message; exceptions, crashes, redelivery | no task lost, the right version judged, the client told `ready` |
| agent shell (`agent_immutable/`) | one command per process | start, report ack/error, exit | killed, restarted by Docker on whatever is in the tree, lost reports | one report per run |
| broker client (`rabbitmq/`) | reply queue, correlation ids | publish, request_response | timeouts with late replies, swallowed errors | a reply answers its request |
| router (`router/`) | users, locks, logout timers, threads | login, logout | a thread per message, timers, slow compose, crash | one compose at a time, passwords checked, nobody blocked by another |
| docker manager (`router/docker_manager.py`) | ports, containers | up, down | failing, hanging, ports taken | stack up where the account says |
| ReAct agent (`agent/react_agent.py`, `completion.py`) | graph state | start, model, tools, review, finalize | retries, budgets, a reviewer that is down, exceptions | only a verified answer is final, budgets kept, each correction told once |
| graph engine (`agent/llminterface/agent_graph`) | frontier, step count | run | step limit | the limit is never the first to be met |
| conversation memory (`agent/memory`, `database/agent`) | llmchat, l3_memory; tail, summaries, watermark | set_task, append, maybe_compress, from_llm_chat | compression while a run is in progress, reload in a new process, replay | nothing lost or doubled, results with their calls |
| skills (`agent/skills`, `tools/skill*`) | skill files | consider, list, view | duplicates, failing writes | only from verified tasks |
| tools (`agent/tools`), create_tool | registry, generated files | execute, create | a load that fails half way, restart, rollback | registry and files agree |
| LLM clients (`agent/llminterface/client`) | stream being assembled | send, stream | interleaved fragments, cut streams | the message assembled is the one sent |

Interactions: the client, the supervisor and the agent exchange messages through
one broker per stack; the agent calls the supervisor (git) and the client
(client-side tools) with request_response; the supervisor and the agent share the
work tree; every agent process rebuilds its memory from the chat database.
`PROJECT.json` lists every component with its status, and under "hazards" what in
this code is hard to test, with the property that would notice it going wrong.

## The modules

| Module | Models | Extends |
|---|---|---|
| `Versions` | work tree, commits, snapshot statuses (`git_service.py`, `database/crud.py`) | |
| `VersionLedger` | abstract: what the history promises | |
| `SelfModification` | supervisor + agent process + two queues + client | `Versions` |
| `SelfModification_proofs` | its theorems | |
| `Router` | router threads, locks, timers, compose, accounts | |
| `Router_proofs` | its theorems | |
| `ReactAgent` | one run of the ReAct graph on the graph engine | |
| `ReactAgent_proofs` | its theorems | |
| `Conversation` | chat tables, memory store, replay of tasks | |
| `Conversation_proofs` | its theorems | |
| `ModelStream` | a message of the model as it streams in, and the calls put together from it (both clients) | |
| `ModelStream_proofs` | its theorems: what is put together from the pieces | |
| `GeneratedTools` | registry, generated tool files, create_tool, loading at start | |
| `Skills` | learning skills from a verified answer, their files | |
| `AgentProcess` | the agent's processes over one tree: the three above with commits, rollbacks and restarts | `ModelStream`, `GeneratedTools`, `Skills`; instance of `Versions` |
| `AgentProcess_proofs` | its theorems | |
| `Shortening` | pure: truncate_middle, and which calls keep their arguments in the prompt | |
| `Shortening_proofs` | its theorems | |
| `Extremes` | lemmas: a set of naturals has a least, a bounded one a greatest element | |
| `MC*` | what the cfg files instantiate; `MCReactAgent`, `MCConversation` and `MCAgentProcess` add symmetry, `MCConversation` compares `Shortening` with what it means | |

Definitions named in a comment as *variant* are not the code. They are plausible
mistakes in it, kept beside the definition they spoil; a property is trusted only
after TLC found it violated with such a variant in place (`PROJECT.json`, "mutants").

### SelfModification

`worktree` and `commits` are the repository of the agent: a whole source tree is
one element of `Codes`, and a commit's position is its sha and the age of its
snapshot row. `step` is where the supervisor stands in `receive_message`: between
two steps it may crash (the message stays at the head of `supQueue` and is
redelivered), an exception may end the handler (the message is dropped) or the
agent may edit. A commit request is the steps *commit, record, restartCommitted,
replay, ack*; an error *restore, restartRestored, replay* or *restartFailed,
report*; an ack *check, checkRecord, ready*. `git restore` and `git clean` are two
commands: a crash or an exception between them leaves a tree that is neither version
(`HalfRestored`: any of `Codes`). `agent` is one process: down, idle,
running a task, or blocked in request_response (`rpc`); it exits after one task
and Docker starts the next on whatever is in the work tree: not at all if that
version cannot be imported (`Unloadable`). Compilation at commit rejects the versions
in `Uncompilable`: neither set contains the other, because compilation looks at every
`*.py`, those of generated tools too, whose errors an import survives. A rollback may
name any commit, not only the STABLE ones that version_log lists.

`head`, `code` in messages and `finished`, `proven` are history variables: which
version the sender ran, which tasks ended, which versions a process ran to an ack.

### Router

A worker is one message's thread and, after a logout, the timer it started. Its
`step` walks through `_handle_login` (*login, lock, user, create | restart, add,
reread, accept, answer*) or `_schedule_logout` (*logout, schedule, armed, fired,
stopping*); each step is one call that another thread can run between. `lock` is
`_client_locks`, `timers` is `logout_timers`. The three ports of a stack are
computed as in `start_client`; `Startable` are the containers whose ports nobody else
publishes, and an `up` that finds a port taken may leave the others running or not.
An acceptance is sent after the lock is released; a rejection or an error leaves the
lock in the step that decides it. A logout is never answered: only logins can be
waited for (`Serial`). `overlapped` is a history field, set on the logouts of one
login that were between receipt and timer at the same time.
`portHash` changes with a crash, as Python's string hash does.
Account and stack rows are modelled, the compose file's content is not.

### ReactAgent

`frontier`, `steps` and `maxSteps` are the engine's; the other variables are the graph's
state dictionary. The model may answer or call up to `MaxCalls` tools, each call
may fail, the reviewer may find the task complete, incomplete, or be unavailable
(`Verdict`), a node may raise, and a tool may leave with `SystemExit`, which passes both
`except Exception` clauses and ends the process unreported (`Exit`; `registry.py:218`,
`agent_immutable/main.py:57`): not every run ends in an answer or a reported error.
`MAX_ITERATIONS` is read without a check (`config.py:56`); below one it acts as one
(`Budget`). `uses` and `prompts` are what the run recorded: its
tool turns and the feedback given with each model call.

### Conversation

A message is its position in `llmchat`, which is its id; a summary is the set of
messages it was made from, so that losing or doubling a message shows. The skills
catalog is what the code records (`react_agent.py:92-101`): a message of role *tool* that
no call asked for, and that the provider is sent as one. The field `request` is
history: how many requests the client had sent. A turn costs
one token. A run goes *start, catalog, compress, ask, tools | review, report*; a
commit or a failure under probation replays the task in a new process, which loads
the tables again (`Load`). Requests come one at a time. Messages are taken to be in
the order of their `dt`: all are stamped by the agent's own clock.

### ModelStream, GeneratedTools, Skills, AgentProcess

*ModelStream.* A tool call is its place in the provider's message. Piece 0 has id and
name, the others the arguments; `slots` is `tool_calls_acc` (or the list Ollama's
client appends to). `Arguments` is `_normalize_args`: a JSON object that is cut
raises, and the empty string a call starts with stands for `{}`. The index is taken
to be sent: `tc.get("index", 0)` would put calls without one into one. Calls whose
target is the client pass their argument string on unread.

*GeneratedTools.* A name is its place in alphabetical order, because files are loaded
in that order; `Early` and `Late` are the built-in modules before and after
`create_tool.py`. A file's content is what executing it does. create_tool is three
steps, *open*, *write* and *load*, between which the process may be killed, the write
fail, or the supervisor commit the tree. A torn file that happens to be a whole module
is left out; one that compiles (an empty one) is not.

*Skills.* `consider` with the valid skills of an answer, one after the other: skipped
when the file exists, else temporary file, write, rename. Two skills of an answer may
come to one name.

*AgentProcess.* `phase` is where the process stands: *down*, *ask* (call_model),
*stream*, *tools* (tool_node, call by call), *review*, *save* (finalize_node),
*report*. What a whole call asks for is chosen when it runs. A version is the files of
tools and skills: `DATA_DIR` lies in the agent's directory, which is the git work
tree (`config.py:15-17`). The supervisor's handlers, which SelfModification cuts into
steps, are one step here, and edits of the tree by other tools are left to it.

### Shortening

A text is its length, and what is kept of it two lengths. `FirstOf` and `LastOf` are
Python's slices with their cases of negative numbers; `SeenCalls` is the counting
loop of `_build_turn_messages`. `MCConversation` compares both with their meaning for
texts up to 9 characters, limits from -9 to 9 and up to 6 calls of two tools.

## The runs

Bounds are constants of the cfg files, named in the modules' CONSTANTS.

| Run | Question | Bounds, and why they are enough |
|---|---|---|
| tasks | Is a task carried through commits, rollbacks and restarts, is a version judged by its own process, and does every task end? | a client with one task outstanding, no faults; 4 versions (base, good, one that does not compile, one that compiles and cannot be imported), 3 tasks, 1 login, 2 edits, 2 requests: two commits can follow each other, the second on a version on probation |
| faults | Does the history stay a `VersionLedger`, and is nothing built on an unproven version, when tasks overlap and one thing fails? | 2 tasks that a login lets overlap; one fault, at any step, of crash, exception, timeout, lost report, killed agent. Its three properties and the types are proved for any number of faults |
| log, stable, base | three statements of the texts | see below |
| router_safety | lock, passwords, errors, ports | 2 users whose ports collide, 2 passwords, 3 messages, 2 faults of crash and database: two racing logins and a logout. A logout stops at once (LOGOUT_DELAY_SECONDS = 0); router_live has the timers, and the proofs cover both |
| router_live | who waits for whom, and what a logout's timer does | clients that wait for the answers to their logins and for nothing after a logout, 3 messages: two logouts and a login in any order of their threads; one user's compose may never return, one crash or docker failure |
| router_ports | whose stack is at the answered port | see below |
| react_run | routing, verdict, nudge, budgets | 4 iterations with 2 calls: streaks of 3 and 4 failures, across and inside messages; two engine limits, 2·4+2 that just suffices and 5 that does not |
| react_retries | how many corrections? | see below |
| conversation | memory across compression, reload, replay | budget 2, 8 messages, 3 requests, 3 cut runs: two compressions in one run and one before |
| agent_process | calls as sent, tools as offered, files as tools, skills whole and versioned | 3 processes, 2 requests with up to 2 calls of 3 pieces each, 4 names of which 2 are built-in (one on each side of the generated files), 2 skills, 1 fault: two commits or a commit and a rollback follow each other, a process loads what another left, and a kill, a failing write or a supervisor's commit comes at any step |

CHECK_DEADLOCK is FALSE everywhere: the bounded actions run out, and then the
system rests.

What the properties say is written above each of them. The ones to know:
`KeepsLedger` (refinement of the abstract history), `BuiltOnSettled`, `RejectedForItsOwnFailure` and
`PromotedByItsOwnProcess` (a verdict is about the version that ran), `NoTaskLost`,
`OneComposeAtATime`, `AcceptedKnowsPassword`, `UpWhereAccountSays`,
`LoginCancelsTimer`, `FinalIsVerified`, `NudgeAtThree`, `NothingForgotten`,
`ExchangeInView`, `OriginInView`, `CorrectionsTold`, `RecordedAtMostOnce`, `CallsRunAsSent`,
`OfferedIsRegistered`, `FilesAreTools`, `SkillFilesWhole`, `LearnedIsVersioned`.

Some hold only under a condition, which the run states by its constants:

- `RejectedForItsOwnFailure`, `PromotedByItsOwnProcess`, `NoTaskLost` need a client
  with one task outstanding (`OneAtATime`). A login is answered `ready` while a task
  runs (`rabbitmq_supervisor.py:145`); a client that trusts it can have two tasks
  out, and then an old failure is blamed on a new version. Of the faults, killed
  processes leave the two verdict properties true (proved below). A lost report, a
  crash or exception of the supervisor, or a timeout breaks them (after a lost ack the
  next process boots what the last one left in the tree, on a HEAD under probation),
  and any fault may lose a task. "Its own version" means the commit at HEAD and its
  code: a process with edits on top of it does not count.
- `BuiltOnSettled` excepts a starting supervisor, which commits the work tree
  (`git_service.py:81`) whatever the last version's state.
- `WaitEndsInReady` is about the message: a client that was not told `ready` is told
  it, with `agent_ready` set. `EveryTaskEnds` and `WaitEndsInReady` except a work tree that stays unloadable: a
  version that compiles and cannot be imported restarts for ever, with no process
  left to report it (`agent_immutable/main.py:5`).
- `LogoutStops` is about users whose compose returns, unless docker fails: a `down`
  that fails is only logged.
- `LoginCancelsTimer` is about timers that run when a login's thread begins, and excepts
  logouts that overlapped: of two, one timer is overwritten and can no longer be
  cancelled. Two more ways to stop a user who has just logged in are in the model and
  no property excludes them: a login whose thread overtakes that of its logout finds
  no timer to cancel, and a timer that has *fired* waits for the lock.
- `RecordedAtMostOnce` is about each request, with one task at a time, as above.
- `ExchangeInView` says that the exchange is in the tail, not that the prompt has it
  word for word: of earlier calls the arguments are shortened (`Shortening`).
- `OriginInView` says of the catalog that its request is before it: it has no call.
- `UpWhereAccountSays` is checked without docker failures: an `up` that fails leaves
  the stack where a crashed attempt with another port hash had put it.
- `CallsRunAsSent`: order and no doubles for every stream, completeness for those that
  ended. From a stream that was cut, a call whose arguments had not begun does run,
  without any.
- `FilesAreTools`: a file that is no tool is there only after a fault (the write is
  outside the `try` that removes the file, `create_tool.py:119`), or after a file that
  ended its process; a process keeps its tools after `version_rollback`, so between
  that and its end they may have no files.
- `LearnedIsVersioned` is about the tip of the history. When the tip is a rejected
  commit of the very same tree there is nothing to commit, and no STABLE version has
  the skill. The handler is one step here; what can come between the report and the
  commit is in SelfModification (`BeginAck`, `CheckAfterAck`), which has no skills.

## Fairness

`SelfModification!FairSpec`: the supervisor's handlers (their calls have timeouts
or are local), Docker's restart of an exited container, delivery of a start command,
and the end of a task (`MAX_ITERATIONS` and request timeouts bound it) are weakly
fair. Nothing is assumed of edits, requests, clients or faults.

`Router!FairSpec`: threads and timers are weakly fair, one by one; compose commands
of logins that are not `Stalled` too (`up` has a timeout of 300 s). `down` has none,
so a stalled login's command may hang for ever. No strong fairness is needed: in
`router_live` a thread waits only for its own login's lock, and few messages
contend for it.

The other modules state safety only.

## The proofs

All theorems hold for every value of the constants that satisfies the named
ASSUMEs: any number of versions, users, messages, tools, iterations, and any number
and kind of faults. Four of them have a hypothesis about the constants, named with
them: `TasksKept`, `RejectedJustly`, `PromotedJustly` and `StacksWhereAccountsSay`. Every inductive invariant was checked with TLC on the run's instance
before it was proved.

**SelfModification_proofs.** `TypeCorrect`, `OneProbation` (`[]AtMostOnePending`),
`LedgerKept` (`Spec => KeepsLedger`), `SettledFirst` (`BuiltOnSettled`), for every
pattern of faults. `AtMostOnePending` is not inductive: a handler
that is about to write a PENDING row must know that there is none. `IInv` adds that
inside a handler the message in hand is the queue's head and of the handler's type
(`HandlerOK`), that between settling the old snapshot and writing the new one nothing
is PENDING, that the commit to be recorded has no row yet (`SnapshotOK`), and that a
queued rollback names an existing commit (`QueueOK`). Refinement then maps each step
to `Add`, `Register`, `Decide` or a stutter. `SettledFirst` needs one more invariant,
`AckSettled`: nothing is PENDING between an ack's verdict and its check of the tree.

`TasksKept` (`[]NoTaskLost`), for a client with one task outstanding and no faults;
`RejectedJustly` and `PromotedJustly` (`RejectedForItsOwnFailure`,
`PromotedByItsOwnProcess`), for such a client, with any number of killed processes
(`Calm`). `FromVersion` compares the commit and the code the reporting process was
started from: with a lost ack it is false of a process that boots the dirty tree. `NoTaskLost` says nothing of doubles, and a doubled task would
break the verdicts. `TaskAtOnePlace` says more: all tasks but the last are over, and
the last is in at most one of the pending messages, `agent_queue` and the process; a
process with a pending message is blocked in the request_response that the message
will answer. So the process that runs is alone, and what it sends is the only
pending message. `HeadKnown` then follows a version on probation: it is HEAD, and so every
process that starts, starts from it; the commit that recorded it was the only
pending message and no ack stood behind it, so what is queued later comes from such
a process. A supervisor that starts again would break this (it records the tree
whatever is on probation), hence `NoneAtBoot` and the hypothesis.

**Router_proofs.** `TypeCorrect`, `ComposeIsExclusive`, `PasswordsChecked`,
`NoNeedlessError`. `LockHeld` says that a worker inside the `with` is the one the
lock names, hence alone; `Vetted` says what it knows about the account there: none
exists between get_user and add_user, and the password is the account's afterwards.
No other thread of the login can change that before the lock is released.

`StacksWhereAccountsSay` (`[]UpWhereAccountSays`) assumes that docker does not fail, or
that nothing else does (`OneKindOfFault`). `StacksKnown` adds to the property that
between `up` and add_user the stack is where the account will say. With failing `up`s
and crashes together it is false: a crash between `up` and add_user leaves the stack
up, the next process computes another port hash, its `up` fails, and the account is
added with that hash while the stack is where it was. `LoginInTime` (`LoginCancelsTimer`)
has no hypothesis: `TimersStored` says that of a login's logouts that did not overlap at
most one has an armed timer, and that it is the one in `logout_timers`, where
`_cancel_logout` finds it.

**ReactAgent_proofs.** `TypeCorrect`, `VerdictGates`, `BudgetKept`, `StepsSuffice`,
`NudgeIsTrue`, `EachFixIsTold`. `Counted` ties steps to iterations (two per iteration and one for
start), `CorrectionsLeft` and `Reviewed` follow the verdict to the answer. The nudge
needs a second invariant: `FailuresCounted`, that the counter is the length of the
streak that ends the tool turns, and `NudgeTold`. `TellsFixes` counts the corrections
told and the one that waits in `feedback`, which no nudge may overwrite.

**Conversation_proofs.** `TypeCorrect`, `NeverForgets` (`[]NothingForgotten`),
`TaskInView` (`[]ExchangeInView`), `OriginsStay` (`[]OriginInView`),
`RequestsRecordedOnce` (`[]RecordedAtMostOnce`), `SavedSummaryGrows` (`SummaryGrows`).
`NothingForgotten` speaks of the moment the model is asked; what makes it true is
`TailIsEnd`: the turns of the store are the end of the chat in order, the summaries
cover exactly what is before them, and the watermark stands where they meet, so a
compression moves the border and a reload finds it again. The saved row
lags behind by what was compressed since (`SavedIsBeginning`), and both borders lie
before a user's message: an exchange is never cut, which with `ToolsFollowCalls`
keeps results with their calls; `CatalogFollowsRequest` does the same for the catalog.
Only turns of the exchange in progress may lack an id
(`CurrentExchange`); without that a compression could summarise a message the
watermark does not cover, and the next process would load it again.

**ModelStream_proofs.** `SlotsHoldPieces`: the slot of an index has the pieces of
its call that have come, in order. Hence `AssembledInOrder` (sorting the slots gives
each call once and in order; the k-th is the one with k - 1 before it, an argument on
cardinalities), `DoneIsWhole` and `ArgumentsAreWholeOrNone`.

**AgentProcess_proofs.** `TypeCorrect`, `RunAsSent` (`[]CallsRunAsSent`), `OfferedWillRun`
(`[]OfferedIsRegistered`), `FilesMatchRegistry` (`[]FilesAreTools`), `SkillsAreWhole`
(`[]SkillFilesWhole`), `ToldIsCommitted` (`LearnedIsVersioned`). The properties speak of moments
of rest; the invariant says what may be out of step in between. A create_tool in
progress is the only file that differs from the registry (`RegisteredFiles`), the
registry differs from what was offered only in a message that will have the
specifications read again (`OfferedBefore`), calls that ran and calls left are the stream's
(`CallsAreTheStreams`) and, with a cut stream too, in the provider's order (`InOrder`), only a temporary file is partly written (`SkillsAreThere`), and
without faults the files of every version are tools (`UnfaultedFiles`), which is what a
process finds after a rollback.

**Shortening_proofs.** `CutsToLimit`, `ZeroKeepsAll`, `ResultBounded`: what
truncate_middle keeps, for every length and every limit. With a limit of 0 it keeps
everything, and below 0 a part comes twice; `_run_tool` truncates again with a positive
constant, so the conversation's own bound holds for every limit a model may pass.

Model-checked only: what the five violation runs refute; the liveness properties
`EveryTaskEnds`, `WaitEndsInReady`, `OthersAreAnswered` and `LogoutStops` (fairness and
ENABLED are out of the prover's reach); and, compared by TLC with their meaning on bounded inputs, Python's slices
and that `KeepFull` keeps the last two calls of each tool (induction over a list).
No module declares a RECURSIVE operator.

## Where the code and its texts disagree

- **log** — `version_log` says every version listed is 100 % stable
  (`agent/tools/builtin.py:429`). `ack_handler` commits what a finished task left in
  its tree and records it STABLE, though no process ever ran it.
- **stable** — without a PENDING snapshot `error_handler` concludes that the task
  failed on stable code (`message_handler.py:64-69`). An uncommitted edit of an earlier
  task that failed is enough to refute it.
- **base** — a starting supervisor records the work tree as a base version, "not an
  unverified edit of the agent" (`git_service.py:79-81`). The agent may be editing.
- **router_ports** — the README of the server promises a personal stack reached by its
  own port. Port ranges of databases and brokers overlap, nothing checks that a port
  is free, and a failed `up` is answered like a successful one.
- **react_retries** — "could not be verified after 2 correction attempts"
  (`react_agent.py:234`): the model was asked to correct once.

Seen while reading, not stated as a run: `candidate_content_chunks` is written into a
dictionary that `ExecUpdate` has already copied (`execs.py:153-166`), so `finalize`
always emits the answer in one piece; `create_tool`'s docstring speaks of a restart
"to register the tool" and registers it in place; `version_commit` promises a message
on success (`builtin.py:354-355`), but success restarts the process that would get it;
`tool` says where a tool runs is fixed (`registry.py:142-143`), but a generated file
with `@tool(name=...)` takes another tool's place, even one that create_tool then
refuses; `finalize` says "[Skill not created]" when the second of two skills fails,
though the first one's file is there (`manager.py:85-104`); `_compact_call` writes
"earlier attempt in this task" on calls of earlier tasks too, and what it makes of
the arguments is no longer JSON (`context_manager.py:117-121`); truncate_middle(text, 0)
is the whole text and a mark that it is gone.

## What is not modelled

Read-only git commands, `client_data` and `list_models` (single queries), streaming
of chunks to the client, the wording of prompts, the text of tool results, the
providers' HTTP protocols, configuration, terminal output and the constitution.
`AgentGraph`'s parallel frontier has no user: every node has one successor. The
reviewer's and summarizer's answers are free choices, so nothing is claimed about
their quality. The client is in another repository: it appears as the messages it may
send. The order of two logins' `up` on one port is Docker's; the model lets the
first that is up keep it.

## Plan

Done, in this order: `Versions`/`VersionLedger`/`SelfModification` (the core),
`Router`, `ReactAgent`, `Conversation`; then `ModelStream`, `GeneratedTools`, `Skills` and
`AgentProcess`, which composes them with the version store; `Shortening`. Theorems for
all of them: every invariant and every action property that a passing run checks is now
stated by one.

Next:

1. `Recall`, an abstract history that only grows and is before the model as a whole,
   which `Conversation` implements.
2. AgentProcess's history as a `VersionLedger`: `TypeOK` and `Settled` are the start of it.
3. Refinement of `AgentProcess`'s supervisor steps, one action each, by
   `SelfModification`'s handlers.
4. `RequestResponse`: reply queue and correlation ids with late and duplicated
   replies, as an abstract call that `SelfModification`'s requests implement.
