-------------------------- MODULE SelfModification --------------------------
(***************************************************************************)
(* One user's stack: the supervisor, the agent container it supervises,    *)
(* the two broker queues between them and the client.                      *)
(*                                                                         *)
(* The supervisor handles one message of supervisor_queue at a time        *)
(* (prefetch 1) and acknowledges it only when the handler has returned, so *)
(* the message in hand is the head of supQueue for as long as `step` is    *)
(* inside a handler, and a crash leaves it there to be delivered again.    *)
(* A handler is cut into the steps between which a crash, an exception or  *)
(* the agent (which edits the same work tree) can come.  The agent runs    *)
(* one command per process: it acknowledges the start message before it    *)
(* works on it, reports once with `ack` or `error`, and exits; Docker      *)
(* starts a new process, which imports whatever is in the work tree.       *)
(***************************************************************************)
EXTENDS Versions

CONSTANTS
  Uncompilable, \* versions with a *.py file that compile() rejects
  Unloadable,   \* versions whose `import agent.main` fails: no process comes up
  OneAtATime,   \* the client keeps one task outstanding; or trusts each `ready`
  MaxTasks,     \* bound: tasks the client sends
  MaxLogins,    \* bound: login messages the client sends
  MaxEdits,     \* bound: edits of its own source the agent makes
  MaxRequests,  \* bound: git requests the agent sends
  Faults,       \* the fault kinds of FaultKinds that may occur
  MaxFaults     \* bound: how many of them occur

FaultKinds == {"crash", "exception", "timeout", "lost", "death"}

ASSUME CodesAssumption ==
  /\ Uncompilable \subseteq Codes
  /\ Unloadable \subseteq Codes
  /\ Base \notin Unloadable
ASSUME BoundsAssumption ==
  /\ {MaxTasks, MaxLogins, MaxEdits, MaxRequests, MaxFaults} \subseteq Nat
  /\ Faults \subseteq FaultKinds
  /\ OneAtATime \in BOOLEAN

VARIABLES
  step,        \* where the supervisor is: "boot", "idle" or inside a handler
  agentReady,  \* RabbitMQSupervisor.agent_ready
  supQueue,    \* supervisor_queue, the unacknowledged delivery included
  agentQueue,  \* agent_queue: start commands
  agent,       \* the agent process
  clientReady, \* the client got `ready` and has sent no task since
  sent,        \* tasks the client has sent: 1 .. sent
  logins, edits, requests, faults,   \* counters of the bounded actions
  finished,    \* history: tasks acked by the agent or reported as failed
  proven       \* history: versions a process ran a task with, to its ack

supVars == <<step, agentReady, supQueue>>
clientVars == <<clientReady, sent, logins>>
vars == <<worktree, commits, step, agentReady, supQueue, agentQueue, agent,
          clientReady, sent, logins, edits, requests, faults, finished, proven>>

-----------------------------------------------------------------------------
Tasks == 1 .. MaxTasks
NoTask == 0

Steps == {"boot", "bootRecord", "announce", "idle", "commit", "record",
          "restartCommitted", "replay", "restore", "restartRestored",
          "restartFailed", "report", "check", "checkRecord", "ready", "ack"}

\* The messages of supervisor_queue.  `id` is the correlation id of a request;
\* `head` and `code` are history: the HEAD and the version the sender started
\* from, neither of which the real message carries.
Message ==
  [type : {"start"}, task : Tasks]
    \cup [type : {"login"}]
    \cup [type : {"ack"}, head : Nat, code : Codes]
    \cup [type : {"error"}, task : Tasks, head : Nat, code : Codes]
    \cup [type : {"commit"}, task : Tasks, id : Nat, head : Nat, code : Codes]
    \cup [type : {"rollback"}, sha : Nat, id : Nat]

\* An agent process: down (Docker is about to start it), idle (waiting for a
\* command), running a task, or blocked in request_response.
AgentRecord ==
  [state : {"down", "idle"}, code : Codes, head : Nat, task : {NoTask}]
    \cup [state : {"running", "rpc"}, code : Codes, head : Nat, task : Tasks]

Down == [agent EXCEPT !.state = "down", !.task = NoTask]

Busy == agent.state \in {"running", "rpc"}

TypeOK ==
  /\ VersionsOK
  /\ step \in Steps
  /\ agentReady \in BOOLEAN
  /\ supQueue \in Seq(Message)
  /\ agentQueue \in Seq(Tasks)
  /\ agent \in AgentRecord
  /\ clientReady \in BOOLEAN
  /\ sent \in 0 .. MaxTasks
  /\ logins \in 0 .. MaxLogins
  /\ edits \in 0 .. MaxEdits
  /\ requests \in 0 .. MaxRequests
  /\ faults \in 0 .. MaxFaults
  /\ finished \subseteq Tasks
  /\ proven \subseteq Codes

Init ==
  /\ VersionsInit
  /\ step = "boot"
  /\ agentReady = TRUE
  /\ supQueue = << >>
  /\ agentQueue = << >>
  /\ agent = [state |-> "down", code |-> Base, head |-> 0, task |-> NoTask]
  /\ clientReady = FALSE
  /\ sent = 0
  /\ logins = 0
  /\ edits = 0
  /\ requests = 0
  /\ faults = 0
  /\ finished = {}
  /\ proven = {Base}

-----------------------------------------------------------------------------
(* Supervisor.  Msg is the message in hand.                                *)

Msg == Head(supQueue)

Receives(type) == step = "idle" /\ supQueue # << >> /\ Msg.type = type

Fault(kind) ==
  /\ kind \in Faults
  /\ faults < MaxFaults
  /\ faults' = faults + 1

\* Everything a supervisor step leaves alone unless it says otherwise.
SupFrame == UNCHANGED <<sent, logins, edits, requests, proven>>

\* Variant: a reply wakes whatever process there is.
ReplyToAnyone == agent' = [agent EXCEPT !.state = "running"]

\* send_response: it reaches the agent only if the agent still waits for this
\* correlation id; a late reply is skipped by request_response.
Reply ==
  agent' = IF agent.state = "rpc" /\ Msg.id = requests
             THEN [agent EXCEPT !.state = "running"] ELSE agent

\* start_agent: an exited container is started, a running one restarted, one
\* that Docker is restarting is left to come up.  Whatever ran is gone.
StartAgent == agent' = Down

\* send_start_command and send_ready_message.
SendStartCommand(task) == agentQueue' = Append(agentQueue, task)

SendReadyMessage == clientReady' = TRUE

\* compile_python_files finds no error.
Compiles == worktree \notin Uncompilable

\* GitService.check: `git add .` and, if that leaves something to commit, a
\* commit (its snapshot is the next step of the caller).
Check(recordStep, doneStep) ==
  IF Dirty THEN GitCommit /\ step' = recordStep
           ELSE step' = doneStep /\ UNCHANGED commits

\* GitService(): the first commit, or what changed while nobody watched.
BootCheck ==
  /\ step = "boot"
  /\ Check("bootRecord", "announce")
  /\ SupFrame
  /\ UNCHANGED <<worktree, agentReady, supQueue, agentQueue, agent,
                 clientReady, faults, finished>>

BootRecord ==
  /\ step = "bootRecord"
  /\ AddSnapshot("STABLE")
  /\ step' = "announce"
  /\ SupFrame
  /\ UNCHANGED <<worktree, agentReady, supQueue, agentQueue, agent,
                 clientReady, faults, finished>>

\* RabbitMQSupervisor() and the first ready message.
Announce ==
  /\ step = "announce"
  /\ agentReady' = TRUE
  /\ SendReadyMessage
  /\ step' = "idle"
  /\ SupFrame
  /\ UNCHANGED <<versionVars, supQueue, agentQueue, agent, faults, finished>>

HandleStart ==
  /\ Receives("start")
  /\ SendStartCommand(Msg.task)
  /\ step' = "ack"
  /\ SupFrame
  /\ UNCHANGED <<versionVars, agentReady, supQueue, agent, clientReady,
                 faults, finished>>

\* agent_container_running: while the process is starting, Docker may call the
\* container running or not.
AgentContainerRunning == IF agent.state = "down" THEN BOOLEAN ELSE {TRUE}

\* Docker is asked only when agent_ready is false.
HandleLogin ==
  /\ Receives("login")
  /\ \E running \in AgentContainerRunning : agentReady' = (agentReady \/ running)
  /\ clientReady' = (clientReady \/ agentReady')
  /\ step' = "ack"
  /\ SupFrame
  /\ UNCHANGED <<versionVars, supQueue, agentQueue, agent, faults, finished>>

HandleRollback ==
  /\ Receives("rollback")
  /\ Restore(Msg.sha)
  /\ Reply
  /\ step' = "ack"
  /\ SupFrame
  /\ UNCHANGED <<commits, agentReady, supQueue, agentQueue, clientReady,
                 faults, finished>>

\* git_handler, commit: compile, settle the previous snapshot, ...
BeginCommit ==
  /\ Receives("commit")
  /\ IF Compiles
       THEN MarkPendingSnapshotStable /\ step' = "commit" /\ UNCHANGED agent
       ELSE Reply /\ step' = "ack" /\ UNCHANGED commits
  /\ SupFrame
  /\ UNCHANGED <<worktree, agentReady, supQueue, agentQueue, clientReady,
                 faults, finished>>

\* ... `git commit`, unless there is nothing to commit, ...
CommitEdit ==
  /\ step = "commit"
  /\ IF Dirty THEN GitCommit /\ step' = "record" /\ UNCHANGED agent
              ELSE Reply /\ step' = "ack" /\ UNCHANGED commits
  /\ SupFrame
  /\ UNCHANGED <<worktree, agentReady, supQueue, agentQueue, clientReady,
                 faults, finished>>

\* ... the PENDING row, ...
RecordPending ==
  /\ step = "record"
  /\ AddSnapshot("PENDING")
  /\ step' = "restartCommitted"
  /\ SupFrame
  /\ UNCHANGED <<worktree, agentReady, supQueue, agentQueue, agent,
                 clientReady, faults, finished>>

\* Variant: the commit is answered like any other request.
AnswerCommitted ==
  /\ step = "restartCommitted"
  /\ Reply
  /\ step' = "ack"
  /\ SupFrame
  /\ UNCHANGED <<versionVars, agentReady, supQueue, agentQueue, clientReady,
                 faults, finished>>

\* ... a new agent process, ...
RestartCommitted ==
  /\ step = "restartCommitted"
  /\ agentReady' = FALSE
  /\ StartAgent
  /\ step' = "replay"
  /\ SupFrame
  /\ UNCHANGED <<versionVars, supQueue, agentQueue, clientReady, faults,
                 finished>>

\* Variant: the new process is left to wait for the next command.
RestartOnly ==
  /\ step = "replay"
  /\ step' = "ack"
  /\ SupFrame
  /\ UNCHANGED <<versionVars, agentReady, supQueue, agentQueue, agent,
                 clientReady, faults, finished>>

\* ... and the task again (after a commit and after a rollback).
Replay ==
  /\ step = "replay"
  /\ SendStartCommand(Msg.task)
  /\ step' = "ack"
  /\ SupFrame
  /\ UNCHANGED <<versionVars, agentReady, supQueue, agent, clientReady,
                 faults, finished>>

\* error_handler: reject the PENDING snapshot, if there is one.
BeginError ==
  /\ Receives("error")
  /\ agentReady' = FALSE
  /\ IF Having("PENDING") = {}
       THEN step' = "restartFailed" /\ UNCHANGED commits
       ELSE /\ \E sha \in Having("PENDING") :
                 Latest(sha, "PENDING") /\ SetStatus(sha, "ERROR")
            /\ step' = IF Having("STABLE") = {} THEN "restartFailed" ELSE "restore"
  /\ SupFrame
  /\ UNCHANGED <<worktree, supQueue, agentQueue, agent, clientReady, faults,
                 finished>>

RestoreStable ==
  /\ step = "restore"
  /\ \E sha \in Having("STABLE") : Latest(sha, "STABLE") /\ Restore(sha)
  /\ step' = "restartRestored"
  /\ SupFrame
  /\ UNCHANGED <<commits, agentReady, supQueue, agentQueue, agent, clientReady,
                 faults, finished>>

\* Variant: a failure that is not rolled back is reported to nobody.
RestartSilently ==
  /\ step \in {"restartRestored", "restartFailed"}
  /\ StartAgent
  /\ agentReady' = TRUE
  /\ step' = IF step = "restartRestored" THEN "replay" ELSE "ack"
  /\ SupFrame
  /\ UNCHANGED <<versionVars, supQueue, agentQueue, clientReady, faults,
                 finished>>

RestartAfterError ==
  /\ step \in {"restartRestored", "restartFailed"}
  /\ StartAgent
  /\ agentReady' = TRUE
  /\ step' = IF step = "restartRestored" THEN "replay" ELSE "report"
  /\ SupFrame
  /\ UNCHANGED <<versionVars, supQueue, agentQueue, clientReady, faults,
                 finished>>

\* No rollback: the failure is reported to the client, then `ready`.
Report ==
  /\ step = "report"
  /\ finished' = finished \cup {Msg.task}
  /\ SendReadyMessage
  /\ step' = "ack"
  /\ SupFrame
  /\ UNCHANGED <<versionVars, agentReady, supQueue, agentQueue, agent, faults>>

\* Variant: the work tree is committed before the snapshot is settled.
BeginAckUnsettled ==
  /\ Receives("ack")
  /\ step' = "check"
  /\ SupFrame
  /\ UNCHANGED <<versionVars, agentReady, supQueue, agentQueue, agent,
                 clientReady, faults, finished>>

\* ack_handler: settle the snapshot, commit what is left in the work tree.
BeginAck ==
  /\ Receives("ack")
  /\ MarkPendingSnapshotStable
  /\ step' = "check"
  /\ SupFrame
  /\ UNCHANGED <<worktree, agentReady, supQueue, agentQueue, agent,
                 clientReady, faults, finished>>

CheckAfterAck ==
  /\ step = "check"
  /\ Check("checkRecord", "ready")
  /\ SupFrame
  /\ UNCHANGED <<worktree, agentReady, supQueue, agentQueue, agent,
                 clientReady, faults, finished>>

RecordStable ==
  /\ step = "checkRecord"
  /\ AddSnapshot("STABLE")
  /\ step' = "ready"
  /\ SupFrame
  /\ UNCHANGED <<worktree, agentReady, supQueue, agentQueue, agent,
                 clientReady, faults, finished>>

\* Variant: the flag is set and the client is not told.
SendNoReady ==
  /\ step = "ready"
  /\ agentReady' = TRUE
  /\ step' = "ack"
  /\ SupFrame
  /\ UNCHANGED <<versionVars, supQueue, agentQueue, agent, clientReady, faults,
                 finished>>

SendReady ==
  /\ step = "ready"
  /\ agentReady' = TRUE
  /\ SendReadyMessage
  /\ step' = "ack"
  /\ SupFrame
  /\ UNCHANGED <<versionVars, supQueue, agentQueue, agent, faults, finished>>

BasicAck ==
  /\ step = "ack"
  /\ supQueue' = Tail(supQueue)
  /\ step' = "idle"
  /\ SupFrame
  /\ UNCHANGED <<versionVars, agentReady, agentQueue, agent, clientReady,
                 faults, finished>>

\* The next call of the handler is one to git, the database or Docker.
CallsOut ==
  \/ step \in {"commit", "record", "restartCommitted", "restore",
               "restartRestored", "restartFailed", "check", "checkRecord"}
  \/ \E type \in {"commit", "rollback", "error", "ack"} : Receives(type)

\* A restore is `git restore`, then `git clean`, each over many files: cut off, it
\* leaves any mixture of the two versions.
Restoring == step = "restore" \/ Receives("rollback")
HalfRestored == IF Restoring THEN worktree' \in Codes ELSE UNCHANGED worktree

\* The call raises: an error reply if the message asked for one, and the
\* message is dropped.  agent_ready stays false if it was cleared before.
HandlerRaises ==
  /\ CallsOut
  /\ Fault("exception")
  /\ IF Msg.type \in {"commit", "rollback"} THEN Reply ELSE UNCHANGED agent
  /\ agentReady' = (agentReady /\ Msg.type # "error"
                    /\ step # "restartCommitted")
  /\ supQueue' = Tail(supQueue)
  /\ step' = "idle"
  /\ HalfRestored
  /\ SupFrame
  /\ UNCHANGED <<commits, agentQueue, clientReady, finished>>

\* The supervisor process dies and Docker starts a new one.
SupervisorCrash ==
  /\ step # "boot"
  /\ Fault("crash")
  /\ step' = "boot"
  /\ HalfRestored
  /\ SupFrame
  /\ UNCHANGED <<commits, agentReady, supQueue, agentQueue, agent, clientReady,
                 finished>>

Supervisor ==
  \/ BootCheck \/ BootRecord \/ Announce
  \/ HandleStart \/ HandleLogin \/ HandleRollback
  \/ BeginCommit \/ CommitEdit \/ RecordPending \/ RestartCommitted \/ Replay
  \/ BeginError \/ RestoreStable \/ RestartAfterError \/ Report
  \/ BeginAck \/ CheckAfterAck \/ RecordStable \/ SendReady
  \/ BasicAck

-----------------------------------------------------------------------------
(* The agent process.                                                      *)

AgentFrame == UNCHANGED <<commits, step, agentReady, clientVars>>

\* Imports the work tree; a version that cannot be imported never comes up.
AgentBoot ==
  /\ agent.state = "down"
  /\ worktree \notin Unloadable
  /\ agent' = [state |-> "idle", code |-> worktree, head |-> Tip,
               task |-> NoTask]
  /\ AgentFrame
  /\ UNCHANGED <<worktree, supQueue, agentQueue, edits, requests, faults,
                 finished, proven>>

\* The start message is acknowledged before the task is run.
AgentTakes ==
  /\ agent.state = "idle"
  /\ agentQueue # << >>
  /\ agent' = [agent EXCEPT !.state = "running", !.task = Head(agentQueue)]
  /\ agentQueue' = Tail(agentQueue)
  /\ AgentFrame
  /\ UNCHANGED <<worktree, supQueue, edits, requests, faults, finished, proven>>

\* The chat cannot be read from the database: the start message is dropped.
AgentDrops ==
  /\ agent.state = "idle"
  /\ agentQueue # << >>
  /\ Fault("exception")
  /\ agentQueue' = Tail(agentQueue)
  /\ AgentFrame
  /\ UNCHANGED <<worktree, supQueue, agent, edits, requests, finished, proven>>

\* A tool changes the agent's own files.
AgentEdits ==
  /\ agent.state = "running"
  /\ edits < MaxEdits
  /\ edits' = edits + 1
  /\ worktree' \in Codes \ {worktree}
  /\ AgentFrame
  /\ UNCHANGED <<supQueue, agentQueue, agent, requests, faults, finished, proven>>

Request(message) ==
  /\ agent.state = "running"
  /\ requests < MaxRequests
  /\ requests' = requests + 1
  /\ supQueue' = Append(supQueue, message)
  /\ agent' = [agent EXCEPT !.state = "rpc"]
  /\ AgentFrame
  /\ UNCHANGED <<worktree, agentQueue, edits, faults, finished, proven>>

\* version_commit.
RequestCommit ==
  Request([type |-> "commit", task |-> agent.task, id |-> requests + 1,
           head |-> agent.head, code |-> agent.code])

\* version_rollback takes any sha, one version_log showed or not.
RequestRollback ==
  \E sha \in 1 .. Len(commits) :
    Request([type |-> "rollback", sha |-> sha, id |-> requests + 1])

\* request_response gives up after 60 s; the model is told of a tool error.
RequestTimeout ==
  /\ agent.state = "rpc"
  /\ Fault("timeout")
  /\ agent' = [agent EXCEPT !.state = "running"]
  /\ AgentFrame
  /\ UNCHANGED <<worktree, supQueue, agentQueue, edits, requests, finished,
                 proven>>

\* publish_message swallows AMQPError: the report may be lost.
SendReport(message) ==
  \/ supQueue' = Append(supQueue, message) /\ UNCHANGED faults
  \/ UNCHANGED supQueue /\ Fault("lost")

AgentAcks ==
  /\ agent.state = "running"
  /\ SendReport([type |-> "ack", head |-> agent.head, code |-> agent.code])
  /\ agent' = Down
  /\ finished' = finished \cup {agent.task}
  /\ proven' = proven \cup {agent.code}
  /\ AgentFrame
  /\ UNCHANGED <<worktree, agentQueue, edits, requests>>

AgentFails ==
  /\ agent.state = "running"
  /\ SendReport([type |-> "error", task |-> agent.task, head |-> agent.head,
                 code |-> agent.code])
  /\ agent' = Down
  /\ AgentFrame
  /\ UNCHANGED <<worktree, agentQueue, edits, requests, finished, proven>>

\* The container is killed from outside (memory, host); nothing is reported.
AgentDies ==
  /\ agent.state # "down"
  /\ Fault("death")
  /\ agent' = Down
  /\ AgentFrame
  /\ UNCHANGED <<worktree, supQueue, agentQueue, edits, requests, finished,
                 proven>>

Agent ==
  \/ AgentBoot \/ AgentTakes \/ AgentDrops \/ AgentEdits
  \/ RequestCommit \/ RequestRollback \/ RequestTimeout
  \/ AgentAcks \/ AgentFails \/ AgentDies

-----------------------------------------------------------------------------
(* The client (not part of src/): it sends a task when it has been told    *)
(* `ready`, and logs in again whenever it reconnects.  A login is answered *)
(* `ready` even while a task runs.                                         *)

ClientFrame == UNCHANGED <<versionVars, step, agentReady, agentQueue, agent,
                           edits, requests, faults, finished, proven>>

ClientStarts ==
  /\ clientReady
  /\ sent < MaxTasks
  /\ OneAtATime => 1 .. sent \subseteq finished
  /\ sent' = sent + 1
  /\ clientReady' = FALSE
  /\ supQueue' = Append(supQueue, [type |-> "start", task |-> sent + 1])
  /\ UNCHANGED logins
  /\ ClientFrame

ClientLogsIn ==
  /\ logins < MaxLogins
  /\ logins' = logins + 1
  /\ supQueue' = Append(supQueue, [type |-> "login"])
  /\ UNCHANGED <<clientReady, sent>>
  /\ ClientFrame

Next ==
  \/ Supervisor
  \/ HandlerRaises \/ SupervisorCrash
  \/ Agent
  \/ ClientStarts \/ ClientLogsIn

Spec == Init /\ [][Next]_vars

\* Docker restarts what exits, the broker delivers, a handler returns (its
\* calls have timeouts) and a task ends (MAX_ITERATIONS, request timeouts).
FairSpec ==
  /\ Spec
  /\ WF_vars(Supervisor)
  /\ WF_vars(AgentBoot)
  /\ WF_vars(AgentTakes)
  /\ WF_vars(AgentAcks \/ AgentFails)

-----------------------------------------------------------------------------
(* Properties.                                                             *)

\* mark_pending_snapshot_stable and error_handler settle one PENDING snapshot,
\* the latest; so there must never be a second one for them to forget.
AtMostOnePending == \A i, j \in Having("PENDING") : i = j

\* The history the supervisor writes is a VersionLedger: append-only, one
\* probation at a time, final verdicts.
Ledger == INSTANCE VersionLedger WITH ledger <- commits

KeepsLedger == Ledger!Spec

\* Nothing is built on an unproven version: whatever fails or is delivered late,
\* a commit is made when nothing is on probation.  The exception is a supervisor
\* that starts: it records the work tree whatever the last version's state.
BuiltOnSettled ==
  [][Len(commits') > Len(commits) /\ step # "boot"
       => Having("PENDING") = {}]_vars

Settles(sha, status) ==
  /\ sha \in 1 .. Len(commits)
  /\ commits[sha].status = "PENDING"
  /\ commits'[sha].status = status

\* The sender of the message in hand ran version sha, not an older one nor edits
\* made on top of it.
FromVersion(sha) == Msg.head = sha /\ Msg.code = commits[sha].code

\* error_handler rejects a snapshot for a failure of a process that ran that
\* version, not for one that an older process left in the queue.
RejectedForItsOwnFailure ==
  [][\A sha \in 1 .. Len(commits) : Settles(sha, "ERROR") => FromVersion(sha)]_vars

\* A PENDING snapshot becomes STABLE only when a process that ran that version
\* has finished a task or got far enough to commit the next version.
PromotedByItsOwnProcess ==
  [][\A sha \in 1 .. Len(commits) : Settles(sha, "STABLE") => FromVersion(sha)]_vars

\* A task the client sent is always somewhere: in a message, in the agent, or
\* over.  The restarts of a commit and of a rollback must not drop it.
Carried(task) ==
  \/ task \in finished
  \/ Busy /\ agent.task = task
  \/ \E i \in 1 .. Len(agentQueue) : agentQueue[i] = task
  \/ \E i \in 1 .. Len(supQueue) :
       supQueue[i].type \in {"start", "commit", "error"} /\ supQueue[i].task = task
NoTaskLost == \A task \in 1 .. sent : Carried(task)

\* Every task ends in an ack or in an error reported to the client, unless a
\* version that cannot be imported stays in the work tree.
EveryTaskEnds ==
  \A task \in Tasks :
    (sent >= task) ~> (task \in finished \/ [](worktree \in Unloadable))

\* A client that waits, for its task or because a login found no agent, is sent
\* `ready` in the end, by a supervisor that will also answer its next login with
\* it; with the same exception.
WaitEndsInReady ==
  (~clientReady \/ ~agentReady)
    ~> ((clientReady /\ agentReady) \/ [](worktree \in Unloadable))

\* builtin.py on version_log: every version listed is "100% stable".
StableWasProven ==
  \A sha \in Having("STABLE") : commits[sha].code \in proven

\* message_handler.py: without a PENDING snapshot the task "failed on
\* already-stable code".
NoRollbackOnlyOnStableCode ==
  [][step = "idle" /\ step' = "restartFailed" /\ Having("PENDING") = {}
       => \E sha \in Having("STABLE") : commits[sha].code = Msg.code]_vars

\* git_service.py: what a starting supervisor records as STABLE is a base
\* version "and not an unverified edit of the agent".
RestartRecordsNoEdit ==
  [][step = "bootRecord" /\ step' = "announce"
       => commits[Tip].code \in proven]_vars
=============================================================================
