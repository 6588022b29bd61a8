----------------------- MODULE SelfModification_proofs -----------------------
(***************************************************************************)
(* Proofs about SelfModification, for every set of versions and every       *)
(* bound.                                                                  *)
(*                                                                         *)
(* The history, under every choice of faults: IInv says what the handler   *)
(* in progress relies on: that its message is the head of the queue, that  *)
(* no snapshot is PENDING between settling the old one and recording the   *)
(* new one, and that the commit about to get a snapshot has none yet.      *)
(*                                                                         *)
(* The tasks and the verdicts, for a client with one task outstanding:     *)
(* TaskAtOnePlace says that the task is in one message, in agent_queue or  *)
(* in the process, so a process that runs has no message to compete with;  *)
(* HeadKnown that whatever can speak of the version on probation ran it.   *)
(***************************************************************************)
EXTENDS SelfModification, SequenceTheorems, TLAPS

\* Abbreviations of the model that every proof looks through.
USE DEF SendStartCommand, SendReadyMessage, Check, AgentContainerRunning

\* A queued version_rollback names a commit that exists.
QueueOK ==
  \A i \in 1 .. Len(supQueue) :
    supQueue[i].type = "rollback" => supQueue[i].sha \in 1 .. Len(commits)

\* Inside a handler the message in hand is the head of the queue, of the type
\* the handler is for.
HandlerOK ==
  /\ step \notin {"boot", "bootRecord", "announce", "idle"} => supQueue # << >>
  /\ step \in {"commit", "record", "restartCommitted"} => Msg.type = "commit"
  /\ step \in {"restore", "restartRestored", "restartFailed", "report"}
       => Msg.type = "error"
  /\ step = "replay" => Msg.type \in {"commit", "error"}
  /\ step \in {"check", "checkRecord", "ready"} => Msg.type = "ack"

SnapshotOK ==
  /\ AtMostOnePending
  /\ step \in {"commit", "record"} => Having("PENDING") = {}
  /\ step \in {"record", "bootRecord", "checkRecord"}
       => commits # << >> /\ commits[Tip].status = "NONE"

IInv == TypeOK /\ QueueOK /\ HandlerOK /\ SnapshotOK

-----------------------------------------------------------------------------
(* The operators of Versions.                                              *)

\* Updating a status (update_snapshot_status, add_snapshot) keeps the history
\* well formed and touches one row.
LEMMA SetStatusEffect ==
  ASSUME VersionsOK, NEW sha \in 1 .. Len(commits), NEW status \in Statuses,
         SetStatus(sha, status)
  PROVE  /\ commits' \in Seq(CommitRecord)
         /\ Len(commits') = Len(commits)
         /\ commits'[sha].status = status
         /\ \A i \in 1 .. Len(commits) :
              /\ i # sha => commits'[i] = commits[i]
              /\ commits'[i].code = commits[i].code
  <1>1. commits[sha] \in CommitRecord
    BY DEF VersionsOK
  <1>2. [commits[sha] EXCEPT !.status = status] \in CommitRecord
    BY <1>1 DEF CommitRecord, Statuses
  <1>3. commits' = [commits EXCEPT ![sha] = [commits[sha] EXCEPT !.status = status]]
    BY DEF SetStatus
  <1>4. /\ commits' \in Seq(CommitRecord)
        /\ Len(commits') = Len(commits)
        /\ commits'[sha] = [commits[sha] EXCEPT !.status = status]
        /\ \A i \in 1 .. Len(commits) : i # sha => commits'[i] = commits[i]
    BY <1>2, <1>3, ExceptSeq DEF VersionsOK
  <1>5. /\ commits'[sha].status = status
        /\ commits'[sha].code = commits[sha].code
    BY <1>1, <1>4 DEF CommitRecord
  <1> QED
    BY <1>4, <1>5

\* git commit appends a commit without a snapshot.
LEMMA GitCommitEffect ==
  ASSUME VersionsOK, GitCommit
  PROVE  /\ commits' \in Seq(CommitRecord)
         /\ Len(commits') = Len(commits) + 1
         /\ commits'[Len(commits')].status = "NONE"
         /\ \A i \in 1 .. Len(commits) : commits'[i] = commits[i]
  <1> DEFINE new == [code |-> worktree, status |-> "NONE"]
  <1>1. new \in CommitRecord
    BY DEF VersionsOK, CommitRecord, Statuses
  <1>2. commits' = Append(commits, new)
    BY DEF GitCommit
  <1> HIDE DEF new
  <1>3. /\ commits' \in Seq(CommitRecord)
        /\ Len(commits') = Len(commits) + 1
        /\ commits'[Len(commits) + 1] = new
        /\ \A i \in 1 .. Len(commits) : commits'[i] = commits[i]
    BY <1>1, <1>2, AppendProperties DEF VersionsOK
  <1> QED
    BY <1>3 DEF new

\* Nothing is PENDING after mark_pending_snapshot_stable, provided at most one
\* snapshot was.
LEMMA MarkEffect ==
  ASSUME VersionsOK, AtMostOnePending, MarkPendingSnapshotStable
  PROVE  /\ commits' \in Seq(CommitRecord)
         /\ Len(commits') = Len(commits)
         /\ Having("PENDING")' = {}
         /\ \A i \in 1 .. Len(commits) :
              commits[i].status # "PENDING" => commits'[i] = commits[i]
  <1>1. CASE Having("PENDING") = {}
    BY <1>1 DEF MarkPendingSnapshotStable, VersionsOK, Having
  <1>2. CASE Having("PENDING") # {}
    <2>1. PICK sha \in Having("PENDING") : SetStatus(sha, "STABLE")
      BY <1>2 DEF MarkPendingSnapshotStable
    <2>2. sha \in 1 .. Len(commits) /\ commits[sha].status = "PENDING"
      BY <2>1 DEF Having
    <2>3. /\ commits' \in Seq(CommitRecord)
          /\ Len(commits') = Len(commits)
          /\ commits'[sha].status = "STABLE"
          /\ \A i \in 1 .. Len(commits) : i # sha => commits'[i] = commits[i]
      BY <2>1, <2>2, SetStatusEffect DEF Statuses
    <2>4. \A i \in 1 .. Len(commits) : i # sha => commits[i].status # "PENDING"
      BY <2>1 DEF AtMostOnePending, Having
    <2>5. Having("PENDING")' = {}
      BY <2>3, <2>4 DEF Having
    <2> QED
      BY <2>2, <2>3, <2>5
  <1> QED
    BY <1>1, <1>2

-----------------------------------------------------------------------------
(* The state of the composed system.                                       *)

\* What a message of supervisor_queue carries.
LEMMA MessageFields ==
  ASSUME NEW m \in Message
  PROVE  /\ m.type \in {"start", "commit", "error"} => m.task \in Tasks
         /\ m.type \in {"start", "login", "ack", "error", "commit", "rollback"}
  BY DEF Message

\* The message in hand, and the queue without it.
LEMMA MessageInHand ==
  ASSUME TypeOK, supQueue # << >>
  PROVE  /\ Msg \in Message
         /\ Tail(supQueue) \in Seq(Message)
         /\ Msg = supQueue[1]
         /\ Len(supQueue) \in Nat \ {0}
         /\ Len(Tail(supQueue)) = Len(supQueue) - 1
         /\ \A i \in 1 .. Len(Tail(supQueue)) : Tail(supQueue)[i] = supQueue[i + 1]
  <1>1. supQueue \in Seq(Message)
    BY DEF TypeOK
  <1> QED
    BY <1>1, HeadTailProperties, EmptySeq DEF Msg

\* Every change an action makes to the agent's record gives a record.
LEMMA AgentChanges ==
  ASSUME TypeOK
  PROVE  /\ Down \in AgentRecord
         /\ Busy => /\ [agent EXCEPT !.state = "running"] \in AgentRecord
                    /\ [agent EXCEPT !.state = "rpc"] \in AgentRecord
                    /\ agent.task \in Tasks
         /\ \A task \in Tasks :
              agent.state = "idle" =>
                [agent EXCEPT !.state = "running", !.task = task] \in AgentRecord
         /\ agent.code \in Codes
         /\ agent.head \in Nat
  <1>1. agent \in AgentRecord
    BY DEF TypeOK
  <1> QED
    BY <1>1 DEF AgentRecord, Down, Busy, NoTask

\* A reply leaves a well-formed agent record.
LEMMA ReplyType ==
  ASSUME TypeOK, Reply
  PROVE  agent' \in AgentRecord
  BY AgentChanges DEF Reply, Busy, TypeOK

\* The well-formedness of the version history is kept by every action.
LEMMA VersionsStep ==
  ASSUME IInv, [Next]_vars
  PROVE  VersionsOK' /\ Len(commits') \in Nat /\ Len(commits') >= Len(commits)
  <1> USE DEF IInv, TypeOK, HandlerOK, QueueOK, SnapshotOK
  <1>0. Len(commits) \in Nat /\ VersionsOK
    BY DEF VersionsOK
  <1>1. CASE UNCHANGED versionVars
    BY <1>0, <1>1 DEF VersionsOK, versionVars
  <1>2. CASE GitCommit /\ UNCHANGED worktree
    BY <1>0, <1>2, GitCommitEffect DEF VersionsOK
  <1>3. CASE MarkPendingSnapshotStable /\ UNCHANGED worktree
    BY <1>0, <1>3, MarkEffect DEF VersionsOK
  <1>4. ASSUME NEW sha \in 1 .. Len(commits), NEW status \in Statuses,
               SetStatus(sha, status), UNCHANGED worktree
        PROVE  VersionsOK' /\ Len(commits') \in Nat /\ Len(commits') >= Len(commits)
    BY <1>0, <1>4, SetStatusEffect DEF VersionsOK
  <1>5. ASSUME NEW sha \in 1 .. Len(commits), Restore(sha), UNCHANGED commits
        PROVE  VersionsOK' /\ Len(commits') \in Nat /\ Len(commits') >= Len(commits)
    <2>1. commits[sha] \in CommitRecord
      BY <1>0 DEF VersionsOK
    <2>2. worktree' \in Codes
      BY <1>5, <2>1 DEF Restore, CommitRecord
    <2> QED
      BY <1>0, <1>5, <2>2 DEF VersionsOK
  <1>6. CASE BootCheck \/ CommitEdit \/ CheckAfterAck
    BY <1>1, <1>2, <1>6 DEF BootCheck, CommitEdit, CheckAfterAck, versionVars
  <1>7. CASE BootRecord \/ RecordPending \/ RecordStable
    <2>1. Tip \in 1 .. Len(commits)
      BY <1>0, <1>7, EmptySeq
      DEF BootRecord, RecordPending, RecordStable, Tip, VersionsOK
    <2> QED
      BY <1>4, <1>7, <2>1
      DEF BootRecord, RecordPending, RecordStable, AddSnapshot, Statuses
  <1>8. CASE BeginCommit \/ BeginAck
    BY <1>1, <1>3, <1>8 DEF BeginCommit, BeginAck, versionVars
  <1>9. CASE BeginError
    BY <1>1, <1>4, <1>9 DEF BeginError, Having, Statuses, versionVars
  <1>10. CASE HandleRollback
    <2>1. Msg.sha \in 1 .. Len(commits)
      BY <1>10, MessageInHand DEF HandleRollback, Receives
    <2> QED
      BY <1>5, <1>10, <2>1 DEF HandleRollback
  <1>11. CASE RestoreStable
    BY <1>5, <1>11 DEF RestoreStable, Having
  <1>12. CASE AgentEdits
    BY <1>0, <1>12 DEF AgentEdits, AgentFrame, VersionsOK
  <1>13. CASE UNCHANGED vars
    BY <1>1, <1>13 DEF vars, versionVars
  <1>14. CASE \/ Announce \/ HandleStart \/ HandleLogin \/ RestartCommitted
              \/ Replay \/ RestartAfterError \/ Report \/ SendReady \/ BasicAck
    BY <1>1, <1>14
    DEF Announce, HandleStart, HandleLogin, RestartCommitted, Replay,
        RestartAfterError, Report, SendReady, BasicAck
  <1>15. CASE \/ AgentBoot \/ AgentTakes \/ AgentDrops \/ RequestCommit \/ RequestRollback
              \/ RequestTimeout \/ AgentAcks \/ AgentFails \/ AgentDies
              \/ ClientStarts \/ ClientLogsIn
    BY <1>1, <1>15
    DEF AgentBoot, AgentTakes, AgentDrops, RequestCommit, RequestRollback, Request,
        RequestTimeout, AgentAcks, AgentFails, AgentDies, ClientStarts,
        ClientLogsIn, AgentFrame, ClientFrame, versionVars
  <1>16. CASE HandlerRaises \/ SupervisorCrash
    <2>1. UNCHANGED commits /\ worktree' \in Codes
      BY <1>0, <1>16 DEF HandlerRaises, SupervisorCrash, HalfRestored, VersionsOK
    <2> QED
      BY <1>0, <2>1 DEF VersionsOK
  <1> QED
    BY <1>6, <1>7, <1>8, <1>9, <1>10, <1>11, <1>12, <1>13, <1>14, <1>15, <1>16
    DEF Next, Supervisor, Agent

\* A fault is counted within its bound.
LEMMA FaultType ==
  ASSUME TypeOK, NEW kind, Fault(kind)
  PROVE  faults' \in 0 .. MaxFaults
  BY BoundsAssumption DEF Fault, TypeOK

\* The type invariant is kept by every action.
LEMMA TypeStep ==
  ASSUME IInv, [Next]_vars
  PROVE  TypeOK'
  <1> USE DEF IInv
  <1>1. VersionsOK'
    BY VersionsStep
  <1>2. CASE \/ BootCheck \/ BootRecord \/ Announce \/ HandleLogin \/ RecordPending
             \/ RestoreStable \/ BeginAck \/ CheckAfterAck \/ RecordStable
             \/ SendReady \/ BeginError
    BY <1>1, <1>2
    DEF BootCheck, BootRecord, Announce, HandleLogin, RecordPending,
        RestoreStable, BeginAck, CheckAfterAck, RecordStable, SendReady,
        BeginError, SupFrame, TypeOK, Steps
  <1>3. CASE HandleStart \/ Replay
    <2>1. Msg.task \in Tasks
      BY <1>3, MessageInHand, MessageFields
      DEF HandleStart, Replay, Receives, HandlerOK
    <2>2. agentQueue' \in Seq(Tasks)
      <3>1. agentQueue \in Seq(Tasks) /\ agentQueue' = Append(agentQueue, Msg.task)
        BY <1>3 DEF HandleStart, Replay, TypeOK
      <3> QED
        BY <2>1, <3>1, AppendProperties
    <2>3. CASE HandleStart
      BY <1>1, <2>2, <2>3 DEF HandleStart, SupFrame, TypeOK, Steps
    <2>4. CASE Replay
      BY <1>1, <2>2, <2>4 DEF Replay, SupFrame, TypeOK, Steps
    <2> QED
      BY <1>3, <2>3, <2>4
  <1>4. CASE BeginCommit \/ CommitEdit \/ HandleRollback
    <2>1. agent' \in AgentRecord
      BY <1>4, ReplyType DEF BeginCommit, CommitEdit, HandleRollback, TypeOK
    <2> QED
      BY <1>1, <1>4, <2>1
      DEF BeginCommit, CommitEdit, HandleRollback, SupFrame, TypeOK, Steps
  <1>5. CASE RestartCommitted \/ RestartAfterError
    BY <1>1, <1>5, AgentChanges
    DEF RestartCommitted, RestartAfterError, StartAgent, SupFrame, TypeOK, Steps
  <1>6. CASE Report
    <2>1. Msg.task \in Tasks
      BY <1>6, MessageInHand, MessageFields DEF Report, HandlerOK
    <2> QED
      BY <1>1, <1>6, <2>1 DEF Report, SupFrame, TypeOK, Steps
  <1>7. CASE BasicAck
    <2>1. supQueue # << >>
      BY <1>7 DEF BasicAck, HandlerOK
    <2> QED
      BY <1>1, <1>7, <2>1, MessageInHand DEF BasicAck, SupFrame, TypeOK, Steps
  <1>8. CASE HandlerRaises
    <2>1. supQueue # << >>
      BY <1>8 DEF HandlerRaises, CallsOut, Receives, HandlerOK
    <2>2. agent' \in AgentRecord
      BY <1>8, ReplyType DEF HandlerRaises, TypeOK
    <2>3. faults' \in 0 .. MaxFaults
      BY <1>8, BoundsAssumption DEF HandlerRaises, Fault, TypeOK
    <2> QED
      BY <1>1, <1>8, <2>1, <2>2, <2>3, MessageInHand
      DEF HandlerRaises, SupFrame, TypeOK, Steps
  <1>9. CASE SupervisorCrash
    BY <1>1, <1>9, BoundsAssumption
    DEF SupervisorCrash, Fault, SupFrame, TypeOK, Steps
  <1>10. CASE AgentBoot
    <2>1. agent' \in AgentRecord
      BY <1>10 DEF AgentBoot, AgentRecord, TypeOK, VersionsOK, Tip
    <2> QED
      BY <1>1, <1>10, <2>1 DEF AgentBoot, AgentFrame, clientVars, TypeOK
  <1>11. CASE AgentTakes
    <2>1. Head(agentQueue) \in Tasks /\ Tail(agentQueue) \in Seq(Tasks)
      BY <1>11, HeadTailProperties DEF AgentTakes, TypeOK
    <2> QED
      BY <1>1, <1>11, <2>1, AgentChanges
      DEF AgentTakes, AgentFrame, clientVars, TypeOK
  <1>11a. CASE AgentDrops
    <2>1. Tail(agentQueue) \in Seq(Tasks)
      BY <1>11a, HeadTailProperties DEF AgentDrops, TypeOK
    <2> QED
      BY <1>1, <1>11a, <2>1, FaultType
      DEF AgentDrops, AgentFrame, clientVars, TypeOK
  <1>12. CASE AgentEdits
    BY <1>1, <1>12, BoundsAssumption DEF AgentEdits, AgentFrame, clientVars, TypeOK
  <1>13. ASSUME NEW message \in Message, Request(message)
         PROVE  TypeOK'
    <2>1. agent' \in AgentRecord
      BY <1>13, AgentChanges DEF Request, Busy
    <2>2. requests' \in 0 .. MaxRequests
      BY <1>13, BoundsAssumption DEF Request, TypeOK
    <2>3. supQueue' \in Seq(Message)
      BY <1>13, AppendProperties DEF Request, TypeOK
    <2> QED
      BY <1>1, <1>13, <2>1, <2>2, <2>3 DEF Request, AgentFrame, clientVars, TypeOK
  <1>14. CASE RequestCommit
    <2>1. [type |-> "commit", task |-> agent.task, id |-> requests + 1,
           head |-> agent.head, code |-> agent.code] \in Message
      BY <1>14, AgentChanges, BoundsAssumption
      DEF RequestCommit, Request, Busy, TypeOK, Message
    <2> QED
      BY <1>13, <1>14, <2>1 DEF RequestCommit
  <1>15. CASE RequestRollback
    <2>1. PICK sha \in 1 .. Len(commits) :
            Request([type |-> "rollback", sha |-> sha, id |-> requests + 1])
      BY <1>15 DEF RequestRollback
    <2>2. [type |-> "rollback", sha |-> sha, id |-> requests + 1] \in Message
      BY <2>1, BoundsAssumption DEF Having, TypeOK, Message
    <2> QED
      BY <1>13, <2>1, <2>2
  <1>16. CASE RequestTimeout
    BY <1>1, <1>16, AgentChanges, BoundsAssumption
    DEF RequestTimeout, Fault, Busy, AgentFrame, clientVars, TypeOK
  <1>17. ASSUME NEW message \in Message, SendReport(message)
         PROVE  supQueue' \in Seq(Message) /\ faults' \in 0 .. MaxFaults
    <2>1. CASE supQueue' = Append(supQueue, message) /\ UNCHANGED faults
      BY <1>17, <2>1, AppendProperties DEF TypeOK
    <2>2. CASE UNCHANGED supQueue /\ Fault("lost")
      BY <2>2, FaultType DEF TypeOK
    <2> QED
      BY <1>17, <2>1, <2>2 DEF SendReport
  <1>18. CASE AgentAcks
    <2>1. [type |-> "ack", head |-> agent.head, code |-> agent.code] \in Message
      BY AgentChanges DEF Message
    <2>2. agent.task \in Tasks
      BY <1>18, AgentChanges DEF AgentAcks, Busy
    <2>3. supQueue' \in Seq(Message) /\ faults' \in 0 .. MaxFaults
      BY <1>17, <1>18, <2>1 DEF AgentAcks
    <2> QED
      BY <1>1, <1>18, <2>2, <2>3, AgentChanges
      DEF AgentAcks, AgentFrame, clientVars, TypeOK
  <1>19. CASE AgentFails
    <2>1. [type |-> "error", task |-> agent.task, head |-> agent.head,
           code |-> agent.code] \in Message
      BY <1>19, AgentChanges DEF AgentFails, Busy, Message
    <2>2. supQueue' \in Seq(Message) /\ faults' \in 0 .. MaxFaults
      BY <1>17, <1>19, <2>1 DEF AgentFails
    <2> QED
      BY <1>1, <1>19, <2>2, AgentChanges
      DEF AgentFails, AgentFrame, clientVars, TypeOK
  <1>20. CASE AgentDies
    <2>1. faults' \in 0 .. MaxFaults /\ agent' \in AgentRecord
      BY <1>20, FaultType, AgentChanges DEF AgentDies
    <2> QED
      BY <1>1, <1>20, <2>1 DEF AgentDies, AgentFrame, clientVars, TypeOK
  <1>21. CASE ClientStarts
    <2>1. [type |-> "start", task |-> sent + 1] \in Message /\ sent' \in 0 .. MaxTasks
      BY <1>21, BoundsAssumption DEF ClientStarts, TypeOK, Message, Tasks
    <2>2. supQueue' \in Seq(Message)
      BY <1>21, <2>1, AppendProperties DEF ClientStarts, TypeOK
    <2> QED
      BY <1>1, <1>21, <2>1, <2>2 DEF ClientStarts, ClientFrame, TypeOK
  <1>22. CASE ClientLogsIn
    <2>1. [type |-> "login"] \in Message /\ logins' \in 0 .. MaxLogins
      BY <1>22, BoundsAssumption DEF ClientLogsIn, TypeOK, Message
    <2>2. supQueue' \in Seq(Message)
      BY <1>22, <2>1, AppendProperties DEF ClientLogsIn, TypeOK
    <2> QED
      BY <1>1, <1>22, <2>1, <2>2 DEF ClientLogsIn, ClientFrame, TypeOK
  <1>23. CASE UNCHANGED vars
    BY <1>1, <1>23 DEF vars, TypeOK
  <1> QED
    BY <1>2, <1>3, <1>4, <1>5, <1>6, <1>7, <1>8, <1>9, <1>10, <1>11, <1>11a, <1>12, <1>14,
       <1>15, <1>16, <1>18, <1>19, <1>20, <1>21, <1>22, <1>23
    DEF Next, Supervisor, Agent

\* Every queued rollback names a commit, for commits are never removed.
LEMMA QueueStep ==
  ASSUME IInv, [Next]_vars
  PROVE  QueueOK'
  <1>1. Len(commits) \in Nat /\ Len(commits') \in Nat /\ Len(commits) <= Len(commits')
    BY VersionsStep DEF IInv, TypeOK, VersionsOK
  <1>2. supQueue \in Seq(Message) /\ Len(supQueue) \in Nat
    BY DEF IInv, TypeOK
  <1>3. QueueOK /\ TypeOK /\ HandlerOK
    BY DEF IInv
  <1>4. CASE UNCHANGED supQueue
    BY <1>1, <1>3, <1>4 DEF QueueOK
  <1>5. CASE supQueue # << >> /\ supQueue' = Tail(supQueue)
    BY <1>1, <1>2, <1>3, <1>5, MessageInHand DEF QueueOK
  <1>6. ASSUME NEW message \in Message, supQueue' = Append(supQueue, message),
               message.type = "rollback" => message.sha \in 1 .. Len(commits)
        PROVE  QueueOK'
    <2>1. /\ Len(supQueue') = Len(supQueue) + 1
          /\ supQueue'[Len(supQueue) + 1] = message
          /\ \A i \in 1 .. Len(supQueue) : supQueue'[i] = supQueue[i]
      BY <1>2, <1>6, AppendProperties
    <2> QED
      BY <1>1, <1>2, <1>3, <1>6, <2>1 DEF QueueOK
  <1>7. CASE BasicAck
    BY <1>3, <1>5, <1>7 DEF BasicAck, HandlerOK
  <1>8. CASE HandlerRaises
    BY <1>3, <1>5, <1>8 DEF HandlerRaises, CallsOut, Receives, HandlerOK
  <1>9. CASE RequestCommit
    <2> DEFINE message == [type |-> "commit", task |-> agent.task,
                           id |-> requests + 1, head |-> agent.head,
                           code |-> agent.code]
    <2>1. message \in Message /\ message.type # "rollback"
      BY <1>3, <1>9, AgentChanges, BoundsAssumption
      DEF RequestCommit, Request, Busy, TypeOK, Message
    <2>2. supQueue' = Append(supQueue, message)
      BY <1>9 DEF RequestCommit, Request
    <2> QED
      BY <1>6, <2>1, <2>2
  <1>10. CASE RequestRollback
    <2>1. PICK sha \in 1 .. Len(commits) :
            Request([type |-> "rollback", sha |-> sha, id |-> requests + 1])
      BY <1>10 DEF RequestRollback
    <2> DEFINE message == [type |-> "rollback", sha |-> sha, id |-> requests + 1]
    <2>2. message \in Message /\ message.sha \in 1 .. Len(commits)
      BY <1>3, BoundsAssumption DEF Having, TypeOK, Message
    <2>3. supQueue' = Append(supQueue, message)
      BY <2>1 DEF Request
    <2> QED
      BY <1>6, <2>2, <2>3
  <1>11. CASE AgentAcks
    <2> DEFINE message == [type |-> "ack", head |-> agent.head, code |-> agent.code]
    <2>1. message \in Message /\ message.type # "rollback"
      BY <1>3, AgentChanges DEF Message
    <2>2. supQueue' = Append(supQueue, message) \/ UNCHANGED supQueue
      BY <1>11 DEF AgentAcks, SendReport
    <2> QED
      BY <1>4, <1>6, <2>1, <2>2
  <1>12. CASE AgentFails
    <2> DEFINE message == [type |-> "error", task |-> agent.task,
                           head |-> agent.head, code |-> agent.code]
    <2>1. message \in Message /\ message.type # "rollback"
      BY <1>3, <1>12, AgentChanges DEF AgentFails, Busy, Message
    <2>2. supQueue' = Append(supQueue, message) \/ UNCHANGED supQueue
      BY <1>12 DEF AgentFails, SendReport
    <2> QED
      BY <1>4, <1>6, <2>1, <2>2
  <1>13. CASE ClientStarts
    <2> DEFINE message == [type |-> "start", task |-> sent + 1]
    <2>1. message \in Message /\ message.type # "rollback"
      BY <1>3, <1>13, BoundsAssumption DEF ClientStarts, TypeOK, Message, Tasks
    <2>2. supQueue' = Append(supQueue, message)
      BY <1>13 DEF ClientStarts
    <2> QED
      BY <1>6, <2>1, <2>2
  <1>14. CASE ClientLogsIn
    <2> DEFINE message == [type |-> "login"]
    <2>1. message \in Message /\ message.type # "rollback"
      BY DEF Message
    <2>2. supQueue' = Append(supQueue, message)
      BY <1>14 DEF ClientLogsIn
    <2> QED
      BY <1>6, <2>1, <2>2
  <1>15. CASE \/ BootCheck \/ BootRecord \/ Announce \/ HandleStart
              \/ HandleLogin \/ HandleRollback \/ BeginCommit \/ CommitEdit
              \/ RecordPending \/ RestartCommitted \/ Replay \/ BeginError
              \/ RestoreStable \/ RestartAfterError \/ Report \/ BeginAck
              \/ CheckAfterAck \/ RecordStable \/ SendReady \/ SupervisorCrash
    BY <1>4, <1>15
    DEF BootCheck, BootRecord, Announce, HandleStart, HandleLogin,
        HandleRollback, BeginCommit, CommitEdit, RecordPending,
        RestartCommitted, Replay, BeginError, RestoreStable, RestartAfterError,
        Report, BeginAck, CheckAfterAck, RecordStable, SendReady, SupervisorCrash
  <1>16. CASE \/ AgentBoot \/ AgentTakes \/ AgentDrops \/ AgentEdits
              \/ RequestTimeout \/ AgentDies \/ UNCHANGED vars
    BY <1>4, <1>16
    DEF AgentBoot, AgentTakes, AgentDrops, AgentEdits, RequestTimeout,
        AgentDies, vars
  <1> QED
    BY <1>7, <1>8, <1>9, <1>10, <1>11, <1>12, <1>13, <1>14, <1>15, <1>16
    DEF Next, Supervisor, Agent

\* The agent and the client only append to supervisor_queue.
LEMMA OthersAppend ==
  ASSUME IInv, \/ Agent \/ ClientStarts \/ ClientLogsIn
  PROVE  /\ UNCHANGED <<step, commits>>
         /\ UNCHANGED supQueue \/ \E message : supQueue' = Append(supQueue, message)
  BY DEF Agent, AgentBoot, AgentTakes, AgentDrops, AgentEdits, RequestCommit,
         RequestRollback, Request, RequestTimeout, AgentAcks, AgentFails,
         SendReport, AgentDies, ClientStarts, ClientLogsIn, AgentFrame,
         ClientFrame, versionVars

\* A handler works on the head of the queue from its first step to its last.
LEMMA HandlerStep ==
  ASSUME IInv, [Next]_vars
  PROVE  HandlerOK'
  <1>1. HandlerOK /\ supQueue \in Seq(Message)
    BY DEF IInv, TypeOK
  <1>2. CASE Agent \/ ClientStarts \/ ClientLogsIn
    <2>1. CASE UNCHANGED supQueue
      BY <1>1, <1>2, <2>1, OthersAppend DEF HandlerOK, Msg
    <2>2. ASSUME NEW message, supQueue' = Append(supQueue, message)
          PROVE  HandlerOK'
      <3>1. supQueue' \in Seq(Message)
        BY TypeStep DEF TypeOK
      <3>2. supQueue # << >> => supQueue' # << >> /\ Msg' = Msg
        BY <1>1, <2>2, <3>1 DEF Msg
      <3> QED
        BY <1>1, <1>2, <3>2, OthersAppend, <2>2 DEF HandlerOK
    <2> QED
      BY <1>2, <2>1, <2>2, OthersAppend
  <1>3. CASE step' = "idle"
    BY <1>3 DEF HandlerOK
  <1>4. CASE \/ BootCheck \/ BootRecord \/ SupervisorCrash
    BY <1>4 DEF BootCheck, BootRecord, SupervisorCrash, HandlerOK
  <1>5. CASE Announce \/ BasicAck \/ HandlerRaises
    BY <1>3, <1>5 DEF Announce, BasicAck, HandlerRaises
  <1>6. CASE \/ HandleStart \/ HandleLogin \/ HandleRollback \/ BeginCommit
             \/ BeginError \/ BeginAck
    BY <1>6
    DEF HandleStart, HandleLogin, HandleRollback, BeginCommit, BeginError,
        BeginAck, Receives, HandlerOK, Msg
  <1>7. CASE \/ CommitEdit \/ RecordPending \/ RestartCommitted \/ Replay
             \/ RestoreStable \/ RestartAfterError \/ Report \/ CheckAfterAck
             \/ RecordStable \/ SendReady
    BY <1>1, <1>7
    DEF CommitEdit, RecordPending, RestartCommitted, Replay, RestoreStable,
        RestartAfterError, Report, CheckAfterAck, RecordStable, SendReady,
        HandlerOK, Msg
  <1>8. CASE UNCHANGED vars
    BY <1>1, <1>8 DEF vars, HandlerOK, Msg
  <1> QED
    BY <1>2, <1>4, <1>5, <1>6, <1>7, <1>8 DEF Next, Supervisor

\* A commit puts nothing on probation, and has no snapshot yet.
LEMMA CommitEffect ==
  ASSUME VersionsOK, GitCommit
  PROVE  /\ Having("PENDING")' = Having("PENDING")
         /\ commits' # << >> /\ commits'[Tip'].status = "NONE"
         /\ \A i \in 1 .. Len(commits) : commits'[i] = commits[i]
  <1>1. /\ commits' \in Seq(CommitRecord)
        /\ Len(commits') = Len(commits) + 1
        /\ commits'[Len(commits')].status = "NONE"
        /\ \A i \in 1 .. Len(commits) : commits'[i] = commits[i]
    BY GitCommitEffect
  <1>2. Len(commits) \in Nat
    BY DEF VersionsOK
  <1>3. Having("PENDING")' = Having("PENDING")
    BY <1>1, <1>2 DEF Having
  <1>4. commits' # << >>
    BY <1>1, <1>2
  <1> QED
    BY <1>1, <1>3, <1>4 DEF Tip

\* A snapshot is written for HEAD only.
LEMMA SnapshotEffect ==
  ASSUME VersionsOK, SnapshotOK, NEW status \in {"STABLE", "PENDING"},
         AddSnapshot(status), step \in {"record", "bootRecord", "checkRecord"}
  PROVE  /\ Having("PENDING")' \subseteq
              Having("PENDING") \cup (IF status = "PENDING" THEN {Tip} ELSE {})
         /\ Tip' = Tip
         /\ \A i \in Having("PENDING") : commits'[i] = commits[i]
  <1>1. Tip \in 1 .. Len(commits)
    BY EmptySeq DEF SnapshotOK, Tip, VersionsOK
  <1>2. /\ Len(commits') = Len(commits)
        /\ commits'[Tip].status = status
        /\ \A i \in 1 .. Len(commits) : i # Tip => commits'[i] = commits[i]
    BY <1>1, SetStatusEffect DEF AddSnapshot, Statuses
  <1>3. Tip \notin Having("PENDING")
    BY DEF SnapshotOK, Having
  <1> QED
    BY <1>2, <1>3 DEF Having, Tip

\* At most one PENDING snapshot, none while the next one is being prepared.
LEMMA SnapshotStep ==
  ASSUME IInv, [Next]_vars
  PROVE  SnapshotOK'
  <1>1. SnapshotOK /\ VersionsOK /\ HandlerOK /\ Len(commits) \in Nat
    BY DEF IInv, TypeOK, VersionsOK
  <1>2. CASE UNCHANGED commits /\ (step' = step \/ step' \notin
               {"commit", "record", "bootRecord", "checkRecord"})
    BY <1>1, <1>2 DEF SnapshotOK, AtMostOnePending, Having, Tip
  <1>3. GitCommit => /\ Having("PENDING")' = Having("PENDING")
                     /\ commits' # << >> /\ commits'[Tip'].status = "NONE"
    BY <1>1, CommitEffect
  <1>4. CASE BootCheck
    BY <1>1, <1>2, <1>3, <1>4 DEF BootCheck, SnapshotOK, AtMostOnePending
  <1>5. CASE CommitEdit
    BY <1>1, <1>2, <1>3, <1>5 DEF CommitEdit, SnapshotOK, AtMostOnePending
  <1>6. CASE CheckAfterAck
    BY <1>1, <1>2, <1>3, <1>6 DEF CheckAfterAck, SnapshotOK, AtMostOnePending
  <1>7. ASSUME NEW status \in {"STABLE", "PENDING"}, AddSnapshot(status),
               step \in {"record", "bootRecord", "checkRecord"}
        PROVE  Having("PENDING")' \subseteq
                 Having("PENDING") \cup (IF status = "PENDING" THEN {Tip} ELSE {})
    BY <1>1, <1>7, SnapshotEffect
  <1>8. CASE BootRecord \/ RecordStable
    BY <1>1, <1>7, <1>8
    DEF BootRecord, RecordStable, SnapshotOK, AtMostOnePending
  <1>9. CASE RecordPending
    <2>1. Having("PENDING") = {}
      BY <1>1, <1>9 DEF RecordPending, SnapshotOK
    <2>2. Having("PENDING")' \subseteq {Tip}
      BY <1>7, <1>9, <2>1 DEF RecordPending
    <2> QED
      BY <1>9, <2>2 DEF RecordPending, SnapshotOK, AtMostOnePending
  <1>10. CASE MarkPendingSnapshotStable /\ step' \in {"commit", "check"}
    BY <1>1, <1>10, MarkEffect DEF SnapshotOK, AtMostOnePending
  <1>11. CASE BeginCommit
    BY <1>2, <1>10, <1>11 DEF BeginCommit
  <1>12. CASE BeginAck
    BY <1>10, <1>12 DEF BeginAck
  <1>13. CASE BeginError
    <2>1. CASE UNCHANGED commits
      BY <1>2, <1>13, <2>1 DEF BeginError
    <2>2. CASE \E sha \in Having("PENDING") :
                 Latest(sha, "PENDING") /\ SetStatus(sha, "ERROR")
      <3>1. PICK sha \in Having("PENDING") : SetStatus(sha, "ERROR")
        BY <2>2
      <3>2. /\ Len(commits') = Len(commits)
            /\ commits'[sha].status = "ERROR"
            /\ \A i \in 1 .. Len(commits) : i # sha => commits'[i] = commits[i]
        BY <1>1, <3>1, SetStatusEffect DEF Having, Statuses
      <3>3. Having("PENDING")' \subseteq Having("PENDING")
        BY <3>2 DEF Having
      <3> QED
        BY <1>1, <1>13, <3>3 DEF BeginError, SnapshotOK, AtMostOnePending
    <2> QED
      BY <1>13, <2>1, <2>2 DEF BeginError
  <1>14. CASE \/ Announce \/ HandleStart \/ HandleLogin \/ HandleRollback
              \/ RestartCommitted \/ Replay \/ RestoreStable
              \/ RestartAfterError \/ Report \/ SendReady \/ BasicAck
              \/ HandlerRaises \/ SupervisorCrash
    BY <1>2, <1>14
    DEF Announce, HandleStart, HandleLogin, HandleRollback, RestartCommitted,
        Replay, RestoreStable, RestartAfterError, Report, SendReady, BasicAck,
        HandlerRaises, SupervisorCrash, versionVars
  <1>15. CASE Agent \/ ClientStarts \/ ClientLogsIn
    BY <1>2, <1>15, OthersAppend
  <1>16. CASE UNCHANGED vars
    BY <1>2, <1>16 DEF vars
  <1> QED
    BY <1>4, <1>5, <1>6, <1>8, <1>9, <1>11, <1>12, <1>13, <1>14, <1>15, <1>16
    DEF Next, Supervisor

-----------------------------------------------------------------------------
(* The theorems.                                                           *)

\* The inductive invariant holds initially ...
LEMMA Initially == Init => IInv
  <1> SUFFICES ASSUME Init PROVE IInv
    OBVIOUS
  <1>1. VersionsOK
    BY BaseAssumption, EmptySeq DEF Init, VersionsInit, VersionsOK
  <1>2. TypeOK
    <2>1. supQueue \in Seq(Message) /\ agentQueue \in Seq(Tasks)
      BY EmptySeq DEF Init
    <2>2. agent \in AgentRecord
      BY BaseAssumption DEF Init, AgentRecord, NoTask
    <2>3. /\ sent \in 0 .. MaxTasks
          /\ logins \in 0 .. MaxLogins
          /\ edits \in 0 .. MaxEdits
          /\ requests \in 0 .. MaxRequests
          /\ faults \in 0 .. MaxFaults
      BY BoundsAssumption DEF Init
    <2> QED
      BY <1>1, <2>1, <2>2, <2>3, BaseAssumption DEF Init, TypeOK, Steps
  <1>3. QueueOK
    BY EmptySeq DEF Init, QueueOK
  <1>4. HandlerOK
    BY DEF Init, HandlerOK
  <1>5. SnapshotOK
    BY EmptySeq DEF Init, VersionsInit, SnapshotOK, AtMostOnePending, Having
  <1> QED
    BY <1>2, <1>3, <1>4, <1>5 DEF IInv

\* ... and every step of the system keeps it.
LEMMA Inductive == IInv /\ [Next]_vars => IInv'
  BY TypeStep, QueueStep, HandlerStep, SnapshotStep DEF IInv

\* The state of the supervisor, the queues, the agent and the version history
\* is well formed in every reachable state.
THEOREM TypeCorrect == Spec => []TypeOK
  <1>1. IInv => TypeOK
    BY DEF IInv
  <1> QED
    BY <1>1, Initially, Inductive, PTL DEF Spec

\* Whatever the agent edits, whatever is lost, repeated after a crash or fails
\* half way, there is never a second PENDING snapshot.
THEOREM OneProbation == Spec => []AtMostOnePending
  <1>1. IInv => AtMostOnePending
    BY DEF IInv, SnapshotOK
  <1> QED
    BY <1>1, Initially, Inductive, PTL DEF Spec

\* Every step of the system is a step of VersionLedger or leaves it alone.
LEMMA LedgerStep == IInv /\ [Next]_vars => [Ledger!Next]_commits
  <1> SUFFICES ASSUME IInv, [Next]_vars
               PROVE  [Ledger!Next]_commits
    OBVIOUS
  <1>1. SnapshotOK /\ VersionsOK
    BY DEF IInv, TypeOK
  <1>2. GitCommit => Ledger!Add
    BY <1>1 DEF GitCommit, Ledger!Add, VersionsOK
  <1>3. ASSUME NEW sha \in Having("PENDING"), NEW verdict \in {"STABLE", "ERROR"},
               SetStatus(sha, verdict)
        PROVE  Ledger!Next
    <2>1. sha \in Ledger!OnProbation
      BY DEF Having, Ledger!OnProbation
    <2>2. Ledger!Decide(verdict)
      BY <1>3, <2>1 DEF SetStatus, Ledger!Decide
    <2> QED
      BY <2>2 DEF Ledger!Next
  <1>4. ASSUME NEW status \in {"PENDING", "STABLE"}, AddSnapshot(status),
               step \in {"record", "bootRecord", "checkRecord"},
               status = "PENDING" => step = "record"
        PROVE  Ledger!Next
    <2>1. status = "PENDING" => Ledger!OnProbation = {}
      BY <1>1, <1>4 DEF SnapshotOK, Having, Ledger!OnProbation
    <2>2. Ledger!Register(status)
      BY <1>1, <1>4, <2>1
      DEF AddSnapshot, SetStatus, Tip, SnapshotOK, Ledger!Register
    <2> QED
      BY <2>2 DEF Ledger!Next
  <1>5. MarkPendingSnapshotStable => [Ledger!Next]_commits
    BY <1>3 DEF MarkPendingSnapshotStable
  <1>6. CASE BootCheck \/ CommitEdit \/ CheckAfterAck
    BY <1>2, <1>6 DEF BootCheck, CommitEdit, CheckAfterAck, Ledger!Next
  <1>7. CASE BootRecord \/ RecordPending \/ RecordStable
    BY <1>4, <1>7 DEF BootRecord, RecordPending, RecordStable
  <1>8. CASE BeginCommit \/ BeginAck
    BY <1>5, <1>8 DEF BeginCommit, BeginAck
  <1>9. CASE BeginError
    BY <1>3, <1>9 DEF BeginError
  <1>10. CASE \/ Announce \/ HandleStart \/ HandleLogin \/ HandleRollback
              \/ RestartCommitted \/ Replay \/ RestoreStable
              \/ RestartAfterError \/ Report \/ SendReady \/ BasicAck
              \/ HandlerRaises \/ SupervisorCrash
    BY <1>10
    DEF Announce, HandleStart, HandleLogin, HandleRollback, RestartCommitted,
        Replay, RestoreStable, RestartAfterError, Report, SendReady, BasicAck,
        HandlerRaises, SupervisorCrash, versionVars
  <1>11. CASE Agent \/ ClientStarts \/ ClientLogsIn
    BY <1>11, OthersAppend
  <1>12. CASE UNCHANGED vars
    BY <1>12 DEF vars
  <1> QED
    BY <1>6, <1>7, <1>8, <1>9, <1>10, <1>11, <1>12 DEF Next, Supervisor

\* The supervisor implements VersionLedger: what it has recorded as STABLE or
\* ERROR it never revises, and it writes no snapshot but HEAD's.
THEOREM LedgerKept == Spec => KeepsLedger
  <1>1. Init => Ledger!Init
    BY DEF Init, VersionsInit, Ledger!Init
  <1> QED
    BY <1>1, Initially, Inductive, LedgerStep, PTL DEF Spec, KeepsLedger, Ledger!Spec

\* Between the settling of an acknowledged version and the check of the work
\* tree nothing is on probation.
AckSettled == step = "check" => Having("PENDING") = {}

LEMMA AckSettledStep == IInv /\ AckSettled /\ [Next]_vars => AckSettled'
  <1> SUFFICES ASSUME IInv, AckSettled, [Next]_vars
               PROVE  AckSettled'
    OBVIOUS
  <1>1. CASE BeginAck
    BY <1>1, MarkEffect DEF BeginAck, IInv, TypeOK, SnapshotOK, AckSettled
  <1>2. CASE UNCHANGED <<step, commits>>
    BY <1>2 DEF AckSettled, Having
  <1>3. CASE step' # "check"
    BY <1>3 DEF AckSettled
  <1>4. CASE Supervisor \/ HandlerRaises \/ SupervisorCrash
    BY <1>1, <1>3, <1>4
    DEF Supervisor, BootCheck, BootRecord, Announce, HandleStart, HandleLogin,
        HandleRollback, BeginCommit, CommitEdit, RecordPending,
        RestartCommitted, Replay, BeginError, RestoreStable,
        RestartAfterError, Report, CheckAfterAck, RecordStable, SendReady,
        BasicAck, HandlerRaises, SupervisorCrash
  <1>5. CASE Agent \/ ClientStarts \/ ClientLogsIn
    BY <1>2, <1>5, OthersAppend
  <1>6. CASE UNCHANGED vars
    BY <1>2, <1>6 DEF vars, versionVars
  <1> QED
    BY <1>4, <1>5, <1>6 DEF Next

\* A step that makes a commit is one of the three callers of git commit, and
\* two of them come after the snapshot on probation was settled.
LEMMA CommitStep ==
  IInv /\ AckSettled /\ [Next]_vars
    => [Len(commits') > Len(commits) /\ step # "boot"
          => Having("PENDING") = {}]_vars
  <1> SUFFICES ASSUME IInv, AckSettled, [Next]_vars,
                      Len(commits') > Len(commits), step # "boot"
               PROVE  Having("PENDING") = {}
    OBVIOUS
  <1>1. Len(commits) \in Nat /\ VersionsOK /\ SnapshotOK
    BY DEF IInv, TypeOK, VersionsOK
  <1>2. ~UNCHANGED commits
    BY <1>1
  <1>3. ASSUME NEW sha \in 1 .. Len(commits), NEW status \in Statuses,
               SetStatus(sha, status)
        PROVE  FALSE
    BY <1>1, <1>3, SetStatusEffect
  <1>4. ~MarkPendingSnapshotStable
    BY <1>1, MarkEffect DEF SnapshotOK
  <1>5. CASE BootRecord \/ RecordPending \/ RecordStable
    <2>1. Tip \in 1 .. Len(commits)
      BY <1>1, <1>5, EmptySeq
      DEF BootRecord, RecordPending, RecordStable, SnapshotOK, Tip, VersionsOK
    <2> QED
      BY <1>3, <1>5, <2>1
      DEF BootRecord, RecordPending, RecordStable, AddSnapshot, Statuses
  <1>6. CASE BeginError
    BY <1>2, <1>3, <1>6 DEF BeginError, Having, Statuses
  <1>7. CASE CommitEdit
    BY <1>1, <1>7 DEF CommitEdit, SnapshotOK
  <1>8. CASE CheckAfterAck
    BY <1>8 DEF CheckAfterAck, AckSettled
  <1>9. CASE Supervisor \/ HandlerRaises \/ SupervisorCrash
    BY <1>2, <1>4, <1>5, <1>6, <1>7, <1>8, <1>9
    DEF Supervisor, BootCheck, Announce, HandleStart, HandleLogin,
        HandleRollback, BeginCommit, RestartCommitted, Replay, RestoreStable,
        RestartAfterError, Report, BeginAck, SendReady, BasicAck,
        HandlerRaises, SupervisorCrash, versionVars
  <1>10. CASE Agent \/ ClientStarts \/ ClientLogsIn
    BY <1>2, <1>10, OthersAppend
  <1>11. CASE UNCHANGED vars
    BY <1>2, <1>11 DEF vars, versionVars
  <1> QED
    BY <1>9, <1>10, <1>11 DEF Next

\* Nothing is committed on top of a version on probation, except by a supervisor
\* that starts: every other caller of git commit settles the version first, and
\* no crash, exception or late request comes between.
THEOREM SettledFirst == Spec => BuiltOnSettled
  <1>1. Init => AckSettled
    BY DEF Init, AckSettled
  <1> QED
    BY <1>1, Initially, Inductive, AckSettledStep, CommitStep, PTL
    DEF Spec, BuiltOnSettled
-----------------------------------------------------------------------------
(* Where the client's task is, and which process a report comes from.      *)

\* A client that keeps one task outstanding; and, of the faults, only that the
\* agent's container is killed.
Calm == OneAtATime = TRUE /\ Faults \subseteq {"death"}

\* Message i is still to be dealt with, and it stands for the outstanding task:
\* its start, a report or a request of the process that has it.
Pending(i) ==
  /\ supQueue[i].type \in {"start", "commit", "error", "rollback"}
  /\ i # 1 \/ step # "ack"

\* Message i is a request whose answer its sender waits for.
Asks(i) == supQueue[i].type \in {"commit", "rollback"} /\ step # "replay"

\* The agent does not work on the task of a pending message, unless it waits for
\* the answer to it (which it does, if nothing killed it).
CarrierOK(i) ==
  /\ agentQueue = << >> /\ sent > 0 /\ sent \notin finished
  /\ supQueue[i].type # "rollback" => supQueue[i].task = sent
  /\ Busy => Asks(i) /\ agent.state = "rpc" /\ supQueue[i].id = requests
  /\ Faults = {} /\ Asks(i) => Busy

\* All tasks but the last are over, and the last is in one place at most.
OneCarrier ==
  \A i \in 1 .. Len(supQueue) :
    Pending(i) => /\ CarrierOK(i)
                  /\ \A j \in 1 .. Len(supQueue) : Pending(j) => j = i

OthersOver == 1 .. sent - 1 \subseteq finished /\ finished \subseteq 1 .. sent

OnItsWay ==
  agentQueue # << >> =>
    agentQueue = <<sent>> /\ sent > 0 /\ sent \notin finished /\ ~Busy

InWork == Busy => agent.task = sent /\ sent > 0 /\ sent \notin finished

Somewhere ==
  Faults = {} /\ sent > 0 /\ sent \notin finished =>
    \/ Busy \/ agentQueue # << >>
    \/ \E i \in 1 .. Len(supQueue) : Pending(i) /\ supQueue[i].type # "rollback"

TaskAtOnePlace == OneCarrier /\ OthersOver /\ OnItsWay /\ InWork /\ Somewhere

\* The steps that need another fault do not happen.
LEMMA NoFault ==
  ASSUME Calm
  PROVE  /\ ~HandlerRaises /\ ~SupervisorCrash /\ ~AgentDrops /\ ~RequestTimeout
         /\ AgentDies => Faults # {}
         /\ \A message : SendReport(message) => supQueue' = Append(supQueue, message)
  BY DEF Calm, Fault, HandlerRaises, SupervisorCrash, AgentDrops, RequestTimeout,
         AgentDies, SendReport

\* A step that does not concern the task.
LEMMA TaskUntouched ==
  ASSUME TaskAtOnePlace,
         UNCHANGED <<supQueue, agentQueue, sent, finished, requests>>,
         \/ UNCHANGED agent
         \/ ~Busy' /\ (Busy => Faults # {}),
         (step = "ack") = (step' = "ack"),
         (step = "replay") = (step' = "replay")
  PROVE  TaskAtOnePlace'
  <1> USE DEF TaskAtOnePlace, Pending, Busy
  <1>1. OneCarrier'
    BY DEF OneCarrier, CarrierOK, Asks
  <1>2. OthersOver' /\ OnItsWay' /\ InWork'
    BY DEF OthersOver, OnItsWay, InWork
  <1>3. Somewhere'
    BY DEF Somewhere
  <1> QED
    BY <1>1, <1>2, <1>3

\* The handler is done: what its message stood for is elsewhere, or it stood for
\* nothing.
LEMMA TaskHandled ==
  ASSUME TypeOK, TaskAtOnePlace, supQueue # << >>, step # "ack", step' = "ack",
         UNCHANGED <<supQueue, sent, requests>>,
         step = "replay" => Pending(1),
         Pending(1) => OthersOver' /\ OnItsWay' /\ InWork' /\ Somewhere',
         ~Pending(1) => UNCHANGED <<agentQueue, agent, finished>>
  PROVE  TaskAtOnePlace'
  <1> USE DEF TaskAtOnePlace
  <1>0. Len(supQueue) \in Nat /\ 1 \in 1 .. Len(supQueue)
    BY MessageInHand
  <1>1. CASE Pending(1)
    <2>1. \A i \in 1 .. Len(supQueue) : ~Pending(i)'
      BY <1>0, <1>1 DEF OneCarrier, Pending
    <2> QED
      BY <1>1, <2>1 DEF OneCarrier
  <1>2. CASE ~Pending(1)
    <2>1. \A i \in 1 .. Len(supQueue) : Pending(i)' <=> Pending(i)
      BY <1>0, <1>2 DEF Pending
    <2>2. \A i \in 1 .. Len(supQueue) : CarrierOK(i) => CarrierOK(i)'
      BY <1>2 DEF CarrierOK, Asks, Busy
    <2>3. OneCarrier'
      BY <2>1, <2>2 DEF OneCarrier
    <2>4. OthersOver' /\ OnItsWay' /\ InWork' /\ Somewhere'
      BY <1>2, <2>1 DEF OthersOver, OnItsWay, InWork, Somewhere, Busy
    <2> QED
      BY <2>3, <2>4
  <1> QED
    BY <1>1, <1>2

\* What a message at the end of the queue changes.
LEMMA Appended ==
  ASSUME TypeOK, HandlerOK, NEW n \in Nat, n = Len(supQueue),
         NEW message \in Message,
         supQueue' = Append(supQueue, message), UNCHANGED step
  PROVE  /\ Len(supQueue') = n + 1
         /\ supQueue'[n + 1] = message
         /\ \A i \in 1 .. n : supQueue'[i] = supQueue[i] /\ (Pending(i)' <=> Pending(i))
         /\ Pending(n + 1)' <=> message.type \notin {"login", "ack"}
  <1>1. /\ Len(supQueue') = n + 1
        /\ supQueue'[n + 1] = message
        /\ \A i \in 1 .. n : supQueue'[i] = supQueue[i]
    BY AppendProperties DEF TypeOK
  <1>2. step = "ack" => n # 0
    BY <1>1, EmptySeq DEF HandlerOK, TypeOK
  <1>3. Pending(n + 1)' <=> message.type \notin {"login", "ack"}
    BY <1>1, <1>2, MessageFields DEF Pending
  <1>4. \A i \in 1 .. n : Pending(i)' <=> Pending(i)
    BY <1>1 DEF Pending
  <1> QED
    BY <1>1, <1>3, <1>4

\* A login in the queue stands for no task.
LEMMA LoginAppended ==
  ASSUME TypeOK, HandlerOK, TaskAtOnePlace, ClientLogsIn
  PROVE  TaskAtOnePlace'
  <1> USE DEF TaskAtOnePlace
  <1> DEFINE message == [type |-> "login"]
  <1>1. message \in Message /\ message.type = "login"
    BY DEF Message
  <1>2. /\ supQueue' = Append(supQueue, message)
        /\ UNCHANGED <<step, agentQueue, agent, sent, finished, requests>>
    BY DEF ClientLogsIn, ClientFrame
  <1> HIDE DEF message
  <1>0. PICK n \in Nat : n = Len(supQueue)
    BY DEF TypeOK
  <1>3. /\ Len(supQueue') = n + 1
        /\ \A i \in 1 .. n : supQueue'[i] = supQueue[i] /\ (Pending(i)' <=> Pending(i))
        /\ ~Pending(n + 1)'
    BY <1>0, <1>1, <1>2, Appended
  <1>4. \A i \in 1 .. Len(supQueue') : Pending(i)' => i \in 1 .. n /\ Pending(i)
    BY <1>3
  <1>5. \A i \in 1 .. n : CarrierOK(i) => CarrierOK(i)'
    BY <1>2, <1>3 DEF CarrierOK, Asks, Busy
  <1>6. OneCarrier'
    BY <1>0, <1>4, <1>5 DEF OneCarrier
  <1>7. OthersOver' /\ OnItsWay' /\ InWork'
    BY <1>2 DEF OthersOver, OnItsWay, InWork, Busy
  <1>8. Somewhere'
    BY <1>0, <1>2, <1>3 DEF Somewhere, Busy
  <1> QED
    BY <1>6, <1>7, <1>8

\* A message that is sent while none is pending.
LEMMA CarrierAppended ==
  ASSUME TypeOK, HandlerOK, NEW n \in Nat, n = Len(supQueue),
         NEW message \in Message,
         supQueue' = Append(supQueue, message), UNCHANGED step,
         \A i \in 1 .. n : ~Pending(i),
         message.type # "ack" => CarrierOK(n + 1)',
         OthersOver', OnItsWay', InWork',
         \/ (Faults = {} /\ sent > 0 /\ sent \notin finished => Busy \/ agentQueue # << >>)'
         \/ message.type \in {"start", "error"}
  PROVE  TaskAtOnePlace'
  <1>1. /\ Len(supQueue') = n + 1
        /\ supQueue'[n + 1] = message
        /\ \A i \in 1 .. n : Pending(i)' <=> Pending(i)
        /\ Pending(n + 1)' <=> message.type \notin {"login", "ack"}
    BY Appended
  <1>2. \A i \in 1 .. Len(supQueue') : Pending(i)' => i = n + 1
    BY <1>1
  <1>3. Pending(n + 1)' => CarrierOK(n + 1)'
    BY <1>1
  <1>4. OneCarrier'
    BY <1>2, <1>3 DEF OneCarrier
  <1>5. Somewhere'
    <2>1. CASE message.type \in {"start", "error"}
      <3>1. n + 1 \in 1 .. Len(supQueue') /\ Pending(n + 1)'
        BY <1>1, <2>1
      <3>2. supQueue'[n + 1].type # "rollback"
        BY <1>1, <2>1
      <3> QED
        BY <3>1, <3>2 DEF Somewhere
    <2>2. CASE (Faults = {} /\ sent > 0 /\ sent \notin finished => Busy \/ agentQueue # << >>)'
      BY <2>2 DEF Somewhere
    <2> QED
      BY <2>1, <2>2
  <1> QED
    BY <1>4, <1>5 DEF TaskAtOnePlace

\* The acknowledged message leaves the queue.
LEMMA TaskShifted ==
  ASSUME TypeOK, HandlerOK, TaskAtOnePlace, BasicAck
  PROVE  TaskAtOnePlace'
  <1> USE DEF TaskAtOnePlace
  <1>0. PICK n \in Nat : n = Len(supQueue)
    BY DEF TypeOK
  <1>1. /\ n > 0
        /\ Len(supQueue') = n - 1
        /\ \A i \in 1 .. n - 1 : supQueue'[i] = supQueue[i + 1]
    BY <1>0, MessageInHand DEF BasicAck, HandlerOK
  <1>2. /\ step = "ack" /\ step' = "idle"
        /\ UNCHANGED <<agentQueue, agent, sent, finished, requests>>
    BY DEF BasicAck, SupFrame
  <1>3. \A i \in 1 .. n - 1 : /\ i + 1 \in 1 .. n
                              /\ Pending(i)' <=> Pending(i + 1)
                              /\ CarrierOK(i + 1) => CarrierOK(i)'
    BY <1>1, <1>2 DEF Pending, CarrierOK, Asks, Busy
  <1>4. OneCarrier'
    BY <1>0, <1>1, <1>3 DEF OneCarrier
  <1>5. OthersOver' /\ OnItsWay' /\ InWork'
    BY <1>2 DEF OthersOver, OnItsWay, InWork, Busy
  <1>6. Somewhere'
    <2>1. \A i \in 1 .. n : Pending(i) /\ supQueue[i].type # "rollback" =>
            /\ i - 1 \in 1 .. Len(supQueue')
            /\ Pending(i - 1)' /\ supQueue'[i - 1].type # "rollback"
      BY <1>1, <1>2 DEF Pending
    <2> QED
      BY <1>0, <1>2, <2>1 DEF Somewhere, Busy
  <1> QED
    BY <1>4, <1>5, <1>6

\* While the agent runs a task no message stands for it, and none can be replayed.
LEMMA RunningAlone ==
  ASSUME TypeOK, HandlerOK, TaskAtOnePlace, agent.state = "running"
  PROVE  /\ \A i \in 1 .. Len(supQueue) : ~Pending(i)
         /\ step # "replay"
         /\ agent.task = sent /\ sent > 0 /\ sent \notin finished /\ agentQueue = << >>
  <1>1. \A i \in 1 .. Len(supQueue) : ~Pending(i)
    BY DEF TaskAtOnePlace, OneCarrier, CarrierOK, Busy, Asks
  <1>2. step # "replay"
    BY <1>1, MessageInHand DEF HandlerOK, Pending
  <1>3. agent.task = sent /\ sent > 0 /\ sent \notin finished /\ agentQueue = << >>
    BY DEF TaskAtOnePlace, OnItsWay, InWork, Busy
  <1> QED
    BY <1>1, <1>2, <1>3

\* A request or a report takes the task with it, or ends it.
LEMMA AgentSends ==
  ASSUME Calm, TypeOK, HandlerOK, TaskAtOnePlace,
         \/ RequestCommit \/ RequestRollback \/ AgentAcks \/ AgentFails
  PROVE  TaskAtOnePlace'
  <1>0. PICK n \in Nat : n = Len(supQueue)
    BY DEF TypeOK
  <1>1. agent.state = "running"
    BY DEF RequestCommit, RequestRollback, Request, AgentAcks, AgentFails
  <1>2. /\ \A i \in 1 .. n : ~Pending(i)
        /\ step # "replay"
        /\ agent.task = sent /\ sent > 0 /\ sent \notin finished /\ agentQueue = << >>
    BY <1>0, <1>1, RunningAlone
  <1>3. agent \in AgentRecord /\ sent \in Nat /\ sent \in Tasks /\ requests \in Nat
    BY <1>1, <1>2, BoundsAssumption, AgentChanges DEF TypeOK, Busy
  <1>4. OthersOver /\ agent.head \in Nat /\ agent.code \in Codes
    BY AgentChanges DEF TaskAtOnePlace
  <1>5. ASSUME NEW message \in Message, Request(message),
               message.type \in {"commit", "rollback"}, message.id = requests + 1,
               message.type = "commit" => message.task = sent
        PROVE  TaskAtOnePlace'
    <2>1. /\ supQueue' = Append(supQueue, message)
          /\ UNCHANGED <<step, agentQueue, sent, finished>>
          /\ requests' = requests + 1
          /\ agent' = [agent EXCEPT !.state = "rpc"]
      BY <1>5 DEF Request, AgentFrame, clientVars
    <2>2. agent'.state = "rpc" /\ agent'.task = sent
      BY <1>2, <1>3, <2>1 DEF AgentRecord
    <2>3. OthersOver' /\ OnItsWay' /\ InWork' /\ Busy'
      BY <1>2, <1>4, <2>1, <2>2 DEF OthersOver, OnItsWay, InWork, Busy
    <2>4. supQueue'[n + 1] = message
      BY <1>0, <2>1, Appended
    <2>5. CarrierOK(n + 1)'
      BY <1>2, <1>5, <2>1, <2>2, <2>3, <2>4 DEF CarrierOK, Asks
    <2> QED
      BY <1>0, <1>2, <1>5, <2>1, <2>3, <2>5, CarrierAppended
  <1>6. CASE RequestCommit
    <2> DEFINE message == [type |-> "commit", task |-> agent.task,
                           id |-> requests + 1, head |-> agent.head,
                           code |-> agent.code]
    <2>1. message \in Message
      BY <1>2, <1>3, <1>4 DEF Message
    <2> QED
      BY <1>2, <1>5, <1>6, <2>1 DEF RequestCommit
  <1>7. CASE RequestRollback
    <2>1. PICK sha \in 1 .. Len(commits) :
            Request([type |-> "rollback", sha |-> sha, id |-> requests + 1])
      BY <1>7 DEF RequestRollback
    <2>2. [type |-> "rollback", sha |-> sha, id |-> requests + 1] \in Message
      BY <1>3 DEF Having, Message
    <2> QED
      BY <1>5, <2>1, <2>2
  <1>8. agent' = Down => ~Busy'
    BY <1>3 DEF Down, Busy, AgentRecord
  <1>9. CASE AgentAcks
    <2> DEFINE message == [type |-> "ack", head |-> agent.head, code |-> agent.code]
    <2>1. message \in Message /\ message.type = "ack"
      BY AgentChanges DEF Message
    <2>2. supQueue' = Append(supQueue, message)
      BY <1>9, NoFault DEF AgentAcks
    <2> HIDE DEF message
    <2>3. /\ UNCHANGED <<step, agentQueue, sent>>
          /\ finished' = finished \cup {sent}
          /\ ~Busy'
      BY <1>2, <1>8, <1>9 DEF AgentAcks, AgentFrame, clientVars
    <2>4. OthersOver' /\ OnItsWay' /\ InWork'
      BY <1>2, <1>3, <1>4, <2>3 DEF OthersOver, OnItsWay, InWork
    <2>5. (Faults = {} /\ sent > 0 /\ sent \notin finished => Busy \/ agentQueue # << >>)'
      BY <2>3
    <2> QED
      BY <1>0, <1>2, <2>1, <2>2, <2>3, <2>4, <2>5, CarrierAppended
  <1>10. CASE AgentFails
    <2> DEFINE message == [type |-> "error", task |-> agent.task,
                           head |-> agent.head, code |-> agent.code]
    <2>1. message \in Message /\ message.type = "error" /\ message.task = sent
      BY <1>2, <1>3, AgentChanges DEF Message
    <2>2. supQueue' = Append(supQueue, message)
      BY <1>10, NoFault DEF AgentFails
    <2> HIDE DEF message
    <2>3. UNCHANGED <<step, agentQueue, sent, finished>> /\ ~Busy'
      BY <1>8, <1>10 DEF AgentFails, AgentFrame, clientVars
    <2>4. OthersOver' /\ OnItsWay' /\ InWork'
      BY <1>2, <1>4, <2>3 DEF OthersOver, OnItsWay, InWork
    <2>5. supQueue'[n + 1] = message
      BY <1>0, <2>1, <2>2, <2>3, Appended
    <2>6. CarrierOK(n + 1)'
      BY <1>2, <2>1, <2>3, <2>5 DEF CarrierOK, Asks
    <2> QED
      BY <1>0, <1>2, <2>1, <2>2, <2>3, <2>4, <2>6, CarrierAppended
  <1> QED
    BY <1>6, <1>7, <1>9, <1>10

\* The client sends the next task when the last one is over.
LEMMA ClientSends ==
  ASSUME Calm, TypeOK, HandlerOK, TaskAtOnePlace, ClientStarts
  PROVE  TaskAtOnePlace'
  <1>0. PICK n \in Nat : n = Len(supQueue)
    BY DEF TypeOK
  <1>1. sent \in Nat /\ sent + 1 \in Tasks /\ 1 .. sent \subseteq finished
    BY BoundsAssumption DEF ClientStarts, Calm, TypeOK, Tasks
  <1>2. sent > 0 => sent \in finished
    BY <1>1
  <1>3. /\ \A i \in 1 .. n : ~Pending(i)
        /\ agentQueue = << >> /\ ~Busy /\ finished \subseteq 1 .. sent
    BY <1>0, <1>2
    DEF TaskAtOnePlace, OneCarrier, CarrierOK, OnItsWay, InWork, OthersOver
  <1> DEFINE message == [type |-> "start", task |-> sent + 1]
  <1>5. message \in Message /\ message.type = "start" /\ message.task = sent + 1
    BY <1>1 DEF Message
  <1>6. /\ supQueue' = Append(supQueue, message)
        /\ sent' = sent + 1
        /\ UNCHANGED <<step, agentQueue, agent, finished>>
    BY DEF ClientStarts, ClientFrame
  <1> HIDE DEF message
  <1>7. OthersOver' /\ OnItsWay' /\ InWork'
    BY <1>1, <1>3, <1>6 DEF OthersOver, OnItsWay, InWork, Busy
  <1>8. supQueue'[n + 1] = message
    BY <1>0, <1>5, <1>6, Appended
  <1>9. CarrierOK(n + 1)'
    BY <1>1, <1>3, <1>5, <1>6, <1>8 DEF CarrierOK, Asks, Busy
  <1> QED
    BY <1>0, <1>3, <1>5, <1>6, <1>7, <1>9, CarrierAppended

\* The handler of a message hands the task on: to the agent, or to the client.
LEMMA HandlerHandsOn ==
  ASSUME TypeOK, HandlerOK, TaskAtOnePlace,
         \/ HandleStart \/ HandleLogin \/ HandleRollback \/ Replay \/ Report \/ SendReady
         \/ (BeginCommit \/ CommitEdit) /\ step' = "ack"
  PROVE  TaskAtOnePlace'
  <1>1. /\ supQueue # << >> /\ step # "ack" /\ step' = "ack"
        /\ UNCHANGED <<supQueue, sent, requests>>
    BY DEF HandleStart, HandleLogin, HandleRollback, Replay, Report, SendReady,
           BeginCommit, CommitEdit, Receives, HandlerOK, SupFrame
  <1>2. 1 \in 1 .. Len(supQueue) /\ supQueue[1] = Msg /\ Msg \in Message
    BY <1>1, MessageInHand
  <1>3. step = "replay" => Pending(1)
    BY <1>2 DEF HandlerOK, Pending
  <1>4. Pending(1) => CarrierOK(1)
    BY <1>2 DEF TaskAtOnePlace, OneCarrier
  <1>5. OthersOver /\ InWork /\ sent \in Nat
    BY BoundsAssumption DEF TaskAtOnePlace, TypeOK
  <1>6. CASE HandleStart \/ Replay
    <2>1. Pending(1) /\ Msg.type # "rollback"
      BY <1>1, <1>2, <1>3, <1>6 DEF HandleStart, Replay, Receives, HandlerOK, Pending
    <2>2. /\ agentQueue = << >> /\ sent > 0 /\ sent \notin finished
          /\ Msg.task = sent /\ ~Busy
      BY <1>2, <1>4, <1>6, <2>1 DEF HandleStart, Replay, Receives, CarrierOK, Asks
    <2>3. agentQueue' = <<sent>> /\ UNCHANGED <<agent, finished>>
      BY <1>6, <2>2 DEF HandleStart, Replay
    <2>4. OthersOver' /\ OnItsWay' /\ InWork' /\ Somewhere'
      BY <1>1, <1>5, <2>2, <2>3 DEF OthersOver, OnItsWay, InWork, Somewhere, Busy
    <2> QED
      BY <1>1, <1>3, <2>1, <2>4, TaskHandled
  <1>7. CASE Report
    <2>1. Pending(1) /\ Msg.type = "error"
      BY <1>1, <1>2, <1>7 DEF Report, HandlerOK, Pending
    <2>2. agentQueue = << >> /\ sent > 0 /\ Msg.task = sent /\ ~Busy
      BY <1>2, <1>4, <2>1 DEF CarrierOK, Asks
    <2>3. finished' = finished \cup {sent} /\ UNCHANGED <<agent, agentQueue>>
      BY <1>7, <2>2 DEF Report
    <2>4. OthersOver' /\ OnItsWay' /\ InWork' /\ Somewhere'
      BY <1>1, <1>5, <2>2, <2>3 DEF OthersOver, OnItsWay, InWork, Somewhere, Busy
    <2> QED
      BY <1>1, <1>3, <2>1, <2>4, TaskHandled
  <1>8. CASE HandleLogin \/ SendReady
    <2>1. ~Pending(1) /\ UNCHANGED <<agentQueue, agent, finished>>
      BY <1>2, <1>8 DEF HandleLogin, SendReady, Receives, HandlerOK, Pending
    <2> QED
      BY <1>1, <1>3, <2>1, TaskHandled
  <1>9. CASE HandleRollback \/ BeginCommit \/ CommitEdit
    <2>1. /\ Msg.type \in {"rollback", "commit"} /\ step # "replay"
          /\ Reply /\ UNCHANGED <<agentQueue, finished>>
      BY <1>1, <1>9 DEF HandleRollback, BeginCommit, CommitEdit, Receives, HandlerOK
    <2>2. Pending(1)
      BY <1>1, <1>2, <2>1 DEF Pending
    <2>3. agentQueue = << >> /\ sent > 0 /\ sent \notin finished
      BY <1>4, <2>2 DEF CarrierOK
    <2>4. CASE Busy
      <3>1. agent.state = "rpc" /\ Msg.id = requests /\ agent.task = sent
        BY <1>2, <1>4, <1>5, <2>2, <2>4 DEF CarrierOK, InWork
      <3>2. agent'.state = "running" /\ agent'.task = sent
        BY <2>1, <3>1 DEF Reply, TypeOK, AgentRecord
      <3>3. OthersOver' /\ OnItsWay' /\ InWork' /\ Somewhere'
        BY <1>1, <1>5, <2>1, <2>3, <3>2
        DEF OthersOver, OnItsWay, InWork, Somewhere, Busy
      <3> QED
        BY <1>1, <1>3, <2>2, <3>3, TaskHandled
    <2>5. CASE ~Busy
      <3>1. Faults # {}
        BY <1>2, <1>4, <2>1, <2>2, <2>5 DEF CarrierOK, Asks
      <3>2. UNCHANGED agent
        BY <2>1, <2>5 DEF Reply, Busy
      <3>3. OthersOver' /\ OnItsWay' /\ InWork' /\ Somewhere'
        BY <1>1, <1>5, <2>1, <2>3, <2>5, <3>1, <3>2
        DEF OthersOver, OnItsWay, InWork, Somewhere, Busy
      <3> QED
        BY <1>1, <1>3, <2>2, <3>3, TaskHandled
    <2> QED
      BY <2>4, <2>5
  <1> QED
    BY <1>6, <1>7, <1>8, <1>9

\* A restart in the middle of a handler: the message in hand has the task.
LEMMA Restarted ==
  ASSUME TypeOK, HandlerOK, TaskAtOnePlace, RestartCommitted \/ RestartAfterError
  PROVE  TaskAtOnePlace'
  <1>1. /\ supQueue # << >> /\ Msg.type \in {"commit", "error"}
        /\ step # "ack" /\ step' # "ack"
        /\ UNCHANGED <<supQueue, agentQueue, sent, finished, requests>>
        /\ agent' = Down
        /\ Msg.type = "error" \/ step' = "replay"
    BY DEF RestartCommitted, RestartAfterError, StartAgent, HandlerOK, SupFrame
  <1>2. 1 \in 1 .. Len(supQueue) /\ supQueue[1] = Msg
    BY <1>1, MessageInHand
  <1>3. Pending(1) /\ CarrierOK(1)
    BY <1>1, <1>2 DEF Pending, TaskAtOnePlace, OneCarrier
  <1>4. ~Busy'
    BY <1>1 DEF Down, Busy, TypeOK, AgentRecord
  <1>5. \A j \in 1 .. Len(supQueue) : Pending(j)' <=> j = 1
    BY <1>1, <1>2, <1>3 DEF Pending, TaskAtOnePlace, OneCarrier
  <1>6. CarrierOK(1)'
    BY <1>1, <1>2, <1>3, <1>4 DEF CarrierOK, Asks
  <1>7. OneCarrier' /\ Somewhere'
    BY <1>1, <1>2, <1>5, <1>6 DEF OneCarrier, Somewhere
  <1>8. OthersOver' /\ OnItsWay' /\ InWork'
    BY <1>1, <1>3, <1>4 DEF CarrierOK, TaskAtOnePlace, OthersOver, OnItsWay, InWork
  <1> QED
    BY <1>7, <1>8 DEF TaskAtOnePlace

\* The start command becomes the work of the process.
LEMMA Taken ==
  ASSUME TypeOK, HandlerOK, TaskAtOnePlace, AgentTakes
  PROVE  TaskAtOnePlace'
  <1>1. /\ agentQueue = <<sent>> /\ sent > 0 /\ sent \notin finished
        /\ OthersOver
    BY DEF AgentTakes, TaskAtOnePlace, OnItsWay
  <1>2. Head(agentQueue) = sent /\ Tail(agentQueue) = << >>
    BY <1>1
  <1>3. /\ UNCHANGED <<supQueue, step, sent, finished>>
        /\ agentQueue' = << >>
        /\ agent'.state = "running" /\ agent'.task = sent
    BY <1>2 DEF AgentTakes, AgentFrame, clientVars, TypeOK, AgentRecord
  <1>4. \A i \in 1 .. Len(supQueue) : ~Pending(i)'
    BY <1>1, <1>3 DEF TaskAtOnePlace, OneCarrier, CarrierOK, Pending
  <1>5. OneCarrier'
    BY <1>3, <1>4 DEF OneCarrier
  <1>6. OthersOver' /\ OnItsWay' /\ InWork' /\ Somewhere'
    BY <1>1, <1>3 DEF OthersOver, OnItsWay, InWork, Somewhere, Busy
  <1> QED
    BY <1>5, <1>6 DEF TaskAtOnePlace

LEMMA TaskStep ==
  ASSUME Calm, IInv, TaskAtOnePlace, [Next]_vars
  PROVE  TaskAtOnePlace'
  <1> USE DEF IInv
  <1>1. CASE \/ BootCheck \/ BootRecord \/ Announce \/ RecordPending \/ BeginError
             \/ RestoreStable \/ BeginAck \/ CheckAfterAck \/ RecordStable
             \/ (BeginCommit \/ CommitEdit) /\ step' # "ack"
    <2>1. /\ UNCHANGED <<supQueue, agentQueue, sent, finished, requests, agent>>
          /\ step # "ack" /\ step' # "ack" /\ step # "replay" /\ step' # "replay"
      BY <1>1
      DEF BootCheck, BootRecord, Announce, RecordPending, BeginError, RestoreStable,
          BeginAck, CheckAfterAck, RecordStable, BeginCommit, CommitEdit, Receives,
          SupFrame
    <2> QED
      BY <2>1, TaskUntouched
  <1>2. CASE \/ HandleStart \/ HandleLogin \/ HandleRollback \/ Replay \/ Report \/ SendReady
             \/ (BeginCommit \/ CommitEdit) /\ step' = "ack"
    BY <1>2, HandlerHandsOn
  <1>3. CASE RestartCommitted \/ RestartAfterError
    BY <1>3, Restarted
  <1>4. CASE BasicAck
    BY <1>4, TaskShifted
  <1>5. CASE AgentBoot
    <2>1. /\ UNCHANGED <<supQueue, agentQueue, sent, finished, requests, step>>
          /\ ~Busy /\ ~Busy'
      BY <1>5 DEF AgentBoot, AgentFrame, clientVars, Busy
    <2> QED
      BY <2>1, TaskUntouched
  <1>6. CASE AgentTakes
    BY <1>6, Taken
  <1>7. CASE AgentEdits
    <2>1. UNCHANGED <<supQueue, agentQueue, sent, finished, requests, agent, step>>
      BY <1>7 DEF AgentEdits, AgentFrame, clientVars
    <2> QED
      BY <2>1, TaskUntouched
  <1>8. CASE RequestCommit \/ RequestRollback \/ AgentAcks \/ AgentFails
    BY <1>8, AgentSends
  <1>9. CASE ClientStarts
    BY <1>9, ClientSends
  <1>10. CASE ClientLogsIn
    BY <1>10, LoginAppended
  <1>11. CASE AgentDies
    <2>1. /\ UNCHANGED <<supQueue, agentQueue, sent, finished, requests, step>>
          /\ ~Busy' /\ Faults # {}
      BY <1>11, NoFault
      DEF AgentDies, AgentFrame, clientVars, Down, Busy, TypeOK, AgentRecord
    <2> QED
      BY <2>1, TaskUntouched
  <1>12. CASE UNCHANGED vars
    <2>1. UNCHANGED <<supQueue, agentQueue, sent, finished, requests, agent, step>>
      BY <1>12 DEF vars
    <2> QED
      BY <2>1, TaskUntouched
  <1> QED
    BY <1>1, <1>2, <1>3, <1>4, <1>5, <1>6, <1>7, <1>8, <1>9, <1>10, <1>11, <1>12, NoFault
    DEF Next, Supervisor, Agent

LEMMA TaskInitially == Init => TaskAtOnePlace
  BY DEF Init, TaskAtOnePlace, OneCarrier, OthersOver, OnItsWay, InWork, Somewhere,
         Busy

LEMMA TaskCarried == TypeOK /\ TaskAtOnePlace /\ Faults = {} => NoTaskLost
  <1> SUFFICES ASSUME TypeOK, Faults = {}, TaskAtOnePlace, NEW task \in 1 .. sent
               PROVE  Carried(task)
    BY DEF NoTaskLost
  <1>1. sent \in Nat
    BY BoundsAssumption DEF TypeOK
  <1>2. CASE task # sent
    BY <1>1, <1>2 DEF TaskAtOnePlace, OthersOver, Carried
  <1>3. CASE task = sent /\ sent \notin finished
    <2>1. CASE Busy
      BY <1>3, <2>1 DEF TaskAtOnePlace, InWork, Carried
    <2>2. CASE agentQueue # << >>
      <3>1. agentQueue = <<sent>>
        BY <2>2 DEF TaskAtOnePlace, OnItsWay
      <3>2. 1 \in 1 .. Len(agentQueue) /\ agentQueue[1] = sent
        BY <3>1
      <3> QED
        BY <1>3, <3>2 DEF Carried
    <2>3. ASSUME NEW i \in 1 .. Len(supQueue), Pending(i), supQueue[i].type # "rollback"
          PROVE  Carried(task)
      BY <1>3, <2>3 DEF TaskAtOnePlace, OneCarrier, CarrierOK, Pending, Carried
    <2> QED
      BY <1>1, <1>3, <2>1, <2>2, <2>3 DEF TaskAtOnePlace, Somewhere
  <1>4. CASE task \in finished
    BY <1>4 DEF Carried
  <1> QED
    BY <1>2, <1>3, <1>4

\* As long as nothing fails and the client sends one task at a time, a task it has
\* sent is in a message, in the agent, or over: the restarts of a commit and of a
\* rollback, and the replay that follows them, neither drop nor double it.
THEOREM TasksKept ==
  ASSUME Calm, Faults = {} PROVE Spec => []NoTaskLost
  <1>1. IInv /\ TaskAtOnePlace => NoTaskLost
    BY TaskCarried DEF IInv
  <1>2. IInv /\ TaskAtOnePlace /\ [Next]_vars => TaskAtOnePlace'
    BY TaskStep
  <1> QED
    BY <1>1, <1>2, Initially, Inductive, TaskInitially, PTL DEF Spec

\* The version on probation is HEAD; the process that runs, and every report and
\* commit request that waits in the queue, ran it.  From the commit until the
\* task is taken again the work tree holds it, and the client's next task comes
\* behind the ack that ends the probation.
NoneAtBoot ==
  step \in {"boot", "bootRecord", "announce"} => Having("PENDING") = {}

RecordedTree == step = "record" => commits[Tip].code = worktree

NoAckBehindCommit ==
  \A i, j \in 1 .. Len(supQueue) :
    Pending(i) /\ supQueue[i].type = "commit" /\ i < j => supQueue[j].type # "ack"

MessagesKnow(sha) ==
  \A i \in 1 .. Len(supQueue) :
    /\ i # 1 \/ step = "idle"
    /\ supQueue[i].type \in {"ack", "error", "commit"}
    => supQueue[i].head = sha /\ supQueue[i].code = commits[sha].code

AgentKnows(sha) ==
  agent.state # "down" /\ step # "restartCommitted" =>
    /\ agent.head = sha
    /\ Busy \/ agentQueue # << >> \/ step = "replay" => agent.code = commits[sha].code

TreeHolds(sha) ==
  agentQueue # << >> \/ step \in {"restartCommitted", "replay"} =>
    worktree = commits[sha].code

AckAhead ==
  /\ step # "idle" => Msg.type \notin {"start", "ack", "error"}
  /\ \A i \in 1 .. Len(supQueue) :
       supQueue[i].type = "start" => \E j \in 1 .. i - 1 : supQueue[j].type = "ack"
  /\ 1 .. sent \subseteq finished =>
       \E j \in 1 .. Len(supQueue) : supQueue[j].type = "ack"

Probation(sha) ==
  sha = Tip /\ MessagesKnow(sha) /\ AgentKnows(sha) /\ TreeHolds(sha) /\ AckAhead

HeadKnown ==
  /\ NoneAtBoot
  /\ RecordedTree
  /\ NoAckBehindCommit
  /\ \A sha \in Having("PENDING") : Probation(sha)

\* What a commit holds never changes.
LEMMA CodesKept ==
  ASSUME IInv, [Next]_vars, NEW sha \in 1 .. Len(commits)
  PROVE  commits'[sha].code = commits[sha].code
  <1>0. commits \in Seq(CommitRecord) /\ commits[sha] \in CommitRecord
    BY DEF IInv, TypeOK, VersionsOK
  <1>1. [Ledger!Next]_commits
    BY LedgerStep
  <1>2. ASSUME NEW new, commits' = Append(commits, new)
        PROVE  commits'[sha].code = commits[sha].code
    BY <1>0, <1>2, AppendProperties
  <1>3. ASSUME NEW i \in 1 .. Len(commits), NEW status,
               commits' = [commits EXCEPT ![i].status = status]
        PROVE  commits'[sha].code = commits[sha].code
    BY <1>0, <1>3 DEF CommitRecord
  <1>4. CASE Ledger!Add
    BY <1>2, <1>4 DEF Ledger!Add
  <1>5. ASSUME NEW status, Ledger!Register(status)
        PROVE  commits'[sha].code = commits[sha].code
    <2>1. Len(commits) \in 1 .. Len(commits)
      BY <1>0
    <2> QED
      BY <1>3, <1>5, <2>1 DEF Ledger!Register
  <1>6. ASSUME NEW verdict, Ledger!Decide(verdict)
        PROVE  commits'[sha].code = commits[sha].code
    BY <1>3, <1>6 DEF Ledger!Decide, Ledger!OnProbation
  <1> QED
    BY <1>1, <1>4, <1>5, <1>6 DEF Ledger!Next

\* Only a commit of the agent puts a version on probation.
LEMMA ProbationStep ==
  ASSUME Calm, IInv, AckSettled, NoneAtBoot, [Next]_vars, ~RecordPending
  PROVE  /\ Having("PENDING")' \subseteq Having("PENDING")
         /\ Having("PENDING")' # {} => Tip' = Tip
  <1>0. VersionsOK /\ SnapshotOK
    BY DEF IInv, TypeOK
  <1>1. CASE UNCHANGED commits
    BY <1>1 DEF Having, Tip
  <1>2. CASE BootCheck \/ CommitEdit \/ CheckAfterAck
    <2>1. CASE GitCommit
      <3>1. Having("PENDING") = {}
        BY <1>0, <1>2
        DEF BootCheck, CommitEdit, CheckAfterAck, NoneAtBoot, SnapshotOK, AckSettled
      <3> QED
        BY <1>0, <2>1, <3>1, CommitEffect
    <2> QED
      BY <1>1, <1>2, <2>1 DEF BootCheck, CommitEdit, CheckAfterAck
  <1>3. CASE BootRecord \/ RecordStable
    BY <1>0, <1>3, SnapshotEffect DEF BootRecord, RecordStable
  <1>4. CASE BeginCommit \/ BeginAck
    BY <1>0, <1>1, <1>4, MarkEffect DEF BeginCommit, BeginAck, SnapshotOK
  <1>5. CASE BeginError
    <2>1. CASE \E sha \in Having("PENDING") :
                 Latest(sha, "PENDING") /\ SetStatus(sha, "ERROR")
      <3>1. PICK sha \in Having("PENDING") : SetStatus(sha, "ERROR")
        BY <2>1
      <3>2. /\ Len(commits') = Len(commits)
            /\ commits'[sha].status = "ERROR"
            /\ \A i \in 1 .. Len(commits) : i # sha => commits'[i] = commits[i]
        BY <1>0, <3>1, SetStatusEffect DEF Having, Statuses
      <3> QED
        BY <3>2 DEF Having, Tip
    <2> QED
      BY <1>1, <1>5, <2>1 DEF BeginError
  <1>6. CASE \/ Announce \/ HandleStart \/ HandleLogin \/ HandleRollback
             \/ RestartCommitted \/ Replay \/ RestoreStable
             \/ RestartAfterError \/ Report \/ SendReady \/ BasicAck
    BY <1>1, <1>6
    DEF Announce, HandleStart, HandleLogin, HandleRollback, RestartCommitted,
        Replay, RestoreStable, RestartAfterError, Report, SendReady, BasicAck,
        versionVars
  <1>7. CASE Agent \/ ClientStarts \/ ClientLogsIn
    BY <1>1, <1>7, OthersAppend
  <1>8. CASE UNCHANGED vars
    BY <1>1, <1>8 DEF vars
  <1> QED
    BY <1>2, <1>3, <1>4, <1>5, <1>6, <1>7, <1>8, NoFault DEF Next, Supervisor

\* No supervisor starts again while a version is on probation.
LEMMA BootStep ==
  ASSUME Calm, IInv, AckSettled, NoneAtBoot, [Next]_vars
  PROVE  NoneAtBoot'
  <1>1. CASE step' \notin {"boot", "bootRecord", "announce"}
    BY <1>1 DEF NoneAtBoot
  <1>2. CASE RecordPending
    BY <1>1, <1>2 DEF RecordPending
  <1>3. CASE /\ step \in {"boot", "bootRecord", "announce"}
             /\ ~RecordPending
    BY <1>3, ProbationStep DEF NoneAtBoot
  <1>4. CASE Supervisor /\ step \notin {"boot", "bootRecord", "announce"}
    BY <1>1, <1>4
    DEF Supervisor, BootCheck, BootRecord, Announce, HandleStart, HandleLogin,
        HandleRollback, BeginCommit, CommitEdit, RecordPending, RestartCommitted,
        Replay, BeginError, RestoreStable, RestartAfterError, Report, BeginAck,
        CheckAfterAck, RecordStable, SendReady, BasicAck
  <1>5. CASE Agent \/ ClientStarts \/ ClientLogsIn
    BY <1>5, OthersAppend DEF NoneAtBoot, Having
  <1>6. CASE UNCHANGED vars
    BY <1>6 DEF vars, NoneAtBoot, Having
  <1> QED
    BY <1>2, <1>3, <1>4, <1>5, <1>6, NoFault DEF Next

\* What a step may do to the queue.  A report or a commit request comes from a
\* process that runs a task, and carries the version that process started from.
LEMMA QueueMoves ==
  ASSUME Calm, IInv, [Next]_vars
  PROVE  \/ /\ UNCHANGED supQueue
            /\ step = "ack" => step' = "ack"
            /\ step' = "idle" => step = "idle" \/ step = "announce"
         \/ BasicAck
         \/ /\ UNCHANGED <<step, commits>>
            /\ \E message \in Message :
                 /\ supQueue' = Append(supQueue, message)
                 /\ message.type \in {"ack", "error", "commit"} =>
                      /\ agent.state = "running"
                      /\ message.head = agent.head /\ message.code = agent.code
  <1>0. TypeOK /\ requests \in Nat
    BY BoundsAssumption DEF IInv, TypeOK
  <1> DEFINE Sends(message) ==
               /\ UNCHANGED <<step, commits>>
               /\ message \in Message
               /\ supQueue' = Append(supQueue, message)
               /\ message.type \in {"ack", "error", "commit"} =>
                    /\ agent.state = "running"
                    /\ message.head = agent.head /\ message.code = agent.code
  <1>1. CASE RequestCommit
    <2>1. agent.task \in Tasks /\ agent.head \in Nat /\ agent.code \in Codes
      BY <1>0, <1>1, AgentChanges DEF RequestCommit, Request, Busy
    <2>2. Sends([type |-> "commit", task |-> agent.task, id |-> requests + 1,
                 head |-> agent.head, code |-> agent.code])
      BY <1>0, <1>1, <2>1 DEF RequestCommit, Request, AgentFrame, Message
    <2> QED
      BY <2>2
  <1>2. CASE RequestRollback
    <2>1. PICK sha \in 1 .. Len(commits) :
            Request([type |-> "rollback", sha |-> sha, id |-> requests + 1])
      BY <1>2 DEF RequestRollback
    <2>2. Sends([type |-> "rollback", sha |-> sha, id |-> requests + 1])
      BY <1>0, <2>1 DEF Having, Request, AgentFrame, Message
    <2> QED
      BY <2>2
  <1>3. CASE AgentAcks
    <2>1. agent.head \in Nat /\ agent.code \in Codes
      BY <1>0, AgentChanges
    <2>2. Sends([type |-> "ack", head |-> agent.head, code |-> agent.code])
      BY <1>3, <2>1, NoFault DEF AgentAcks, AgentFrame, Message
    <2> QED
      BY <2>2
  <1>4. CASE AgentFails
    <2>1. agent.task \in Tasks /\ agent.head \in Nat /\ agent.code \in Codes
      BY <1>0, <1>4, AgentChanges DEF AgentFails, Busy
    <2>2. Sends([type |-> "error", task |-> agent.task, head |-> agent.head,
                 code |-> agent.code])
      BY <1>4, <2>1, NoFault DEF AgentFails, AgentFrame, Message
    <2> QED
      BY <2>2
  <1>5. CASE ClientStarts
    <2>1. sent + 1 \in Tasks
      BY <1>0, <1>5, BoundsAssumption DEF ClientStarts, TypeOK, Tasks
    <2>2. Sends([type |-> "start", task |-> sent + 1])
      BY <1>5, <2>1 DEF ClientStarts, ClientFrame, versionVars, Message
    <2> QED
      BY <2>2
  <1>6. CASE ClientLogsIn
    <2>1. Sends([type |-> "login"])
      BY <1>6 DEF ClientLogsIn, ClientFrame, versionVars, Message
    <2> QED
      BY <2>1
  <1>7. CASE Supervisor
    BY <1>7
    DEF Supervisor, BootCheck, BootRecord, Announce, HandleStart, HandleLogin,
        HandleRollback, BeginCommit, CommitEdit, RecordPending, RestartCommitted,
        Replay, BeginError, RestoreStable, RestartAfterError, Report, BeginAck,
        CheckAfterAck, RecordStable, SendReady, Receives
  <1>8. CASE AgentBoot \/ AgentTakes \/ AgentEdits \/ AgentDies
    BY <1>8 DEF AgentBoot, AgentTakes, AgentEdits, AgentDies, AgentFrame
  <1>9. CASE UNCHANGED vars
    BY <1>9 DEF vars
  <1> QED
    BY <1>1, <1>2, <1>3, <1>4, <1>5, <1>6, <1>7, <1>8, <1>9, NoFault
    DEF Next, Agent

LEMMA NoAckBehindStep ==
  ASSUME Calm, IInv, TaskAtOnePlace, NoAckBehindCommit, [Next]_vars
  PROVE  NoAckBehindCommit'
  <1>0. TypeOK /\ HandlerOK
    BY DEF IInv
  <1>1. PICK n \in Nat : n = Len(supQueue)
    BY <1>0 DEF TypeOK
  <1>2. CASE UNCHANGED supQueue /\ (step = "ack" => step' = "ack")
    BY <1>2 DEF NoAckBehindCommit, Pending
  <1>3. CASE BasicAck
    <2>1. /\ step = "ack" /\ step' = "idle"
          /\ Len(supQueue') = n - 1
          /\ \A i \in 1 .. n - 1 : supQueue'[i] = supQueue[i + 1]
      BY <1>0, <1>1, <1>3, MessageInHand DEF BasicAck, HandlerOK
    <2>2. \A i \in 1 .. n - 1 : i + 1 \in 1 .. n /\ (Pending(i)' => Pending(i + 1))
      BY <2>1 DEF Pending
    <2> QED
      BY <1>1, <2>1, <2>2 DEF NoAckBehindCommit
  <1>4. ASSUME NEW message \in Message, supQueue' = Append(supQueue, message),
               UNCHANGED step, message.type = "ack" => agent.state = "running"
        PROVE  NoAckBehindCommit'
    <2>1. /\ Len(supQueue') = n + 1
          /\ supQueue'[n + 1] = message
          /\ \A i \in 1 .. n : supQueue'[i] = supQueue[i] /\ (Pending(i)' <=> Pending(i))
      BY <1>0, <1>1, <1>4, Appended
    <2>2. message.type = "ack" => \A i \in 1 .. n : ~Pending(i)
      BY <1>0, <1>1, <1>4, RunningAlone
    <2>3. ASSUME NEW i \in 1 .. Len(supQueue'), NEW j \in 1 .. Len(supQueue'),
                 Pending(i)', supQueue'[i].type = "commit", i < j
          PROVE  supQueue'[j].type # "ack"
      <3>1. i \in 1 .. n /\ Pending(i) /\ supQueue[i].type = "commit"
        BY <2>1, <2>3
      <3>2. CASE j = n + 1
        BY <2>1, <2>2, <3>1, <3>2
      <3>3. CASE j \in 1 .. n
        BY <1>1, <2>1, <2>3, <3>1, <3>3 DEF NoAckBehindCommit
      <3> QED
        BY <2>1, <3>2, <3>3
    <2> QED
      BY <2>3 DEF NoAckBehindCommit
  <1> QED
    BY <1>2, <1>3, <1>4, QueueMoves

\* What is in the queue when a version goes on probation knows it: nothing is.
LEMMA RecordedAlone ==
  ASSUME IInv, TaskAtOnePlace, RecordedTree, NoAckBehindCommit, RecordPending
  PROVE  MessagesKnow(Tip)' /\ TreeHolds(Tip)' /\ AckAhead'
  <1>1. /\ supQueue # << >> /\ step = "record" /\ Msg.type = "commit"
        /\ UNCHANGED <<supQueue, worktree, sent, finished>>
        /\ step' = "restartCommitted"
    BY DEF RecordPending, IInv, HandlerOK, SupFrame
  <1>2. /\ Len(supQueue) \in Nat /\ 1 \in 1 .. Len(supQueue)
        /\ supQueue[1] = Msg /\ Msg' = Msg
    BY <1>1, MessageInHand DEF IInv, Msg
  <1>3. Pending(1) /\ CarrierOK(1)
    BY <1>1, <1>2 DEF Pending, TaskAtOnePlace, OneCarrier
  <1>4. ASSUME NEW i \in 1 .. Len(supQueue), i # 1
        PROVE  supQueue[i].type \notin {"start", "ack", "error", "commit"}
    <2>1. ~Pending(i)
      BY <1>2, <1>3, <1>4 DEF TaskAtOnePlace, OneCarrier
    <2>2. supQueue[i].type # "ack"
      BY <1>1, <1>2, <1>3, <1>4 DEF NoAckBehindCommit
    <2> QED
      BY <1>4, <2>1, <2>2 DEF Pending
  <1>5. MessagesKnow(Tip)'
    BY <1>1, <1>4 DEF MessagesKnow
  <1>6. Tip \in 1 .. Len(commits) /\ Tip' = Tip
    BY <1>1, SnapshotEffect, EmptySeq
    DEF RecordPending, IInv, TypeOK, VersionsOK, SnapshotOK, Tip
  <1>7. commits'[Tip].code = commits[Tip].code
    BY <1>6, CodesKept DEF Next, Supervisor
  <1>8. TreeHolds(Tip)'
    BY <1>1, <1>6, <1>7 DEF TreeHolds, RecordedTree
  <1>9. AckAhead'
    <2>1. sent \in Nat /\ ~(1 .. sent \subseteq finished)
      <3>1. sent \in Nat /\ sent > 0 /\ sent \notin finished
        BY <1>3, BoundsAssumption DEF CarrierOK, IInv, TypeOK
      <3>2. sent \in 1 .. sent
        BY <3>1
      <3> QED
        BY <3>1, <3>2
    <2> QED
      BY <1>1, <1>2, <1>4, <2>1 DEF AckAhead
  <1> QED
    BY <1>5, <1>8, <1>9

\* What has just been committed stays in the work tree until it is recorded.
LEMMA RecordedTreeStep ==
  ASSUME Calm, IInv, TaskAtOnePlace, RecordedTree, [Next]_vars
  PROVE  RecordedTree'
  <1>0. TypeOK /\ HandlerOK /\ VersionsOK
    BY DEF IInv, TypeOK
  <1>1. CASE UNCHANGED <<step, commits, worktree>>
    BY <1>1 DEF RecordedTree, Tip
  <1>2. CASE step' # "record"
    BY <1>2 DEF RecordedTree
  <1>3. CASE CommitEdit
    <2>1. CASE GitCommit
      <3>1. UNCHANGED worktree
        BY <1>3 DEF CommitEdit
      <3>2. commits' = Append(commits, [code |-> worktree, status |-> "NONE"])
        BY <2>1 DEF GitCommit
      <3>3. commits'[Len(commits')] = [code |-> worktree, status |-> "NONE"]
        BY <1>0, <3>2, AppendProperties DEF VersionsOK
      <3> QED
        BY <3>1, <3>3 DEF RecordedTree, Tip
    <2> QED
      BY <1>2, <1>3, <2>1 DEF CommitEdit
  <1>4. CASE AgentEdits
    <2>1. \A i \in 1 .. Len(supQueue) : ~Pending(i)
      BY <1>0, <1>4, RunningAlone DEF AgentEdits
    <2>2. step # "record"
      BY <1>0, <2>1, MessageInHand DEF HandlerOK, Pending
    <2> QED
      BY <1>2, <1>4, <2>2 DEF AgentEdits, AgentFrame
  <1>5. CASE \/ BootCheck \/ BootRecord \/ Announce \/ HandleStart \/ HandleLogin
             \/ HandleRollback \/ BeginCommit \/ RecordPending \/ RestartCommitted
             \/ Replay \/ BeginError \/ RestoreStable \/ RestartAfterError
             \/ Report \/ BeginAck \/ CheckAfterAck \/ RecordStable \/ SendReady
             \/ BasicAck
    BY <1>2, <1>5
    DEF BootCheck, BootRecord, Announce, HandleStart, HandleLogin, HandleRollback,
        BeginCommit, RecordPending, RestartCommitted, Replay, BeginError,
        RestoreStable, RestartAfterError, Report, BeginAck, CheckAfterAck,
        RecordStable, SendReady, BasicAck
  <1>6. CASE \/ AgentBoot \/ AgentTakes \/ RequestCommit \/ RequestRollback
             \/ AgentAcks \/ AgentFails \/ AgentDies \/ ClientStarts \/ ClientLogsIn
    BY <1>1, <1>6
    DEF AgentBoot, AgentTakes, RequestCommit, RequestRollback, Request, AgentAcks,
        AgentFails, AgentDies, ClientStarts, ClientLogsIn, AgentFrame, ClientFrame,
        versionVars
  <1>7. CASE UNCHANGED vars
    BY <1>1, <1>7 DEF vars
  <1> QED
    BY <1>3, <1>4, <1>5, <1>6, <1>7, NoFault DEF Next, Supervisor, Agent

LEMMA MessagesStep ==
  ASSUME Calm, IInv, TaskAtOnePlace, HeadKnown, [Next]_vars,
         NEW sha \in Having("PENDING")
  PROVE  MessagesKnow(sha)'
  <1>0. /\ TypeOK /\ HandlerOK
        /\ MessagesKnow(sha) /\ AgentKnows(sha) /\ step # "announce"
    BY DEF IInv, HeadKnown, Probation, NoneAtBoot
  <1>1. PICK n \in Nat : n = Len(supQueue)
    BY <1>0 DEF TypeOK
  <1>c. commits'[sha].code = commits[sha].code
    BY CodesKept DEF Having
  <1>2. CASE UNCHANGED supQueue /\ (step' = "idle" => step = "idle" \/ step = "announce")
    BY <1>0, <1>c, <1>2 DEF MessagesKnow
  <1>3. CASE BasicAck
    <2>1. /\ Len(supQueue') = n - 1
          /\ \A i \in 1 .. n - 1 : supQueue'[i] = supQueue[i + 1]
      BY <1>0, <1>1, <1>3, MessageInHand DEF BasicAck, HandlerOK
    <2>2. \A i \in 1 .. n - 1 : i + 1 \in 1 .. n /\ i + 1 # 1
      BY <1>1
    <2> QED
      BY <1>0, <1>1, <1>c, <2>1, <2>2 DEF MessagesKnow
  <1>4. ASSUME NEW message \in Message, supQueue' = Append(supQueue, message),
               UNCHANGED step,
               message.type \in {"ack", "error", "commit"} =>
                 /\ agent.state = "running"
                 /\ message.head = agent.head /\ message.code = agent.code
        PROVE  MessagesKnow(sha)'
    <2>1. /\ Len(supQueue') = n + 1
          /\ supQueue'[n + 1] = message
          /\ \A i \in 1 .. n : supQueue'[i] = supQueue[i]
      BY <1>0, <1>1, <1>4, Appended
    <2>2. agent.state = "running" => step # "restartCommitted"
      BY <1>0, MessageInHand, RunningAlone DEF HandlerOK, Pending
    <2>3. message.type \in {"ack", "error", "commit"} =>
            message.head = sha /\ message.code = commits[sha].code
      BY <1>0, <1>4, <2>2 DEF AgentKnows, Busy
    <2>4. \A i \in 1 .. Len(supQueue') : i \in 1 .. n \/ i = n + 1
      BY <2>1
    <2> QED
      BY <1>0, <1>1, <1>c, <1>4, <2>1, <2>3, <2>4 DEF MessagesKnow
  <1> QED
    BY <1>2, <1>3, <1>4, QueueMoves

\* While a version is on probation no start message is in hand, and no failure.
LEMMA NoStartInHand ==
  ASSUME IInv, AckAhead
  PROVE  /\ ~HandleStart /\ ~RestoreStable /\ ~RestartAfterError /\ ~Report
         /\ ~CheckAfterAck /\ ~RecordStable /\ ~SendReady
  <1>1. HandlerOK /\ TypeOK
    BY DEF IInv
  <1>2. ~HandleStart
    <2>1. SUFFICES ASSUME HandleStart PROVE FALSE
      OBVIOUS
    <2>2. supQueue # << >> /\ Msg.type = "start"
      BY <2>1 DEF HandleStart, Receives
    <2>3. 1 \in 1 .. Len(supQueue) /\ supQueue[1].type = "start"
      BY <1>1, <2>2, MessageInHand
    <2>4. PICK j \in 1 .. 1 - 1 : supQueue[j].type = "ack"
      BY <2>3 DEF AckAhead
    <2> QED
      BY <2>4
  <1>3. step # "idle" => Msg.type \notin {"ack", "error"}
    BY DEF AckAhead
  <1> QED
    BY <1>1, <1>2, <1>3
    DEF RestoreStable, RestartAfterError, Report, CheckAfterAck, RecordStable,
        SendReady, HandlerOK

\* In the handler of a commit no task waits for the agent.
LEMMA NoneQueued ==
  ASSUME IInv, TaskAtOnePlace, \/ step = "restartCommitted" \/ HandleRollback
  PROVE  agentQueue = << >>
  <1>1. supQueue # << >> /\ step # "ack" /\ Msg.type \in {"commit", "rollback"}
    BY DEF IInv, HandlerOK, HandleRollback, Receives
  <1>2. 1 \in 1 .. Len(supQueue) /\ supQueue[1] = Msg
    BY <1>1, MessageInHand DEF IInv
  <1> QED
    BY <1>1, <1>2 DEF Pending, TaskAtOnePlace, OneCarrier, CarrierOK

\* A process that starts, starts from HEAD, and finds it in the work tree if a
\* task waits for it.
LEMMA AgentKnowsStep ==
  ASSUME Calm, IInv, TaskAtOnePlace, HeadKnown, [Next]_vars,
         NEW sha \in Having("PENDING")
  PROVE  AgentKnows(sha)'
  <1>0. /\ agent \in AgentRecord /\ AgentKnows(sha) /\ sha = Tip
        /\ TreeHolds(sha) /\ AckAhead
    BY DEF IInv, TypeOK, HeadKnown, Probation
  <1>c. commits'[sha].code = commits[sha].code
    BY CodesKept DEF Having
  <1>1. CASE /\ step = "restartCommitted" => step' = "restartCommitted"
             /\ step' = "replay" => step = "replay"
             /\ UNCHANGED <<agent, agentQueue>>
    BY <1>0, <1>c, <1>1 DEF AgentKnows, Busy
  <1>2. CASE /\ step = "restartCommitted" => step' = "restartCommitted"
             /\ Busy
             /\ agent'.head = agent.head /\ agent'.code = agent.code
    BY <1>0, <1>c, <1>2 DEF AgentKnows, Busy
  <1>3. CASE agent'.state = "down"
    BY <1>3 DEF AgentKnows
  <1>5. Reply => \/ UNCHANGED agent
                 \/ Busy /\ agent'.head = agent.head /\ agent'.code = agent.code
    BY <1>0 DEF Reply, AgentRecord, Busy
  <1>6. Down.state = "down"
    BY <1>0 DEF Down, AgentRecord
  <1>7. CASE HandleRollback \/ BeginCommit \/ CommitEdit
    <2>1. /\ UNCHANGED agentQueue /\ step # "restartCommitted" /\ step' # "replay"
          /\ Reply \/ UNCHANGED agent
      BY <1>7 DEF HandleRollback, BeginCommit, CommitEdit, Receives
    <2> QED
      BY <1>1, <1>2, <1>5, <2>1
  <1>8. CASE RestartCommitted
    BY <1>3, <1>6, <1>8 DEF RestartCommitted, StartAgent
  <1>9. CASE \/ BootCheck \/ BootRecord \/ Announce \/ HandleLogin
             \/ RecordPending \/ BeginError \/ BeginAck \/ BasicAck
    BY <1>1, <1>9
    DEF BootCheck, BootRecord, Announce, HandleLogin, RecordPending, BeginError,
        BeginAck, BasicAck, Receives
  <1>10. CASE Replay
    <2>1. step = "replay" /\ UNCHANGED agent
      BY <1>10 DEF Replay
    <2> QED
      BY <1>0, <1>c, <2>1 DEF AgentKnows
  <1>11. CASE AgentBoot
    <2>1. /\ agent' = [state |-> "idle", code |-> worktree, head |-> Tip,
                       task |-> NoTask]
          /\ UNCHANGED <<step, agentQueue, commits>>
      BY <1>11 DEF AgentBoot, AgentFrame
    <2> QED
      BY <1>0, <2>1 DEF AgentKnows, TreeHolds, Busy
  <1>12. CASE AgentTakes
    <2>1. /\ agent.state = "idle" /\ agentQueue # << >>
          /\ agent'.head = agent.head /\ agent'.code = agent.code
      BY <1>0, <1>12 DEF AgentTakes, AgentRecord
    <2>2. step # "restartCommitted"
      BY <2>1, NoneQueued
    <2> QED
      BY <1>0, <1>c, <2>1, <2>2 DEF AgentKnows
  <1>13. CASE RequestCommit \/ RequestRollback
    BY <1>0, <1>2, <1>13
    DEF RequestCommit, RequestRollback, Request, AgentFrame, AgentRecord, Busy
  <1>14. CASE AgentAcks \/ AgentFails \/ AgentDies
    BY <1>3, <1>6, <1>14 DEF AgentAcks, AgentFails, AgentDies
  <1>15. CASE AgentEdits \/ ClientStarts \/ ClientLogsIn \/ UNCHANGED vars
    BY <1>1, <1>15
    DEF AgentEdits, AgentFrame, ClientStarts, ClientLogsIn, ClientFrame, vars
  <1> QED
    BY <1>0, <1>7, <1>8, <1>9, <1>10, <1>11, <1>12, <1>13, <1>14, <1>15, NoFault,
       NoStartInHand
    DEF Next, Supervisor, Agent

\* From the commit until the agent takes the task again nothing changes the tree.
LEMMA TreeHoldsStep ==
  ASSUME Calm, IInv, TaskAtOnePlace, HeadKnown, [Next]_vars,
         NEW sha \in Having("PENDING")
  PROVE  TreeHolds(sha)'
  <1>0. TypeOK /\ HandlerOK /\ SnapshotOK /\ TreeHolds(sha) /\ AckAhead
    BY DEF IInv, HeadKnown, Probation
  <1>c. commits'[sha].code = commits[sha].code
    BY CodesKept DEF Having
  <1>1. CASE /\ UNCHANGED <<worktree, agentQueue>>
             /\ step' \in {"restartCommitted", "replay"} =>
                  step \in {"restartCommitted", "replay"}
    BY <1>0, <1>c, <1>1 DEF TreeHolds
  <1>2. CASE HandleRollback
    BY <1>2, NoneQueued DEF HandleRollback, TreeHolds
  <1>3. CASE RecordPending
    BY <1>0, <1>3 DEF RecordPending, SnapshotOK
  <1>4. CASE Replay
    BY <1>0, <1>c, <1>4 DEF Replay, versionVars, TreeHolds
  <1>5. CASE AgentTakes
    <2>1. UNCHANGED <<worktree, step>> /\ agentQueue # << >>
      BY <1>5 DEF AgentTakes, AgentFrame
    <2> QED
      BY <1>0, <1>c, <2>1 DEF TreeHolds
  <1>6. CASE AgentEdits
    <2>1. /\ \A i \in 1 .. Len(supQueue) : ~Pending(i)
          /\ step # "replay" /\ agentQueue = << >>
      BY <1>0, <1>6, RunningAlone DEF AgentEdits
    <2>2. step # "restartCommitted"
      BY <1>0, <2>1, MessageInHand DEF HandlerOK, Pending
    <2> QED
      BY <1>6, <2>1, <2>2 DEF AgentEdits, AgentFrame, TreeHolds
  <1>7. CASE \/ BootCheck \/ BootRecord \/ Announce \/ HandleLogin \/ BeginCommit
             \/ CommitEdit \/ RestartCommitted \/ BeginError \/ BeginAck \/ BasicAck
    BY <1>1, <1>7
    DEF BootCheck, BootRecord, Announce, HandleLogin, BeginCommit, CommitEdit,
        RestartCommitted, BeginError, BeginAck, BasicAck, versionVars
  <1>8. CASE \/ AgentBoot \/ RequestCommit \/ RequestRollback \/ AgentAcks
             \/ AgentFails \/ AgentDies \/ ClientStarts \/ ClientLogsIn
    BY <1>1, <1>8
    DEF AgentBoot, RequestCommit, RequestRollback, Request, AgentAcks, AgentFails,
        AgentDies, ClientStarts, ClientLogsIn, AgentFrame, ClientFrame, versionVars
  <1>9. CASE UNCHANGED vars
    BY <1>1, <1>9 DEF vars
  <1> QED
    BY <1>0, <1>2, <1>3, <1>4, <1>5, <1>6, <1>7, <1>8, <1>9, NoFault, NoStartInHand
    DEF Next, Supervisor, Agent

\* What a step in the middle of a probation does to the tasks that wait behind it.
LEMMA AckAheadStep ==
  ASSUME Calm, IInv, TaskAtOnePlace, NoneAtBoot, AckAhead, [Next]_vars,
         Having("PENDING") # {}, Having("PENDING")' # {}
  PROVE  AckAhead'
  <1>0. TypeOK /\ HandlerOK /\ VersionsOK /\ SnapshotOK /\ AtMostOnePending
    BY DEF IInv, TypeOK, SnapshotOK
  <1>1. PICK n \in Nat : n = Len(supQueue)
    BY <1>0 DEF TypeOK
  <1>2. CASE /\ UNCHANGED <<supQueue, sent, finished>>
             /\ step' # "idle" => Msg.type \notin {"start", "ack", "error"}
    BY <1>2 DEF AckAhead, Msg
  <1>3. CASE \/ BootCheck \/ BootRecord \/ Announce
    BY <1>3 DEF BootCheck, BootRecord, Announce, NoneAtBoot
  <1>4. CASE \/ HandleLogin \/ HandleRollback \/ BeginCommit \/ CommitEdit
             \/ RecordPending \/ RestartCommitted \/ Replay
    <2>1. UNCHANGED <<supQueue, sent, finished>>
      BY <1>4
      DEF HandleLogin, HandleRollback, BeginCommit, CommitEdit, RecordPending,
          RestartCommitted, Replay, SupFrame
    <2>2. Msg.type \notin {"start", "ack", "error"}
      BY <1>0, <1>4
      DEF HandleLogin, HandleRollback, BeginCommit, CommitEdit, RecordPending,
          RestartCommitted, Replay, Receives, HandlerOK, AckAhead
    <2> QED
      BY <1>2, <2>1, <2>2
  <1>5. CASE BeginAck
    BY <1>0, <1>5, MarkEffect DEF BeginAck
  <1>6. CASE BeginError
    <2>1. PICK sha \in Having("PENDING") : SetStatus(sha, "ERROR")
      BY <1>6 DEF BeginError
    <2>2. /\ Len(commits') = Len(commits)
          /\ commits'[sha].status = "ERROR"
          /\ \A i \in 1 .. Len(commits) : i # sha => commits'[i] = commits[i]
      BY <1>0, <2>1, SetStatusEffect DEF Having, Statuses
    <2> QED
      BY <1>0, <2>1, <2>2 DEF AtMostOnePending, Having
  <1>7. CASE BasicAck
    <2>1. /\ step = "ack" /\ step' = "idle" /\ UNCHANGED <<sent, finished>>
          /\ n > 0 /\ Len(supQueue') = n - 1 /\ Msg = supQueue[1]
          /\ \A i \in 1 .. n - 1 : supQueue'[i] = supQueue[i + 1]
      BY <1>0, <1>1, <1>7, MessageInHand DEF BasicAck, HandlerOK, SupFrame
    <2>2. supQueue[1].type # "ack"
      BY <2>1 DEF AckAhead
    <2>3. ASSUME NEW j \in 1 .. n, supQueue[j].type = "ack"
          PROVE  j - 1 \in 1 .. n - 1 /\ supQueue'[j - 1].type = "ack"
      BY <2>1, <2>2, <2>3
    <2>4. ASSUME NEW i \in 1 .. Len(supQueue'), supQueue'[i].type = "start"
          PROVE  \E j \in 1 .. i - 1 : supQueue'[j].type = "ack"
      <3>1. i + 1 \in 1 .. n /\ supQueue[i + 1].type = "start"
        BY <1>1, <2>1, <2>4
      <3>2. PICK j \in 1 .. (i + 1) - 1 : supQueue[j].type = "ack"
        BY <1>1, <3>1 DEF AckAhead
      <3>3. j \in 1 .. n
        BY <1>1, <3>1, <3>2
      <3> QED
        BY <2>3, <3>1, <3>2, <3>3
    <2>5. 1 .. sent \subseteq finished =>
            \E j \in 1 .. Len(supQueue') : supQueue'[j].type = "ack"
      BY <1>1, <2>1, <2>3 DEF AckAhead
    <2> QED
      BY <2>1, <2>4, <2>5 DEF AckAhead
  <1>8. CASE AgentBoot \/ AgentTakes \/ AgentEdits \/ AgentDies \/ UNCHANGED vars
    <2>1. UNCHANGED <<supQueue, sent, finished, step>>
      BY <1>8
      DEF AgentBoot, AgentTakes, AgentEdits, AgentDies, AgentFrame, clientVars, vars
    <2> QED
      BY <1>2, <2>1 DEF AckAhead
  <1>9. ASSUME NEW message \in Message, supQueue' = Append(supQueue, message),
               UNCHANGED step,
               message.type = "start" => 1 .. sent \subseteq finished,
               \/ message.type = "ack"
               \/ (1 .. sent \subseteq finished)' => 1 .. sent \subseteq finished
        PROVE  AckAhead'
    <2>1. /\ Len(supQueue') = n + 1
          /\ supQueue'[n + 1] = message
          /\ \A i \in 1 .. n : supQueue'[i] = supQueue[i]
      BY <1>0, <1>1, <1>9, Appended
    <2>2. step # "idle" => Msg' = Msg
      <3>1. step # "idle" => supQueue # << >>
        BY <1>0 DEF HandlerOK, NoneAtBoot
      <3>2. supQueue # << >> => n > 0
        BY <1>0, <1>1, MessageInHand
      <3>3. supQueue' # << >> /\ (n > 0 => 1 \in 1 .. n)
        BY <1>1, <2>1
      <3> QED
        BY <1>0, <1>1, <1>9, <2>1, <3>1, <3>2, <3>3 DEF Msg
    <2>3. ASSUME NEW i \in 1 .. Len(supQueue'), supQueue'[i].type = "start"
          PROVE  \E j \in 1 .. i - 1 : supQueue'[j].type = "ack"
      <3>1. CASE i \in 1 .. n
        <4>1. PICK j \in 1 .. i - 1 : supQueue[j].type = "ack"
          BY <1>1, <2>1, <2>3, <3>1 DEF AckAhead
        <4> QED
          BY <1>1, <2>1, <3>1, <4>1
      <3>2. CASE i = n + 1
        <4>1. PICK j \in 1 .. n : supQueue[j].type = "ack"
          BY <1>1, <1>9, <2>1, <2>3, <3>2 DEF AckAhead
        <4> QED
          BY <1>1, <2>1, <3>2, <4>1
      <3> QED
        BY <2>1, <3>1, <3>2
    <2>4. (1 .. sent \subseteq finished)' =>
            \E j \in 1 .. Len(supQueue') : supQueue'[j].type = "ack"
      <3>1. n + 1 \in 1 .. Len(supQueue') /\ \A j \in 1 .. n : j \in 1 .. Len(supQueue')
        BY <2>1
      <3> QED
        BY <1>1, <1>9, <2>1, <3>1 DEF AckAhead
    <2> QED
      BY <1>9, <2>2, <2>3, <2>4 DEF AckAhead
  <1>10. CASE RequestCommit \/ RequestRollback \/ AgentFails \/ ClientLogsIn
    <2>1. UNCHANGED <<sent, finished, step>>
      BY <1>10
      DEF RequestCommit, RequestRollback, Request, AgentFails, ClientLogsIn,
          AgentFrame, ClientFrame, clientVars
    <2> DEFINE Sends(message) ==
                 /\ supQueue' = Append(supQueue, message)
                 /\ message.type \in {"commit", "rollback", "error", "login"}
    <2>2. \E message : Sends(message)
      <3>1. CASE RequestCommit
        <4>1. Sends([type |-> "commit", task |-> agent.task, id |-> requests + 1,
                     head |-> agent.head, code |-> agent.code])
          BY <3>1 DEF RequestCommit, Request
        <4> QED
          BY <4>1
      <3>2. CASE RequestRollback
        <4>1. PICK sha \in 1 .. Len(commits) :
                Request([type |-> "rollback", sha |-> sha, id |-> requests + 1])
          BY <3>2 DEF RequestRollback
        <4>2. Sends([type |-> "rollback", sha |-> sha, id |-> requests + 1])
          BY <4>1 DEF Request
        <4> QED
          BY <4>2
      <3>3. CASE AgentFails
        <4>1. Sends([type |-> "error", task |-> agent.task, head |-> agent.head,
                     code |-> agent.code])
          BY <3>3, NoFault DEF AgentFails
        <4> QED
          BY <4>1
      <3>4. CASE ClientLogsIn
        <4>1. Sends([type |-> "login"])
          BY <3>4 DEF ClientLogsIn
        <4> QED
          BY <4>1
      <3> QED
        BY <1>10, <3>1, <3>2, <3>3, <3>4
    <2>3. PICK message : /\ supQueue' = Append(supQueue, message)
                         /\ message.type \in {"commit", "rollback", "error", "login"}
      BY <2>2
    <2>4. message \in Message
      <3>1. supQueue' \in Seq(Message)
        BY TypeStep DEF TypeOK
      <3>2. supQueue'[n + 1] = message /\ Len(supQueue') = n + 1
        BY <1>0, <1>1, <2>3 DEF TypeOK
      <3> QED
        BY <1>1, <3>1, <3>2
    <2> QED
      BY <1>9, <2>1, <2>3, <2>4
  <1>11. CASE AgentAcks
    <2> DEFINE message == [type |-> "ack", head |-> agent.head, code |-> agent.code]
    <2>1. message \in Message /\ message.type = "ack"
      BY <1>0, AgentChanges DEF Message
    <2>2. supQueue' = Append(supQueue, message) /\ UNCHANGED step
      BY <1>11, NoFault DEF AgentAcks, AgentFrame
    <2> QED
      BY <1>9, <2>1, <2>2
  <1>12. CASE ClientStarts
    <2>1. /\ sent \in Nat /\ sent + 1 \in Tasks /\ 1 .. sent \subseteq finished
          /\ finished \subseteq 1 .. sent /\ sent' = sent + 1
          /\ UNCHANGED <<finished, step>>
      BY <1>0, <1>12, BoundsAssumption
      DEF ClientStarts, ClientFrame, Calm, TypeOK, Tasks, TaskAtOnePlace, OthersOver
    <2> DEFINE message == [type |-> "start", task |-> sent + 1]
    <2>2. message \in Message /\ message.type = "start"
      BY <2>1 DEF Message
    <2>3. supQueue' = Append(supQueue, message)
      BY <1>12 DEF ClientStarts
    <2> HIDE DEF message
    <2>4. ~(1 .. sent \subseteq finished)'
      <3>1. sent + 1 \in 1 .. sent + 1 /\ sent + 1 \notin 1 .. sent
        BY <2>1
      <3> QED
        BY <2>1, <3>1
    <2> QED
      BY <1>9, <2>1, <2>2, <2>3, <2>4
  <1> QED
    BY <1>3, <1>4, <1>5, <1>6, <1>7, <1>8, <1>10, <1>11, <1>12, NoFault, NoStartInHand
    DEF Next, Supervisor, Agent

LEMMA HeadStep ==
  ASSUME Calm, IInv, AckSettled, TaskAtOnePlace, HeadKnown, [Next]_vars
  PROVE  HeadKnown'
  <1>1. NoneAtBoot' /\ NoAckBehindCommit' /\ RecordedTree'
    BY BootStep, NoAckBehindStep, RecordedTreeStep DEF HeadKnown
  <1>2. CASE RecordPending
    <2>1. Having("PENDING")' \subseteq {Tip} /\ Tip' = Tip
      BY <1>2, SnapshotEffect DEF RecordPending, IInv, TypeOK, SnapshotOK
    <2>2. MessagesKnow(Tip)' /\ TreeHolds(Tip)' /\ AckAhead'
      BY <1>2, RecordedAlone DEF HeadKnown
    <2>3. AgentKnows(Tip)'
      BY <1>2 DEF RecordPending, AgentKnows
    <2>4. \A sha \in Having("PENDING")' : sha = Tip'
      BY <2>1
    <2> QED
      BY <1>1, <2>2, <2>3, <2>4 DEF HeadKnown, Probation
  <1>3. CASE ~RecordPending
    <2>1. /\ Having("PENDING")' \subseteq Having("PENDING")
          /\ Having("PENDING")' # {} => Tip' = Tip
      BY <1>3, ProbationStep DEF HeadKnown
    <2>2. ASSUME NEW sha \in Having("PENDING")'
          PROVE  Probation(sha)'
      <3>1. sha \in Having("PENDING") /\ Tip' = Tip
        BY <2>1, <2>2
      <3>2. sha = Tip' /\ AckAhead
        BY <3>1 DEF HeadKnown, Probation
      <3>3. AckAhead'
        BY <2>2, <3>1, <3>2, AckAheadStep DEF HeadKnown
      <3> QED
        BY <3>1, <3>2, <3>3, MessagesStep, AgentKnowsStep, TreeHoldsStep DEF Probation
    <2> QED
      BY <1>1, <2>2 DEF HeadKnown
  <1> QED
    BY <1>2, <1>3

LEMMA HeadInitially == Init => HeadKnown
  BY EmptySeq
  DEF Init, VersionsInit, HeadKnown, NoneAtBoot, RecordedTree, NoAckBehindCommit, Having

\* A verdict is given on a message that knows the version it is about.
LEMMA VerdictStep ==
  Calm /\ IInv /\ HeadKnown /\ [Next]_vars
    => \A sha \in 1 .. Len(commits) :
         Settles(sha, "ERROR") \/ Settles(sha, "STABLE") => FromVersion(sha)
  <1> SUFFICES ASSUME Calm, IInv, HeadKnown, [Next]_vars,
                      NEW sha \in 1 .. Len(commits),
                      Settles(sha, "ERROR") \/ Settles(sha, "STABLE")
               PROVE  FromVersion(sha)
    OBVIOUS
  <1>0. /\ TypeOK /\ VersionsOK /\ SnapshotOK
        /\ sha \in Having("PENDING")
        /\ commits'[sha] # commits[sha]
    BY DEF IInv, TypeOK, Settles, Having
  <1>1. ~UNCHANGED commits
    BY <1>0
  <1>2. CASE BootCheck \/ CommitEdit \/ CheckAfterAck
    BY <1>0, <1>1, <1>2, CommitEffect DEF BootCheck, CommitEdit, CheckAfterAck
  <1>3. CASE BootRecord \/ RecordPending \/ RecordStable
    BY <1>0, <1>3, SnapshotEffect DEF BootRecord, RecordPending, RecordStable
  <1>4. CASE BeginCommit \/ BeginAck \/ BeginError
    <2>1. /\ step = "idle" /\ supQueue # << >>
          /\ Msg.type \in {"commit", "ack", "error"}
      BY <1>4 DEF BeginCommit, BeginAck, BeginError, Receives
    <2>2. 1 \in 1 .. Len(supQueue) /\ supQueue[1] = Msg
      BY <1>0, <2>1, MessageInHand
    <2>3. MessagesKnow(sha)
      BY <1>0 DEF HeadKnown, Probation
    <2> QED
      BY <2>1, <2>2, <2>3 DEF MessagesKnow, FromVersion
  <1>5. CASE \/ Announce \/ HandleStart \/ HandleLogin \/ HandleRollback
             \/ RestartCommitted \/ Replay \/ RestoreStable
             \/ RestartAfterError \/ Report \/ SendReady \/ BasicAck
    BY <1>1, <1>5
    DEF Announce, HandleStart, HandleLogin, HandleRollback, RestartCommitted,
        Replay, RestoreStable, RestartAfterError, Report, SendReady, BasicAck,
        versionVars
  <1>6. CASE Agent \/ ClientStarts \/ ClientLogsIn
    BY <1>1, <1>6, OthersAppend
  <1>7. CASE UNCHANGED vars
    BY <1>1, <1>7 DEF vars
  <1> QED
    BY <1>2, <1>3, <1>4, <1>5, <1>6, <1>7, NoFault DEF Next, Supervisor

LEMMA RejectionStep ==
  Calm /\ IInv /\ HeadKnown /\ [Next]_vars
    => [\A sha \in 1 .. Len(commits) : Settles(sha, "ERROR") => FromVersion(sha)]_vars
  BY VerdictStep

LEMMA PromotionStep ==
  Calm /\ IInv /\ HeadKnown /\ [Next]_vars
    => [\A sha \in 1 .. Len(commits) : Settles(sha, "STABLE") => FromVersion(sha)]_vars
  BY VerdictStep

\* With a client that sends one task at a time, error_handler rejects a version
\* for a failure of a process that ran that version and not edits on top of it;
\* also when processes are killed.
THEOREM RejectedJustly ==
  ASSUME Calm PROVE Spec => RejectedForItsOwnFailure
  <1>1. Init => AckSettled
    BY DEF Init, AckSettled
  <1>2. /\ IInv /\ TaskAtOnePlace /\ [Next]_vars => TaskAtOnePlace'
        /\ IInv /\ AckSettled /\ TaskAtOnePlace /\ HeadKnown /\ [Next]_vars => HeadKnown'
    BY TaskStep, HeadStep
  <1>3. IInv /\ HeadKnown /\ [Next]_vars
          => [\A sha \in 1 .. Len(commits) : Settles(sha, "ERROR") => FromVersion(sha)]_vars
    BY RejectionStep
  <1> QED
    BY <1>1, <1>2, <1>3, Initially, Inductive, TaskInitially, AckSettledStep,
       HeadInitially, PTL
    DEF Spec, RejectedForItsOwnFailure

\* Under the same conditions, a version becomes STABLE by the ack, or by the next
\* commit, of a process that ran it.
THEOREM PromotedJustly ==
  ASSUME Calm PROVE Spec => PromotedByItsOwnProcess
  <1>1. Init => AckSettled
    BY DEF Init, AckSettled
  <1>2. /\ IInv /\ TaskAtOnePlace /\ [Next]_vars => TaskAtOnePlace'
        /\ IInv /\ AckSettled /\ TaskAtOnePlace /\ HeadKnown /\ [Next]_vars => HeadKnown'
    BY TaskStep, HeadStep
  <1>3. IInv /\ HeadKnown /\ [Next]_vars
          => [\A sha \in 1 .. Len(commits) : Settles(sha, "STABLE") => FromVersion(sha)]_vars
    BY PromotionStep
  <1> QED
    BY <1>1, <1>2, <1>3, Initially, Inductive, TaskInitially, AckSettledStep,
       HeadInitially, PTL
    DEF Spec, PromotedByItsOwnProcess
=============================================================================
