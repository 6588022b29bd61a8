---------------------------- MODULE AgentProcess ----------------------------
(***************************************************************************)
(* The life of the agent's processes over one source tree: each loads its  *)
(* tools from the tree, asks the model, runs the calls of its message,     *)
(* learns skills from a verified answer, reports and exits.  Generated     *)
(* tools and skills are files of the tree that the supervisor commits and  *)
(* restores, so the three components meet there.                           *)
(*                                                                         *)
(* The supervisor's handlers, which SelfModification cuts into steps, are  *)
(* one step each here, together with the agent's restart that they cause.  *)
(* What else a call does than create a tool, commit or roll back leaves    *)
(* this state alone; edits of the tree by other tools are SelfModification's. *)
(***************************************************************************)
EXTENDS ModelStream, GeneratedTools, Skills

CONSTANTS
  MaxBoots,   \* bound: processes
  MaxAsks,    \* bound: requests to the model
  MaxFaults   \* bound: kills, failing writes, restarts of the supervisor

ASSUME BoundsAssumption ==
  /\ MaxBoots \in Nat
  /\ MaxAsks \in Nat
  /\ MaxFaults \in Nat

VARIABLES
  phase,    \* where the process stands
  todo,     \* the calls of the message that have not run
  ran,      \* those that have
  refresh,  \* refresh_tools
  stale,    \* version_rollback has changed the files under this process
  commits,  \* branch main with its snapshots
  boots, asks, faults

process == <<phase, todo, ran, refresh, stale>>
bounds == <<boots, asks, faults>>
vars == <<stream, tools, skillVars, process, commits, bounds>>

-----------------------------------------------------------------------------
(* The version store (module Versions), of which a version is a tree.      *)

Tree == [files |-> files, skills |-> skills, temps |-> temps]
EmptyTree ==
  [files |-> [name \in ToolNames |-> NoFile], skills |-> NoFiles, temps |-> NoFiles]
Trees == [files : [ToolNames -> Contents \cup {NoFile, Torn}],
          skills : [SkillNames -> File], temps : [SkillNames -> File]]
Version == [code : Trees, status : {"PENDING", "STABLE", "ERROR"}]

Store == INSTANCE Versions WITH
  Codes <- Trees, Base <- EmptyTree, worktree <- Tree, commits <- commits

Restore(sha) ==
  /\ files' = commits[sha].code.files
  /\ skills' = commits[sha].code.skills
  /\ temps' = commits[sha].code.temps

\* mark_pending_snapshot_stable, as far as this module needs it: the snapshots
\* it leaves.
Settled ==
  [sha \in DOMAIN commits |->
     IF commits[sha].status = "PENDING" THEN [commits[sha] EXCEPT !.status = "STABLE"]
                                        ELSE commits[sha]]

\* GitService.check(is_stable=True) on a history.
Checked(history) ==
  IF Store!Dirty THEN Append(history, [code |-> Tree, status |-> "STABLE"])
                 ELSE history

-----------------------------------------------------------------------------
Phases == {"down", "ask", "stream", "tools", "review", "save", "report"}

TypeOK ==
  /\ StreamOK /\ ToolsOK /\ SkillsOK
  /\ phase \in Phases
  /\ todo \in Seq(Seq(Piece))
  /\ ran \in Seq([call : Calls, args : {"all", "none"}])
  /\ refresh \in BOOLEAN /\ stale \in BOOLEAN
  /\ commits \in Seq(Version)
  /\ boots \in 0 .. MaxBoots
  /\ asks \in 0 .. MaxAsks
  /\ faults \in 0 .. MaxFaults

Init ==
  /\ StreamInit /\ ToolsInit /\ SkillsInit
  /\ phase = "down"
  /\ todo = << >> /\ ran = << >>
  /\ refresh = FALSE /\ stale = FALSE
  /\ commits = <<[code |-> EmptyTree, status |-> "STABLE"]>>
  /\ boots = 0 /\ asks = 0 /\ faults = 0

Fault ==
  /\ faults < MaxFaults
  /\ faults' = faults + 1
  /\ UNCHANGED <<boots, asks>>

\* The process is gone, whatever it was doing.
Down ==
  /\ phase' = "down"
  /\ todo' = << >> /\ ran' = << >>
  /\ refresh' = FALSE /\ stale' = FALSE
  /\ CloseStream("no") /\ ForgetTools /\ ForgetBatch

-----------------------------------------------------------------------------
(* The process.                                                            *)

\* Docker starts a process, which loads its tools and takes a task.
Boot ==
  /\ phase = "down"
  /\ boots < MaxBoots
  /\ boots' = boots + 1
  /\ LoadTools
  /\ phase' = "ask"
  /\ UNCHANGED <<stream, skillVars, todo, ran, refresh, stale, commits, asks, faults>>

\* call_model.
Ask ==
  /\ phase = "ask"
  /\ asks < MaxAsks
  /\ asks' = asks + 1
  /\ OpenStream
  /\ phase' = "stream"
  /\ UNCHANGED <<tools, skillVars, todo, ran, refresh, stale, commits, boots, faults>>

Deliver ==
  /\ phase = "stream"
  /\ \E call \in Calls : OpenaiPiece(call) \/ OllamaCall(call)
  /\ UNCHANGED <<tools, skillVars, process, commits, bounds>>

\* The stream is over; route_model.
Receive ==
  /\ phase = "stream"
  /\ StreamDone \/ StreamCut
  /\ todo' = Assembled
  /\ ran' = << >>
  /\ phase' = IF Assembled = << >> THEN "review" ELSE "tools"
  /\ UNCHANGED <<tools, skillVars, refresh, stale, commits, bounds>>

\* tool_node's loop comes to a call with these arguments.
Calling(args) ==
  /\ phase = "tools"
  /\ making = Idle
  /\ todo # << >>
  /\ Arguments(Head(todo)) = args

\* _run_tool, execute_tool.
Runs(args) ==
  /\ Calling(args)
  /\ ran' = Append(ran, [call |-> Head(todo)[1].call, args |-> args])
  /\ todo' = Tail(todo)

\* A call that does nothing here: create_tool that is refused, version_commit of
\* what does not compile (a torn file may, an empty one does), any other tool.
UseOther ==
  /\ \E args \in {"all", "some", "none"} : Runs(args)
  /\ \E create \in BOOLEAN : refresh' = (refresh \/ create)
  /\ UNCHANGED <<stream, tools, skillVars, phase, stale, commits, bounds>>

UseCreate ==
  /\ Runs("all")
  /\ \E name \in ToolNames, code \in Contents : OpenFile(name, code)
  /\ refresh' = TRUE
  /\ UNCHANGED <<stream, skillVars, phase, stale, commits, bounds>>

Create ==
  /\ WriteFile \/ LoadFile
  /\ UNCHANGED <<stream, skillVars, process, commits, bounds>>

CreateFails ==
  /\ WriteFails
  /\ Fault
  /\ UNCHANGED <<stream, skillVars, process, commits>>

\* The file ends the process that loads it, and nobody is told.
CreateExits ==
  /\ making.step = "written" /\ making.code = Exits
  /\ Down
  /\ UNCHANGED <<files, skills, temps, commits, bounds>>

\* version_rollback, to a version version_log showed: the files change, the
\* process goes on.
UseRollback ==
  /\ Runs("all")
  /\ \E sha \in Store!Having("STABLE") : Restore(sha)
  /\ stale' = TRUE
  /\ UNCHANGED <<stream, registry, offered, making, batch, saving, learned, told,
                 phase, refresh, commits, bounds>>

\* version_commit: the supervisor restarts the agent.
UseCommit ==
  /\ Calling("all")
  /\ Store!Dirty
  /\ commits' = Append(Settled, [code |-> Tree, status |-> "PENDING"])
  /\ Down
  /\ UNCHANGED <<files, skills, temps, bounds>>

\* version_commit without changes: what was on probation is stable all the same.
CommitNothing ==
  /\ Runs("all")
  /\ ~Store!Dirty
  /\ commits' = Settled
  /\ UNCHANGED <<stream, tools, skillVars, phase, refresh, stale, bounds>>

\* The end of tool_node.
ToolsDone ==
  /\ phase = "tools"
  /\ making = Idle
  /\ todo = << >>
  /\ IF refresh THEN Offer ELSE UNCHANGED offered
  /\ refresh' = FALSE
  /\ ran' = << >>
  /\ phase' = "ask"
  /\ UNCHANGED <<stream, files, registry, making, skillVars, todo, stale, commits,
                 bounds>>

\* review_node: back to the model, on to the skills, or to the end without them.
Review ==
  /\ phase = "review"
  /\ \/ phase' \in {"ask", "report"} /\ UNCHANGED skillVars
     \/ phase' = "save" /\ Generate
  /\ UNCHANGED <<stream, tools, todo, ran, refresh, stale, commits, bounds>>

Save ==
  /\ phase = "save"
  /\ Skip \/ OpenTemp \/ WriteTemp \/ Replace
  /\ UNCHANGED <<stream, tools, process, commits, bounds>>

SaveError ==
  /\ phase = "save"
  /\ SaveFails
  /\ Fault
  /\ UNCHANGED <<stream, tools, process, commits>>

TellUser ==
  /\ phase = "save"
  /\ Tell
  /\ phase' = "report"
  /\ UNCHANGED <<stream, tools, todo, ran, refresh, stale, commits, bounds>>

\* Variant: the ack only settles the version on probation.
AckUnchecked ==
  /\ phase = "report"
  /\ commits' = Settled
  /\ Down
  /\ UNCHANGED <<files, skills, temps, bounds>>

\* The run's ack: ack_handler settles the version on probation and commits what
\* the run has left in the tree.
Ack ==
  /\ phase = "report"
  /\ commits' = Checked(Settled)
  /\ Down
  /\ UNCHANGED <<files, skills, temps, bounds>>

\* The run raises, between two calls or in one whose arguments do not parse:
\* error_handler rejects a version on probation and restores the last stable one.
Fail ==
  /\ phase \in Phases \ {"down", "save"}
  /\ making = Idle
  /\ \E sha \in Store!Having("STABLE") :
       /\ Store!Latest(sha, "STABLE")
       /\ IF Store!Having("PENDING") = {}
            THEN UNCHANGED <<files, skills, temps, commits>>
            ELSE /\ Restore(sha)
                 /\ commits' = [v \in DOMAIN commits |->
                      IF commits[v].status = "PENDING"
                        THEN [commits[v] EXCEPT !.status = "ERROR"] ELSE commits[v]]
  /\ Down
  /\ UNCHANGED bounds

\* The container is killed: nothing is reported.
Kill ==
  /\ phase # "down"
  /\ Fault
  /\ Down
  /\ UNCHANGED <<files, skills, temps, commits>>

\* A restarting supervisor commits the tree, whatever the process is doing.
SupervisorRestart ==
  /\ Store!Dirty
  /\ Fault
  /\ commits' = Checked(commits)
  /\ UNCHANGED <<stream, tools, skillVars, process>>

Next ==
  \/ Boot \/ Ask \/ Deliver \/ Receive
  \/ UseOther \/ UseCreate \/ UseRollback \/ UseCommit \/ CommitNothing
  \/ ToolsDone
  \/ Create \/ CreateFails \/ CreateExits
  \/ Review \/ Save \/ SaveError \/ TellUser
  \/ Ack \/ Fail \/ Kill \/ SupervisorRestart

Spec == Init /\ [][Next]_vars

-----------------------------------------------------------------------------
(* Properties.                                                             *)

\* The calls that run are the provider's, in its order and none twice, those of a
\* stream that was cut too; from a stream that ended none is left out and every one
\* has all its arguments, however the pieces of several calls came.
CallsRunAsSent ==
  \A i \in DOMAIN ran :
    /\ \A j \in 1 .. i - 1 : ran[j].call < ran[i].call
    /\ ended = "done" => ran[i] = [call |-> i, args |-> "all"]

\* The model is asked with the specifications of just the functions that will
\* run: a create_tool, even one that failed, is not missed by the next request.
OfferedIsRegistered == phase \in {"ask", "stream"} => offered = registry

\* Registry and files agree between calls: every whole file is a registered tool,
\* whatever the other files do, and a file that is no tool is there only if a
\* kill, a failing write or a restarting supervisor cut a create_tool.  After a
\* version_rollback the process keeps the tools it had.
FilesAreTools ==
  phase # "down" /\ making = Idle /\ ~stale =>
    \A name \in ToolNames :
      /\ files[name] = name => Registered(name)
      /\ faults = 0 => files[name] \in {NoFile, name}

\* What skills_list and skill_view can read is whole, in the tree and in every
\* version, whatever is killed, fails or is committed meanwhile.
SkillFilesWhole ==
  \A name \in SkillNames :
    /\ skills[name] # "part"
    /\ \A sha \in DOMAIN commits : commits[sha].code.skills[name] # "part"

\* Skills "are versioned": one that the user was told of is in the tip of the
\* history when its run has been acknowledged, unless it was restored away before.
LearnedIsVersioned ==
  [][Ack => \A name \in told :
       commits'[Len(commits')].code.skills[name] = "whole"]_vars
=============================================================================
