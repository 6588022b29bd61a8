------------------------ MODULE AgentProcess_proofs ------------------------
(***************************************************************************)
(* Theorems about the life of the agent's processes, for every number of    *)
(* calls, names, skills, processes and faults.                             *)
(*                                                                         *)
(* The argument: a create_tool in progress is the only thing that puts      *)
(* files, registry and what the model is offered out of step, and it is     *)
(* part of a message that is still being worked on; so is a skill being     *)
(* saved, of which only the temporary file is ever partly written; and the  *)
(* calls that ran and those that are left are the message of the model.     *)
(***************************************************************************)
EXTENDS AgentProcess, ModelStream_proofs

\* What is in progress is in progress in its phase only.
InItsPhase ==
  /\ phase # "tools" => todo = << >> /\ ran = << >> /\ making = Idle
  /\ making # Idle => refresh
  /\ saving # "look" => phase = "save" /\ batch # << >>
  /\ phase # "report" => told = {}

\* The calls that have run, and those to run after them, are in their order.
InOrder ==
  /\ \A i \in 1 .. Len(ran) : \A j \in 1 .. i - 1 : ran[j].call < ran[i].call
  /\ \A i \in 1 .. Len(todo) : \A j \in 1 .. i - 1 : todo[j][1].call < todo[i][1].call
  /\ \A i \in 1 .. Len(ran), j \in 1 .. Len(todo) : ran[i].call < todo[j][1].call

\* The calls that ran and those left are those of the stream; one that has ended
\* has brought them whole.
CallsAreTheStreams ==
  /\ InOrder
  /\ \A i \in 1 .. Len(todo) : todo[i] # << >>
  /\ ended = "done" =>
       /\ \A i \in 1 .. Len(ran) : ran[i] = [call |-> i, args |-> "all"]
       /\ \A i \in 1 .. Len(todo) : Len(ran) + i \in Calls /\ todo[i] = Whole(Len(ran) + i)

\* What the model was offered is registered, but for what this message creates.
OfferedBefore ==
  phase # "down" => offered = registry \/ (phase = "tools" /\ refresh)

\* A file that is not being created, and its tool.
Made(name) == making = Idle \/ making.name # name
RegisteredFiles ==
  /\ making # Idle =>
       /\ ~Registered(making.name)
       /\ files[making.name] = IF making.step = "opened" THEN Torn ELSE making.code
  /\ phase # "down" => \A name \in Early \cup Late : Registered(name)
  /\ phase # "down" /\ ~stale =>
       \A name \in ToolNames : files[name] = name /\ Made(name) => Registered(name)

\* Without faults every file is a tool, unless it is being created, or has ended
\* its process and lets no other start.
UnfaultedFiles ==
  faults = 0 =>
    /\ \A sha \in 1 .. Len(commits), name \in ToolNames :
         commits[sha].code.files[name] \in {NoFile, name}
    /\ phase # "down" => \A name \in ToolNames : Made(name) => files[name] \in {NoFile, name}
    /\ phase = "down" /\ Loadable => \A name \in ToolNames : files[name] \in {NoFile, name}

\* What was saved, and what the user is told of, is there.
SkillsAreThere ==
  /\ SkillFilesWhole
  /\ saving = "written" => temps[Skill] = "whole"
  /\ phase = "save" => \A name \in learned : skills[name] = "whole"
  /\ phase = "report" => \A name \in told : skills[name] = "whole"

IInv ==
  /\ TypeOK
  /\ SlotsHoldPieces
  /\ InItsPhase
  /\ CallsAreTheStreams
  /\ OfferedBefore
  /\ RegisteredFiles
  /\ UnfaultedFiles
  /\ SkillsAreThere

-----------------------------------------------------------------------------
(* The history of versions.                                                *)

\* The tree, and those of the history, are trees.
LEMMA TreesAreTyped ==
  ASSUME TypeOK
  PROVE  /\ Tree \in Trees /\ EmptyTree \in Trees
         /\ \A sha \in 1 .. Len(commits) :
              /\ commits[sha].code.files \in [ToolNames -> Contents \cup {NoFile, Torn}]
              /\ commits[sha].code.skills \in [SkillNames -> File]
              /\ commits[sha].code.temps \in [SkillNames -> File]
<1>1. Tree \in Trees
  BY DEF TypeOK, ToolsOK, SkillsOK, Tree, Trees
<1>2. EmptyTree \in Trees
  BY DEF EmptyTree, Trees, NoFiles, File
<1>3. \A sha \in 1 .. Len(commits) : commits[sha].code \in Trees
  <2>1. commits \in Seq(Version)
    BY DEF TypeOK
  <2>2. \A sha \in 1 .. Len(commits) : commits[sha] \in Version
    BY <2>1
  <2> QED BY <2>2 DEF Version
<1> QED BY <1>1, <1>2, <1>3 DEF Trees

\* Settling versions changes nothing but their status.
LEMMA SettledKeepsCode ==
  ASSUME TypeOK
  PROVE  /\ Settled \in Seq(Version) /\ Len(Settled) = Len(commits)
         /\ \A sha \in 1 .. Len(commits) : Settled[sha].code = commits[sha].code
<1>1. /\ commits \in Seq(Version) /\ Len(commits) \in Nat /\ DOMAIN commits = 1 .. Len(commits)
      /\ \A sha \in 1 .. Len(commits) : commits[sha] \in Version
  BY DEF TypeOK
<1> DEFINE settled(sha) ==
      IF commits[sha].status = "PENDING" THEN [commits[sha] EXCEPT !.status = "STABLE"]
                                         ELSE commits[sha]
<1>2. \A sha \in 1 .. Len(commits) :
        settled(sha) \in Version /\ settled(sha).code = commits[sha].code
  BY <1>1 DEF Version
<1>3. Settled = [sha \in 1 .. Len(commits) |-> settled(sha)]
  BY <1>1 DEF Settled
<1> HIDE DEF settled
<1>4. Settled \in Seq(Version) /\ Len(Settled) = Len(commits)
  BY <1>1, <1>2, <1>3
<1> QED BY <1>2, <1>3, <1>4

\* So does committing the tree, which adds it at the end if it is not there.
LEMMA AppendKeepsCode ==
  ASSUME TypeOK, NEW history \in Seq(Version), Len(history) = Len(commits),
         \A sha \in 1 .. Len(commits) : history[sha].code = commits[sha].code,
         NEW status \in {"PENDING", "STABLE"},
         NEW more, more = Append(history, [code |-> Tree, status |-> status])
  PROVE  /\ more \in Seq(Version) /\ Len(more) = Len(commits) + 1
         /\ \A sha \in 1 .. Len(commits) : more[sha].code = commits[sha].code
         /\ more[Len(commits) + 1].code = Tree
<1> DEFINE new == [code |-> Tree, status |-> status]
<1>1. new \in Version /\ new.code = Tree
  BY TreesAreTyped DEF Version
<1> HIDE DEF new
<1>2. more = Append(history, new)
  BY DEF new
<1>3. /\ more \in Seq(Version) /\ Len(more) = Len(history) + 1
      /\ \A i \in 1 .. Len(history) : more[i] = history[i]
      /\ more[Len(history) + 1] = new
  BY <1>1, <1>2, AppendProperties
<1> QED BY <1>1, <1>3

\* GitService.check leaves the tree at the tip of a history.
LEMMA CheckedHasTree ==
  ASSUME TypeOK, NEW history \in Seq(Version), Len(history) = Len(commits),
         \A sha \in 1 .. Len(commits) : history[sha].code = commits[sha].code
  PROVE  /\ Checked(history) \in Seq(Version)
         /\ Len(Checked(history)) \in Len(commits) .. Len(commits) + 1
         /\ \A sha \in 1 .. Len(commits) : Checked(history)[sha].code = commits[sha].code
         /\ Len(Checked(history)) > 0
         /\ Checked(history)[Len(Checked(history))].code = Tree
<1>1. commits \in Seq(Version) /\ Len(commits) \in Nat
  BY DEF TypeOK
<1>2. CASE Store!Dirty
  <2> DEFINE more == Checked(history)
  <2>1. more = Append(history, [code |-> Tree, status |-> "STABLE"])
    BY <1>2 DEF Checked
  <2> HIDE DEF more
  <2>2. /\ more \in Seq(Version) /\ Len(more) = Len(commits) + 1
        /\ \A sha \in 1 .. Len(commits) : more[sha].code = commits[sha].code
        /\ more[Len(commits) + 1].code = Tree
    BY <2>1, AppendKeepsCode
  <2> QED BY <1>1, <2>2 DEF more
<1>3. CASE ~Store!Dirty
  <2>1. Checked(history) = history
    BY <1>3 DEF Checked
  <2>2. commits # << >> /\ commits[Len(commits)].code = Tree
    BY <1>3 DEF Store!Dirty, Store!Tip
  <2>3. Len(commits) > 0
    BY <1>1, <2>2, EmptySeq
  <2> QED BY <1>1, <2>1, <2>2, <2>3
<1> QED BY <1>2, <1>3

\* Every version of a later history was one before, or is the tree: that of a
\* process between two calls or at its end, unless a fault committed it.
HistoryKept ==
  /\ commits' \in Seq(Version)
  /\ Len(commits') >= Len(commits)
  /\ \A sha \in 1 .. Len(commits) : commits'[sha].code = commits[sha].code
  /\ \A sha \in 1 .. Len(commits') : sha > Len(commits) =>
       /\ commits'[sha].code = Tree
       /\ \/ faults' > faults
          \/ phase = "report"
          \/ phase = "tools" /\ making = Idle

LEMMA StepHistory == TypeOK /\ [Next]_vars => HistoryKept
<1> SUFFICES ASSUME TypeOK, [Next]_vars PROVE HistoryKept
  OBVIOUS
<1>0. commits \in Seq(Version) /\ Len(commits) \in Nat /\ faults \in Nat
  BY DEF TypeOK
<1>1. CASE commits' = commits
  BY <1>0, <1>1 DEF HistoryKept
<1>2. CASE UseCommit
  <2> DEFINE more == commits'
  <2>1. /\ commits' = Append(Settled, [code |-> Tree, status |-> "PENDING"])
        /\ phase = "tools" /\ making = Idle
    BY <1>2 DEF UseCommit, Calling
  <2>2. /\ commits' \in Seq(Version) /\ Len(commits') = Len(commits) + 1
        /\ \A sha \in 1 .. Len(commits) : commits'[sha].code = commits[sha].code
        /\ commits'[Len(commits) + 1].code = Tree
    BY <2>1, SettledKeepsCode, AppendKeepsCode
  <2> QED BY <1>0, <2>1, <2>2 DEF HistoryKept
<1>3. CASE CommitNothing
  <2>1. commits' = Settled
    BY <1>3 DEF CommitNothing
  <2> QED BY <1>0, <2>1, SettledKeepsCode DEF HistoryKept
<1>4. CASE Ack
  <2>1. commits' = Checked(Settled) /\ phase = "report"
    BY <1>4 DEF Ack
  <2>2. /\ commits' \in Seq(Version) /\ Len(commits') \in Len(commits) .. Len(commits) + 1
        /\ \A sha \in 1 .. Len(commits) : commits'[sha].code = commits[sha].code
        /\ commits'[Len(commits')].code = Tree
    BY <2>1, SettledKeepsCode, CheckedHasTree
  <2>3. \A sha \in 1 .. Len(commits') : sha > Len(commits) => sha = Len(commits')
    BY <1>0, <2>2
  <2> QED BY <1>0, <2>1, <2>2, <2>3 DEF HistoryKept
<1>5. CASE SupervisorRestart
  <2>1. commits' = Checked(commits) /\ faults' = faults + 1
    BY <1>5 DEF SupervisorRestart, Fault
  <2>2. /\ commits' \in Seq(Version) /\ Len(commits') \in Len(commits) .. Len(commits) + 1
        /\ \A sha \in 1 .. Len(commits) : commits'[sha].code = commits[sha].code
        /\ commits'[Len(commits')].code = Tree
    BY <1>0, <2>1, CheckedHasTree
  <2>3. \A sha \in 1 .. Len(commits') : sha > Len(commits) => sha = Len(commits')
    BY <1>0, <2>2
  <2>4. faults' > faults
    BY <1>0, <2>1
  <2> QED BY <1>0, <2>2, <2>3, <2>4 DEF HistoryKept
<1>6. ASSUME commits' = [v \in DOMAIN commits |->
               IF commits[v].status = "PENDING"
                 THEN [commits[v] EXCEPT !.status = "ERROR"] ELSE commits[v]]
      PROVE  HistoryKept
  <2> DEFINE rejected(v) == IF commits[v].status = "PENDING"
                              THEN [commits[v] EXCEPT !.status = "ERROR"] ELSE commits[v]
  <2>1. DOMAIN commits = 1 .. Len(commits)
    BY <1>0
  <2>2. \A v \in 1 .. Len(commits) : commits[v] \in Version
    BY <1>0
  <2>3. \A v \in 1 .. Len(commits) :
          rejected(v) \in Version /\ rejected(v).code = commits[v].code
    BY <2>2 DEF Version
  <2>4. commits' = [v \in 1 .. Len(commits) |-> rejected(v)]
    BY <1>6, <2>1
  <2> HIDE DEF rejected
  <2>5. commits' \in Seq(Version) /\ Len(commits') = Len(commits)
    BY <1>0, <2>3, <2>4
  <2> QED BY <1>0, <2>3, <2>4, <2>5 DEF HistoryKept
<1>7. CASE Fail
  <2>1. commits' = commits
        \/ commits' = [v \in DOMAIN commits |->
               IF commits[v].status = "PENDING"
                 THEN [commits[v] EXCEPT !.status = "ERROR"] ELSE commits[v]]
    BY <1>7 DEF Fail
  <2> QED BY <1>1, <1>6, <2>1
<1>8. CASE Boot \/ Ask \/ Deliver \/ Receive \/ UseOther \/ UseCreate \/ UseRollback
           \/ ToolsDone \/ Create \/ CreateFails \/ CreateExits
  <2>1. commits' = commits
    BY <1>8 DEF Boot, Ask, Deliver, Receive, UseOther, UseCreate, UseRollback, ToolsDone,
                Create, CreateFails, CreateExits
  <2> QED BY <1>1, <2>1
<1>9. CASE Review \/ Save \/ SaveError \/ TellUser \/ Kill \/ UNCHANGED vars
  <2>1. commits' = commits
    BY <1>9 DEF Review, Save, SaveError, TellUser, Kill, vars
  <2> QED BY <1>1, <2>1
<1> QED BY <1>2, <1>3, <1>4, <1>5, <1>7, <1>8, <1>9 DEF Next

-----------------------------------------------------------------------------
(* The types.                                                              *)

\* The stream.
LEMMA StepStream == StreamInv /\ [Next]_vars => StreamInv'
<1> SUFFICES ASSUME StreamInv, [Next]_vars PROVE StreamInv'
  OBVIOUS
<1>1. CASE UNCHANGED stream
  BY <1>1 DEF stream, StreamInv, StreamOK, SlotsHoldPieces
<1>2. CASE Ask
  BY <1>2, NothingLeft DEF Ask, StreamInv
<1>3. CASE Deliver
  BY <1>3, OpenaiKeepsOrder, OllamaKeepsOrder DEF Deliver
<1>4. CASE Receive
  BY <1>4, NothingLeft DEF Receive, StreamDone, StreamCut, StreamInv
<1>5. CASE Down
  BY <1>5, NothingLeft DEF Down, StreamInv
<1>6. CASE Boot \/ UseOther \/ UseCreate \/ UseRollback \/ CommitNothing \/ ToolsDone
           \/ Create \/ CreateFails
  BY <1>1, <1>6 DEF Boot, UseOther, UseCreate, UseRollback, CommitNothing, ToolsDone,
                    Create, CreateFails
<1>7. CASE Review \/ Save \/ SaveError \/ TellUser \/ SupervisorRestart
  BY <1>1, <1>7 DEF Review, Save, SaveError, TellUser, SupervisorRestart
<1>8. CASE UseCommit \/ CreateExits \/ Ack \/ Fail \/ Kill
  BY <1>5, <1>8 DEF UseCommit, CreateExits, Ack, Fail, Kill
<1>9. CASE UNCHANGED vars
  BY <1>1, <1>9 DEF vars
<1> QED BY <1>2, <1>3, <1>4, <1>6, <1>7, <1>8, <1>9 DEF Next

\* The last file that registers a name, if one does.
LEMMA LastIs ==
  ASSUME NEW S \in SUBSET ToolNames, S # {}
  PROVE  Last(S) \in S
<1>1. S \in SUBSET (0 .. NameCount) /\ NameCount \in Nat
  BY NamesAssumption DEF NamesAssumption, ToolNames
<1>2. \E x \in S : \A y \in S : y <= x
  BY <1>1, GreatestElement
<1> QED BY <1>2 DEF Last

\* What loading registers is of the names' type, and all the built-in tools and
\* every whole file have their name registered.
LEMMA LoadedRegisters ==
  ASSUME TypeOK
  PROVE  /\ LoadedRegistry \in [ToolNames -> ToolNames \cup {Nobody, Builtin}]
         /\ \A name \in Early \cup Late : LoadedRegistry[name] # Nobody
         /\ \A name \in ToolNames : files[name] = name => LoadedRegistry[name] # Nobody
<1> USE NamesAssumption DEF NamesAssumption
<1>1. \A name \in ToolNames :
        /\ Loaders(name) \in SUBSET ToolNames
        /\ Loaders(name) # {} => Last(Loaders(name)) \in ToolNames
  BY LastIs DEF Loaders
<1>2. Nobody \notin ToolNames /\ Builtin # Nobody
  BY DEF Nobody, Builtin, ToolNames
<1>3. LoadedRegistry \in [ToolNames -> ToolNames \cup {Nobody, Builtin}]
  BY <1>1 DEF LoadedRegistry
<1>4. \A name \in Early \cup Late : LoadedRegistry[name] # Nobody
  BY <1>1, <1>2 DEF LoadedRegistry
<1>5. ASSUME NEW name \in ToolNames, files[name] = name
      PROVE  LoadedRegistry[name] # Nobody
  <2>1. name \notin Early => name \in Loaders(name)
    BY <1>5 DEF Loaders
  <2> QED BY <1>1, <1>2, <1>4, <2>1 DEF LoadedRegistry
<1> QED BY <1>3, <1>4, <1>5

\* What version_rollback and error_handler put into the tree.
LEMMA RestoredIsTyped ==
  ASSUME TypeOK, NEW sha \in Store!Having("STABLE"), Restore(sha)
  PROVE  /\ sha \in 1 .. Len(commits)
         /\ files' = commits[sha].code.files /\ skills' = commits[sha].code.skills
         /\ files' \in [ToolNames -> Contents \cup {NoFile, Torn}]
         /\ skills' \in [SkillNames -> File]
         /\ temps' \in [SkillNames -> File]
BY TreesAreTyped DEF Store!Having, Restore

\* The create_tool in progress.
LEMMA MakingIs ==
  ASSUME ToolsOK, making # Idle
  PROVE  /\ making \in [step : {"opened", "written"}, name : ToolNames, code : Contents]
         /\ making.name \in ToolNames /\ making.code \in Contents
BY DEF ToolsOK

\* Files and registry.
LEMMA StepToolsOK == TypeOK /\ [Next]_vars => ToolsOK'
<1> SUFFICES ASSUME TypeOK, [Next]_vars PROVE ToolsOK'
  OBVIOUS
<1> DEFINE FileSet == Contents \cup {NoFile, Torn}
           Sources == ToolNames \cup {Nobody, Builtin}
<1>0. /\ ToolsOK
      /\ files \in [ToolNames -> FileSet]
      /\ registry \in [ToolNames -> Sources] /\ offered \in [ToolNames -> Sources]
  BY DEF TypeOK, ToolsOK
<1>1. CASE UNCHANGED tools
  BY <1>0, <1>1 DEF tools, ToolsOK
<1>2. ASSUME ForgetTools, files' \in [ToolNames -> FileSet] PROVE ToolsOK'
  BY <1>2 DEF ForgetTools, NoTools, ToolsOK
<1>3. CASE Boot
  BY <1>0, <1>3, LoadedRegisters DEF Boot, LoadTools, ToolsOK
<1>4. CASE UseCreate
  <2>1. PICK name \in ToolNames, code \in Contents : OpenFile(name, code)
    BY <1>4 DEF UseCreate
  <2>2. files' \in [ToolNames -> FileSet]
    BY <1>0, <2>1 DEF OpenFile
  <2>3. making' \in [step : {"opened", "written"}, name : ToolNames, code : Contents]
    BY <2>1 DEF OpenFile
  <2> QED BY <1>0, <2>1, <2>2, <2>3 DEF OpenFile, ToolsOK
<1>5. CASE Create
  <2>1. making # Idle
    BY <1>5 DEF Create, WriteFile, LoadFile, Idle
  <2>2. /\ making \in [step : {"opened", "written"}, name : ToolNames, code : Contents]
        /\ making.name \in ToolNames /\ making.code \in Contents
    BY <1>0, <2>1, MakingIs
  <2>3. CASE WriteFile
    <3>1. making' \in [step : {"opened", "written"}, name : ToolNames, code : Contents]
      BY <2>2, <2>3 DEF WriteFile
    <3>2. files' \in [ToolNames -> FileSet]
      BY <1>0, <2>2, <2>3 DEF WriteFile
    <3> QED BY <1>0, <2>3, <3>1, <3>2 DEF WriteFile, ToolsOK
  <2>4. CASE LoadFile
    <3>1. files' \in [ToolNames -> FileSet]
      BY <1>0, <2>2, <2>4 DEF LoadFile
    <3>2. registry' \in [ToolNames -> Sources]
      BY <1>0, <2>2, <2>4 DEF LoadFile, Execute
    <3> QED BY <1>0, <2>4, <3>1, <3>2 DEF LoadFile, ToolsOK
  <2> QED BY <1>5, <2>3, <2>4 DEF Create
<1>6. CASE CreateFails
  BY <1>0, <1>6 DEF CreateFails, WriteFails, ToolsOK
<1>7. CASE UseRollback
  BY <1>0, <1>7, RestoredIsTyped DEF UseRollback, ToolsOK
<1>8. CASE ToolsDone
  <2>1. /\ files' = files /\ registry' = registry /\ making' = making
        /\ offered' = registry \/ offered' = offered
    BY <1>8 DEF ToolsDone, Offer
  <2> QED BY <1>0, <2>1 DEF ToolsOK
<1>9. CASE Fail
  <2>1. files' \in [ToolNames -> FileSet]
    BY <1>0, <1>9, RestoredIsTyped DEF Fail
  <2> QED BY <1>2, <1>9, <2>1 DEF Fail, Down
<1>10. CASE UseCommit \/ CreateExits \/ Ack \/ Kill
  BY <1>0, <1>2, <1>10 DEF UseCommit, CreateExits, Ack, Kill, Down
<1>11. CASE Ask \/ Deliver \/ Receive \/ UseOther \/ CommitNothing \/ Review \/ Save
            \/ SaveError \/ TellUser \/ SupervisorRestart \/ UNCHANGED vars
  BY <1>1, <1>11 DEF Ask, Deliver, Receive, UseOther, CommitNothing, Review, Save,
                     SaveError, TellUser, SupervisorRestart, vars
<1> QED BY <1>3, <1>4, <1>5, <1>6, <1>7, <1>8, <1>9, <1>10, <1>11 DEF Next

\* The skill being saved.
LEMMA BatchIs ==
  ASSUME SkillsOK, batch # << >>
  PROVE  /\ Skill \in SkillNames
         /\ Tail(batch) \in Seq(SkillNames) /\ Len(Tail(batch)) <= MaxSkills
BY SkillsAssumption DEF SkillsAssumption, SkillsOK, Skill

\* The skills.
LEMMA StepSkillsOK == TypeOK /\ InItsPhase /\ [Next]_vars => SkillsOK'
<1> SUFFICES ASSUME TypeOK, InItsPhase, [Next]_vars PROVE SkillsOK'
  OBVIOUS
<1>0. SkillsOK /\ (saving # "look" => batch # << >>)
  BY DEF TypeOK, InItsPhase
<1>1. CASE UNCHANGED skillVars
  BY <1>0, <1>1 DEF skillVars, SkillsOK
<1>2. ASSUME ForgetBatch, skills' \in [SkillNames -> File], temps' \in [SkillNames -> File]
      PROVE  SkillsOK'
  BY <1>2, SkillsAssumption DEF SkillsAssumption, ForgetBatch, SkillsOK
<1>3. CASE Review
  <2>1. ASSUME Generate PROVE SkillsOK'
    <3>1. batch' \in Seq(SkillNames) /\ Len(batch') <= MaxSkills
      <4>1. PICK n \in 0 .. MaxSkills : batch' \in [1 .. n -> SkillNames]
        BY <2>1 DEF Generate, Batches
      <4>2. n \in Nat /\ n <= MaxSkills
        BY <4>1
      <4>3. batch' \in Seq(SkillNames) /\ Len(batch') = n
        BY <4>1, <4>2
      <4> QED BY <4>2, <4>3
    <3> QED BY <1>0, <2>1, <3>1 DEF Generate, SkillsOK
  <2> QED BY <1>1, <1>3, <2>1 DEF Review
<1>4. CASE Save
  <2>1. batch # << >>
    BY <1>0, <1>4 DEF Save, Skip, OpenTemp, WriteTemp, Replace
  <2>2. /\ Skill \in SkillNames
        /\ Tail(batch) \in Seq(SkillNames) /\ Len(Tail(batch)) <= MaxSkills
    BY <1>0, <2>1, BatchIs
  <2>3. temps[Skill] \in File
    BY <1>0, <2>2 DEF SkillsOK
  <2>4. Skip \/ OpenTemp \/ WriteTemp \/ Replace
    BY <1>4 DEF Save
  <2>5. CASE Skip
    BY <1>0, <2>2, <2>5 DEF Skip, SkillsOK
  <2>6. CASE OpenTemp \/ WriteTemp
    BY <1>0, <2>2, <2>6 DEF OpenTemp, WriteTemp, SkillsOK, File
  <2>7. CASE Replace
    <3>1. skills' \in [SkillNames -> File] /\ temps' \in [SkillNames -> File]
      BY <1>0, <2>2, <2>3, <2>7 DEF Replace, SkillsOK, File
    <3>2. learned' \subseteq SkillNames
      BY <1>0, <2>2, <2>7 DEF Replace, SkillsOK
    <3> QED BY <1>0, <2>2, <2>7, <3>1, <3>2 DEF Replace, SkillsOK
  <2> QED BY <2>4, <2>5, <2>6, <2>7
<1>5. CASE SaveError
  BY <1>0, <1>5, SkillsAssumption DEF SkillsAssumption, SaveError, SaveFails, SkillsOK
<1>6. CASE TellUser
  BY <1>0, <1>6 DEF TellUser, Tell, SkillsOK
<1>7. CASE UseRollback
  BY <1>0, <1>7, RestoredIsTyped DEF UseRollback, SkillsOK
<1>8. CASE Fail
  <2>1. skills' \in [SkillNames -> File] /\ temps' \in [SkillNames -> File]
    BY <1>0, <1>8, RestoredIsTyped DEF Fail, SkillsOK
  <2> QED BY <1>2, <1>8, <2>1 DEF Fail, Down
<1>9. CASE UseCommit \/ CreateExits \/ Ack \/ Kill
  <2>1. ForgetBatch /\ skills' = skills /\ temps' = temps
    BY <1>9 DEF UseCommit, CreateExits, Ack, Kill, Down
  <2> QED BY <1>0, <1>2, <2>1 DEF SkillsOK
<1>10. CASE Boot \/ Ask \/ Deliver \/ Receive \/ UseOther \/ UseCreate \/ CommitNothing
            \/ ToolsDone \/ Create \/ CreateFails \/ SupervisorRestart \/ UNCHANGED vars
  BY <1>1, <1>10 DEF Boot, Ask, Deliver, Receive, UseOther, UseCreate, CommitNothing,
                     ToolsDone, Create, CreateFails, SupervisorRestart, vars
<1> QED BY <1>3, <1>4, <1>5, <1>6, <1>7, <1>8, <1>9, <1>10 DEF Next

\* What is left of a message when its first call has run.
LEMMA RunsNext ==
  ASSUME TypeOK, CallsAreTheStreams, NEW args \in {"all", "some", "none"}, Runs(args)
  PROVE  /\ args \in {"all", "none"}
         /\ todo # << >> /\ Len(todo) \in Nat \ {0} /\ Len(ran) \in Nat
         /\ todo' \in Seq(Seq(Piece)) /\ Len(todo') = Len(todo) - 1
         /\ \A i \in 1 .. Len(todo') : todo'[i] = todo[i + 1]
         /\ ran' \in Seq([call : Calls, args : {"all", "none"}]) /\ Len(ran') = Len(ran) + 1
         /\ \A i \in 1 .. Len(ran) : ran'[i] = ran[i]
         /\ ran'[Len(ran) + 1] = [call |-> todo[1][1].call, args |-> args]
         /\ Arguments(todo[1]) = args
<1>1. /\ todo \in Seq(Seq(Piece)) /\ ran \in Seq([call : Calls, args : {"all", "none"}])
      /\ todo # << >>
  BY DEF TypeOK, Runs, Calling
<1>2. Len(todo) \in Nat \ {0} /\ Len(ran) \in Nat /\ Head(todo) = todo[1]
  BY <1>1
<1>3. todo[1] \in Seq(Piece) /\ todo[1] # << >>
  BY <1>1, <1>2 DEF CallsAreTheStreams
<1>4. todo[1][1] \in Piece
  BY <1>3
<1>5. todo[1][1].call \in Calls
  BY <1>4 DEF Piece
<1>6. Arguments(todo[1]) = args
  BY <1>2 DEF Runs, Calling
<1> DEFINE new == [call |-> todo[1][1].call, args |-> args]
<1>7. ran' = Append(ran, new) /\ todo' = Tail(todo)
  BY <1>2 DEF Runs
<1>8. CASE args \in {"all", "none"}
  <2>1. new \in [call : Calls, args : {"all", "none"}]
    BY <1>5, <1>8
  <2> HIDE DEF new
  <2>2. /\ ran' \in Seq([call : Calls, args : {"all", "none"}]) /\ Len(ran') = Len(ran) + 1
        /\ \A i \in 1 .. Len(ran) : ran'[i] = ran[i]
        /\ ran'[Len(ran) + 1] = new
    BY <1>1, <1>7, <2>1, AppendProperties
  <2>3. /\ todo' \in Seq(Seq(Piece)) /\ Len(todo') = Len(todo) - 1
        /\ \A i \in 1 .. Len(todo') : todo'[i] = todo[i + 1]
    BY <1>1, <1>2, <1>7, HeadTailProperties
  <2> QED BY <1>1, <1>2, <1>6, <1>8, <2>2, <2>3 DEF new
<1>9. CASE args \notin {"all", "none"}
  BY <1>6, <1>9 DEF Arguments
<1> QED BY <1>8, <1>9

LEMMA NoCalls ==
  ASSUME todo' = << >>, ran' = << >>
  PROVE  /\ todo' \in Seq(Seq(Piece)) /\ ran' \in Seq([call : Calls, args : {"all", "none"}])
         /\ CallsAreTheStreams'
<1>1. todo' \in Seq(Seq(Piece)) /\ ran' \in Seq([call : Calls, args : {"all", "none"}])
  BY EmptySeq
<1>2. Len(todo') = 0 /\ Len(ran') = 0 /\ 1 .. 0 = {}
  BY EmptySeq
<1>3. CallsAreTheStreams'
  BY <1>2 DEF CallsAreTheStreams, InOrder
<1> QED BY <1>1, <1>3

LEMMA SameCalls ==
  ASSUME TypeOK, CallsAreTheStreams, todo' = todo, ran' = ran, ended' = ended
  PROVE  /\ todo' \in Seq(Seq(Piece)) /\ ran' \in Seq([call : Calls, args : {"all", "none"}])
         /\ CallsAreTheStreams'
BY DEF TypeOK, CallsAreTheStreams, InOrder

LEMMA NextCall ==
  ASSUME TypeOK, CallsAreTheStreams, NEW args \in {"all", "some", "none"}, Runs(args),
         ended' = ended
  PROVE  /\ todo' \in Seq(Seq(Piece)) /\ ran' \in Seq([call : Calls, args : {"all", "none"}])
         /\ CallsAreTheStreams'
<1>1. /\ args \in {"all", "none"}
      /\ Len(todo) \in Nat \ {0} /\ Len(ran) \in Nat
      /\ todo' \in Seq(Seq(Piece)) /\ Len(todo') = Len(todo) - 1
      /\ \A i \in 1 .. Len(todo') : todo'[i] = todo[i + 1]
      /\ ran' \in Seq([call : Calls, args : {"all", "none"}]) /\ Len(ran') = Len(ran) + 1
      /\ \A i \in 1 .. Len(ran) : ran'[i] = ran[i]
      /\ ran'[Len(ran) + 1] = [call |-> todo[1][1].call, args |-> args]
      /\ Arguments(todo[1]) = args
  BY RunsNext
<1>2. \A i \in 1 .. Len(ran') : i \in 1 .. Len(ran) \/ i = Len(ran) + 1
  BY <1>1
<1>3. \A i \in 1 .. Len(todo') : i + 1 \in 1 .. Len(todo)
  BY <1>1
<1>4. InOrder'
  <2>0. /\ \A i \in 1 .. Len(ran) : \A j \in 1 .. i - 1 : ran[j].call < ran[i].call
        /\ \A i \in 1 .. Len(todo) : \A j \in 1 .. i - 1 :
             todo[j][1].call < todo[i][1].call
        /\ \A i \in 1 .. Len(ran), j \in 1 .. Len(todo) : ran[i].call < todo[j][1].call
    BY DEF CallsAreTheStreams, InOrder
  <2>1. 1 \in 1 .. Len(todo) /\ ran'[Len(ran) + 1].call = todo[1][1].call
    BY <1>1
  <2>2. ASSUME NEW i \in 1 .. Len(ran'), NEW j \in 1 .. i - 1
        PROVE  ran'[j].call < ran'[i].call
    <3>1. CASE i \in 1 .. Len(ran)
      <4>1. j \in 1 .. Len(ran)
        BY <1>1, <3>1
      <4> QED BY <1>1, <2>0, <3>1, <4>1
    <3>2. CASE i = Len(ran) + 1
      <4>1. j \in 1 .. Len(ran)
        BY <1>1, <3>2
      <4> QED BY <1>1, <2>0, <2>1, <3>2, <4>1
    <3> QED BY <1>2, <3>1, <3>2
  <2>3. ASSUME NEW i \in 1 .. Len(todo'), NEW j \in 1 .. i - 1
        PROVE  todo'[j][1].call < todo'[i][1].call
    <3>1. /\ i + 1 \in 1 .. Len(todo) /\ j + 1 \in 1 .. (i + 1) - 1
          /\ j \in 1 .. Len(todo')
      BY <1>1
    <3> QED BY <1>1, <2>0, <3>1
  <2>4. ASSUME NEW i \in 1 .. Len(ran'), NEW j \in 1 .. Len(todo')
        PROVE  ran'[i].call < todo'[j][1].call
    <3>1. j + 1 \in 1 .. Len(todo) /\ todo'[j] = todo[j + 1] /\ 1 \in 1 .. (j + 1) - 1
      BY <1>1
    <3>2. CASE i \in 1 .. Len(ran)
      BY <1>1, <2>0, <3>1, <3>2
    <3>3. CASE i = Len(ran) + 1
      BY <2>0, <2>1, <3>1, <3>3
    <3> QED BY <1>2, <3>2, <3>3
  <2> QED BY <2>2, <2>3, <2>4 DEF InOrder
<1>5. \A i \in 1 .. Len(todo') : todo'[i] # << >>
  BY <1>1, <1>3 DEF CallsAreTheStreams
<1>6. ASSUME ended' = "done"
      PROVE  /\ \A i \in 1 .. Len(ran') : ran'[i] = [call |-> i, args |-> "all"]
             /\ \A i \in 1 .. Len(todo') :
                  Len(ran') + i \in Calls /\ todo'[i] = Whole(Len(ran') + i)
  <2>1. /\ \A i \in 1 .. Len(ran) : ran[i] = [call |-> i, args |-> "all"]
        /\ \A i \in 1 .. Len(todo) : Len(ran) + i \in Calls /\ todo[i] = Whole(Len(ran) + i)
    BY <1>6 DEF CallsAreTheStreams
  <2> DEFINE c == Len(ran) + 1
  <2>2. c \in Calls /\ todo[1] = Whole(c)
    BY <1>1, <2>1
  <2>3. todo[1][1].call = c
    <3>1. 1 \in 1 .. ArgPieces + 1
      BY StreamAssumption DEF StreamAssumption
    <3>2. Whole(c)[1] = [call |-> c, part |-> 1 - 1]
      BY <2>2, <3>1, WholeIs
    <3> QED BY <2>2, <3>2
  <2>4. args = "all"
    BY <1>1, <2>2 DEF Arguments
  <2>5. \A i \in 1 .. Len(ran') : ran'[i] = [call |-> i, args |-> "all"]
    BY <1>1, <1>2, <2>1, <2>3, <2>4
  <2>6. \A i \in 1 .. Len(todo') : Len(ran') + i = Len(ran) + (i + 1)
    BY <1>1
  <2>7. \A i \in 1 .. Len(todo') :
          Len(ran) + (i + 1) \in Calls /\ todo'[i] = Whole(Len(ran) + (i + 1))
    BY <1>1, <1>3, <2>1
  <2> QED BY <2>5, <2>6, <2>7
<1>7. CallsAreTheStreams'
  BY <1>4, <1>5, <1>6 DEF CallsAreTheStreams
<1> QED BY <1>1, <1>7

\* The calls of a stream that is over.
LEMMA ReceivedCalls ==
  ASSUME TypeOK, SlotsHoldPieces, Receive
  PROVE  /\ todo' \in Seq(Seq(Piece)) /\ ran' \in Seq([call : Calls, args : {"all", "none"}])
         /\ CallsAreTheStreams'
<1>0. StreamInv
  BY DEF TypeOK, StreamInv
<1>1. todo' = Assembled /\ ran' = << >>
  BY DEF Receive
<1>2. /\ todo' \in Seq(Seq(Piece)) /\ \A i \in 1 .. Len(todo') : todo'[i] # << >>
      /\ \A i \in 1 .. Len(todo') : \A j \in 1 .. i - 1 :
           todo'[j][1].call < todo'[i][1].call
  BY <1>0, <1>1, AssembledCalls
<1>3. /\ ran' \in Seq([call : Calls, args : {"all", "none"}])
      /\ Len(ran') = 0 /\ 1 .. 0 = {}
  BY <1>1, EmptySeq
<1>4. ASSUME ended' = "done"
      PROVE  \A i \in 1 .. Len(todo') :
               Len(ran') + i \in Calls /\ todo'[i] = Whole(Len(ran') + i)
  <2>1. StreamDone
    BY <1>4 DEF Receive, StreamCut, CloseStream
  <2>2. Len(todo') = sent /\ \A k \in 1 .. sent : todo'[k] = Whole(k)
    BY <1>0, <1>1, <2>1, DoneIsWhole
  <2>3. sent \in 0 .. MaxCalls /\ MaxCalls \in Nat
    BY StreamAssumption DEF StreamAssumption, TypeOK, StreamOK
  <2>4. \A i \in 1 .. sent : i \in Calls /\ 0 + i = i
    BY <2>3 DEF Calls
  <2> QED BY <1>3, <2>2, <2>4
<1>5. CallsAreTheStreams'
  BY <1>2, <1>3, <1>4 DEF CallsAreTheStreams, InOrder
<1> QED BY <1>2, <1>3, <1>5

LEMMA StepCalls ==
  TypeOK /\ SlotsHoldPieces /\ InItsPhase /\ CallsAreTheStreams /\ [Next]_vars
    => /\ todo' \in Seq(Seq(Piece)) /\ ran' \in Seq([call : Calls, args : {"all", "none"}])
       /\ CallsAreTheStreams'
<1> SUFFICES ASSUME TypeOK, SlotsHoldPieces, InItsPhase, CallsAreTheStreams, [Next]_vars
             PROVE  /\ todo' \in Seq(Seq(Piece))
                    /\ ran' \in Seq([call : Calls, args : {"all", "none"}])
                    /\ CallsAreTheStreams'
  OBVIOUS
<1>1. CASE todo' = todo /\ ran' = ran /\ ended' = ended
  BY <1>1, SameCalls
<1>2. CASE todo' = << >> /\ ran' = << >>
  BY <1>2, NoCalls
<1>3. CASE \E args \in {"all", "some", "none"} : Runs(args) /\ ended' = ended
  BY <1>3, NextCall
<1>4. CASE Ask
  BY <1>2, <1>4 DEF Ask, InItsPhase
<1>5. CASE Deliver
  BY <1>1, <1>5 DEF Deliver, OpenaiPiece, OllamaCall, process
<1>6. CASE Receive
  BY <1>6, ReceivedCalls
<1>7. CASE UseOther \/ UseCreate \/ UseRollback \/ CommitNothing
  BY <1>3, <1>7 DEF UseOther, UseCreate, UseRollback, CommitNothing, stream
<1>8. CASE ToolsDone
  BY <1>2, <1>8 DEF ToolsDone
<1>9. CASE UseCommit \/ CreateExits \/ Ack \/ Fail \/ Kill
  BY <1>2, <1>9 DEF UseCommit, CreateExits, Ack, Fail, Kill, Down
<1>10. CASE Boot \/ Create \/ CreateFails \/ Review \/ Save \/ SaveError \/ TellUser
            \/ SupervisorRestart \/ UNCHANGED vars
  BY <1>1, <1>10 DEF Boot, Create, CreateFails, Review, Save, SaveError, TellUser,
                     SupervisorRestart, vars, stream, process
<1> QED BY <1>4, <1>5, <1>6, <1>7, <1>8, <1>9, <1>10 DEF Next

\* The process and the bounds.
LEMMA StepPhase ==
  TypeOK /\ [Next]_vars
    => /\ phase' \in Phases /\ refresh' \in BOOLEAN /\ stale' \in BOOLEAN
       /\ boots' \in 0 .. MaxBoots /\ asks' \in 0 .. MaxAsks /\ faults' \in 0 .. MaxFaults
<1> SUFFICES ASSUME TypeOK, [Next]_vars
             PROVE  /\ phase' \in Phases /\ refresh' \in BOOLEAN /\ stale' \in BOOLEAN
                    /\ boots' \in 0 .. MaxBoots /\ asks' \in 0 .. MaxAsks
                    /\ faults' \in 0 .. MaxFaults
  OBVIOUS
<1>0. /\ phase \in Phases /\ refresh \in BOOLEAN /\ stale \in BOOLEAN
      /\ boots \in 0 .. MaxBoots /\ asks \in 0 .. MaxAsks /\ faults \in 0 .. MaxFaults
      /\ MaxBoots \in Nat /\ MaxAsks \in Nat /\ MaxFaults \in Nat
  BY BoundsAssumption DEF TypeOK, BoundsAssumption
<1>1. ASSUME UNCHANGED bounds \/ Fault
      PROVE  /\ boots' \in 0 .. MaxBoots /\ asks' \in 0 .. MaxAsks
             /\ faults' \in 0 .. MaxFaults
  BY <1>0, <1>1 DEF bounds, Fault
<1>2. ASSUME Down
      PROVE  phase' \in Phases /\ refresh' \in BOOLEAN /\ stale' \in BOOLEAN
  BY <1>2 DEF Down, Phases
<1>3. CASE Boot \/ Ask
  BY <1>0, <1>3 DEF Boot, Ask, Phases
<1>4. CASE Deliver \/ UNCHANGED vars
  BY <1>0, <1>1, <1>4 DEF Deliver, process, vars
<1>5. CASE Receive
  BY <1>0, <1>1, <1>5 DEF Receive, Phases
<1>6. CASE UseOther
  <2>1. PICK create \in BOOLEAN : refresh' = (refresh \/ create)
    BY <1>6 DEF UseOther
  <2>2. refresh' \in BOOLEAN
    BY <2>1, Zenon
  <2> QED BY <1>0, <1>1, <1>6, <2>2 DEF UseOther
<1>7. CASE UseCreate \/ UseRollback \/ CommitNothing \/ Create \/ CreateFails
  BY <1>0, <1>1, <1>7 DEF UseCreate, UseRollback, CommitNothing, Create, CreateFails, process
<1>8. CASE ToolsDone
  BY <1>0, <1>1, <1>8 DEF ToolsDone, Phases
<1>9. CASE Review \/ TellUser
  BY <1>0, <1>1, <1>9 DEF Review, TellUser, Phases
<1>10. CASE Save \/ SaveError \/ SupervisorRestart
  BY <1>0, <1>1, <1>10 DEF Save, SaveError, SupervisorRestart, process
<1>11. CASE UseCommit \/ CreateExits \/ Ack \/ Fail \/ Kill
  <2>1. Down /\ (UNCHANGED bounds \/ Fault)
    BY <1>11 DEF UseCommit, CreateExits, Ack, Fail, Kill
  <2> QED BY <1>1, <1>2, <2>1
<1> QED BY <1>3, <1>4, <1>5, <1>6, <1>7, <1>8, <1>9, <1>10, <1>11 DEF Next

-----------------------------------------------------------------------------
(* What is in progress.                                                    *)

LEMMA StepInItsPhase == TypeOK /\ InItsPhase /\ [Next]_vars => InItsPhase'
<1> SUFFICES ASSUME TypeOK, InItsPhase, [Next]_vars PROVE InItsPhase'
  OBVIOUS
<1> USE DEF InItsPhase
<1>1. ASSUME Down PROVE InItsPhase'
  BY <1>1 DEF Down, ForgetTools, ForgetBatch
<1>2. CASE Boot \/ Ask
  BY <1>2 DEF Boot, Ask, LoadTools, skillVars, tools
<1>3. CASE Deliver \/ SupervisorRestart \/ UNCHANGED vars
  BY <1>3 DEF Deliver, SupervisorRestart, process, skillVars, tools, vars
<1>4. CASE Receive
  BY <1>4 DEF Receive, skillVars, tools
<1>5. CASE UseOther
  BY <1>5 DEF UseOther, Runs, Calling, skillVars, tools
<1>6. CASE UseCreate
  BY <1>6 DEF UseCreate, Runs, Calling, skillVars
<1>7. CASE Create
  <2>1. making # Idle
    BY <1>7 DEF Create, WriteFile, LoadFile, Idle
  <2> QED BY <1>7, <2>1 DEF Create, WriteFile, LoadFile, process, skillVars
<1>8. CASE CreateFails
  BY <1>8 DEF CreateFails, WriteFails, process, skillVars
<1>9. CASE UseRollback \/ CommitNothing
  BY <1>9 DEF UseRollback, CommitNothing, Runs, Calling, skillVars, tools
<1>10. CASE ToolsDone
  BY <1>10 DEF ToolsDone, skillVars
<1>11. CASE Review
  BY <1>11 DEF Review, Generate, skillVars, tools
<1>12. CASE Save
  BY <1>12 DEF Save, Skip, OpenTemp, WriteTemp, Replace, process, tools
<1>13. CASE SaveError
  BY <1>13 DEF SaveError, SaveFails, process, tools
<1>14. CASE TellUser
  BY <1>14 DEF TellUser, Tell, tools
<1>15. CASE UseCommit \/ CreateExits \/ Ack \/ Fail \/ Kill
  BY <1>1, <1>15 DEF UseCommit, CreateExits, Ack, Fail, Kill
<1> QED BY <1>2, <1>3, <1>4, <1>5, <1>6, <1>7, <1>8, <1>9, <1>10, <1>11, <1>12, <1>13,
           <1>14, <1>15 DEF Next

LEMMA StepOfferedBefore == InItsPhase /\ OfferedBefore /\ [Next]_vars => OfferedBefore'
<1> SUFFICES ASSUME InItsPhase, OfferedBefore, [Next]_vars PROVE OfferedBefore'
  OBVIOUS
<1> USE DEF OfferedBefore
<1>1. CASE Boot
  BY <1>1 DEF Boot, LoadTools
<1>2. CASE Ask \/ Deliver \/ Receive \/ SupervisorRestart \/ UNCHANGED vars
  BY <1>2 DEF Ask, Deliver, Receive, SupervisorRestart, process, tools, vars
<1>3. CASE UseOther
  BY <1>3 DEF UseOther, tools
<1>4. CASE UseCreate
  BY <1>4 DEF UseCreate, OpenFile, Runs, Calling
<1>5. CASE Create
  <2>1. making # Idle
    BY <1>5 DEF Create, WriteFile, LoadFile, Idle
  <2>2. phase = "tools" /\ refresh
    BY <2>1 DEF InItsPhase
  <2> QED BY <1>5, <2>2 DEF Create, process
<1>6. CASE CreateFails
  BY <1>6 DEF CreateFails, WriteFails, process
<1>7. CASE UseRollback \/ CommitNothing
  BY <1>7 DEF UseRollback, CommitNothing, tools
<1>8. CASE ToolsDone
  BY <1>8 DEF ToolsDone, Offer
<1>9. CASE Review \/ Save \/ SaveError \/ TellUser
  BY <1>9 DEF Review, Save, SaveError, TellUser, process, tools
<1>10. CASE UseCommit \/ CreateExits \/ Ack \/ Fail \/ Kill
  BY <1>10 DEF UseCommit, CreateExits, Ack, Fail, Kill, Down
<1> QED BY <1>1, <1>2, <1>3, <1>4, <1>5, <1>6, <1>7, <1>8, <1>9, <1>10 DEF Next

-----------------------------------------------------------------------------
(* Files and registry.                                                     *)

LEMMA StepRegisteredFiles == TypeOK /\ InItsPhase /\ RegisteredFiles /\ [Next]_vars => RegisteredFiles'
<1> SUFFICES ASSUME TypeOK, InItsPhase, RegisteredFiles, [Next]_vars PROVE RegisteredFiles'
  OBVIOUS
<1> USE NamesAssumption DEF NamesAssumption
<1>0. /\ ToolsOK /\ files \in [ToolNames -> Contents \cup {NoFile, Torn}]
      /\ registry \in [ToolNames -> ToolNames \cup {Nobody, Builtin}]
      /\ Torn \notin ToolNames /\ NoFile \notin ToolNames /\ Nobody \notin ToolNames
      /\ Early \cup Late \subseteq ToolNames
  BY DEF TypeOK, ToolsOK, Torn, NoFile, Nobody, ToolNames
<1>1. CASE UNCHANGED <<phase, files, registry, making, stale>>
  BY <1>1 DEF RegisteredFiles, Registered, Made
<1>2. ASSUME Down PROVE RegisteredFiles'
  BY <1>2 DEF Down, ForgetTools, RegisteredFiles
<1>3. CASE Boot
  <2>1. /\ making' = Idle /\ files' = files /\ registry' = LoadedRegistry
    BY <1>3 DEF Boot, LoadTools
  <2>2. /\ \A name \in Early \cup Late : registry'[name] # Nobody
        /\ \A name \in ToolNames : files'[name] = name => registry'[name] # Nobody
    BY <2>1, LoadedRegisters
  <2> QED BY <2>1, <2>2 DEF RegisteredFiles, Registered
<1>4. CASE UseCreate
  <2>1. PICK name \in ToolNames, code \in Contents : OpenFile(name, code)
    BY <1>4 DEF UseCreate
  <2>2. /\ making' = [step |-> "opened", name |-> name, code |-> code]
        /\ registry' = registry /\ registry[name] = Nobody
        /\ files'[name] = Torn
        /\ \A n \in ToolNames : n # name => files'[n] = files[n]
        /\ stale' = stale /\ phase' = "tools" /\ phase = "tools" /\ making = Idle
    BY <1>0, <1>4, <2>1 DEF OpenFile, UseCreate, Runs, Calling, Registered
  <2> QED BY <1>0, <2>2 DEF RegisteredFiles, Registered, Made
<1>5. CASE Create
  <2>1. making # Idle
    BY <1>5 DEF Create, WriteFile, LoadFile, Idle
  <2>2. /\ making \in [step : {"opened", "written"}, name : ToolNames, code : Contents]
        /\ making.name \in ToolNames /\ making.code \in Contents
    BY <1>0, <2>1, MakingIs
  <2>3. phase' = phase /\ stale' = stale /\ phase = "tools"
    BY <1>5, <2>1 DEF Create, process, InItsPhase
  <2>4. CASE WriteFile
    <3>1. /\ registry' = registry
          /\ making' = [making EXCEPT !.step = "written"]
          /\ making'.name = making.name /\ making'.code = making.code
          /\ making'.step = "written"
          /\ files'[making.name] = making.code
          /\ \A n \in ToolNames : n # making.name => files'[n] = files[n]
      BY <1>0, <2>2, <2>4 DEF WriteFile
    <3>2. making' # Idle
      BY <3>1 DEF Idle
    <3>3. /\ registry'[making'.name] = Nobody
          /\ files'[making'.name] = making'.code
      BY <2>1, <3>1 DEF RegisteredFiles, Registered
    <3>4. \A name \in Early \cup Late : registry'[name] # Nobody
      BY <2>3, <3>1 DEF RegisteredFiles, Registered
    <3>5. ~stale' => \A name \in ToolNames :
            files'[name] = name /\ name # making'.name => registry'[name] # Nobody
      BY <2>1, <2>3, <3>1 DEF RegisteredFiles, Registered, Made
    <3> QED BY <3>1, <3>2, <3>3, <3>4, <3>5 DEF RegisteredFiles, Registered, Made
  <2>5. CASE LoadFile
    <3>1. /\ making' = Idle
          /\ \A n \in ToolNames : n # making.name => files'[n] = files[n]
          /\ making.code # making.name => files'[making.name] = NoFile
          /\ \A n \in ToolNames : registry[n] # Nobody => registry'[n] # Nobody
          /\ making.code = making.name => registry'[making.name] # Nobody
      BY <1>0, <2>2, <2>5 DEF LoadFile, Execute
    <3>2. \A name \in Early \cup Late : registry'[name] # Nobody
      BY <1>0, <2>3, <3>1 DEF RegisteredFiles, Registered
    <3>3. ~stale' => \A name \in ToolNames : files'[name] = name => registry'[name] # Nobody
      BY <1>0, <2>3, <3>1 DEF RegisteredFiles, Registered, Made
    <3> QED BY <3>1, <3>2, <3>3 DEF RegisteredFiles, Registered
  <2> QED BY <1>5, <2>4, <2>5 DEF Create
<1>6. CASE CreateFails
  <2>1. /\ making' = Idle /\ files' = files /\ registry' = registry
        /\ making.step = "opened" /\ phase' = phase /\ stale' = stale
    BY <1>6 DEF CreateFails, WriteFails, process
  <2>2. making # Idle /\ files[making.name] = Torn
    BY <2>1 DEF RegisteredFiles, Idle
  <2>3. \A name \in ToolNames : files[name] = name => Made(name)
    BY <1>0, <2>2 DEF Made
  <2> QED BY <2>1, <2>3 DEF RegisteredFiles, Registered
<1>7. CASE UseRollback
  <2>1. /\ making' = Idle /\ registry' = registry /\ stale' = TRUE
        /\ phase' = phase
    BY <1>7 DEF UseRollback, Runs, Calling
  <2> QED BY <2>1 DEF RegisteredFiles, Registered
<1>8. CASE Ask \/ Receive \/ ToolsDone \/ Review \/ TellUser
  BY <1>8 DEF Ask, Receive, ToolsDone, Review, TellUser, tools,
              RegisteredFiles, Registered, Made
<1>9. CASE UseOther \/ CommitNothing
  BY <1>1, <1>9 DEF UseOther, CommitNothing, tools
<1>10. CASE Deliver \/ Save \/ SaveError \/ SupervisorRestart \/ UNCHANGED vars
  BY <1>1, <1>10 DEF Deliver, Save, SaveError, SupervisorRestart, tools, process, vars
<1>11. CASE UseCommit \/ CreateExits \/ Ack \/ Fail \/ Kill
  BY <1>2, <1>11 DEF UseCommit, CreateExits, Ack, Fail, Kill
<1> QED BY <1>3, <1>4, <1>5, <1>6, <1>7, <1>8, <1>9, <1>10, <1>11 DEF Next

\* Without faults, every version has only files that are tools.
LEMMA UnfaultedVersions ==
  ASSUME TypeOK, InItsPhase, UnfaultedFiles, [Next]_vars, faults' = 0, faults = 0
  PROVE  \A sha \in 1 .. Len(commits'), name \in ToolNames :
           commits'[sha].code.files[name] \in {NoFile, name}
<1>1. HistoryKept /\ commits \in Seq(Version) /\ Len(commits) \in Nat
  BY StepHistory DEF TypeOK
<1>2. \A sha \in 1 .. Len(commits), name \in ToolNames :
        commits'[sha].code.files[name] \in {NoFile, name}
  BY <1>1 DEF HistoryKept, UnfaultedFiles
<1>3. ASSUME NEW sha \in 1 .. Len(commits'), sha > Len(commits), NEW name \in ToolNames
      PROVE  commits'[sha].code.files[name] \in {NoFile, name}
  <2>1. commits'[sha].code = Tree /\ phase # "down" /\ making = Idle
    BY <1>1, <1>3 DEF HistoryKept, InItsPhase
  <2>2. Tree.files = files
    BY DEF Tree
  <2> QED BY <2>1, <2>2 DEF UnfaultedFiles, Made
<1>4. \A sha \in 1 .. Len(commits') : sha \in 1 .. Len(commits) \/ sha > Len(commits)
  <2>1. Len(commits') \in Nat
    BY <1>1 DEF HistoryKept
  <2> QED BY <1>1, <2>1
<1> QED BY <1>2, <1>3, <1>4

LEMMA StepUnfaultedFiles ==
  TypeOK /\ InItsPhase /\ RegisteredFiles /\ UnfaultedFiles /\ [Next]_vars => UnfaultedFiles'
<1> SUFFICES ASSUME TypeOK, InItsPhase, RegisteredFiles, UnfaultedFiles, [Next]_vars,
                    faults' = 0
             PROVE  /\ \A sha \in 1 .. Len(commits'), name \in ToolNames :
                         commits'[sha].code.files[name] \in {NoFile, name}
                    /\ phase' # "down" => \A name \in ToolNames :
                         making' = Idle \/ making'.name # name => files'[name] \in {NoFile, name}
                    /\ phase' = "down" /\ Loadable' => \A name \in ToolNames :
                         files'[name] \in {NoFile, name}
  BY DEF UnfaultedFiles, Made
<1> USE NamesAssumption DEF NamesAssumption
<1>0. /\ ToolsOK /\ files \in [ToolNames -> Contents \cup {NoFile, Torn}]
      /\ faults \in Nat
  BY DEF TypeOK, ToolsOK
<1>1. faults = 0 /\ ~Fault
  <2>1. [Next]_vars => faults' = faults \/ faults' = faults + 1
    BY DEF Next, vars, bounds, Boot, Ask, Deliver, Receive, UseOther, UseCreate,
           UseRollback, UseCommit, CommitNothing, ToolsDone, Create, CreateFails,
           CreateExits, Review, Save, SaveError, TellUser, Ack, Fail, Kill,
           SupervisorRestart, Fault
  <2> QED BY <1>0, <2>1 DEF Fault
<1>2. \A sha \in 1 .. Len(commits'), name \in ToolNames :
        commits'[sha].code.files[name] \in {NoFile, name}
  BY <1>1, UnfaultedVersions
<1> DEFINE Fine == \A name \in ToolNames : files'[name] \in {NoFile, name}
           Goal == /\ phase' # "down" => \A name \in ToolNames :
                         making' = Idle \/ making'.name # name => files'[name] \in {NoFile, name}
                   /\ phase' = "down" /\ Loadable' => Fine
<1> SUFFICES Goal
  BY <1>2
<1>3. CASE Fine
  BY <1>3
<1>4. ASSUME phase # "down", making = Idle, files' = files PROVE Fine
  BY <1>1, <1>4 DEF UnfaultedFiles, Made
<1>5. ASSUME NEW sha \in Store!Having("STABLE"), Restore(sha) PROVE Fine
  BY <1>1, <1>5, RestoredIsTyped DEF UnfaultedFiles
<1>6. CASE UNCHANGED <<phase, files, making>>
  <2>1. Loadable' = Loadable
    BY <1>6 DEF Loadable
  <2> QED BY <1>1, <1>6, <2>1 DEF UnfaultedFiles, Made
<1>7. CASE Boot
  <2>1. phase = "down" /\ Loadable /\ files' = files
    BY <1>7 DEF Boot, LoadTools
  <2> QED BY <1>1, <1>3, <2>1 DEF UnfaultedFiles
<1>8. CASE UseCreate
  <2>1. PICK name \in ToolNames, code \in Contents : OpenFile(name, code)
    BY <1>8 DEF UseCreate
  <2>2. /\ making'.name = name /\ making' # Idle /\ making = Idle
        /\ \A n \in ToolNames : n # name => files'[n] = files[n]
        /\ phase' = "tools" /\ phase = "tools"
    BY <1>0, <1>8, <2>1 DEF OpenFile, UseCreate, Runs, Calling, Idle
  <2> QED BY <1>1, <2>2 DEF UnfaultedFiles, Made
<1>9. CASE Create
  <2>1. making # Idle
    BY <1>9 DEF Create, WriteFile, LoadFile, Idle
  <2>2. /\ making \in [step : {"opened", "written"}, name : ToolNames, code : Contents]
        /\ making.name \in ToolNames /\ making.code \in Contents
    BY <1>0, <2>1, MakingIs
  <2>3. phase' = phase /\ phase = "tools"
    BY <1>9, <2>1 DEF Create, process, InItsPhase
  <2>4. \A n \in ToolNames : n # making.name => files'[n] = files[n] /\ files[n] \in {NoFile, n}
    BY <1>0, <1>1, <1>9, <2>2, <2>3 DEF Create, WriteFile, LoadFile, UnfaultedFiles, Made
  <2>5. CASE WriteFile
    <3>1. making'.name = making.name /\ making'.step = "written"
      BY <2>2, <2>5 DEF WriteFile
    <3>2. making' # Idle
      BY <3>1 DEF Idle
    <3> QED BY <2>3, <2>4, <3>1, <3>2
  <2>6. CASE LoadFile
    <3>1. files'[making.name] \in {NoFile, making.name}
      <4>1. making.step # "opened"
        BY <2>6 DEF LoadFile
      <4>2. files[making.name] = making.code
        BY <2>1, <4>1 DEF RegisteredFiles
      <4> QED BY <1>0, <2>2, <2>6, <4>2 DEF LoadFile
    <3>2. Fine
      BY <2>4, <3>1
    <3> QED BY <1>3, <3>2
  <2> QED BY <1>9, <2>5, <2>6 DEF Create
<1>10. CASE CreateFails \/ SaveError \/ Kill \/ SupervisorRestart
  BY <1>1, <1>10 DEF CreateFails, SaveError, Kill, SupervisorRestart
<1>11. CASE CreateExits
  <2>1. /\ making.step = "written" /\ making.code = Exits
        /\ files' = files /\ phase' = "down"
    BY <1>11 DEF CreateExits, Down
  <2>2. making # Idle
    BY <2>1 DEF Idle
  <2>3. /\ making.name \in ToolNames /\ ~Registered(making.name)
        /\ files[making.name] = Exits
    BY <1>0, <2>1, <2>2, MakingIs DEF RegisteredFiles
  <2>4. phase # "down"
    BY <2>2 DEF InItsPhase
  <2>5. making.name \notin Early
    BY <2>3, <2>4 DEF RegisteredFiles
  <2>6. ~Loadable'
    BY <2>1, <2>3, <2>5 DEF Loadable
  <2> QED BY <2>1, <2>6
<1>12. CASE UseRollback
  BY <1>3, <1>5, <1>12 DEF UseRollback
<1>13. CASE Fail
  <2>1. making = Idle /\ phase # "down"
    BY <1>13 DEF Fail
  <2>2. files' = files \/ \E sha \in Store!Having("STABLE") : Restore(sha)
    BY <1>13 DEF Fail
  <2> QED BY <1>3, <1>4, <1>5, <2>1, <2>2
<1>14. CASE UseCommit \/ Ack \/ ToolsDone
  <2>1. making = Idle /\ phase # "down" /\ files' = files
    BY <1>14 DEF UseCommit, Calling, Ack, ToolsDone, InItsPhase
  <2> QED BY <1>3, <1>4, <2>1
<1>15. CASE Ask \/ Receive \/ Review \/ TellUser
  <2>1. making = Idle /\ phase # "down" /\ files' = files
    BY <1>15 DEF Ask, Receive, Review, TellUser, tools, InItsPhase
  <2> QED BY <1>3, <1>4, <2>1
<1>16. CASE UseOther \/ CommitNothing \/ Deliver \/ Save \/ UNCHANGED vars
  BY <1>6, <1>16 DEF UseOther, CommitNothing, Deliver, Save, tools, process, vars
<1> QED BY <1>7, <1>8, <1>9, <1>10, <1>11, <1>12, <1>13, <1>14, <1>15, <1>16 DEF Next

-----------------------------------------------------------------------------
(* The skills.                                                             *)

LEMMA WholeVersions ==
  ASSUME TypeOK, SkillsAreThere, [Next]_vars
  PROVE  \A sha \in 1 .. Len(commits'), name \in SkillNames :
           commits'[sha].code.skills[name] # "part"
<1>1. HistoryKept /\ commits \in Seq(Version) /\ Len(commits) \in Nat
  BY StepHistory DEF TypeOK
<1>2. \A sha \in 1 .. Len(commits), name \in SkillNames :
        commits'[sha].code.skills[name] # "part"
  BY <1>1 DEF HistoryKept, SkillsAreThere, SkillFilesWhole
<1>3. \A sha \in 1 .. Len(commits'), name \in SkillNames :
        sha > Len(commits) => commits'[sha].code.skills[name] # "part"
  <2>1. Tree.skills = skills
    BY DEF Tree
  <2> QED BY <1>1, <2>1 DEF HistoryKept, SkillsAreThere, SkillFilesWhole
<1>4. \A sha \in 1 .. Len(commits') : sha \in 1 .. Len(commits) \/ sha > Len(commits)
  <2>1. Len(commits') \in Nat
    BY <1>1 DEF HistoryKept
  <2> QED BY <1>1, <2>1
<1> QED BY <1>2, <1>3, <1>4

LEMMA StepSkillsAreThere == TypeOK /\ InItsPhase /\ SkillsAreThere /\ [Next]_vars => SkillsAreThere'
<1> SUFFICES ASSUME TypeOK, InItsPhase, SkillsAreThere, [Next]_vars PROVE SkillsAreThere'
  OBVIOUS
<1>0. /\ SkillsOK /\ skills \in [SkillNames -> File] /\ temps \in [SkillNames -> File]
      /\ saving # "look" => phase = "save" /\ batch # << >>
      /\ phase # "report" => told = {}
      /\ \A name \in SkillNames : skills[name] # "part"
      /\ saving = "written" => temps[Skill] = "whole"
      /\ phase = "save" => \A name \in learned : skills[name] = "whole"
      /\ phase = "report" => \A name \in told : skills[name] = "whole"
  BY DEF TypeOK, SkillsOK, InItsPhase, SkillsAreThere, SkillFilesWhole
<1> DEFINE Goal == /\ \A name \in SkillNames : skills'[name] # "part"
                   /\ saving' = "written" => temps'[Skill'] = "whole"
                   /\ phase' = "save" => \A name \in learned' : skills'[name] = "whole"
                   /\ phase' = "report" => \A name \in told' : skills'[name] = "whole"
<1> SUFFICES Goal
  <2>1. commits' \in Seq(Version) /\ DOMAIN commits' = 1 .. Len(commits')
    BY StepHistory DEF HistoryKept
  <2>2. SkillFilesWhole'
    BY <2>1, WholeVersions DEF SkillFilesWhole
  <2> QED BY <2>2 DEF SkillsAreThere
<1>1. CASE UNCHANGED <<skillVars, phase>>
  BY <1>0, <1>1 DEF skillVars, Skill
<1>2. ASSUME ForgetBatch, phase' = "down", \A name \in SkillNames : skills'[name] # "part"
      PROVE  Goal
  BY <1>2 DEF ForgetBatch
<1>3. ASSUME NEW sha \in Store!Having("STABLE"), Restore(sha)
      PROVE  \A name \in SkillNames : skills'[name] # "part"
  <2>1. commits \in Seq(Version) /\ DOMAIN commits = 1 .. Len(commits)
    BY DEF TypeOK
  <2> QED BY <1>3, <2>1, RestoredIsTyped DEF SkillsAreThere, SkillFilesWhole
<1>4. CASE Review
  BY <1>0, <1>4 DEF Review, Generate, skillVars
<1>5. CASE Save
  <2>1. batch # << >> /\ phase = "save" /\ phase' = "save"
    BY <1>0, <1>5 DEF Save, Skip, OpenTemp, WriteTemp, Replace, process
  <2>2. Skill \in SkillNames
    BY <1>0, <2>1, BatchIs
  <2>3. Skip \/ OpenTemp \/ WriteTemp \/ Replace
    BY <1>5 DEF Save
  <2>4. CASE Skip
    BY <1>0, <2>1, <2>4 DEF Skip
  <2>5. CASE OpenTemp
    BY <1>0, <2>1, <2>5 DEF OpenTemp
  <2>6. CASE WriteTemp
    <3>1. Skill' = Skill
      BY <2>6 DEF WriteTemp, Skill
    <3> QED BY <1>0, <2>1, <2>2, <2>6, <3>1 DEF WriteTemp
  <2>7. CASE Replace
    BY <1>0, <2>1, <2>2, <2>7 DEF Replace
  <2> QED BY <2>3, <2>4, <2>5, <2>6, <2>7
<1>6. CASE SaveError
  BY <1>0, <1>6 DEF SaveError, SaveFails, process
<1>7. CASE TellUser
  BY <1>0, <1>7 DEF TellUser, Tell
<1>8. CASE UseRollback
  BY <1>0, <1>3, <1>8 DEF UseRollback, Runs, Calling
<1>9. CASE Fail
  <2>1. \A name \in SkillNames : skills'[name] # "part"
    BY <1>0, <1>3, <1>9 DEF Fail
  <2> QED BY <1>2, <1>9, <2>1 DEF Fail, Down
<1>10. CASE UseCommit \/ CreateExits \/ Ack \/ Kill
  BY <1>0, <1>2, <1>10 DEF UseCommit, CreateExits, Ack, Kill, Down
<1>11. CASE Boot \/ Ask \/ Receive \/ ToolsDone
  BY <1>0, <1>11 DEF Boot, Ask, Receive, ToolsDone, skillVars
<1>12. CASE Deliver \/ UseOther \/ UseCreate \/ CommitNothing \/ Create \/ CreateFails
            \/ SupervisorRestart \/ UNCHANGED vars
  BY <1>1, <1>12 DEF Deliver, UseOther, UseCreate, CommitNothing, Create, CreateFails,
                     SupervisorRestart, process, vars
<1> QED BY <1>4, <1>5, <1>6, <1>7, <1>8, <1>9, <1>10, <1>11, <1>12 DEF Next

-----------------------------------------------------------------------------
(* The invariant.                                                          *)

LEMMA InitIInv == Init => IInv
<1> SUFFICES ASSUME Init PROVE IInv
  OBVIOUS
<1>1. StreamOK /\ SlotsHoldPieces
  BY NothingArrived DEF Init, StreamInv
<1>2. ToolsOK
  BY DEF Init, ToolsInit, ToolsOK, NoTools
<1>3. SkillsOK
  <2>1. batch = << >>
    BY DEF Init, SkillsInit
  <2>2. batch \in Seq(SkillNames) /\ Len(batch) = 0
    BY <2>1, EmptySeq
  <2> QED BY <2>2, SkillsAssumption DEF SkillsAssumption, Init, SkillsInit, SkillsOK, NoFiles, File
<1> DEFINE first == [code |-> EmptyTree, status |-> "STABLE"]
<1>4. commits = <<first>> /\ first.code = EmptyTree
  BY DEF Init
<1>5. EmptyTree \in Trees
  BY DEF EmptyTree, Trees, NoFiles, File
<1>6. first \in Version
  BY <1>5 DEF Version
<1> HIDE DEF first
<1>7. /\ commits \in Seq(Version) /\ Len(commits) = 1 /\ DOMAIN commits = 1 .. 1
      /\ commits[1].code = EmptyTree
  BY <1>4, <1>6
<1>8. /\ todo \in Seq(Seq(Piece)) /\ ran \in Seq([call : Calls, args : {"all", "none"}])
      /\ Len(todo) = 0 /\ Len(ran) = 0 /\ 1 .. 0 = {}
  <2>1. todo = << >> /\ ran = << >>
    BY DEF Init
  <2> QED BY <2>1, EmptySeq
<1>9. TypeOK
  <2>1. refresh \in BOOLEAN /\ stale \in BOOLEAN
    BY Zenon DEF Init
  <2>2. /\ boots \in 0 .. MaxBoots /\ asks \in 0 .. MaxAsks /\ faults \in 0 .. MaxFaults
        /\ phase \in Phases
    BY BoundsAssumption DEF BoundsAssumption, Init, Phases
  <2> QED BY <1>1, <1>2, <1>3, <1>7, <1>8, <2>1, <2>2, Zenon DEF TypeOK
<1>10. InItsPhase /\ OfferedBefore /\ RegisteredFiles
  BY DEF Init, ToolsInit, SkillsInit, InItsPhase, OfferedBefore, RegisteredFiles
<1>11. CallsAreTheStreams
  BY <1>8 DEF CallsAreTheStreams, InOrder
<1>12. UnfaultedFiles
  <2>1. \A name \in ToolNames : files[name] = NoFile /\ EmptyTree.files[name] = NoFile
    BY DEF Init, ToolsInit, EmptyTree
  <2>2. \A sha \in 1 .. Len(commits) : commits[sha].code = EmptyTree
    BY <1>7
  <2>3. phase = "down"
    BY DEF Init
  <2> QED BY <2>1, <2>2, <2>3 DEF UnfaultedFiles
<1>13. SkillsAreThere
  <2>1. \A name \in SkillNames : skills[name] = "none" /\ EmptyTree.skills[name] = "none"
    BY DEF Init, SkillsInit, EmptyTree, NoFiles
  <2>2. \A sha \in DOMAIN commits : commits[sha].code = EmptyTree
    BY <1>7
  <2>3. phase = "down" /\ saving = "look"
    BY DEF Init, SkillsInit
  <2> QED BY <2>1, <2>2, <2>3 DEF SkillsAreThere, SkillFilesWhole
<1> QED BY <1>1, <1>9, <1>10, <1>11, <1>12, <1>13 DEF IInv

LEMMA StepIInv == IInv /\ [Next]_vars => IInv'
<1> SUFFICES ASSUME IInv, [Next]_vars PROVE IInv'
  OBVIOUS
<1>1. /\ TypeOK /\ SlotsHoldPieces /\ InItsPhase /\ CallsAreTheStreams /\ OfferedBefore
      /\ RegisteredFiles /\ UnfaultedFiles /\ SkillsAreThere
  BY DEF IInv
<1>2. StreamOK' /\ SlotsHoldPieces'
  BY <1>1, StepStream DEF TypeOK, StreamInv
<1>3. /\ todo' \in Seq(Seq(Piece)) /\ ran' \in Seq([call : Calls, args : {"all", "none"}])
      /\ CallsAreTheStreams'
  BY <1>1, StepCalls
<1>4. commits' \in Seq(Version)
  BY <1>1, StepHistory DEF HistoryKept
<1>5. TypeOK'
  BY <1>1, <1>2, <1>3, <1>4, StepToolsOK, StepSkillsOK, StepPhase DEF TypeOK
<1>6. InItsPhase' /\ OfferedBefore' /\ RegisteredFiles' /\ UnfaultedFiles' /\ SkillsAreThere'
  BY <1>1, StepInItsPhase, StepOfferedBefore, StepRegisteredFiles, StepUnfaultedFiles,
     StepSkillsAreThere
<1> QED BY <1>2, <1>3, <1>5, <1>6 DEF IInv

LEMMA Invariant == Spec => []IInv
BY InitIInv, StepIInv, PTL DEF Spec

-----------------------------------------------------------------------------
(* The theorems.                                                           *)

\* Every variable has its type; of a call that runs, that it has either all of its
\* arguments or none (_normalize_args).
THEOREM TypeCorrect == Spec => []TypeOK
<1>1. IInv => TypeOK
  BY DEF IInv
<1> QED BY <1>1, Invariant, PTL

\* The calls the process runs are the provider's and in its order, whatever the
\* pieces' order; from a message that was sent to its end they have all their
\* arguments (chat of openai_client.py and ollama_client.py, tool_node).
THEOREM RunAsSent == Spec => []CallsRunAsSent
<1>1. IInv => CallsRunAsSent
  <2>1. IInv => DOMAIN ran = 1 .. Len(ran)
    BY DEF IInv, TypeOK
  <2> QED BY <2>1 DEF IInv, CallsAreTheStreams, InOrder, CallsRunAsSent
<1> QED BY <1>1, Invariant, PTL

\* A request offers the model just the functions that would run: a create_tool
\* that put a function into the registry and failed is not missed (tool_node).
THEOREM OfferedWillRun == Spec => []OfferedIsRegistered
<1>1. IInv => OfferedIsRegistered
  BY DEF IInv, OfferedBefore, OfferedIsRegistered
<1> QED BY <1>1, Invariant, PTL

\* Between calls, a process has every whole file for a tool, and without faults
\* there are no others (_load_persisted, create_tool).
THEOREM FilesMatchRegistry == Spec => []FilesAreTools
<1>1. IInv => FilesAreTools
  BY DEF IInv, RegisteredFiles, UnfaultedFiles, Made, FilesAreTools
<1> QED BY <1>1, Invariant, PTL

\* No crash, fault or commit leaves a skill half written, in the tree or in a
\* version (SkillManager._save).
THEOREM SkillsAreWhole == Spec => []SkillFilesWhole
<1>1. IInv => SkillFilesWhole
  BY DEF IInv, SkillsAreThere
<1> QED BY <1>1, Invariant, PTL

\* A skill that the user was told of is in the version at the tip when its run has
\* been acknowledged (finalize_node, ack_handler).
THEOREM ToldIsCommitted == Spec => LearnedIsVersioned
<1>1. IInv /\ [Next]_vars =>
        [Ack => \A name \in told : commits'[Len(commits')].code.skills[name] = "whole"]_vars
  <2> SUFFICES ASSUME IInv, Ack
               PROVE  \A name \in told : commits'[Len(commits')].code.skills[name] = "whole"
    OBVIOUS
  <2>1. TypeOK /\ SkillsAreThere
    BY DEF IInv
  <2>2. commits' = Checked(Settled) /\ phase = "report"
    BY DEF Ack
  <2>3. commits'[Len(commits')].code = Tree
    BY <2>1, <2>2, SettledKeepsCode, CheckedHasTree
  <2>4. Tree.skills = skills
    BY DEF Tree
  <2>5. \A name \in told : skills[name] = "whole"
    BY <2>1, <2>2 DEF SkillsAreThere
  <2> QED BY <2>3, <2>4, <2>5
<1> QED BY <1>1, Invariant, PTL DEF Spec, LearnedIsVersioned
=============================================================================
