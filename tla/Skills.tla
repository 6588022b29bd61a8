------------------------------- MODULE Skills -------------------------------
(***************************************************************************)
(* The skills an agent has learned and the step that learns them           *)
(* (skills/manager.py, finalize_node): the language model answers with     *)
(* several, each is written to a temporary file that then takes the place  *)
(* of the skill's file, and the user is told which were created.           *)
(*                                                                         *)
(* A skill is its normalised name; what its file says is left out, only    *)
(* whether it is all there.                                                *)
(***************************************************************************)
EXTENDS Integers, Sequences

CONSTANTS
  SkillNames,
  MaxSkills    \* bound: valid skills in one answer

ASSUME SkillsAssumption == MaxSkills \in Nat

VARIABLES
  skills,   \* <name>.md in DATA_DIR/skills
  temps,    \* <name>.tmp there
  batch,    \* the skills of the answer that are not saved yet
  saving,   \* where _save stands with the first of them
  learned,  \* those saved
  told      \* those the user was told of

skillVars == <<skills, temps, batch, saving, learned, told>>

File == {"none", "part", "whole"}
Batches == UNION {[1 .. n -> SkillNames] : n \in 0 .. MaxSkills}
NoFiles == [name \in SkillNames |-> "none"]

SkillsOK ==
  /\ skills \in [SkillNames -> File]
  /\ temps \in [SkillNames -> File]
  /\ batch \in Seq(SkillNames) /\ Len(batch) <= MaxSkills
  /\ saving \in {"look", "opened", "written"}
  /\ learned \subseteq SkillNames
  /\ told \subseteq SkillNames

SkillsInit ==
  /\ skills = NoFiles
  /\ temps = NoFiles
  /\ batch = << >>
  /\ saving = "look"
  /\ learned = {}
  /\ told = {}

\* A new process has learned nothing yet.
ForgetBatch ==
  /\ batch' = << >>
  /\ saving' = "look"
  /\ learned' = {}
  /\ told' = {}

\* _generate: the valid entries of the answer, none if the request failed or
\* nothing was to be learned.  Two entries may come to the same name.
Generate ==
  /\ batch' \in Batches
  /\ saving' = "look"
  /\ learned' = {}
  /\ UNCHANGED <<skills, temps, told>>

Skill == Head(batch)

\* _save: a skill that exists is skipped, ...
Skip ==
  /\ batch # << >>
  /\ saving = "look"
  /\ skills[Skill] # "none"
  /\ batch' = Tail(batch)
  /\ UNCHANGED <<skills, temps, saving, learned, told>>

\* Variant: the skill's own file is opened.
OpenInPlace ==
  /\ batch # << >>
  /\ saving = "look"
  /\ skills[Skill] = "none"
  /\ skills' = [skills EXCEPT ![Skill] = "part"]
  /\ temps' = [temps EXCEPT ![Skill] = "part"]
  /\ saving' = "opened"
  /\ UNCHANGED <<batch, learned, told>>

\* ... for another the temporary file is opened, ...
OpenTemp ==
  /\ batch # << >>
  /\ saving = "look"
  /\ skills[Skill] = "none"
  /\ temps' = [temps EXCEPT ![Skill] = "part"]
  /\ saving' = "opened"
  /\ UNCHANGED <<skills, batch, learned, told>>

\* ... written, ...
WriteTemp ==
  /\ saving = "opened"
  /\ temps' = [temps EXCEPT ![Skill] = "whole"]
  /\ saving' = "written"
  /\ UNCHANGED <<skills, batch, learned, told>>

\* ... and renamed.
Replace ==
  /\ saving = "written"
  /\ skills' = [skills EXCEPT ![Skill] = temps[Skill]]
  /\ temps' = [temps EXCEPT ![Skill] = "none"]
  /\ learned' = learned \cup {Skill}
  /\ batch' = Tail(batch)
  /\ saving' = "look"
  /\ UNCHANGED told

\* An OSError ends the loop: what was saved before it stays, and consider
\* returns an empty list.
SaveFails ==
  /\ batch # << >>
  /\ batch' = << >>
  /\ saving' = "look"
  /\ learned' = {}
  /\ UNCHANGED <<skills, temps, told>>

\* finalize_node: "[Skill created]" or "[Skill not created]".
Tell ==
  /\ batch = << >>
  /\ told' = learned
  /\ UNCHANGED <<skills, temps, batch, saving, learned>>
=============================================================================
