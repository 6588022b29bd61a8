SPECIFICATION Spec
CONSTANTS
  MaxCalls = 2
  ArgPieces = 2
  NameCount = 4
  Early = {1}
  Late = {4}
  SkillNames = {parse, plot}
  MaxSkills = 2
  MaxBoots = 3
  MaxAsks = 2
  MaxFaults = 1
SYMMETRY SkillSymmetry
CHECK_DEADLOCK FALSE
INVARIANTS TypeOK CallsRunAsSent OfferedIsRegistered FilesAreTools SkillFilesWhole
PROPERTY LearnedIsVersioned
