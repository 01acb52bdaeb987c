SPECIFICATION Spec
CONSTANTS
  Files = {"a", "b"}
  Texts = {"one", "user", "both"}
  Defs <- MCDefs
  Uses <- MCUses
  BatchSize = 2
  MaxEdits = 2
  MaxCommits = 1
  Answers <- MCAnswers
  OldTasks = {}
  MaxRetries = 2
INVARIANT IndexIsRebuild
INVARIANT VerdictIsRight
PROPERTY ImpactIsComplete
CHECK_DEADLOCK FALSE
