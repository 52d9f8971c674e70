SPECIFICATION Spec
VIEW Running
CONSTANTS
  Programs <- DifferingPrograms
  InferredTypes <- ProgramTypes
  MaxFrames = 8
INVARIANT
  SameOutcome
