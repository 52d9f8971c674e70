SPECIFICATION Spec
VIEW Running
CONSTANTS
  Programs <- MCPrograms
  InferredTypes <- ProgramTypes
  MaxFrames = 8
INVARIANTS
  WellTyped
  SameOutcome
  FramesSound
