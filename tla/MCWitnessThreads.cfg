\* Five components, four of them parallel, the main one too, and two slots, so that
\* threads wait for one.
SPECIFICATION FairSpec
CONSTANTS
  Comps <- FiveComps
  Main = 1
  Father <- FiveFather
  Parallel <- FiveParallelMain
  Outputs <- FiveOutputs
  Body <- FiveBody
  MaxThread = 2
  None = None
INVARIANTS
  TypeOK
  RunsWithInputs
  ReadsSeeValues
  NoUseAfterRelease
  SlotsAccounted
  NoForgottenSleeper
PROPERTIES
  Completes
