\* A talkative cloud and a flapping network; hasty callers and an overtaking task.
CONSTANTS
  Creds = {1}
  i1 = i1
  i2 = i2
  Ids = {i1, i2}
  RxDepth = 1
  TxDepth = 1
  Settings <- Rough
SPECIFICATION Spec
SYMMETRY IdSymmetry
INVARIANTS
  ReadyMeansAccepted
  NoOrphan
