\* By hand: claims of the comments that the code does not keep. TLC stops at the
\* first; exchange the property for the next: NoStaleEvent, NoEarlyCommand, FreshCreds.
CONSTANTS
  Creds = {1, 2}
  i1 = i1
  i2 = i2
  Ids = {i1, i2}
  RxDepth = 1
  TxDepth = 1
  Settings <- Talkative
SPECIFICATION FairSpec
PROPERTY NoStaleEvent
