\* Wi-Fi or Ethernet, one call after the other.
CONSTANTS
  Creds = {1}
  i1 = i1
  i2 = i2
  Ids = {i1, i2}
  RxDepth = 1
  TxDepth = 1
  Settings <- Orderly
SPECIFICATION FairSpec
PROPERTIES
  EnableTakes
  DisableTakes
