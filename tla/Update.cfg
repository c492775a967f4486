CONSTANTS
  prim = prim
  sec = sec
  x1 = x1
  x2 = x2
  y1 = y1
  a1 = a1
  a2 = a2
  b1 = b1
  None = None
  Bad = Bad
  Empty = Empty
  Data <- SomeData
  Cutoff = 2
  Primary = prim
  NsSets = {{prim, sec}, {sec}, {}}
  Addresses <- SomeAddresses
  Requests <- SomeRequests
  Literals = {y1}
SPECIFICATION Spec
INVARIANTS TypeOK QuietMeansDone RefusedMeansUnchanged PrimaryFirst ExhaustedMeansAllAsked AllServersNotified
PROPERTIES ChangesAsAsked SerialsMoveOn CommandsEnd
