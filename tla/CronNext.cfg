CONSTANTS
  Configs <- Few
  Lifetime = 3
  Remain = 1
  TTL = 1
  Retry = 1
  Delay = 1
  MaxAge = 2
  ByHand = {"Zsk", "Algorithm"}
SPECIFICATION Spec
INVARIANTS TypeOK NotLate  NoCircles
 
