CONSTANTS
  Public = {s1, s2}
  Primaries = {s1, p}
  Records = {soa, www, nsec3}
  Soa = soa
  Nsec3 = {nsec3}
  TTL = 1
  MaxSerial = 2
  MaxFailures = 1
SPECIFICATION FairSpec
INVARIANTS TypeOK PropagatedWhenReported
PROPERTY SoaReported
CHECK_DEADLOCK FALSE
