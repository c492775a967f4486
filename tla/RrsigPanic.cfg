CONSTANTS
  Public = {s1, s2}
  Primaries = {s1, p}
  Records = {soa, www, nsec3}
  Soa = soa
  Nsec3 = {nsec3}
  TTL = 1
  MaxSerial = 2
  MaxFailures = 1
SPECIFICATION Spec
INVARIANT CheckZoneNeverReports
CHECK_DEADLOCK FALSE
