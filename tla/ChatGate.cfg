SPECIFICATION Spec
CONSTANTS
  r1 = r1
  r2 = r2
  r3 = r3
  r4 = r4
  u1 = u1
  u2 = u2
  k1 = k1
  k1text = k1text
  k2 = k2
  None = None
  Requests = {r1, r2, r4}
  Users = {u1, u2}
  Keys = {k1, k1text, k2}
  UserOf <- MCUserOf
  EventTime <- MCEventTime
  ClaimKey <- MCClaimKey
  ResetKey <- MCResetKey
  Settings <- MCSettings
  Cooldown = 2
  TTL = 0
  MaxTime = 3
INVARIANTS
  TypeOK
  GateCountsMatch
  NoLostWakeup
  CooldownGivenBack
  CooldownHolds
PROPERTIES
  NoForeignRelease
