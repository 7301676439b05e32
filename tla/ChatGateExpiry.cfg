SPECIFICATION Spec
CONSTANTS
  r1 = r1
  r2 = r2
  r3 = r3
  r4 = r4
  u1 = u1
  u2 = u2
  k1 = k1
  k1text = k1text
  k2 = k2
  None = None
  Requests = {r1, r2}
  Users = {u1}
  Keys = {k1, k1text}
  UserOf <- MCUserOf
  EventTime <- LateEventTime
  ClaimKey <- MCClaimKey
  ResetKey <- MCResetKey
  Settings <- OneSetting
  Cooldown = 3
  TTL = 1
  MaxTime = 5
INVARIANTS
  CooldownIsFull
