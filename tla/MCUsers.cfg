SPECIFICATION Spec

CONSTANTS
  u1 = u1
  u2 = u2
  d1 = d1
  d2 = d2
  s1 = s1
  s2 = s2
  r1 = r1
  r2 = r2
  low = low
  up = up
  n1 = n1
  n2 = n2
  Users <- MCUserSet
  Emails <- MCEmails
  Folded <- MCFolded
  Names <- MCNames
  Devices <- MCDevices
  Sessions <- MCSessions
  Requests <- MCRequests
  NewRoles = {"USER"}
  Lifetime = 2
  MaxClock = 2
  MaxSigned = 1
  MaxChanges = 1

SYMMETRY MCSymmetry

INVARIANTS
  TypeOK
  NoCaseTwinsUnlessCrossed
  OneSessionPerDeviceUnlessDoubled
  ALoginEndsTheOneBefore

PROPERTIES
  LoginFailsOnlyInTheSameSecond


CHECK_DEADLOCK FALSE
