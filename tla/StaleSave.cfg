SPECIFICATION Spec
CONSTANTS
  r0 = r0  r1 = r1  r2 = r2  r3 = r3  r4 = r4
  None = None
  Req = {r0, r1, r2}
  Email = {"e0", "e1", "e2", "e3"}
  Name = {"n0", "n1", "n3"}
  Password = {"p0", "p1"}
  Preset = {10, 20}
  DefaultPresets = {10, 20}
  Calls <- StaleCalls
  Existing <- OneAccount
\* A state in which every request has ended has no next step.
CHECK_DEADLOCK FALSE
PROPERTY
  PasswordsStand
