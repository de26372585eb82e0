SPECIFICATION RSpec
CONSTANTS
  u1 = u1  u2 = u2  g1 = g1
  r1 = r1  r2 = r2  r3 = r3  r4 = r4  r5 = r5  q = q
  None = None
  User = {u1, u2}
  Game = {g1}
  Req = {r1, r2, r3, r4, r5, q}
  Number = {1, 2}
  Amount = {1}
  Multiplier = 3
  DayLength = 3
  OneSettlementPerGame = TRUE
  Slip <- MCSlip
  Calls <- PageCalls
  Opening <- PageOpening
  Standing <- NoBets
INVARIANTS
  DatesAccepted
