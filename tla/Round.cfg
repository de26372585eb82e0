SPECIFICATION Spec
CONSTANTS
  u1 = u1  u2 = u2  g1 = g1  g2 = g2
  r1 = r1  r2 = r2  r3 = r3  r4 = r4  r5 = r5  r6 = r6  r7 = r7  r8 = r8
  None = None
  User = {u1, u2}
  Game = {g1}
  Req = {r1, r2, r3, r4, r5, r6}
  Number = {1, 2}
  Amount = {1, 2}
  Multiplier = 3
  MaxInt = 20
  DayLength = 2
  EditWindow = 0
  MaxClock = 1
  OneSettlementPerGame = TRUE
  Slip <- MCSlip
  Calls <- RoundCalls
  Opening <- RoundOpening
  Standing <- NoBets
  CloseAt <- AlwaysOpen
\* A state in which every request has ended has no next step.
CHECK_DEADLOCK FALSE
INVARIANTS
  BalanceMatchesLedger
  PaidAsScored
  CountMatchesLinks
PROPERTIES
  SettledOnce
  OnlyCorrectionsOverdraw
  ImplementsBook
  FrozenAfterWindow
