SPECIFICATION Spec
CONSTANTS
  r1 = r1  r2 = r2  r3 = r3  r4 = r4  r5 = r5
  None = None
  Req = {r1, r2, r3, r4, r5}
  Game = {"gali", "disawer"}
  Display = {"Gali", "Disawer", ""}
  Blank = ""
  Time = {0, 1}
  Number = {1, 2}
  DayLength = 2
  Offset = 1
  MaxClock = 3
  Calls <- BoardCalls
  Seeded <- TwoMarkets
\* A state in which every request has ended has no next step.
CHECK_DEADLOCK FALSE
PROPERTIES
  BoardTellsDays
  UnaskedOnlyUndoes
