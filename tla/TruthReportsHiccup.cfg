SPECIFICATION DeskSpec
CONSTANTS
  Track = {t1}
  Athlete = {a1}
  IdentityColumn = {jersey_number}
  Value = {v1}
  Coach = {c1}
  Identity = {}
  NoAthlete = NoAthlete
  NoRow = NoRow
  Unasked = Unasked
  Run = {r1}
  WebGrade = {}
  Plays = 1
  Workers = 1
  Torn = Torn
  MaxFaults = 1
  DatabaseUp = FALSE
INVARIANT SavedGradeIsReported
CHECK_DEADLOCK FALSE
