\* Two event loops and an operator thread on a plan of three periods.
SPECIFICATION Spec
CONSTANTS
  ExecTimes = 3
  Handlers = {h1, h2}
  Operators = {t1}
  Numbered = {1, 2, 3}
  Counted = {1, 2, 3}
  Logged = {1, 2, 3}
INVARIANTS
  TypeOK
  ChargesAreReal
  PeriodsBookOnce
  CountersNeverOverstate
  EndsAreReal
