\* One event loop and one operator thread; the notification of the third
\* period has no trade number, though its entry in ECPay's log has, and none
\* has a count. The entry of the first period has no trade number.
SPECIFICATION SyncSpec
CONSTANTS
  ExecTimes = 3
  Handlers = {h1}
  Operators = {t1}
  Numbered = {1, 2}
  Counted = {}
  Logged = {2, 3}
INVARIANTS
  SecondRowsAreUnnumbered
  EndsAreReal
PROPERTIES
  EndsInStep
  EveryChargeIsBooked
