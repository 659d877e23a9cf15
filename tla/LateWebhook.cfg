\* A webhook reactivates a plan that has ended.
SPECIFICATION Spec
CONSTANTS
  ExecTimes = 3
  Handlers = {h1}
  Operators = {t1}
  Numbered = {1, 2, 3}
  Counted = {1, 2, 3}
  Logged = {1, 2, 3}
PROPERTIES
  WebhooksKeepTerminalPlans
