\* Two goroutines sharing one aggregator, four calls between them.
CONSTANTS
  Callers = {c1, c2}
  MaxCalls = 4
  NoCaller = NoCaller
SPECIFICATION Spec
INVARIANTS
  TypeOK
  ScheduleOrderKept
  AnswerToOwnItem
PROPERTIES
  CallsReturn
  BatchItemsUntouched
\* The aggregator is a library: its callers may stop calling at any point,
\* so a state with no further call is not an error.  A call that can never
\* finish is reported by CallsReturn instead.
CHECK_DEADLOCK FALSE
