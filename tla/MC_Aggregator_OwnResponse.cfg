\* ScheduleAndFlush's promise to answer with its own item's response,
\* against a batcher that may answer fewer items than it was given.
CONSTANTS
  Callers = {c1, c2}
  MaxCalls = 4
  NoCaller = NoCaller
SPECIFICATION Spec
INVARIANT OwnResponse
\* The aggregator is a library: its callers may stop calling at any point,
\* so a state with no further call is not an error.  A call that can never
\* finish is reported by CallsReturn instead.
CHECK_DEADLOCK FALSE
