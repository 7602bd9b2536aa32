SPECIFICATION Spec
CONSTANTS
  q1 = q1
  q2 = q2
  q3 = q3
  Asks <- ReusedAsks
  NameOf <- ReusedNameOf
  GroupOf <- ReusedGroupOf
  TypeOf <- ReusedTypeOf
  Before <- MCBefore
  InsideStep <- ReusedInside
  TimeoutOf <- ReusedTimeoutOf
  AnswersTo <- MCAnswersTo
  MaxAttempt = 2
  Bits64 = 7
  Bits32 = 3
  Mantissa64 = 4
  Mantissa32 = 2
INVARIANT
  AnswersReachTheirQuestion
