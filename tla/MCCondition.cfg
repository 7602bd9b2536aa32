SPECIFICATION FairSpec
CONSTANTS
  q1 = q1
  q2 = q2
  q3 = q3
  Asks <- MCAsks
  NameOf <- MCNameOf
  GroupOf <- MCGroupOf
  TypeOf <- MCTypeOf
  Before <- MCBefore
  InsideStep <- MCInside
  TimeoutOf <- MCTimeoutOf
  AnswersTo <- MCAnswersTo
  MaxAttempt = 2
  Bits64 = 7
  Bits32 = 3
  Mantissa64 = 4
  Mantissa32 = 2
INVARIANTS
  TypeOK
  AnswersReachTheirQuestion
  NoQuestionAskedTwice
  AnswersKeepTheirValue
PROPERTIES
  ImplementsQuestions
  TimedWaitsEnd
