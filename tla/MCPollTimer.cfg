CONSTANTS
  Ms = 2
  MaxGap = 3

SPECIFICATION Spec

INVARIANT PollDurationCorrect
