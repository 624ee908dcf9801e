SPECIFICATION AttemptSpec
CONSTANT MaxRecorded = 3
INVARIANT Sound
CHECK_DEADLOCK FALSE
