SPECIFICATION CalibrationSpec
CONSTANTS
  MaxLines = 5
  When <- MCWhen
  DueSoonDays = 7
  GraceDays = 2
  DefaultIntervalMonths = 0
  DayFirst = TRUE
  Registers <- MCRegisters
  Instruments <- MCInstruments
INVARIANTS AllClearIsEarned DoubtIsNamed RowsAreAnswered
CHECK_DEADLOCK FALSE
