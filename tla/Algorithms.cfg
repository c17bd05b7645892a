CONSTANTS
  Nil = Nil
  Failed = Failed
  MaxText = 1
  MaxSlice = 1
  IntBits = 3
  Line = {"x", "y"}
  Blank = ""
  Context = 1
  MaxLines = 3
  LongText <- MCLongText
  Foreign = {"x", "aKeyLongerThanEveryNameOfAField"}
  Account = {u1, u2, u3}
  MaxMentions = 2
  NoRow = NoRow
SPECIFICATION AlgorithmSpec
INVARIANTS RecordsSurvive InterdiffTellsRounds  ToldOnce FilesAccounted
CHECK_DEADLOCK FALSE
