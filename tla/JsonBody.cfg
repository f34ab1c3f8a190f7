\* Strings of up to two of four characters, and every text of a brace and up to four marks.
SPECIFICATION Spec
CONSTANTS
  Characters = {"quote", "backslash", "space", "line feed", "carriage return", "{", "}", ":", ",", "a", "n", "r"}
  Requests <- Bodies
  Letters = {"quote", "backslash", "line feed", "n"}
  Marks = {"quote", "backslash", "space", "{", "}", ":", ",", "a"}
  MaxString = 2
  MaxText = 4
INVARIANTS TypeOK ReadAsMeant
PROPERTY Progress
CHECK_DEADLOCK FALSE
