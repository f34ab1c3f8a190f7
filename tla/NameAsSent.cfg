\* Names with a carriage return, as the browser writes them.
SPECIFICATION Spec
CONSTANTS
  Characters = {"quote", "backslash", "space", "line feed", "carriage return", "{", "}", ":", ",", "a", "n", "r"}
  Requests <- Bodies
  Letters = {"quote", "backslash", "carriage return", "n"}
  Marks = {"quote", "backslash", "space", "{", "}", ":", ",", "a"}
  MaxString = 2
  MaxText = 1
INVARIANT AcceptedAsSent
CHECK_DEADLOCK FALSE
