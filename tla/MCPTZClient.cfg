SPECIFICATION Spec
CONSTANTS
  Calls = {c1, c2, c3}
PROPERTIES StopsInTheEnd
CHECK_DEADLOCK FALSE
