SPECIFICATION Spec
CONSTANTS
  Callers = {c1}
  Transports = 1
  Timeout = 2
  None = None
PROPERTIES NoStaleImage
