SPECIFICATION Spec
CONSTANTS
  Codecs = {"h264", "h265"}
  Layouts = {"single", "aggregated"}
  MaxUnits = 4
  MaxLost = 1
  MaxConnections = 2
INVARIANTS AccessUnitsAreWhole PostponedIsEnough
PROPERTIES PublishedUnitsAreDecodable
