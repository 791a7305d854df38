SPECIFICATION Spec
CONSTANTS
  Configurations <- MCConfigurations
  Values <- MCValues
  IOAs = {7, 254, 65534}
INVARIANTS
  PayloadFits
  ElementsReadBack
  TruncationDetected
