CONSTANTS
  N = 2
  Groups <- MCGroups
  K = 1
  Scenarios <- MCNoTraffic
SPECIFICATION Spec
PROPERTY
  SlotFreed
