SPECIFICATION Spec
CONSTANTS
  Stations <- MCStations
  Classes <- MCClasses
  Asdus <- MCAsdus
  Repeats = 1
  MaxFaults = 2
INVARIANTS
  TypeOK
  InOrderOnce
  ConfirmedWasDelivered
  LossAccounted
PROPERTY
  LinkRecovers
