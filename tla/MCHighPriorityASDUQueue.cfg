CONSTANTS
  Size <- MCSize
  HeaderSize = 1
  AsduSizes <- MCAsduSizes
  Payloads <- MCPayloads
SPECIFICATION Spec
INVARIANT
  TypeOK
PROPERTIES
  ImplementsFIFO
  IsFullExact
