CONSTANTS
  Size <- MCSize
  HeaderSize = 1
  AsduSizes <- MCAsduSizes
  Payloads <- MCPayloads
SPECIFICATION Spec
PROPERTY
  ImplementsFIFO
