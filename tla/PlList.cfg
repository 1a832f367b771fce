CONSTANTS
  p1 = p1
  p2 = p2
  p3 = p3
  p4 = p4
  p5 = p5
  NULL = NULL
  Payloads <- MCPayloads
  Name <- MCName
  Id <- MCId
SPECIFICATION ListSpec
INVARIANTS
  LookupFindsListed

PROPERTY ImplementsRegistry
