CONSTANTS
  c1 = c1
  c2 = c2
  r0 = r0
  reg = reg
  Clients <- MCClients
  Radios <- MCRadios
  Regs <- MCRegs
  NoClient = NoClient
  Success = 0
SPECIFICATION FairSpec
INVARIANTS
  ReadIsOwn
PROPERTIES
  SectionsEnd
