CONSTANTS
  c1 = c1
  c2 = c2
  Callers <- MCCallers
  Lens <- MCLens
  MaxPackets = 3
  MaxFifo = 2
  MaxFaults = 1
SPECIFICATION Spec
SYMMETRY Symmetry
INVARIANTS
  DeliveredWhole
  NoPacketDropped
  WrongRadioSilent
