CONSTANTS
  Years <- MCYears
  Periods = {93, 224, 225}
  Margins = {0, 3000000}

SPECIFICATION PosSpec

INVARIANTS
  ElementsFromLines
  TsinceIsElapsed
