CONSTANTS
  Words <- MCWords
  Masks <- MCMasks
  Temps = {0, 200}
  Freqs <- MCFreqs
  Packages = 2

SPECIFICATION CodecsSpec

INVARIANTS
  RadioValuesRight
  EpsValuesRight
  RepliesChecked
  EdcOkMeansDecoded
  EdcCommandArrives

PROPERTY EdcFailedCallsHarmless

CHECK_DEADLOCK TRUE
