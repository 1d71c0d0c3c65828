SPECIFICATION LspSpec
CONSTANTS
  CodebookL1 <- MCVoicedL1
  CodebookL2 <- MCCodebookL2
  CodebookL3 <- MCCodebookL3
  Spectra <- MCVoicedSpectra
  ColdSpectrum <- MCColdSpectrum
  WeightedError <- MCWeightedError
  LsfToLsp <- MCLsfToLsp
  Breadths = {0}
  LspLongLoss = 2
  LspMaxUpsets = 1
INVARIANT FirstStageIsNearest
