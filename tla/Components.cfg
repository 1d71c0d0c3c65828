SPECIFICATION ComponentsSpec
CONSTANTS
  \* LspMirror
  CodebookL1 <- MCCodebookL1
  CodebookL2 <- MCCodebookL2
  CodebookL3 <- MCCodebookL3
  Spectra <- MCSpectra
  ColdSpectrum <- MCColdSpectrum
  WeightedError <- MCWeightedError
  LsfToLsp <- MCLsfToLsp
  Breadths = {0, 1}
  LspLongLoss = 2
  LspMaxUpsets = 1
  \* RtpCheck
  Ssrcs = {1, 2}
  SequenceModulus = 8
  TimestampModulus = 640
  FirstSequence = 7
  FirstTimestamp = 480
  PayloadSizes = {2, 10, 20}
  CheckerOptions <- MCCheckerOptions
  Limits <- MCLimits
  RtpMaxRecords = 3
  RtpMaxTrouble = 1
  \* FcbSearch
  Steps = 2
  Inputs <- MCInputs
  FrameLimits <- MCFrameLimits
  FcbProfiles = {"core", "fast", "rerank"}
  TopKLimit = 3
  Word = 54
  \* GainSearch
  GBK1 <- MCGBK1
  GBK2 <- MCGBK2
  KeptGA = 2
  KeptGB = 3
  QGp = 2
  QGamma = 1
  QGc = 1
  QZ = 1
  CenterBits = 4
  CostBits = 14
  WordBits = 20
  Vectors <- MCVectors
  Predictions = {0, 1, 6, 40}
  \* GainRepair
  PairTable <- MCPairTable
  Reference <- MCReference
  Outputs <- MCOutputs
  Rivals <- MCRivals
  GainCeilings = {7, 20}
  Policies <- MCPolicies
  Full = 100
  MaxSubframes = 1
  \* SerialFile
  Widths <- MCWidths
  FrameValues <- MCFrameValues
  MaxFrames = 2
  MaxFaults = 2
  \* RtpWeb
  WebFrame = 2
  StrictLevel <- MCStrictLevel
  EnhancedLevel <- MCEnhancedLevel
  Recordings <- MCRecordings
  Ptimes = {10, 20, 30}
  FileTails = {0, 2, 5}
  NearSilence = 2
  PreviewCap = 4
  MaxShift = 2
  ExactRatio <- MCExactRatio
  References <- MCReferences
  \* Loopback
  LoopFrame = 3
  ChunkBytes = {0, 2, 5, 4, 8, 14}
  MaxSent = 12
  MaxFlushes = 3
  \* LoadTest
  StreamCount = 2
  Duration = 7
  FrameDeadline = 4
  WakeThreshold = 1
  Lateness = {0, 2}
  Processing = {2, 6}
  Percent = 75
INVARIANTS
  EncoderCopiesAgree
  LspResyncs
  SpectrumIsStable
  BroaderSearchIsNoWorse
  StrictAcceptsUnbroken
  PassIsEvidence
  ParseStaysInside
  BudgetShared
  SearchIsExact
  CriterionIsOfTheCode
  TopKIsTheRanking
  PulsesArrive
  GainCostsFit
  RepairNeverClipsMore
  RepairCommitsOnePair
  CleanFramesSurvive
  ReadersAreHonest
  ToolsAgree
  PayloadPlaysTheRoundtrip
  DelayIsFound
  ChunksDoNotMatter
  PassBoundsMisses
  PacedIsRealTime
PROPERTIES
  ErasureRepeatsSpectrum
  TheLoadTestEnds
CHECK_DEADLOCK FALSE
