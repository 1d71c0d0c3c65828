\* CoreClipRepair: a repair that scales with the bounded predictor.
SPECIFICATION Spec
CONSTANTS
  Shapes = {0}
  Gains <- MCGains
  PredictionError <- MCPredictionError
  MeanLessEnergy <- MCMeanLessEnergy
  EnergyQ10 <- MCEnergyQ10
  LinearGain <- MCLinearGain
  EnhancedGains = {9}
  ColdHistory = 0
  Excitation <- MCExcitation
  Scaled <- MCScaled
  Loud <- Quiet
  Repair = "narrow"
  LongLoss = 2
  MaxUpsets = 1
INVARIANT RepairedEncoderFollowsReceiver
