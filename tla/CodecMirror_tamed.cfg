\* The search alone: no repair.
SPECIFICATION Spec
CONSTANTS
  Shapes = {0}
  Gains <- MCGains
  PredictionError <- MCPredictionError
  MeanLessEnergy <- MCMeanLessEnergy
  EnergyQ10 <- MCEnergyQ10
  LinearGain <- MCLinearGain
  EnhancedGains = {9}
  ColdHistory = 0
  Excitation <- MCExcitation
  Scaled <- MCScaled
  Loud <- MCLoud
  Repair = "none"
  LongLoss = 2
  MaxUpsets = 1
INVARIANT TamedEncoderFollowsReceiver
