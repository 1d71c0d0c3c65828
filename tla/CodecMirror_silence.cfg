\* One pair of gains, the loudest, and losses of up to 350 subframes.
SPECIFICATION Spec
CONSTANTS
  Shapes = {0}
  Gains <- MCLoudest
  PredictionError <- MCPredictionError
  MeanLessEnergy <- MCMeanLessEnergy
  EnergyQ10 <- MCEnergyQ10
  LinearGain <- MCLoudGain
  EnhancedGains = {9}
  ColdHistory = 0
  Excitation <- MCExcitation
  Scaled <- MCScaled
  Loud <- MCLoud
  Repair = "none"
  LongLoss = 350
  MaxUpsets = 1
INVARIANT LongLossIsSilence
