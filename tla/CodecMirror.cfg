\* An Encoder that repairs gains with the bounded predictor, its simulated
\* decoder and a Decoder, with two upsets of any kind.
SPECIFICATION Spec
CONSTANTS
  Shapes = {0}
  Gains <- MCGains
  PredictionError <- MCPredictionError
  MeanLessEnergy <- MCMeanLessEnergy
  EnergyQ10 <- MCEnergyQ10
  LinearGain <- MCCoarseGain
  EnhancedGains = {9}
  ColdHistory = 0
  Excitation <- MCCoarseExcitation
  Scaled <- MCScaled
  Loud <- MCLoud
  Repair = "narrow"
  LongLoss = 2
  MaxUpsets = 2
INVARIANTS TypeOK LockStep SimulationIsTheReceiver GainHistoryResyncs
