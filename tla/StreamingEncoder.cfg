\* Frames of 3 samples; writes of up to 2 frames and 1 sample; two sink errors.
SPECIFICATION FairSpec
CONSTANTS
  FrameSamples = 3
  MaxWrite = 7
  MaxFed = 7
  MaxSinkErrors = 2
  MaxDirect = 1
INVARIANTS WireIsTheStream CountsAreTrue CodecMirrorsWire
PROPERTIES ImplementsFrameStream EveryCallReturns TailDrains
