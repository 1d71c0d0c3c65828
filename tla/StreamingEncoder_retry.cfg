\* The sink fails once and the caller resumes.
SPECIFICATION Spec
CONSTANTS
  FrameSamples = 3
  MaxWrite = 4
  MaxFed = 6
  MaxSinkErrors = 1
  MaxDirect = 0
INVARIANT ReceiverLockStep
