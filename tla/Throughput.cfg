SPECIFICATION Spec
CONSTANTS
  CPUs = {1, 2}
  Sizes = {1, 2}
  Modulus = 32
  Second = 2
  Window = 2
  MaxGap = 3
  MaxPackets = 3
INVARIANTS TypeOK SamplesAreTraffic
PROPERTIES OutageSpoilsOneSample
