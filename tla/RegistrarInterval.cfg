CONSTANTS
  MaxAddress = 1
  MaxRegistrarFaults = 0
  AccountEvery = 1
  UpdateEvery = 3
SPECIFICATION TimedSpec
PROPERTIES IntervalReregisters
