CONSTANTS
  none = none
  NoTarget = none
  qubo_size = 3
  Qubos <- MCQubos
  iter_budget = 30
  nTabu = 2
  Targets <- MCTargets
  NumIncrease = 2
  TinyDelta = 3
SPECIFICATION Spec
INVARIANTS AuxiliaryExact ReturnsPolished BestEnergyOfBest
PROPERTIES Terminates
