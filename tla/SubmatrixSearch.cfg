CONSTANTS
  qubo_size = 5
  subMatrix = 2
  MinSize = 4
  Qubos <- MCQubos
  Lists <- MCLists
  QLEN = 3
  Bias = 1
  Memory <- MCMemory
SPECIFICATION Spec
INVARIANTS SortsDown StackFits BackboneExact WindowsAscend ProjectionExact ChangeCounts
