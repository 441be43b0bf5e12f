CONSTANTS
  c1 = c1
  c2 = c2
  Chip = {c1, c2}
  FifoRoom = 2
  NumProbs = {1, 4}
  Energies <- MCEnergies
  MaxCalls = 2
  MaxCrashes = 1
  MaxSubmits = 3
  MaxDeaths = 1
SPECIFICATION Spec
INVARIANTS OwnResults AnswersInOrder
PROPERTIES LowestReturned CallsReturn ReadsReturn
