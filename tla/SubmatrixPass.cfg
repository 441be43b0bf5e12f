CONSTANTS
  MinSize = 20
  MaxSize = 30
  MinSub = 1
SPECIFICATION Spec
INVARIANTS ReadsInsideIndex ReadsInsideBackbone
