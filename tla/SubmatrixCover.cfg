CONSTANTS
  MinSize = 20
  MaxSize = 24
  MinSub = 10
SPECIFICATION Spec
INVARIANT CoversBackbone
