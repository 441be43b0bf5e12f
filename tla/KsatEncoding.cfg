CONSTANTS
  maxvar = 7
  SOLVER_SPINS = 10
  Cnfs <- MCCnfs
  Orders = {"up", "down"}
  Listed <- MCListed
SPECIFICATION KsatSpec
INVARIANTS SurrogateExact FitsSpins EncodingExact
