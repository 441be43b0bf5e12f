CONSTANTS
  qubo_size = 3
  SHIL_INDEX = 1
  PAD = 6
  CHIP_WORD = 11
  Qubos <- MCQubos
  Weights <- MCWeights
  ShilVals = {0, 7, 8}
  INT_MAX = 63
  Settings <- MCSettings
  Answers <- MCAnswers
  Names = {"single", "naive", "indep", "dep", "linear", "scaled", "nonlinear", "mixed"}
SPECIFICATION ProblemSpec
INVARIANTS TypeOK OrderKept ProgramWhole AnswerDecoded
