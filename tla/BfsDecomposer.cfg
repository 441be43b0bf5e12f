CONSTANTS
  qubo_size = 4
  Graphs <- MCGraphs
SPECIFICATION Spec
INVARIANTS TypeOK SubProblemComplete Connected ForwardExhausted
PROPERTY Terminates
