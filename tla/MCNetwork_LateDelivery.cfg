CONSTANTS
  Nodes = {n1, n2}
  Blocks <- MCBlocks
  BlockHash <- MCBlockHash
  MaxEpoch = 2
  NoHash <- MCNoHash
  Undecided = Undecided
  TimelyDelivery = FALSE
  MaxRestarts = 0

SYMMETRY NodeSymmetry

SPECIFICATION Spec

\* The clock is bounded by MaxEpoch: once every epoch is closed,
\* consolidated and every candidate delivered, nothing is left to happen.
CHECK_DEADLOCK FALSE

INVARIANTS
  NodesAgree
