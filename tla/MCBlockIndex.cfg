CONSTANTS
  Blocks <- MCBlocks
  BlockHash <- MCBlockHash
  Epochs <- MCEpochs

SPECIFICATION Spec

INVARIANTS
  IndexConsistent
