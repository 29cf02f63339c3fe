CONSTANTS
  Blocks <- MCBlocks
  BlockHash <- MCBlockHash
  Epochs <- MCEpochs
  MaxEpoch <- MCMaxEpoch
  MaxCrashes <- MCMaxCrashes
  GenesisHash <- MCGenesisHash
  InvOffers <- MCInvOffers
  QueryHashes <- MCQueryHashes
  NoChainInfo = NoChainInfo
  NoValue = NoValue

SPECIFICATION Spec

INVARIANTS
  TipBlockKnown
