--------------------------- MODULE MCBlocksManager ---------------------------
(***************************************************************************)
(* Instantiates the BlocksManager actor for TLC: three epochs, five       *)
(* blocks (three competing for epoch 1, two of them tied on influence, one *)
(* each for epochs 2 and 3), two process exits, and one inventory offer    *)
(* and two hash queries that mix known and unknown hashes.                 *)
(***************************************************************************)
EXTENDS BlocksManager

MkBlock(checkpoint, influence, body) ==
  [checkpoint |-> checkpoint, influence |-> influence, body |-> body]

MCBlocks ==
  { MkBlock(1, 2, "x"), MkBlock(1, 1, "x"), MkBlock(1, 2, "y"),
    MkBlock(2, 1, "x"), MkBlock(3, 1, "x") }

(* Injective digests; of the tied pair, body "y" has the smaller hash. *)
MCBlockHash ==
  [b \in MCBlocks |->
     CASE b = MkBlock(1, 2, "x") -> 3
       [] b = MkBlock(1, 1, "x") -> 1
       [] b = MkBlock(1, 2, "y") -> 2
       [] b = MkBlock(2, 1, "x") -> 4
       [] b = MkBlock(3, 1, "x") -> 5]

MCMaxEpoch == 3
MCEpochs == 1..MCMaxEpoch
MCMaxCrashes == 2
MCGenesisHash == 0

(* A digest no block has. *)
UnknownHash == 9

MCInvOffers ==
  { << [kind |-> "Block", hash |-> 3], [kind |-> "Tx", hash |-> UnknownHash] >> }

MCQueryHashes == {2, UnknownHash}

=============================================================================
