----------------------------- MODULE MCNetwork -------------------------------
(***************************************************************************)
(* Two interchangeable nodes, two epochs; epoch 1 has three candidates,    *)
(* two of them tied on the greatest influence, epoch 2 has one.            *)
(***************************************************************************)
EXTENDS Network, TLC

MkBlock(checkpoint, influence, body) ==
  [checkpoint |-> checkpoint, influence |-> influence, body |-> body]

MCBlocks ==
  { MkBlock(1, 2, "x"), MkBlock(1, 1, "x"), MkBlock(1, 2, "y"), MkBlock(2, 1, "x") }

(* Injective digests; of the tied pair, body "y" has the smaller hash. *)
MCBlockHash ==
  [b \in MCBlocks |->
     CASE b = MkBlock(1, 2, "x") -> 3
       [] b = MkBlock(1, 1, "x") -> 1
       [] b = MkBlock(1, 2, "y") -> 2
       [] b = MkBlock(2, 1, "x") -> 4]

MCNoHash == 0

NodeSymmetry == Permutations(Nodes)

=============================================================================
