---------------------------- MODULE MCBlockIndex ----------------------------
(***************************************************************************)
(* Model-checks the block index on its own: sessions deliver any of the    *)
(* blocks in any order, duplicates included, reaching every subset of the  *)
(* blocks as an index.                                                     *)
(***************************************************************************)
EXTENDS BlockIndex

vars == indexVars

(* Blocks as build_hardcoded_block builds them, with a body tag for the    *)
(* content (previous hash, merkle root, transactions) the fixture fixes.   *)
MkBlock(checkpoint, influence, body) ==
  [checkpoint |-> checkpoint, influence |-> influence, body |-> body]

(* Per epoch, two influences and two bodies: candidates of one epoch tie  *)
(* on influence, and differ on it.                                         *)
MCBlocks == {MkBlock(e, i, body) : e \in 1..2, i \in 1..2, body \in {"x", "y"}}

MCEpochs == 1..2

(* An injective digest assignment in which the tie-break favours body "x" *)
(* in epoch 1 and body "y" in epoch 2, so no field order stands in for    *)
(* the hash order.                                                        *)
DigestOrder ==
  << MkBlock(2, 1, "y"), MkBlock(1, 2, "x"), MkBlock(2, 2, "y"), MkBlock(1, 1, "y"),
     MkBlock(1, 2, "y"), MkBlock(2, 1, "x"), MkBlock(1, 1, "x"), MkBlock(2, 2, "x") >>

MCBlockHash == [b \in MCBlocks |-> CHOOSE i \in 1..8 : DigestOrder[i] = b]

(* process_new_block of any block, new or already known. *)
Next ==
  \E b \in Blocks :
    \/ ProcessNewBlock(b)
    \/ ~IsNewBlock(b) /\ UNCHANGED indexVars

Spec == IndexInit /\ [][Next]_vars

(***************************************************************************)
(* Properties                                                              *)
(***************************************************************************)

(* Every key of the blocks map is the hash of its block and a candidate of *)
(* exactly that block's checkpoint, and every candidate of every epoch is  *)
(* a known block of that epoch: process_new_block keeps the two maps in    *)
(* step whatever the order and repetition of deliveries.                   *)
IndexConsistent ==
  /\ \A h \in DOMAIN blocks :
       /\ Hash(blocks[h]) = h
       /\ \A e \in Epochs : h \in epoch_to_block_hash[e] <=> e = blocks[h].checkpoint
  /\ \A e \in Epochs : \A h \in epoch_to_block_hash[e] : h \in DOMAIN blocks

=============================================================================
