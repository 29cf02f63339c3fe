----------------------------- MODULE BlockIndex -----------------------------
(***************************************************************************)
(* The block index of the BlocksManager actor                              *)
(* (src/core/src/actors/blocks_manager/mod.rs): the map of known blocks by *)
(* hash, the map from checkpoint (epoch) to candidate hashes, and the      *)
(* operations over them: process_new_block, try_to_get_block,              *)
(* discard_existing_inv_vectors, and the consolidation tie-break that      *)
(* selects the canonical candidate of an epoch.                            *)
(*                                                                         *)
(* A block is abstracted to the two header fields the index and the        *)
(* consolidation policy read (beacon.checkpoint, proof.influence) plus a   *)
(* body tag standing for the rest of its content.  Hashing                 *)
(* (calculate_sha256 of to_bytes) is an injective map BlockHash from       *)
(* blocks to naturals; the order of naturals stands for the lexicographic  *)
(* order of 256-bit digests.                                               *)
(***************************************************************************)
EXTENDS Naturals, Sequences, FiniteSets, TLC

CONSTANTS
  Blocks,      \* the blocks sessions may deliver
  BlockHash,   \* [Blocks -> Nat], injective: sha256 of the block's bytes
  Epochs       \* the checkpoints the index may be asked about

ASSUME \A b \in Blocks : b.checkpoint \in Epochs

VARIABLES
  blocks,               \* HashMap<Hash, Block>: a function on known hashes
  epoch_to_block_hash   \* HashMap<Epoch, HashSet<Hash>>: absent entry = {}

indexVars == <<blocks, epoch_to_block_hash>>

Hashes == {BlockHash[b] : b \in Blocks}

(* calculate_sha256(&block.to_bytes()?) *)
Hash(b) == BlockHash[b]

(* The hash an inventory vector refers to, whatever its variant. *)
InvHash(v) == v.hash

(* BlocksManager::default(): both maps empty. *)
IndexInit ==
  /\ blocks = << >>
  /\ epoch_to_block_hash = [e \in Epochs |-> {}]

(* The index of a freshly started actor replaces the current one. *)
IndexReset ==
  /\ blocks' = << >>
  /\ epoch_to_block_hash' = [e \in Epochs |-> {}]

(* Whether process_new_block would accept b: its hash is not yet a key. *)
IsNewBlock(b) == Hash(b) \notin DOMAIN blocks

(* Mutant: the hash joins the epoch's set only when the entry is created. *)
ProcessNewBlockFirstOnly(b) ==
  /\ IsNewBlock(b)
  /\ epoch_to_block_hash' = [epoch_to_block_hash EXCEPT
                               ![b.checkpoint] = IF @ = {} THEN {Hash(b)} ELSE @]
  /\ blocks' = blocks @@ (Hash(b) :> b)

(***************************************************************************)
(* process_new_block(block), success branch: the hash is added to the      *)
(* candidate set of the block's checkpoint (created if absent), then the   *)
(* block is inserted in the map of known blocks.  The duplicate branch     *)
(* (BlockAlreadyExists) leaves both maps unchanged.                        *)
(***************************************************************************)
(* Mutant: the epoch's entry is replaced by a set of the new hash alone. *)
WithCandidateOverwrites(b) == [epoch_to_block_hash EXCEPT ![b.checkpoint] = {Hash(b)}]

WithCandidate(b) == [epoch_to_block_hash EXCEPT ![b.checkpoint] = @ \cup {Hash(b)}]

WithBlock(b) == blocks @@ (Hash(b) :> b)

ProcessNewBlock(b) ==
  /\ IsNewBlock(b)
  /\ epoch_to_block_hash' = WithCandidate(b)
  /\ blocks' = WithBlock(b)

(* Result<T, BlocksManagerError> *)
Ok(x) == [ok |-> TRUE, value |-> x]
Err(e) == [ok |-> FALSE, error |-> e]

(* The result process_new_block returns for b in the current index.  The  *)
(* Err(StorageError) of a failing block.to_bytes() is left out: the blocks *)
(* of this model, like the tests' fixtures, always serialize.             *)
NewBlockResult(b) == IF IsNewBlock(b) THEN Ok(Hash(b)) ELSE Err("BlockAlreadyExists")

(* try_to_get_block(hash): a clone of the stored block or BlockDoesNotExist. *)
TryToGetBlock(h) ==
  IF h \in DOMAIN blocks THEN Ok(blocks[h]) ELSE Err("BlockDoesNotExist")

(***************************************************************************)
(* discard_existing_inv_vectors(inv_vectors): keeps, in order, the vectors *)
(* whose wrapped hash is not a key of the blocks map, whatever their       *)
(* variant.                                                                *)
(***************************************************************************)
DiscardExistingInvVectors(vs) ==
  SelectSeq(vs, LAMBDA v : InvHash(v) \notin DOMAIN blocks)

(***************************************************************************)
(* Consolidation policy (spec 4.2): a candidate outranks another when its  *)
(* influence is strictly greater, or equal with a smaller hash.            *)
(***************************************************************************)
Influence(h) == blocks[h].influence

(* Mutant: a tie keeps the candidate scanned first. *)
OutranksStrictOnly(h1, h2) == Influence(h1) > Influence(h2)

Outranks(h1, h2) ==
  \/ Influence(h1) > Influence(h2)
  \/ Influence(h1) = Influence(h2) /\ h1 < h2

(* Scans the candidates one at a time, keeping the best seen so far. *)
RECURSIVE BestOf(_, _)
BestOf(best, rest) ==
  IF rest = {} THEN best
  ELSE LET h == CHOOSE x \in rest : TRUE
       IN BestOf(IF Outranks(h, best) THEN h ELSE best, rest \ {h})

(* The canonical hash among a non-empty candidate set. *)
Canonical(cands) ==
  LET first == CHOOSE x \in cands : TRUE
  IN BestOf(first, cands \ {first})

=============================================================================
