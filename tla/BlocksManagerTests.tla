------------------------- MODULE BlocksManagerTests --------------------------
(***************************************************************************)
(* The unit tests of src/core/src/actors/blocks_manager/mod.rs, run as     *)
(* the cargo test harness runs them: every #[test] on a thread of its own, *)
(* each over its own BlocksManager::default(), calling process_new_block,  *)
(* try_to_get_block and discard_existing_inv_vectors one after the other.  *)
(* A test is its sequence of calls and the assertions it makes on the      *)
(* results and on the final maps; the calls go through the BlockIndex      *)
(* operators, so the run checks the index model against the code's own     *)
(* expectations.  A hash an earlier call returned (hash_a = ...unwrap())   *)
(* appears as the fixture's digest; the assertions check that the call     *)
(* returned exactly it.                                                    *)
(***************************************************************************)
EXTENDS Naturals, Sequences, FiniteSets

CONSTANTS
  BlockHash,       \* sha256 of each fixture block, injective
  SHA256_1,        \* Hash::SHA256([1; 32]), the hash of no fixture
  SHA256_2,        \* Hash::SHA256([2; 32])
  SHA256_3         \* Hash::SHA256([3; 32])

(* build_hardcoded_block(checkpoint, influence): every other field of the  *)
(* block is the same constant in all fixtures.                             *)
build_hardcoded_block(checkpoint, influence) ==
  [checkpoint |-> checkpoint, influence |-> influence, body |-> "hardcoded"]

Fixtures ==
  { build_hardcoded_block(2, 99999), build_hardcoded_block(2, 12345),
    build_hardcoded_block(1, 10000), build_hardcoded_block(3, 72138) }

Hash(b) == BlockHash[b]

Block(h) == [kind |-> "Block", hash |-> h]

(* The calls a test makes. *)
NewBlock(b) == [op |-> "process_new_block", arg |-> b]
GetBlock(h) == [op |-> "try_to_get_block", arg |-> h]
Discard(vs) == [op |-> "discard_existing_inv_vectors", arg |-> vs]

(* The three fixtures of the discard tests, inserted in this order. *)
block_a == build_hardcoded_block(2, 99999)
block_b == build_hardcoded_block(1, 10000)
block_c == build_hardcoded_block(3, 72138)
InsertABC == << NewBlock(block_a), NewBlock(block_b), NewBlock(block_c) >>

(***************************************************************************)
(* The tests: their calls, and whether their assertions hold of the final *)
(* index ix ([blocks, e2b]) and the results r of the calls.                *)
(***************************************************************************)
add_block_calls == << NewBlock(block_a) >>
add_block_passes(ix, r) ==
  /\ r[1].ok
  /\ Cardinality(DOMAIN ix.blocks) = 1
  /\ ix.blocks[r[1].value] = block_a
  /\ ix.e2b[2] = {r[1].value}

add_same_block_twice_calls == << NewBlock(block_a), NewBlock(block_a) >>
add_same_block_twice_passes(ix, r) ==
  r[1].ok /\ ~r[2].ok /\ Cardinality(DOMAIN ix.blocks) = 1

add_blocks_same_epoch_calls ==
  << NewBlock(block_a), NewBlock(build_hardcoded_block(2, 12345)) >>
add_blocks_same_epoch_passes(ix, r) ==
  /\ r[1].ok /\ r[2].ok
  /\ Cardinality(ix.e2b[2]) = 2
  /\ {r[1].value, r[2].value} \subseteq ix.e2b[2]

get_existing_block_calls == << NewBlock(block_a), GetBlock(Hash(block_a)) >>
get_existing_block_passes(ix, r) ==
  r[1].ok /\ r[1].value = Hash(block_a) /\ r[2].ok /\ r[2].value = block_a

get_non_existent_block_calls == << GetBlock(SHA256_1) >>
get_non_existent_block_passes(ix, r) == ~r[1].ok

discard_all_calls ==
  InsertABC \o << Discard(<< Block(Hash(block_a)), Block(Hash(block_b)),
                              Block(Hash(block_c)) >>) >>
discard_all_passes(ix, r) ==
  /\ \A i \in 1..3 : r[i].ok /\ r[i].value = Hash(InsertABC[i].arg)
  /\ r[4].ok /\ r[4].value = << >>

discard_some_calls ==
  InsertABC \o << Discard(<< Block(Hash(block_a)), Block(Hash(block_b)),
                              Block(Hash(block_c)), Block(SHA256_1) >>) >>
discard_some_passes(ix, r) ==
  /\ \A i \in 1..3 : r[i].ok /\ r[i].value = Hash(InsertABC[i].arg)
  /\ r[4].ok /\ r[4].value = << Block(SHA256_1) >>

discard_none_calls ==
  InsertABC \o << Discard(<< Block(SHA256_1), Block(SHA256_2), Block(SHA256_3) >>) >>
discard_none_passes(ix, r) ==
  /\ \A i \in 1..3 : r[i].ok
  /\ r[4].ok /\ r[4].value = << Block(SHA256_1), Block(SHA256_2), Block(SHA256_3) >>

Calls ==
  [ add_block              |-> add_block_calls,
    add_same_block_twice   |-> add_same_block_twice_calls,
    add_blocks_same_epoch  |-> add_blocks_same_epoch_calls,
    get_existing_block     |-> get_existing_block_calls,
    get_non_existent_block |-> get_non_existent_block_calls,
    discard_all            |-> discard_all_calls,
    discard_some           |-> discard_some_calls,
    discard_none           |-> discard_none_calls ]

Tests == DOMAIN Calls

Passes(t, ix, r) ==
  CASE t = "add_block"              -> add_block_passes(ix, r)
    [] t = "add_same_block_twice"   -> add_same_block_twice_passes(ix, r)
    [] t = "add_blocks_same_epoch"  -> add_blocks_same_epoch_passes(ix, r)
    [] t = "get_existing_block"     -> get_existing_block_passes(ix, r)
    [] t = "get_non_existent_block" -> get_non_existent_block_passes(ix, r)
    [] t = "discard_all"            -> discard_all_passes(ix, r)
    [] t = "discard_some"           -> discard_some_passes(ix, r)
    [] t = "discard_none"           -> discard_none_passes(ix, r)

VARIABLES
  bm,        \* per test: its BlocksManager's maps [blocks, e2b]
  results    \* per test: the results of the calls made so far

vars == <<bm, results>>

(* The block index of test t's BlocksManager. *)
BM(t) == INSTANCE BlockIndex WITH Blocks <- Fixtures, Epochs <- 1..3,
                                   blocks <- bm[t].blocks,
                                   epoch_to_block_hash <- bm[t].e2b

Init ==
  /\ bm = [t \in Tests |-> [blocks |-> << >>, e2b |-> [e \in 1..3 |-> {}]]]
  /\ results = [t \in Tests |-> << >>]

(* Test t's thread makes its next call. *)
Call(t) ==
  /\ Len(results[t]) < Len(Calls[t])
  /\ LET c == Calls[t][Len(results[t]) + 1] IN
     CASE c.op = "process_new_block" ->
            /\ results' = [results EXCEPT ![t] = Append(@, BM(t)!NewBlockResult(c.arg))]
            /\ bm' = IF BM(t)!IsNewBlock(c.arg)
                       THEN [bm EXCEPT ![t] = [blocks |-> BM(t)!WithBlock(c.arg),
                                               e2b |-> BM(t)!WithCandidate(c.arg)]]
                       ELSE bm
       [] c.op = "try_to_get_block" ->
            /\ results' = [results EXCEPT ![t] = Append(@, BM(t)!TryToGetBlock(c.arg))]
            /\ UNCHANGED bm
       [] c.op = "discard_existing_inv_vectors" ->
            /\ results' = [results EXCEPT ![t] =
                             Append(@, BM(t)!Ok(BM(t)!DiscardExistingInvVectors(c.arg)))]
            /\ UNCHANGED bm

Next == \E t \in Tests : Call(t)

Spec == Init /\ [][Next]_vars

(***************************************************************************)
(* Properties                                                              *)
(***************************************************************************)

(* Every unit test of blocks_manager/mod.rs that has made all its calls    *)
(* passes: process_new_block, try_to_get_block and                         *)
(* discard_existing_inv_vectors, as modelled, return what the tests assert *)
(* and leave the maps the tests inspect as they expect.                    *)
UnitTestsPass ==
  \A t \in Tests :
    Len(results[t]) = Len(Calls[t]) => Passes(t, bm[t], results[t])

=============================================================================
