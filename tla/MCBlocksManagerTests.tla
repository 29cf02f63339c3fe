------------------------ MODULE MCBlocksManagerTests -------------------------
(***************************************************************************)
(* Digests for the test fixtures: distinct, and distinct from the invented *)
(* hashes Hash::SHA256([k; 32]) the tests use for unknown blocks.          *)
(***************************************************************************)
EXTENDS BlocksManagerTests

MCBlockHash ==
  [b \in Fixtures |->
     CASE b = build_hardcoded_block(2, 99999) -> 7
       [] b = build_hardcoded_block(2, 12345) -> 5
       [] b = build_hardcoded_block(1, 10000) -> 9
       [] b = build_hardcoded_block(3, 72138) -> 6]

=============================================================================
