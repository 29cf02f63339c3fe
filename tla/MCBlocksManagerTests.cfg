CONSTANTS
  BlockHash <- MCBlockHash
  SHA256_1 = 1
  SHA256_2 = 2
  SHA256_3 = 3

SPECIFICATION Spec

\* The test binary ends once every test has made all its calls.
CHECK_DEADLOCK FALSE

INVARIANTS
  UnitTestsPass
