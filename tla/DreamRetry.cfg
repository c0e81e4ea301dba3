SPECIFICATION MemorySpec
CONSTANTS
  Slugs = {s1, s2}
  MaxWrites = 3
  NoProposals = NoProposals
  MaxProposals = 1
  NoPlan = NoPlan
  MaxVaultFaults = 2
INVARIANTS
  RetryCompletes
CHECK_DEADLOCK FALSE
