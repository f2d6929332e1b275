CONSTANTS
  Issues = {"first", "second"}
  RepositoryOf <- MCRepository
  Workers = {w1, w2}
  MaxEpoch = 2
  MaxTroubles = 2
  Faults = {"crash", "expire", "lost", "late", "refuse", "read", "permit", "store", "human", "abandon"}
SPECIFICATION FairSpec
INVARIANTS
  RequestsCovered
  WorkProven
PROPERTIES
  AbandonedStaysAlone
  FirstSettled
