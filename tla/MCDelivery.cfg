CONSTANTS
  MaxHead = 2
  MaxReviews = 3
  MaxPosts = 2
  MaxObservations = 2
  Protected = TRUE
  MaxTroubles = 1
  Outside = {"checks", "rerun", "foreign", "close", "merge", "approve", "changes", "dismiss", "resolve", "note", "delete", "complete", "early", "cancel", "edit"}
SPECIFICATION FairSpec
INVARIANTS
  MergeAuthorized
  OneReplyPerRoot
  ReplyBeforeMerge
  EvidenceChain
  CompletedMeansDelivered
PROPERTIES
  ForeignCommitKept
  MergeGatePromise
  DeliverySettles
CHECK_DEADLOCK FALSE
