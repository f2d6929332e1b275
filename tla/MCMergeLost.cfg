CONSTANTS
  MaxHead = 2
  MaxReviews = 1
  MaxPosts = 2
  MaxObservations = 2
  Protected = TRUE
  MaxTroubles = 1
  Outside = {"checks", "approve", "complete"}
SPECIFICATION FairSpec
PROPERTIES
  AmbiguousMergeReread
CHECK_DEADLOCK FALSE
