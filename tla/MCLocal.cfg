CONSTANTS
  MaxHead = 4
  MaxRepairs = 2
  MaxDecisions = 1
  MaxAttempts = 9
  MaxTroubles = 1
  Faults = {"crash", "call", "child", "check", "mutate", "commit", "reviewer", "foreign", "deadline"}
SPECIFICATION FairSpec
INVARIANTS
  ApprovalBacked
  CandidateOwned
  FeedbackRepaired
  NoForeignContents
PROPERTIES
  OutcomeHonoured
  RepairEnds
CHECK_DEADLOCK FALSE
