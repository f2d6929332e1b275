SPECIFICATION FairSpec
CONSTANTS
  Visited = {"executing", "verifying", "repairing", "awaiting_human_decision",
             "manual_intervention", "failed"}
  Start = "executing"
  Classes = {"process_start", "terminal_failure"}
  MaxAttempts = 2
  InitialDelay = 1
  MaximumDelay = 2
  Paths = {"lease", "free"}
  Faults = {"crash","abandon","operator"}
  MaxSequence = 4
  MaxCount = 4
  MaxStamp = 8
  MaxCrashes = 1
INVARIANTS
  DrivenUnderSchedule
  AttemptsBounded
  GrantAnnounced
PROPERTIES
  AttentionKept
  ScheduledRetryMade
  AttentionAnnounced
CHECK_DEADLOCK FALSE
