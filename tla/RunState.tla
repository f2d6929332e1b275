------------------------------ MODULE RunState ------------------------------
(***************************************************************************)
(* The durable run state machine (internal/domain/state.go) and the two    *)
(* classifications the scheduler makes of it (application/scheduling.go):   *)
(* which states need the host's heavy-work permit and which are terminal.   *)
(***************************************************************************)

AllowedTransitions ==
  [received                     |-> {"admitting"},
   admitting                    |-> {"rejected", "provisioning", "failed"},
   rejected                     |-> {},
   provisioning                 |-> {"executing", "failed"},
   executing                    |-> {"awaiting_human_decision", "verifying",
                                     "failed", "manual_intervention"},
   awaiting_human_decision      |-> {"executing", "failed"},
   verifying                    |-> {"fresh_review", "repairing", "failed",
                                     "manual_intervention"},
   fresh_review                 |-> {"approval_ready", "repairing", "failed",
                                     "manual_intervention"},
   approval_ready               |-> {"pushing_branch", "failed",
                                     "manual_intervention"},
   pushing_branch               |-> {"branch_pushed", "failed",
                                     "manual_intervention"},
   branch_pushed                |-> {"opening_pr", "failed",
                                     "manual_intervention"},
   opening_pr                   |-> {"pr_open", "failed",
                                     "manual_intervention"},
   repairing                    |-> {"executing", "verifying", "failed",
                                     "manual_intervention"},
   pr_open                      |-> {"reconciling_reviews", "failed",
                                     "manual_intervention"},
   reconciling_reviews          |-> {"awaiting_human_approval",
                                     "replying_review_feedback", "repairing",
                                     "failed", "manual_intervention"},
   replying_review_feedback     |-> {"awaiting_human_approval", "failed",
                                     "manual_intervention"},
   awaiting_human_approval      |-> {"merging", "repairing",
                                     "reconciling_reviews",
                                     "replying_review_feedback", "failed",
                                     "manual_intervention"},
   merging                      |-> {"awaiting_github_mergeability",
                                     "awaiting_linear_completion", "failed",
                                     "manual_intervention"},
   awaiting_github_mergeability |-> {"reconciling_reviews", "merging",
                                     "awaiting_human_approval", "repairing",
                                     "failed", "manual_intervention"},
   awaiting_linear_completion   |-> {"cleaning", "failed",
                                     "manual_intervention"},
   cleaning                     |-> {"completed", "failed",
                                     "manual_intervention"},
   manual_intervention          |-> {"approval_ready",
                                     "awaiting_linear_completion"},
   completed                    |-> {},
   failed                       |-> {}]

State == DOMAIN AllowedTransitions

CanTransition(from, to) == to \in AllowedTransitions[from]

TerminalRunState == {"rejected", "failed", "completed"}

HeavyWorkRequired == {"received", "admitting", "provisioning", "executing",
                      "verifying", "fresh_review", "repairing"}

HumanWaitState == {"awaiting_human_decision", "manual_intervention"}

CanRequireManualIntervention(s) ==
  s \notin TerminalRunState \cup {"manual_intervention"}
-----------------------------------------------------------------------------
(***************************************************************************)
(* What the scheduler distinguishes of a run state: its phase.  "absent" is *)
(* a run that has not been created.                                         *)
(***************************************************************************)
Phase == {"absent", "heavy", "external", "human", "terminal"}

PhaseOf(s) == CASE s \in TerminalRunState  -> "terminal"
                [] s \in HeavyWorkRequired -> "heavy"
                [] s \in HumanWaitState    -> "human"
                [] OTHER                   -> "external"

PhaseEdges ==
  {<<PhaseOf(e[1]), PhaseOf(e[2])>> :
      e \in {f \in State \X State :
               \/ CanTransition(f[1], f[2])
               \/ /\ f[2] = "manual_intervention"
                  /\ CanRequireManualIntervention(f[1])}}

\* The phases one durable transition of a run in phase p may reach.
PhaseStep(p) == {q \in Phase : <<p, q>> \in PhaseEdges}
=============================================================================
