---------------------------- MODULE LocalWorkspace ----------------------------
(***************************************************************************)
(* The run's directory for artifacts and its dedicated worktree: reserved   *)
(* in the store, made, and then recorded as owned, over crashes between any *)
(* two of these (ensureArtifactRoot, provision, WorktreeManager).           *)
(***************************************************************************)
EXTENDS LocalState

Own(r, status) ==
  /\ rows' = [rows EXCEPT ![r] = status]
  /\ UNCHANGED <<runVars, log, attempts, proofVars>>

RootReady == rows["artifact_root"] = "owned" /\ disk.root = "marked"

\* The loop of continueExpected up to the handler of the run's state.
Enter ==
  /\ At("loop") /\ ~(Overdue /\ st \in RepairStates) /\ ~RootReady
  /\ Go("root") /\ KeepStore /\ KeepWorld /\ Reliably

\* The path is looked at once, before it is reserved and made.
LookAtRoot ==
  /\ At("root") /\ disk.root = "absent"
  /\ Go(IF rows["artifact_root"] = "none" THEN "root_reserve" ELSE "root_make")
  /\ KeepStore /\ KeepWorld /\ Reliably

ReserveRoot ==
  /\ At("root_reserve")
  /\ Own("artifact_root", "reserved") /\ Go("root_make") /\ KeepWorld /\ Reliably

\* os.Mkdir makes nothing of a path that is there by now.
MakeRoot ==
  /\ At("root_make")
  /\ IF disk.root # "absent" THEN Refuse
     ELSE /\ disk' = [disk EXCEPT !.root = "bare"]
          /\ Go("root") /\ KeepStore /\ UNCHANGED <<commits, expired>> /\ Reliably

\* Faulty: a directory without a marker is taken for the run's.
Unmarked == disk.root = "bare"

\* The reserved directory has no marker and no other content, whoever made it.
Vacant == disk.root = "bare" /\ "root" \notin disk.others

\* writeExclusive creates the marker and then fills it.
CreateMarker ==
  /\ At("root") /\ rows["artifact_root"] # "none" /\ Vacant
  /\ disk' = [disk EXCEPT !.root = "half"]
  /\ Go("root_write") /\ KeepStore /\ UNCHANGED <<commits, expired>> /\ Reliably

WriteMarker ==
  /\ At("root_write")
  /\ disk' = [disk EXCEPT !.root = "marked"]
  /\ Go("root") /\ KeepStore /\ UNCHANGED <<commits, expired>> /\ Reliably

OwnRoot ==
  /\ At("root") /\ rows["artifact_root"] # "none" /\ disk.root = "marked"
  /\ Own("artifact_root", "owned") /\ Go("loop") /\ KeepWorld /\ Reliably

RefuseRoot ==
  /\ At("root")
  /\ \/ rows["artifact_root"] = "none" /\ disk.root # "absent"
     \/ disk.root = "half"
     \/ disk.root = "bare" /\ ~Vacant
  /\ Refuse

RootStep ==
  \/ Enter \/ LookAtRoot \/ ReserveRoot \/ MakeRoot \/ CreateMarker \/ WriteMarker \/ OwnRoot \/ RefuseRoot
-----------------------------------------------------------------------------
PathExists == disk.tree # "absent"

\* The path must not be there before the run has reserved it.
ReserveBranch ==
  /\ At("provision")
  /\ IF PathExists /\ ~workspace /\ rows["worktree"] = "none" THEN Refuse
     ELSE Own("branch", "reserved") /\ Go("reserve_worktree") /\ KeepWorld /\ Reliably

ReserveWorktree ==
  /\ At("reserve_worktree")
  /\ Own("worktree", "reserved") /\ Go("make") /\ KeepWorld /\ Reliably

\* ValidateOwned: the path is a worktree of the source, on the run's branch.
ValidateOwned == disk.tree = "ours"

ReuseWorkspace ==
  /\ At("make") /\ workspace /\ ValidateOwned
  /\ Go("provisioned") /\ KeepStore /\ KeepWorld /\ Reliably

RecoverWorktree ==
  /\ At("make") /\ ~workspace /\ PathExists /\ ValidateOwned
  /\ Go("set_workspace") /\ KeepStore /\ KeepWorld /\ Reliably

RefuseWorktree ==
  /\ At("make")
  /\ IF workspace \/ PathExists THEN ~ValidateOwned ELSE disk.branch
  /\ Refuse

\* Provision looks at the path and the branch, and fetches the base.
Provision ==
  /\ At("make") /\ ~workspace /\ ~PathExists /\ ~disk.branch
  /\ Go("add") /\ KeepStore /\ KeepWorld /\ Reliably

\* git worktree add makes the branch and then the worktree, in a directory that
\* has come to be there only if it is empty.
AddWorktree ==
  /\ At("add")
  /\ \/ /\ "tree" \notin disk.others
        /\ disk' = [disk EXCEPT !.branch = TRUE, !.tree = "ours"]
        /\ Go("set_workspace") /\ Reliably
     \/ /\ disk' = [disk EXCEPT !.branch = TRUE]
        /\ \/ "tree" \in disk.others /\ Go("error") /\ Reliably
           \/ Trouble("call") /\ Go("error")
           \/ Trouble("crash") /\ Return
  /\ KeepStore /\ UNCHANGED <<commits, expired>>

SetWorkspace ==
  /\ At("set_workspace")
  /\ workspace' = TRUE /\ UNCHANGED <<st, cand, session, logVars, proofVars>>
  /\ Go("own_branch") /\ KeepWorld /\ Reliably

OwnBranch ==
  /\ At("own_branch")
  /\ Own("branch", "owned") /\ Go("own_worktree") /\ KeepWorld /\ Reliably

OwnWorktree ==
  /\ At("own_worktree")
  /\ Own("worktree", "owned") /\ Go("provisioned") /\ KeepWorld /\ Reliably

Provisioned ==
  /\ At("provisioned")
  /\ Transition("executing") /\ KeepWorld /\ Reliably

ProvisionStep ==
  \/ ReserveBranch \/ ReserveWorktree \/ ReuseWorkspace \/ RecoverWorktree \/ RefuseWorktree
  \/ Provision \/ AddWorktree \/ SetWorkspace \/ OwnBranch \/ OwnWorktree \/ Provisioned

\* Somebody else makes a directory where the run's would be, with or without
\* something in it, once at either place.
ForeignDirectory ==
  /\ "foreign" \in Faults
  /\ \/ /\ disk.root = "absent"
        /\ \E more \in SUBSET {"root"} :
             disk' = [disk EXCEPT !.root = "bare", !.others = @ \cup more]
     \/ /\ disk.tree = "absent"
        /\ \E more \in SUBSET {"tree"} :
             disk' = [disk EXCEPT !.tree = "bare", !.others = @ \cup more]
  /\ KeepStore /\ UNCHANGED <<commits, expired, ctl>> /\ Reliably
=============================================================================
