------------------------------ MODULE MergeGate ------------------------------
(***************************************************************************)
(* What delivery promises about a merge, without the handlers that keep it. *)
(* A head is merged by the controller only after the human signed it, no    *)
(* merge is recorded that GitHub does not show, the run completes only      *)
(* after its own head is merged and recorded, and nothing recorded is ever  *)
(* taken back.                                                              *)
(***************************************************************************)
CONSTANTS Head, None

VARIABLES
  signed,    \* heads the trusted human has approved
  merged,    \* the head GitHub shows as merged, None before
  by,        \* who merged it
  recorded,  \* the head the store records as merged, None before
  done       \* the run is completed

vars == <<signed, merged, by, recorded, done>>

Init == signed = {} /\ merged = None /\ by = "nobody" /\ recorded = None /\ done = FALSE

Sign(h) == signed' = signed \cup {h} /\ UNCHANGED <<merged, by, recorded, done>>

ControllerMerges(h) ==
  /\ merged = None /\ h \in signed
  /\ merged' = h /\ by' = "controller" /\ UNCHANGED <<signed, recorded, done>>

\* Somebody with the right to merge does.
HumanMerges(h) ==
  /\ merged = None
  /\ merged' = h /\ by' = "human" /\ UNCHANGED <<signed, recorded, done>>

Record ==
  /\ merged # None /\ recorded = None /\ merged \in signed
  /\ recorded' = merged /\ UNCHANGED <<signed, merged, by, done>>

Complete ==
  /\ recorded # None
  /\ done' = TRUE /\ UNCHANGED <<signed, merged, by, recorded>>

Next == \/ \E h \in Head : Sign(h) \/ ControllerMerges(h) \/ HumanMerges(h)
        \/ Record \/ Complete

Spec == Init /\ [][Next]_vars
=============================================================================
