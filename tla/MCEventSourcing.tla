--------------------------- MODULE MCEventSourcing ---------------------------
(***************************************************************************)
(* The event-sourced loop with the values of the run: snapshot stores of   *)
(* both kinds, and groups of two, one and one events.                      *)
(***************************************************************************)
EXTENDS EventSourcing

BothKinds == BOOLEAN
GroupSizes == <<2, 1, 1>>
=============================================================================
