---------------------------- MODULE MCFederation ----------------------------
(***************************************************************************)
(* Values for Federation: breakers with and without operators and          *)
(* automatic recovery.                                                     *)
(***************************************************************************)
EXTENDS Federation

EachUse == [manual : BOOLEAN, autoRecovery : BOOLEAN]
=============================================================================
