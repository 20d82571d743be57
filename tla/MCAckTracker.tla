---------------------------- MODULE MCAckTracker ----------------------------
(***************************************************************************)
(* Two ranges over seven numbers: the list fills, evicts, merges below its *)
(* capacity again and refills.                                             *)
(***************************************************************************)
EXTENDS AckTracker
=============================================================================
