---------------------------- MODULE MCSendStream ----------------------------
(***************************************************************************)
(* SendStream, and beside it the list of acknowledged ranges (AckRanges)   *)
(* that its set acked_above stands for.  The two share no variable; `part` *)
(* says which of them runs, so that their state spaces add up.             *)
(***************************************************************************)
EXTENDS SendStream, Sequences

CONSTANTS RangesMaxOffset, RangesMaxLen   \* AckRanges' bounds

VARIABLES part, list_prefix, list_ranges, list_acked

listVars == <<list_prefix, list_ranges, list_acked>>

List == INSTANCE AckRanges WITH MaxOffset <- RangesMaxOffset,
                                MaxLen <- RangesMaxLen,
                                acked_offset <- list_prefix,
                                acked_above <- list_ranges,
                                acked_bytes <- list_acked

MCInit == part \in {"stream", "ranges"} /\ Init /\ List!Init

MCNext ==
    \/ part = "stream" /\ Next /\ UNCHANGED <<part, listVars>>
    \/ part = "ranges" /\ List!Next /\ UNCHANGED <<part, vars>>

MCSpec == MCInit /\ [][MCNext]_<<vars, part, listVars>>

\* on_ack's list of ranges is sorted, disjoint, past the prefix, no two of its
\* ranges touch, and with the prefix it holds exactly the bytes acknowledged.
ParkedExact == List!Canonical /\ List!HoldsAckedBytes
=============================================================================
