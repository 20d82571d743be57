---------------------------- MODULE MCRecvStream ----------------------------
(***************************************************************************)
(* RecvStream, and beside it the segment list (RecvSegments) that its set  *)
(* of offsets stands for.  The two share no variable; `part` says which of *)
(* them runs, so that their state spaces add up.                           *)
(***************************************************************************)
EXTENDS RecvStream, Sequences

CONSTANTS SegMaxOffset, SegCopies   \* RecvSegments' bounds

VARIABLES part, segs, seg_read_offset, seg_total, seg_first, seg_delivered

segVars == <<segs, seg_read_offset, seg_total, seg_first, seg_delivered>>

Seg == INSTANCE RecvSegments WITH MaxOffset <- SegMaxOffset,
                                  Copies <- SegCopies,
                                  read_offset <- seg_read_offset,
                                  total_received <- seg_total,
                                  first <- seg_first,
                                  delivered <- seg_delivered

MCInit == part \in {"stream", "segments"} /\ Init /\ Seg!Init

MCNext ==
    \/ part = "stream" /\ Next /\ UNCHANGED <<part, segVars>>
    \/ part = "segments" /\ Seg!Next /\ UNCHANGED <<part, vars>>

MCSpec == MCInit /\ [][MCNext]_<<vars, part, segVars>>

\* RecvBuf's list, whichever path _insert took: segments are sorted, never
\* empty and never touch; they hold the first copy of every byte received and
\* not read, each counted once; the gap rules are those of the byte set; and
\* the application has read the first copies, in order and without a hole.
SegmentsExact ==
    /\ Seg!Canonical
    /\ Seg!FirstCopyKept
    /\ Seg!CountsAgree
    /\ Seg!GapRulesAgree
    /\ Seg!DeliveredInOrder
=============================================================================
