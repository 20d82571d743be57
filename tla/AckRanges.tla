----------------------------- MODULE AckRanges -----------------------------
(***************************************************************************)
(* SendBuf.acked_above as the code keeps it: a sorted list of disjoint     *)
(* [start, end) ranges acked past the contiguous prefix acked_offset.      *)
(* SendStream abstracts the list to the set of its bytes; this module runs *)
(* the list code of on_ack and _park_acked_range over every sequence of    *)
(* ACKs and checks that the list is canonical and holds exactly the bytes  *)
(* that were acknowledged.                                                 *)
(***************************************************************************)
EXTENDS Integers, Sequences, SequencesExt

CONSTANTS MaxOffset,   \* bound: bytes framed so far
          MaxLen       \* bound: longest acknowledged frame

VARIABLES acked_offset, acked_above,
          acked_bytes  \* history: the bytes of every ACK so far

vars == <<acked_offset, acked_above, acked_bytes>>

SmallerOf(a, b) == IF a < b THEN a ELSE b
LargerOf(a, b) == IF a > b THEN a ELSE b

\* One iteration of _park_acked_range: a range below the new one is kept,
\* one above it is kept after the new one is placed, any other is merged.
ParkStep(acc, r) ==
    CASE r[2] < acc.s -> [acc EXCEPT !.merged = Append(@, r)]
      [] r[1] > acc.e ->
           [acc EXCEPT !.merged = (IF acc.placed THEN @
                                   ELSE Append(@, <<acc.s, acc.e>>)) \o <<r>>,
                       !.placed = TRUE]
      [] OTHER -> [acc EXCEPT !.s = SmallerOf(@, r[1]),
                              !.e = LargerOf(@, r[2])]

\* acked_above after _park_acked_range(s, e).
ParkAckedRange(s, e) ==
    LET acc == FoldLeft(ParkStep,
                        [s |-> s, e |-> e, merged |-> <<>>, placed |-> FALSE],
                        acked_above)
    IN  IF acc.placed THEN acc.merged ELSE Append(acc.merged, <<acc.s, acc.e>>)

\* Mutant: the loop absorbs ranges the prefix reaches but does not advance.
AbsorbStepStuck(acc, r) ==
    IF acc.rest # <<>> \/ r[1] > acc.acked
    THEN [acc EXCEPT !.rest = Append(@, r)] ELSE acc

\* One iteration of on_ack's absorb loop, which breaks at the first range
\* the prefix does not reach; the ranges from there on are kept.
AbsorbStep(acc, r) ==
    IF acc.rest # <<>> \/ r[1] > acc.acked
    THEN [acc EXCEPT !.rest = Append(@, r)]
    ELSE [acc EXCEPT !.acked = LargerOf(@, r[2])]

AbsorbFrom(e) ==
    FoldLeft(AbsorbStep, [acked |-> e, rest |-> <<>>], acked_above)

Init == acked_offset = 0 /\ acked_above = <<>> /\ acked_bytes = {}

\* on_ack(ack_off, ack_len) with data: the range is parked, extends the
\* prefix, or is already acked.
OnAck(ack_off, ack_len) ==
    LET ack_end == ack_off + ack_len IN
    /\ ack_end <= MaxOffset
    /\ acked_bytes' = acked_bytes \cup (ack_off .. (ack_end - 1))
    /\ \/ /\ ack_off > acked_offset
          /\ acked_above' = ParkAckedRange(ack_off, ack_end)
          /\ UNCHANGED acked_offset
       \/ /\ ack_off <= acked_offset /\ ack_end > acked_offset
          /\ acked_offset' = AbsorbFrom(ack_end).acked
          /\ acked_above' = AbsorbFrom(ack_end).rest
       \/ /\ ack_end <= acked_offset
          /\ UNCHANGED <<acked_offset, acked_above>>

Next == \E off \in 0 .. MaxOffset, n \in 1 .. MaxLen : OnAck(off, n)

Spec == Init /\ [][Next]_vars

-----------------------------------------------------------------------------
\* acked_above is "sorted, disjoint, all starting past acked_offset" (SendBuf's
\* description) and no two of its ranges touch, so the list is as short as
\* it can be whatever order the ACKs came in.
Canonical ==
    /\ \A i \in DOMAIN acked_above :
          acked_offset < acked_above[i][1] /\ acked_above[i][1] < acked_above[i][2]
    /\ \A i \in 1 .. (Len(acked_above) - 1) :
          acked_above[i][2] < acked_above[i + 1][1]

RangeBytes == UNION {r[1] .. (r[2] - 1) : r \in ToSet(acked_above)}

\* The prefix and the list hold exactly the bytes acknowledged so far: no
\* ACKed range is discarded and none is invented by a merge.
HoldsAckedBytes ==
    acked_bytes = (0 .. (acked_offset - 1)) \cup RangeBytes
=============================================================================
