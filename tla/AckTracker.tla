----------------------------- MODULE AckTracker -----------------------------
(***************************************************************************)
(* The receiving half of PacketNumberSpace (quic/pn_space.mojo): which     *)
(* packet numbers were processed, the bounded list of ranges that ACK      *)
(* frames are built from and duplicates are recognised by, and the         *)
(* schedule of the ACKs owed (ack_needed, ack_deadline).                   *)
(*                                                                         *)
(* Time is relative: ack_deadline is the time left until the deadline, and *)
(* `waited` how long the oldest unacknowledged ack-eliciting packet has    *)
(* been waiting; both stop changing once the deadline has passed.          *)
(***************************************************************************)
EXTENDS Integers, Sequences, SequencesExt, FiniteSets, FiniteSetsExt

CONSTANTS MaxPn,         \* bound: largest packet number
          MaxRanges,     \* MAX_ACK_RANGE_ENTRIES
          MaxAckDelay    \* local max_ack_delay, in clock ticks

ASSUME AckTrackerAssumption ==
    /\ MaxPn \in Nat /\ MaxRanges \in Nat \ {0}
    /\ MaxAckDelay \in Nat

VARIABLES app_space,   \* the Application space, or Initial / Handshake
          largest_recv_pn, largest_rx_ack_eliciting_pn,
          ack_ranges,                    \* <<start, end>>, newest first
          ack_eliciting_since_last_ack, ack_needed, ack_deadline

\* History: the numbers processed, those processed twice, whether a range was
\* ever evicted or refused, and the wait of the oldest packet not acknowledged.
VARIABLES processed, replayed, overflowed, waited

schedVars == <<ack_eliciting_since_last_ack, ack_needed, ack_deadline, waited>>
rangeVars == <<app_space, largest_recv_pn, largest_rx_ack_eliciting_pn, ack_ranges>>
histVars  == <<processed, replayed, overflowed>>
vars == <<schedVars, rangeVars, histVars>>

None == -1
Pns == 0 .. MaxPn
Held(r) == UNION {x[1] .. x[2] : x \in ToSet(r)}

-----------------------------------------------------------------------------
(* The range list *)

\* Mutant: the largest number received counts as new.
WasReceivedOpen(pn) ==
    /\ pn < largest_recv_pn
    /\ \/ pn \in Held(ack_ranges)
       \/ Len(ack_ranges) >= MaxRanges /\ pn < Last(ack_ranges)[1]

WasReceived(pn) ==
    /\ pn <= largest_recv_pn
    /\ \/ pn \in Held(ack_ranges)
       \/ Len(ack_ranges) >= MaxRanges /\ pn < Last(ack_ranges)[1]

\* _sort_ack_ranges: by end, descending.
SortRanges(r) == SortSeq(r, LAMBDA a, b : a[2] > b[2])

\* _try_merge_adjacent: range i against the one below, then the one above.
TryMergeAdjacent(r, i) ==
    LET below == IF i < Len(r) /\ r[i + 1][2] + 1 >= r[i][1]
                 THEN RemoveAt([r EXCEPT ![i] = <<r[i + 1][1], r[i][2]>>], i + 1)
                 ELSE r
    IN  IF i > 1 /\ below[i][2] + 1 >= below[i - 1][1]
        THEN RemoveAt([below EXCEPT ![i - 1] = <<below[i][1], below[i - 1][2]>>], i)
        ELSE below

\* Mutant: a full list drops the newest range for a new one.
InsertNewDropsNewest(r, pn) ==
    IF Len(r) < MaxRanges THEN SortRanges(Append(r, <<pn, pn>>))
    ELSE IF pn < Last(r)[2] THEN r
    ELSE SortRanges([r EXCEPT ![1] = <<pn, pn>>])

\* A number no range can take: a full list evicts its oldest range, unless
\* the number is older still.
InsertNew(r, pn) ==
    IF Len(r) < MaxRanges THEN SortRanges(Append(r, <<pn, pn>>))
    ELSE IF pn < Last(r)[2] THEN r
    ELSE SortRanges([r EXCEPT ![Len(r)] = <<pn, pn>>])

\* _insert_ack_range: the first range that holds or touches pn decides.
InsertAckRange(r, pn) ==
    LET near == {i \in 1 .. Len(r) : pn \in (r[i][1] - 1) .. (r[i][2] + 1)}
        i == Min(near)
    IN  IF near = {} THEN InsertNew(r, pn)
        ELSE IF pn \in r[i][1] .. r[i][2] THEN r
        ELSE SortRanges(TryMergeAdjacent(
                [r EXCEPT ![i] = IF pn > r[i][2] THEN <<r[i][1], pn>>
                                                 ELSE <<pn, r[i][2]>>], i))

\* Mutant: the gap field is one too large.
GapAfterWide(above, r) == above[1] - r[2] - 1

\* peek_ack_frame: largest, first range, then (gap, length) pairs.
GapAfter(above, r) == above[1] - r[2] - 2

AckFrame(r) ==
    [largest |-> r[1][2], first |-> r[1][2] - r[1][1],
     ranges |-> [i \in 1 .. (Len(r) - 1) |->
                    <<GapAfter(r[i], r[i + 1]), r[i + 1][2] - r[i + 1][1]>>]]

\* What on_ack_received makes of a frame: the ranges it names.
DecodeAck(f) ==
    LET Step(acc, gr) ==
          LET hi == acc.low - gr[1] - 2
          IN  [low |-> hi - gr[2], held |-> acc.held \cup ((hi - gr[2]) .. hi)]
    IN  FoldLeft(Step, [low |-> f.largest - f.first,
                        held |-> (f.largest - f.first) .. f.largest],
                 f.ranges).held

-----------------------------------------------------------------------------
(* Packets in, ACKs out *)

Init ==
    /\ app_space \in BOOLEAN
    /\ largest_recv_pn = None /\ largest_rx_ack_eliciting_pn = None
    /\ ack_ranges = <<>>
    /\ ack_eliciting_since_last_ack = 0
    /\ ack_needed = FALSE /\ ack_deadline = None
    /\ processed = {} /\ replayed = {} /\ overflowed = FALSE
    /\ waited = None

\* The first packet that may wait arms the deadline; later ones leave it.
DeadlineAfter == IF ack_deadline = None THEN MaxAckDelay ELSE ack_deadline

Immediate(pn, ce) ==
    \/ ~app_space
    \/ ack_eliciting_since_last_ack + 1 >= 2
    \/ ce
    \/ pn < largest_rx_ack_eliciting_pn
    \/ pn > largest_rx_ack_eliciting_pn + 1

\* Mutant: a packet that ends the delay drops the deadline and nothing else.
ScheduleDropsDeadline(pn, ce) ==
    /\ ack_deadline' = IF Immediate(pn, ce) THEN None ELSE DeadlineAfter
    /\ UNCHANGED ack_needed

ScheduleAck(pn, ce) ==
    IF Immediate(pn, ce)
    THEN /\ ack_needed' = TRUE
         /\ ack_deadline' = IF app_space THEN None ELSE ack_deadline
    ELSE ack_deadline' = DeadlineAfter /\ UNCHANGED ack_needed

Evicts(pn) ==
    /\ Len(ack_ranges) >= MaxRanges
    /\ \A r \in ToSet(ack_ranges) : pn \notin (r[1] - 1) .. (r[2] + 1)

\* on_packet_received, for a number was_received does not know.
PacketReceived(pn, ae, ce) ==
    /\ ~WasReceived(pn)
    /\ largest_recv_pn' = IF pn > largest_recv_pn THEN pn ELSE largest_recv_pn
    /\ UNCHANGED app_space
    /\ ack_ranges' = InsertAckRange(ack_ranges, pn)
    /\ processed' = processed \cup {pn}
    /\ replayed' = replayed \cup ({pn} \cap processed)
    /\ overflowed' = (overflowed \/ Evicts(pn))
    /\ \/ /\ ~ae
          /\ UNCHANGED <<schedVars, largest_rx_ack_eliciting_pn>>
       \/ /\ ae
          /\ ack_eliciting_since_last_ack < 2
          /\ ack_eliciting_since_last_ack' = ack_eliciting_since_last_ack + 1
          /\ ScheduleAck(pn, ce)
          /\ waited' = IF waited = None THEN 0 ELSE waited
          /\ largest_rx_ack_eliciting_pn' =
                IF app_space /\ pn > largest_rx_ack_eliciting_pn
                THEN pn ELSE largest_rx_ack_eliciting_pn

\* A duplicate is dropped before it is decrypted.
PacketDropped(pn) == WasReceived(pn) /\ UNCHANGED vars

\* send(): _check_timers turns a deadline that passed into an ACK owed; the
\* ACK goes out if one is owed, or with other frames if one is due at all.
Send(other) ==
    LET needed == ack_needed \/ ack_deadline = 0
        sent == /\ ack_ranges # <<>>
                /\ needed \/ (other /\ ack_eliciting_since_last_ack > 0)
    IN  /\ ack_needed' = (needed /\ ~sent)
        /\ ack_deadline' = IF sent \/ ack_deadline = 0 THEN None ELSE ack_deadline
        /\ ack_eliciting_since_last_ack' =
              IF sent THEN 0 ELSE ack_eliciting_since_last_ack
        /\ waited' = IF sent THEN None ELSE waited
        /\ UNCHANGED <<rangeVars, histVars>>

\* The ACK frame does not fit the datagram: only the timers were checked.
SendWithoutRoom ==
    /\ ack_deadline = 0
    /\ ack_needed' = TRUE /\ ack_deadline' = None
    /\ UNCHANGED <<ack_eliciting_since_last_ack, waited, rangeVars, histVars>>

Tick ==
    /\ ack_deadline > 0 \/ waited \in 0 .. (MaxAckDelay - 1)
    /\ ack_deadline' = IF ack_deadline > 0 THEN ack_deadline - 1 ELSE ack_deadline
    /\ waited' = IF waited \in 0 .. (MaxAckDelay - 1) THEN waited + 1 ELSE waited
    /\ UNCHANGED <<ack_eliciting_since_last_ack, ack_needed, rangeVars, histVars>>

Next ==
    \/ \E pn \in Pns, ae \in BOOLEAN, ce \in BOOLEAN :
          PacketReceived(pn, ae, ce)
    \/ \E pn \in Pns : PacketDropped(pn)
    \/ \E other \in BOOLEAN : Send(other)
    \/ SendWithoutRoom
    \/ Tick

Spec == Init /\ [][Next]_vars

\* Time passes, and the driver calls send() whenever an ACK is owed or a
\* deadline has passed, with room for the frame.
Fairness ==
    /\ WF_vars(Tick)
    /\ WF_vars((ack_needed \/ ack_deadline = 0) /\ Send(FALSE))

FairSpec == Spec /\ Fairness

-----------------------------------------------------------------------------
(* Properties *)

\* Type invariant.
TypeOK ==
    /\ app_space \in BOOLEAN
    /\ largest_recv_pn \in Pns \cup {None}
    /\ largest_rx_ack_eliciting_pn \in Pns \cup {None}
    /\ ack_ranges \in Seq(Pns \X Pns) /\ Len(ack_ranges) <= MaxRanges
    /\ ack_eliciting_since_last_ack \in 0 .. 2
    /\ ack_needed \in BOOLEAN /\ ack_deadline \in 0 .. MaxAckDelay \cup {None}
    /\ processed \subseteq Pns /\ replayed \subseteq processed
    /\ overflowed \in BOOLEAN /\ waited \in 0 .. MaxAckDelay \cup {None}

\* Ranges are non-empty, newest first, and never touch.
RangesCanonical ==
    /\ \A i \in 1 .. Len(ack_ranges) : ack_ranges[i][1] <= ack_ranges[i][2]
    /\ \A i \in 2 .. Len(ack_ranges) : ack_ranges[i][2] + 1 < ack_ranges[i - 1][1]

\* Only processed numbers are acknowledged, and all of them are as long as
\* no range was evicted.
RangesExact ==
    /\ Held(ack_ranges) \subseteq processed
    /\ ~overflowed => Held(ack_ranges) = processed

\* The largest number received heads the list, so that ack_delay_field
\* measures the packet the ACK reports as largest.
LargestIsAcked ==
    IF ack_ranges = <<>> THEN processed = {}
    ELSE ack_ranges[1][2] = largest_recv_pn /\ largest_recv_pn = Max(processed)

\* The range list is well formed, exact, and headed by the largest number.
RangesSound == TypeOK /\ RangesCanonical /\ RangesExact /\ LargestIsAcked

\* The gap and length fields of an ACK frame decode to the ranges held.
FrameRoundTrip ==
    ack_ranges # <<>> => DecodeAck(AckFrame(ack_ranges)) = Held(ack_ranges)

\* An ack-eliciting packet waits at most max_ack_delay in the Application
\* space, and not at all in the others: until it is acknowledged an ACK is
\* owed, or will be before that time is over.
AckInTime ==
    waited # None =>
        \/ ack_needed
        \/ app_space /\ ack_deadline \in 0 .. (MaxAckDelay - waited)

\* While no range was evicted, no packet is processed twice.
ReplayNeedsOverflow == replayed # {} => overflowed

\* Every ack-eliciting packet is acknowledged in the end.
EventuallyAcked ==
    (ack_eliciting_since_last_ack > 0) ~> (ack_eliciting_since_last_ack = 0)

-----------------------------------------------------------------------------
(* What a docstring claims, and the code does not do *)

\* was_received recognises every packet already processed: one below the
\* oldest tracked range counts as received.
NoReplay == replayed = {}

=============================================================================
