----------------------------- MODULE SendStream -----------------------------
(***************************************************************************)
(* The sending side of one QUIC stream: the SendBuf of quic/stream.mojo,   *)
(* the send state machine around it, the per-stream flow-control credit    *)
(* and the records of STREAM and RESET_STREAM frames in flight             *)
(* (QuicConnection.app_frames_sent) that ACK and loss processing consume.  *)
(*                                                                         *)
(* Bytes are identified by their stream offset: data_span reads the buffer *)
(* at read_cursor + (frame_offset - offset), so a frame at an offset in    *)
(* offset..offset+live-1 carries exactly those bytes.  acked_above, a      *)
(* sorted list of disjoint ranges in the code, is the set of bytes in the  *)
(* ranges; AckRanges checks the list operations against these sets.        *)
(***************************************************************************)
EXTENDS Integers, FiniteSets

CONSTANTS MaxData,    \* bound: bytes the application writes in all
          MaxFrame,   \* bound: most bytes that fit in one frame
          MaxPn,      \* bound: packets carrying frames of this stream
          InitLimit,  \* the peer's initial stream flow-control limit
          MaxLimit    \* bound: largest limit the peer ever grants

ASSUME SendStreamAssumption ==
    /\ MaxData \in Nat
    /\ MaxFrame \in Nat
    /\ MaxPn \in Nat
    /\ InitLimit \in Nat
    /\ MaxLimit \in Nat

VARIABLES
    send_state,           \* Stream.send_state
    offset, live,         \* SendBuf.offset and len(data) - read_cursor
    unsent_offset, highest_sent_offset, acked_offset, acked_above,
    fin, fin_offset, fin_acked,
    fc_received, fc_limit,    \* fc_send.received and fc_send.limit
    sendable,                 \* the stream is in StreamMap.sendable_set
    needs_reset_stream, reset_stream_final_size,
    app_frames_sent,      \* STREAM records in flight
    reset_in_flight,      \* a RESET_STREAM record is in flight
    next_pn

\* History: what has really been acknowledged and framed so far.
VARIABLES acked_bytes, fin_frame_acked, fin_framed

bufVars  == <<offset, live, unsent_offset, highest_sent_offset, acked_offset,
              acked_above, fin, fin_offset, fin_acked>>
fcVars   == <<fc_received, fc_limit>>
rstVars  == <<needs_reset_stream, reset_stream_final_size, reset_in_flight>>
histVars == <<acked_bytes, fin_frame_acked, fin_framed>>
vars == <<send_state, bufVars, fcVars, sendable, rstVars, app_frames_sent,
          next_pn, histVars>>

None == -1

SendStates == {"READY", "SEND", "DATA_SENT", "DATA_RECVD",
               "RESET_SENT", "RESET_RECVD"}

MinOf(a, b) == IF a < b THEN a ELSE b
MaxOf(a, b) == IF a > b THEN a ELSE b

\* The bytes a record covers.
Covered(r) == r.off .. (r.off + r.len - 1)

-----------------------------------------------------------------------------
(* SendBuf: pure parts *)

TotalDataEnd == offset + live

HasPending == unsent_offset < TotalDataEnd \/ (fin /\ fin_offset = None)

\* FlowControl.available of the stream's send credit.
StreamAvail == IF fc_limit > fc_received THEN fc_limit - fc_received ELSE 0

FinPending == fin /\ fin_offset = None

\* Mutant: only the acknowledged end states silence the stream.
MaySendAfterReset == send_state \notin {"RESET_RECVD", "DATA_RECVD"}

\* The send states emit_stream_frames serves.  DATA_SENT is one: bytes lost
\* after the FIN was framed are resent from there.
MaySend == send_state \in {"READY", "SEND", "DATA_SENT"}

\* Size of the chunk prepare_frame cuts under `limit`.
ChunkSize(limit) == MinOf(limit, MaxOf(TotalDataEnd - unsent_offset, 0))

IncludeFin(limit) ==
    FinPending /\ unsent_offset + ChunkSize(limit) >= TotalDataEnd

\* The end of the contiguous acked prefix once it has reached `e`: parked
\* ranges the new prefix reaches are absorbed.
Absorb(e) ==
    CHOOSE m \in e .. TotalDataEnd :
        m \notin acked_above /\ e .. (m - 1) \subseteq acked_above

\* on_ack's two ranges of interest: one that extends the contiguous prefix,
\* and one that lies past it.  Any other range is old news.
Advances(off, n) == n > 0 /\ off <= acked_offset /\ off + n > acked_offset
Parks(off, n) == n > 0 /\ off > acked_offset

\* acked_offset, acked_above and unsent_offset after on_ack(off, n).  Acked
\* bytes must never be sent again, so unsent_offset is floored.
AckedAfter(off, n) ==
    IF Advances(off, n) THEN Absorb(off + n) ELSE acked_offset

ParkedAfter(off, n) ==
    CASE Parks(off, n)    -> acked_above \cup (off .. (off + n - 1))
      [] Advances(off, n) -> {b \in acked_above : b > AckedAfter(off, n)}
      [] OTHER            -> acked_above

\* Mutant: on_ack without its floor.
UnsentUnfloored(off, n) == unsent_offset

UnsentAfterAck(off, n) ==
    IF Advances(off, n) THEN MaxOf(unsent_offset, AckedAfter(off, n))
                        ELSE unsent_offset

\* How many acked bytes on_ack trims from the front of the buffer.
TrimAfterAck(off, n) ==
    IF Advances(off, n) THEN MinOf(AckedAfter(off, n) - offset, live) ELSE 0

\* Mutant: the send cursor is rewound to the end of the lost range.
UnsentToLostEnd(off, n) ==
    IF n = 0 THEN unsent_offset
             ELSE MaxOf(MinOf(unsent_offset, off + n), acked_offset)

\* unsent_offset after on_loss: rewound to the lost bytes, floored at the
\* acked prefix.
UnsentAfterLoss(off, n) ==
    IF n = 0 THEN unsent_offset
             ELSE MaxOf(MinOf(unsent_offset, off), acked_offset)

LossCoversFin(off, n) == n > 0 /\ fin_offset # None /\ off + n >= fin_offset

\* Mutant: the final size taken from the send cursor.
ResetSizeFromCursor == unsent_offset

\* reset_final_size: the highest offset ever sent, which loss never lowers.
ResetFinalSize ==
    IF fin_offset # None THEN MaxOf(highest_sent_offset, fin_offset)
                         ELSE highest_sent_offset

-----------------------------------------------------------------------------
Init ==
    /\ send_state = "READY"
    /\ offset = 0 /\ live = 0 /\ unsent_offset = 0 /\ highest_sent_offset = 0
    /\ acked_offset = 0 /\ acked_above = {}
    /\ fin = FALSE /\ fin_offset = None /\ fin_acked = FALSE
    /\ fc_received = 0 /\ fc_limit = InitLimit
    /\ sendable = FALSE
    /\ needs_reset_stream = FALSE /\ reset_stream_final_size = 0
    /\ app_frames_sent = {} /\ reset_in_flight = FALSE /\ next_pn = 0
    /\ acked_bytes = {} /\ fin_frame_acked = FALSE /\ fin_framed = None

\* send_stream_data(data, fin): n bytes, refused once the send side has
\* ended or, for data, once a FIN is queued.
SendStreamData(n, f) ==
    /\ send_state \in {"READY", "SEND"}
    /\ ~(fin /\ n > 0)
    /\ TotalDataEnd + n <= MaxData
    /\ live' = live + n
    /\ fin' = (fin \/ f)
    /\ UNCHANGED <<send_state, offset, unsent_offset, highest_sent_offset,
                   acked_offset, acked_above, fin_offset, fin_acked, fcVars,
                   rstVars, app_frames_sent, next_pn, histVars>>
    /\ sendable' = (sendable \/ HasPending')

\* prepare_frame found something to send: one STREAM frame goes out, its
\* record is kept, and the stream stays sendable while more is pending.
FrameOut(limit) ==
    LET start == unsent_offset
        n     == ChunkSize(limit)
        f     == IncludeFin(limit)
        end   == start + n
    IN
    /\ n > 0 \/ f
    /\ fin_offset' = IF f THEN end ELSE fin_offset
    /\ unsent_offset' = end
    /\ highest_sent_offset' = MaxOf(highest_sent_offset, end)
    /\ fc_received' = MaxOf(fc_received, end)
    /\ send_state' = IF f THEN "DATA_SENT"
                     ELSE IF send_state = "READY" THEN "SEND" ELSE send_state
    /\ app_frames_sent' = app_frames_sent \cup
           {[pn |-> next_pn, off |-> start, len |-> n, fin |-> f]}
    /\ next_pn' = next_pn + 1
    /\ fin_framed' = IF f THEN end ELSE fin_framed
    /\ UNCHANGED <<offset, live, acked_offset, acked_above, fin, fin_acked,
                   fc_limit, rstVars, acked_bytes, fin_frame_acked>>
    /\ sendable' = HasPending'

\* One stream's turn in emit_stream_frames.  `cap` is the smallest of the
\* connection credit (not zero), the room in the packet and the frame size.
\* A stream whose credit is used up keeps its turn unless a FIN is due.
EmitStreamFrames(cap) ==
    /\ sendable
    /\ \/ /\ ~MaySend
          /\ sendable' = FALSE
          /\ UNCHANGED <<send_state, bufVars, fcVars, rstVars,
                         app_frames_sent, next_pn, histVars>>
       \/ /\ MaySend
          /\ StreamAvail > 0 \/ FinPending
          /\ next_pn < MaxPn
          /\ LET limit == MinOf(cap, StreamAvail) IN
             \/ FrameOut(limit)
             \/ /\ ChunkSize(limit) = 0 /\ ~IncludeFin(limit)
                /\ sendable' = FALSE
                /\ UNCHANGED <<send_state, bufVars, fcVars, rstVars,
                               app_frames_sent, next_pn, histVars>>

\* SendBuf.on_ack(off, n).
OnAck(off, n) ==
    /\ acked_offset' = AckedAfter(off, n)
    /\ acked_above' = ParkedAfter(off, n)
    /\ unsent_offset' = UnsentAfterAck(off, n)
    /\ offset' = offset + TrimAfterAck(off, n)
    /\ live' = live - TrimAfterAck(off, n)
    /\ fin_acked' = (fin_acked \/
                     (fin_offset # None /\ AckedAfter(off, n) >= fin_offset))
    /\ UNCHANGED <<highest_sent_offset, fin, fin_offset>>

\* _on_app_pkt_acked for a STREAM record.
OnStreamAcked(r) ==
    /\ app_frames_sent' = app_frames_sent \ {r}
    /\ OnAck(r.off, r.len)
    /\ send_state' =
         IF /\ send_state = "DATA_SENT"
            /\ fin_offset # None /\ acked_offset' >= fin_offset /\ fin_acked'
         THEN "DATA_RECVD" ELSE send_state
    /\ acked_bytes' = acked_bytes \cup Covered(r)
    /\ fin_frame_acked' = (fin_frame_acked \/ r.fin)
    /\ UNCHANGED <<fcVars, sendable, rstVars, next_pn, fin_framed>>

\* SendBuf.on_loss(off, n).
OnLoss(off, n) ==
    /\ unsent_offset' = UnsentAfterLoss(off, n)
    /\ fin_offset' = IF LossCoversFin(off, n) THEN None ELSE fin_offset
    /\ fin_acked' = (fin_acked /\ ~LossCoversFin(off, n))
    /\ UNCHANGED <<offset, live, highest_sent_offset, acked_offset,
                   acked_above, fin>>

\* _on_app_pkt_lost for a STREAM record.
OnStreamLost(r) ==
    /\ app_frames_sent' = app_frames_sent \ {r}
    /\ OnLoss(r.off, r.len)
    /\ sendable' = (sendable \/ HasPending')
    /\ UNCHANGED <<send_state, fcVars, rstVars, next_pn, histVars>>

\* reset_stream (the application) and _handle_stop_sending (the peer): both
\* end the send side at the highest offset sent and queue a RESET_STREAM.
ResetStream ==
    /\ send_state \notin {"DATA_RECVD", "RESET_SENT", "RESET_RECVD"}
    /\ send_state' = "RESET_SENT"
    /\ needs_reset_stream' = TRUE
    /\ reset_stream_final_size' = ResetFinalSize
    /\ sendable' = FALSE
    /\ UNCHANGED <<bufVars, fcVars, reset_in_flight, app_frames_sent,
                   next_pn, histVars>>

\* drain_reset_stream_frames: the RESET_STREAM goes out, with a record.
EmitResetStream ==
    /\ needs_reset_stream
    /\ next_pn < MaxPn
    /\ needs_reset_stream' = FALSE
    /\ reset_in_flight' = TRUE
    /\ next_pn' = next_pn + 1
    /\ UNCHANGED <<send_state, bufVars, fcVars, sendable,
                   reset_stream_final_size, app_frames_sent, histVars>>

\* _on_app_pkt_acked and _on_app_pkt_lost for the RESET_STREAM record.
OnResetAcked ==
    /\ reset_in_flight
    /\ reset_in_flight' = FALSE
    /\ send_state' = IF send_state = "RESET_SENT" THEN "RESET_RECVD"
                                                  ELSE send_state
    /\ UNCHANGED <<bufVars, fcVars, sendable, needs_reset_stream,
                   reset_stream_final_size, app_frames_sent, next_pn, histVars>>

OnResetLost ==
    /\ reset_in_flight
    /\ reset_in_flight' = FALSE
    /\ needs_reset_stream' = TRUE
    /\ UNCHANGED <<send_state, bufVars, fcVars, sendable,
                   reset_stream_final_size, app_frames_sent, next_pn, histVars>>

\* _on_max_stream_data_from_cursor on an existing stream we send on.
OnMaxStreamData(maximum) ==
    /\ fc_limit' = MaxOf(fc_limit, maximum)
    /\ sendable' = (sendable \/ (maximum > fc_limit /\ HasPending))
    /\ UNCHANGED <<send_state, bufVars, fc_received, rstVars,
                   app_frames_sent, next_pn, histVars>>

Next ==
    \/ \E n \in 0 .. MaxData, f \in BOOLEAN : SendStreamData(n, f)
    \/ \E cap \in 0 .. MaxFrame : EmitStreamFrames(cap)
    \/ \E r \in app_frames_sent : OnStreamAcked(r) \/ OnStreamLost(r)
    \/ ResetStream \/ EmitResetStream \/ OnResetAcked \/ OnResetLost
    \/ \E m \in 0 .. MaxLimit : OnMaxStreamData(m)

Spec == Init /\ [][Next]_vars

-----------------------------------------------------------------------------
(* Properties *)

Records == [pn : Nat, off : Nat, len : Nat, fin : BOOLEAN]

\* Every variable keeps its type; no cursor goes negative.
TypeOK ==
    /\ send_state \in SendStates
    /\ offset \in Nat /\ live \in Nat /\ unsent_offset \in Nat
    /\ highest_sent_offset \in Nat /\ acked_offset \in Nat
    /\ acked_above \in SUBSET Nat
    /\ fin \in BOOLEAN /\ fin_offset \in Nat \cup {None}
    /\ fin_acked \in BOOLEAN
    /\ fc_received \in Nat /\ fc_limit \in Nat
    /\ sendable \in BOOLEAN
    /\ needs_reset_stream \in BOOLEAN /\ reset_stream_final_size \in Nat
    /\ app_frames_sent \in SUBSET Records
    /\ reset_in_flight \in BOOLEAN /\ next_pn \in Nat
    /\ acked_bytes \in SUBSET Nat
    /\ fin_frame_acked \in BOOLEAN /\ fin_framed \in Nat \cup {None}

\* Through every order of ACKs, losses and late ACKs of packets already
\* declared lost, the send cursor stays inside the bytes the buffer still
\* holds: prepare_frame followed by data_span never indexes before data[0]
\* (the race the comments of on_ack and on_loss guard against) and never
\* past its end.
CursorInsideBuffer ==
    /\ offset = acked_offset
    /\ offset <= unsent_offset
    /\ unsent_offset <= highest_sent_offset
    /\ highest_sent_offset <= TotalDataEnd

\* The acknowledgement state is exact: the prefix and the parked ranges are
\* precisely the bytes of the acknowledged records, and the prefix is as long
\* as it can be, so no ACK is dropped and no byte is trimmed too early.
AckedExactly ==
    /\ acked_bytes = (0 .. (acked_offset - 1)) \cup acked_above
    /\ \A b \in acked_above : b > acked_offset

\* No written byte is forgotten: until it is acknowledged, a byte is either
\* covered by a record in flight, whose ACK or loss will be processed, or is
\* at or above the send cursor, so that prepare_frame will cut it again.
NoByteForgotten ==
    \A b \in 0 .. (TotalDataEnd - 1) :
        \/ b < acked_offset
        \/ b \in acked_above
        \/ b >= unsent_offset
        \/ \E r \in app_frames_sent : b \in Covered(r)

\* RFC 9000 Section 4.5 as reset_final_size states it: once a RESET_STREAM is
\* due, its final size is below no byte ever framed, and it is the final size
\* of any FIN framed before, whatever losses rewound the send cursor.
FinalSizeAgrees ==
    send_state \in {"RESET_SENT", "RESET_RECVD"} =>
        /\ reset_stream_final_size = highest_sent_offset
        /\ fin_framed # None => reset_stream_final_size = fin_framed

\* Flow control binds on the highest offset sent: retransmissions are not
\* charged twice, and no frame passes the limit the peer has granted.
WithinCredit ==
    /\ fc_received = highest_sent_offset
    /\ highest_sent_offset <= fc_limit

\* Once the send side has been reset or is fully acknowledged no STREAM frame
\* is ever framed again, although a later loss can re-queue the stream.
SilentAfterEnd ==
    [][(send_state \in {"RESET_SENT", "RESET_RECVD", "DATA_RECVD"})
           => (app_frames_sent' \subseteq app_frames_sent)]_vars

\* What makes the invariants above inductive: records and parked bytes lie
\* below the highest offset sent, and once a FIN has been framed its offset
\* is the end of all data, which send_stream_data can no longer move.
FramedBelowHighest ==
    /\ \A r \in app_frames_sent : r.off + r.len <= highest_sent_offset
    /\ \A b \in acked_above : b < highest_sent_offset

FinAtEnd ==
    /\ fin_offset # None => fin_framed = fin_offset
    /\ fin_framed # None => /\ fin
                            /\ fin_framed = TotalDataEnd
                            /\ fin_framed = highest_sent_offset

\* The inductive invariant: an ACK, loss, write, frame or reset in any order
\* preserves all of it.
SendInv ==
    /\ TypeOK
    /\ CursorInsideBuffer
    /\ AckedExactly
    /\ NoByteForgotten
    /\ FinalSizeAgrees
    /\ WithinCredit
    /\ FramedBelowHighest
    /\ FinAtEnd

\* is_fully_acked, "True when all data and FIN have been acknowledged": a
\* stream whose send side is DATA_RECVD has had a FIN frame acknowledged.
FullyAckedIsAcked ==
    send_state = "DATA_RECVD" => fin_frame_acked

\* on_loss, "If the lost range covers the FIN, clears fin_offset so make_frame
\* will re-include the FIN flag": while a FIN is owed it is in flight, still
\* to be framed, or acknowledged.
FinNotForgotten ==
    send_state = "DATA_SENT" =>
        \/ fin_offset = None
        \/ fin_frame_acked
        \/ \E r \in app_frames_sent : r.fin

\* "Queue data for sending on a stream" (send_stream_data): a stream that may
\* send, has something pending and has credit for it is in the set that
\* emit_stream_frames serves.
PendingIsSendable ==
    MaySend /\ HasPending /\ StreamAvail > 0 => sendable
=============================================================================
