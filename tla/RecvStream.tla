----------------------------- MODULE RecvStream -----------------------------
(***************************************************************************)
(* The receiving side of one QUIC stream: the RecvBuf of quic/stream.mojo, *)
(* the receive state machine driven by STREAM and RESET_STREAM frames, by  *)
(* the application (recv_stream_data, stop_sending, poll), and the stream  *)
(* and connection flow control that return credit to the peer, with the    *)
(* MAX_STREAM_DATA, MAX_DATA and STOP_SENDING frames that may be lost.     *)
(*                                                                         *)
(* Bytes are identified by their stream offset.  The segment list of       *)
(* RecvBuf is the set `have` of the offsets it stores; RecvSegments checks *)
(* the list code against this set.                                         *)
(***************************************************************************)
EXTENDS FlowControl, FiniteSets

CONSTANTS MaxOffset,          \* bound: largest offset a frame may end at
          StreamWindow, StreamMaxWindow,  \* stream fc_recv
          ConnWindow, ConnMaxWindow,      \* connection fc_recv
          MaxGaps,            \* RecvBuf.max_gaps
          MaxResets,          \* bound: STREAM_RESET events raised
          DrainsBeforeStop    \* the application reads what is readable
                              \* before it calls stop_sending, as HTTP/3 does

ASSUME RecvStreamAssumption ==
    /\ MaxOffset \in Nat
    /\ StreamWindow \in Nat \ {0}
    /\ StreamMaxWindow \in Nat
    /\ StreamWindow <= StreamMaxWindow
    /\ ConnWindow \in Nat \ {0}
    /\ ConnMaxWindow \in Nat
    /\ ConnWindow <= ConnMaxWindow
    /\ MaxGaps \in Nat
    /\ MaxResets \in Nat
    /\ DrainsBeforeStop \in BOOLEAN

VARIABLES
    recv_state,             \* Stream.recv_state
    have, read_offset, total_received,      \* RecvBuf
    fin_offset, recv_highest_offset,
    fc_recv, conn_fc_recv,
    needs_max_stream_data, needs_max_data, needs_stop_sending,
    send_done,              \* no send side, or one in a terminal state
    freed,                  \* removed from StreamMap.streams
    readable,               \* a STREAM_READABLE event: none, queued, told
    resets_queued,          \* STREAM_RESET events queued
    closed                  \* the error the connection was closed with

\* Credit and STOP_SENDING frames in flight, and the limits the peer knows.
VARIABLES max_stream_data_sent, max_data_sent, stop_sending_sent,
          peer_stream_limit, peer_conn_limit

\* History: stop_sending was called; STREAM_RESET events ever raised.
VARIABLES stopped, resets_raised

bufVars  == <<have, read_offset, total_received>>
sizeVars == <<fin_offset, recv_highest_offset>>
fcVars   == <<fc_recv, conn_fc_recv>>
needVars == <<needs_max_stream_data, needs_max_data, needs_stop_sending>>
evVars   == <<readable, resets_queued, resets_raised>>
netVars  == <<max_stream_data_sent, max_data_sent, stop_sending_sent,
              peer_stream_limit, peer_conn_limit>>
lifeVars == <<send_done, freed, closed, stopped>>
vars == <<recv_state, bufVars, sizeVars, fcVars, needVars, evVars, netVars,
          lifeVars>>

None == -1
Offsets == 0 .. MaxOffset

RecvStates == {"RECV", "SIZE_KNOWN", "DATA_RECVD", "DATA_READ",
               "STOP_SENDING_SENT", "RESET_RECVD", "RESET_READ"}

Terminal(rs) == rs \in {"DATA_READ", "RESET_READ"}

Errors == {"none", "FINAL_SIZE_ERROR", "FLOW_CONTROL_ERROR",
           "PROTOCOL_VIOLATION"}

\* Frames reach the stream while the connection is open and the stream is
\* in the map.
Live == closed = "none" /\ ~freed

-----------------------------------------------------------------------------
(* RecvBuf: pure parts *)

\* Mutant: bytes already read count as new.
NewBytesUnclamped(off, end) == (off .. (end - 1)) \ have

\* Bytes of [off, end) the buffer has not seen; those below read_offset are
\* already consumed.
NewBytes(off, end) == {b \in off .. (end - 1) : b >= read_offset} \ have

\* [off, end) touches neither the bytes read so far nor a stored run.
WouldCreateGap(off, end) ==
    off > read_offset /\ ((off - 1) .. end) \cap have = {}

NumGaps == Cardinality({b \in have : b > read_offset /\ (b - 1) \notin have})

GapsExceeded(off, end) ==
    off < end /\ WouldCreateGap(off, end) /\ NumGaps + 1 > MaxGaps

\* Where the contiguous run at read_offset ends.
ReadableEnd ==
    CHOOSE m \in read_offset .. (MaxOffset + 1) :
        m \notin have /\ read_offset .. (m - 1) \subseteq have

HasReadable == read_offset \in have

FinAfter(end, fin) == IF fin THEN end ELSE fin_offset

IsComplete(total, fin_off) == fin_off # None /\ total >= fin_off

-----------------------------------------------------------------------------
(* Closing the connection, and freeing the stream *)

CloseWith(err) ==
    /\ closed' = err
    /\ UNCHANGED <<recv_state, fcVars, needVars, evVars, netVars, send_done,
                   freed, stopped>>

\* StreamMap.maybe_cleanup: the stream goes once both sides are terminal.
MaybeCleanup(rs, sd) == freed' = (Terminal(rs) /\ sd)

-----------------------------------------------------------------------------
(* Incoming STREAM frames *)

\* Mutant: a second FIN may name a smaller final size.
FinalSizeUnchecked(end, fin) ==
    IF fin_offset # None THEN end > fin_offset
                         ELSE fin /\ end < recv_highest_offset

\* A known final size never changes and no data lies beyond it; a new one
\* covers the data received.
FinalSizeViolated(end, fin) ==
    IF fin_offset # None THEN end > fin_offset \/ (fin /\ end # fin_offset)
                         ELSE fin /\ end < recv_highest_offset

Receiving == recv_state \in {"RECV", "SIZE_KNOWN", "STOP_SENDING_SENT"}

FrameContradicts(off, n, fin) ==
    /\ FinalSizeViolated(off + n, fin)
    /\ CloseWith("FINAL_SIZE_ERROR")
    /\ UNCHANGED <<bufVars, sizeVars>>

FrameTooLate(off, n, fin) ==
    /\ ~FinalSizeViolated(off + n, fin)
    /\ ~Receiving
    /\ UNCHANGED vars

FrameOverStreamLimit(off, n, fin) ==
    /\ ~FinalSizeViolated(off + n, fin)
    /\ Receiving
    /\ off + n > fc_recv.limit
    /\ CloseWith("FLOW_CONTROL_ERROR")
    /\ UNCHANGED <<bufVars, sizeVars>>

\* The frame passes the checks made before the state is looked at again.
Admissible(off, n, fin) ==
    /\ ~FinalSizeViolated(off + n, fin)
    /\ off + n <= fc_recv.limit

\* _discard_recv: payload up to `end` is dropped, yet counted as received
\* and read.  The connection's share is what the stream has not consumed.
DiscardOverLimit(end) ==
    LET grow == IF end > recv_highest_offset
                THEN end - recv_highest_offset ELSE 0
    IN  /\ ~CheckLimit(conn_fc_recv, grow)
        /\ CloseWith("FLOW_CONTROL_ERROR")
        /\ UNCHANGED <<bufVars, sizeVars>>

DiscardRecv(end, fin) ==
    LET grow == IF end > recv_highest_offset
                THEN end - recv_highest_offset ELSE 0
        unread == fc_recv.received + grow - fc_recv.consumed
        conn == AddConsumed(AddReceived(conn_fc_recv, grow), unread)
        rs == IF fin THEN "DATA_READ" ELSE "STOP_SENDING_SENT"
    IN  /\ CheckLimit(conn_fc_recv, grow)
        /\ recv_highest_offset' = recv_highest_offset + grow
        /\ fc_recv' = AddConsumed(AddReceived(fc_recv, grow), unread)
        /\ conn_fc_recv' = conn
        /\ needs_max_data' = (needs_max_data \/ ShouldUpdate(conn))
        /\ fin_offset' = FinAfter(end, fin)
        /\ recv_state' = rs
        /\ IF fin THEN MaybeCleanup(rs, send_done) ELSE UNCHANGED freed
        /\ UNCHANGED <<bufVars, needs_max_stream_data, evVars, netVars,
                       send_done, closed>>

FrameDiscarded(off, n, fin) ==
    /\ Admissible(off, n, fin)
    /\ recv_state = "STOP_SENDING_SENT"
    /\ \/ DiscardOverLimit(off + n)
       \/ DiscardRecv(off + n, fin) /\ UNCHANGED <<needs_stop_sending, stopped>>

\* RecvBuf.write records the final size before it refuses another gap.
FrameTooManyGaps(off, n, fin) ==
    /\ Admissible(off, n, fin)
    /\ recv_state \in {"RECV", "SIZE_KNOWN"}
    /\ GapsExceeded(off, off + n)
    /\ fin_offset' = FinAfter(off + n, fin)
    /\ CloseWith("PROTOCOL_VIOLATION")
    /\ UNCHANGED <<bufVars, recv_highest_offset>>

\* RecvBuf.write: store the new bytes and raise the highest offset.
WriteBytes(off, n, fin) ==
    LET new == NewBytes(off, off + n)
    IN  /\ ~GapsExceeded(off, off + n)
        /\ have' = have \cup new
        /\ total_received' = total_received + Cardinality(new)
        /\ fin_offset' = FinAfter(off + n, fin)
        /\ recv_highest_offset' = IF off + n > recv_highest_offset
                                  THEN off + n ELSE recv_highest_offset
        /\ UNCHANGED read_offset

\* The connection limit is checked after the bytes are stored.
FrameOverConnLimit(off, n, fin) ==
    /\ Admissible(off, n, fin)
    /\ recv_state \in {"RECV", "SIZE_KNOWN"}
    /\ WriteBytes(off, n, fin)
    /\ ~CheckLimit(conn_fc_recv, Cardinality(NewBytes(off, off + n)))
    /\ CloseWith("FLOW_CONTROL_ERROR")

\* Only a frame that carries FIN moves the state, and only then is the
\* stream's completeness looked at.
StateAfterFrame(total, fin, fin_off) ==
    IF ~fin THEN recv_state
    ELSE IF IsComplete(total, fin_off) THEN "DATA_RECVD" ELSE "SIZE_KNOWN"

\* Mutant: a bare FIN that completes the stream raises no event.
ReadableAfterData(stored, rs) ==
    IF read_offset \in stored THEN "queued" ELSE readable

\* The stream's end is news even when it brings no new bytes.
ReadableAfter(stored, rs) ==
    IF read_offset \in stored \/ rs = "DATA_RECVD" THEN "queued" ELSE readable

FrameAccepted(off, n, fin) ==
    LET new == Cardinality(NewBytes(off, off + n))
        rs == StateAfterFrame(total_received + new, fin,
                              FinAfter(off + n, fin))
    IN  /\ Admissible(off, n, fin)
        /\ recv_state \in {"RECV", "SIZE_KNOWN"}
        /\ CheckLimit(conn_fc_recv, new)
        /\ WriteBytes(off, n, fin)
        /\ fc_recv' = AddReceived(fc_recv, new)
        /\ conn_fc_recv' = AddReceived(conn_fc_recv, new)
        /\ recv_state' = rs
        /\ readable' = ReadableAfter(have \cup NewBytes(off, off + n), rs)
        /\ UNCHANGED <<needVars, resets_queued, resets_raised, netVars,
                       lifeVars>>

StreamFrame(off, n, fin) ==
    /\ Live
    /\ \/ FrameContradicts(off, n, fin)
       \/ FrameTooLate(off, n, fin)
       \/ FrameOverStreamLimit(off, n, fin)
       \/ FrameDiscarded(off, n, fin)
       \/ FrameTooManyGaps(off, n, fin)
       \/ FrameOverConnLimit(off, n, fin)
       \/ FrameAccepted(off, n, fin)

-----------------------------------------------------------------------------
(* Incoming RESET_STREAM frames *)

ResetSizeViolated(final) ==
    \/ final < recv_highest_offset
    \/ fin_offset # None /\ final # fin_offset

ResetContradicts(final) ==
    /\ ResetSizeViolated(final)
    /\ CloseWith("FINAL_SIZE_ERROR")
    /\ UNCHANGED <<bufVars, sizeVars>>

ResetOverStreamLimit(final) ==
    /\ ~ResetSizeViolated(final)
    /\ final > fc_recv.limit
    /\ CloseWith("FLOW_CONTROL_ERROR")
    /\ UNCHANGED <<bufVars, sizeVars>>

\* A repeat for a stream already reset changes nothing.
ResetRepeated(final) ==
    /\ ~ResetSizeViolated(final)
    /\ final <= fc_recv.limit
    /\ recv_state \in {"RESET_RECVD", "RESET_READ"}
    /\ UNCHANGED vars

ResetOverConnLimit(final) ==
    /\ ~ResetSizeViolated(final)
    /\ final <= fc_recv.limit
    /\ recv_state \notin {"RESET_RECVD", "RESET_READ"}
    /\ ~CheckLimit(conn_fc_recv, final - recv_highest_offset)
    /\ CloseWith("FLOW_CONTROL_ERROR")
    /\ UNCHANGED <<bufVars, sizeVars>>

\* Mutant: everything not yet consumed is returned, gaps included.
PhantomReturnsAll(final) ==
    AddConsumed(AddReceived(conn_fc_recv, final - recv_highest_offset),
                final - fc_recv.consumed)

\* The connection is charged for the bytes the final size implies, and the
\* same number is returned at once.
PhantomAccounted(final) ==
    LET phantom == final - recv_highest_offset
    IN  AddConsumed(AddReceived(conn_fc_recv, phantom), phantom)

\* A stream whose data is complete stays so; any other becomes RESET_RECVD.
ResetAccepted(final) ==
    LET rs == IF recv_state \in {"DATA_RECVD", "DATA_READ"}
              THEN recv_state ELSE "RESET_RECVD"
    IN  /\ ~ResetSizeViolated(final)
        /\ final <= fc_recv.limit
        /\ recv_state \notin {"RESET_RECVD", "RESET_READ"}
        /\ CheckLimit(conn_fc_recv, final - recv_highest_offset)
        /\ resets_raised < MaxResets
        /\ conn_fc_recv' = PhantomAccounted(final)
        /\ recv_highest_offset' = final
        /\ fin_offset' = final
        /\ recv_state' = rs
        /\ resets_queued' = resets_queued + 1
        /\ resets_raised' = resets_raised + 1
        /\ MaybeCleanup(rs, send_done)
        /\ UNCHANGED <<bufVars, fc_recv, needVars, readable, netVars,
                       send_done, closed, stopped>>

ResetStreamFrame(final) ==
    /\ Live
    /\ \/ ResetContradicts(final)
       \/ ResetOverStreamLimit(final)
       \/ ResetRepeated(final)
       \/ ResetOverConnLimit(final)
       \/ ResetAccepted(final)

\* Frames for a stream that was freed, and every frame once the connection
\* is closing, are dropped.
LateFrame == ~Live /\ UNCHANGED vars

-----------------------------------------------------------------------------
(* The application *)

\* Handing out STREAM_READABLE.
PollReadable ==
    /\ closed = "none"
    /\ readable = "queued"
    /\ readable' = "told"
    /\ UNCHANGED <<recv_state, bufVars, sizeVars, fcVars, needVars,
                   resets_queued, resets_raised, netVars, lifeVars>>

\* Handing out STREAM_RESET is what informs the application of the reset.
PollReset ==
    LET rs == IF recv_state = "RESET_RECVD" THEN "RESET_READ" ELSE recv_state
    IN  /\ closed = "none"
        /\ resets_queued > 0
        /\ resets_queued' = resets_queued - 1
        /\ recv_state' = rs
        /\ IF ~freed /\ recv_state = "RESET_RECVD"
           THEN MaybeCleanup(rs, send_done) ELSE UNCHANGED freed
        /\ UNCHANGED <<bufVars, sizeVars, fcVars, needVars, readable,
                       resets_raised, netVars, send_done, closed, stopped>>

ConnAfterRead(n) == AddConsumed(conn_fc_recv, n)

\* recv_stream_data drains the run at read_offset.
RecvStreamData ==
    LET m == ReadableEnd
        fc == AddConsumed(fc_recv, m - read_offset)
        conn == ConnAfterRead(m - read_offset)
        rs == IF recv_state = "DATA_RECVD" /\ m >= fin_offset
              THEN "DATA_READ" ELSE recv_state
    IN  /\ Live
        /\ read_offset' = m
        /\ have' = {b \in have : b >= m}
        /\ fc_recv' = fc
        /\ conn_fc_recv' = conn
        /\ needs_max_stream_data' = (needs_max_stream_data \/ ShouldUpdate(fc))
        /\ needs_max_data' = (needs_max_data \/ ShouldUpdate(conn))
        /\ recv_state' = rs
        /\ readable' = IF readable = "told" THEN "none" ELSE readable
        /\ MaybeCleanup(rs, send_done)
        /\ UNCHANGED <<total_received, sizeVars, needs_stop_sending,
                       resets_queued, resets_raised, netVars, send_done,
                       closed, stopped>>

\* stop_sending: with the final size known there is nothing to stop.
StopSending ==
    /\ Live
    /\ recv_state \notin {"DATA_READ", "RESET_READ", "RESET_RECVD"}
    /\ DrainsBeforeStop => ~HasReadable
    /\ stopped' = TRUE
    /\ \/ /\ fin_offset # None
          /\ DiscardRecv(fin_offset, TRUE)
          /\ UNCHANGED needs_stop_sending
       \/ /\ fin_offset = None
          /\ recv_state' = "STOP_SENDING_SENT"
          /\ needs_stop_sending' = TRUE
          /\ UNCHANGED <<bufVars, sizeVars, fcVars, needs_max_stream_data,
                         needs_max_data, evVars, netVars, send_done, freed,
                         closed>>

\* The sending side reaches a terminal state (SendStream).
SendSideEnds ==
    /\ Live
    /\ ~send_done
    /\ send_done' = TRUE
    /\ MaybeCleanup(recv_state, TRUE)
    /\ UNCHANGED <<recv_state, bufVars, sizeVars, fcVars, needVars, evVars,
                   netVars, closed, stopped>>

-----------------------------------------------------------------------------
(* Credit and STOP_SENDING frames: sent, delivered, acknowledged, lost *)

EmitMaxStreamData ==
    LET fc == UpdateLimit(fc_recv, StreamMaxWindow)
    IN  /\ Live
        /\ needs_max_stream_data
        /\ fc_recv' = fc
        /\ needs_max_stream_data' = FALSE
        /\ max_stream_data_sent' = max_stream_data_sent \cup {fc.limit}
        /\ UNCHANGED <<recv_state, bufVars, sizeVars, conn_fc_recv,
                       needs_max_data, needs_stop_sending, evVars,
                       max_data_sent, stop_sending_sent, peer_stream_limit,
                       peer_conn_limit, lifeVars>>

EmitMaxData ==
    LET fc == UpdateLimit(conn_fc_recv, ConnMaxWindow)
    IN  /\ closed = "none"
        /\ ShouldUpdate(conn_fc_recv) \/ needs_max_data
        /\ conn_fc_recv' = fc
        /\ needs_max_data' = FALSE
        /\ max_data_sent' = max_data_sent \cup {fc.limit}
        /\ UNCHANGED <<recv_state, bufVars, sizeVars, fc_recv,
                       needs_max_stream_data, needs_stop_sending, evVars,
                       max_stream_data_sent, stop_sending_sent,
                       peer_stream_limit, peer_conn_limit, lifeVars>>

EmitStopSending ==
    /\ Live
    /\ needs_stop_sending
    /\ needs_stop_sending' = FALSE
    /\ stop_sending_sent' = TRUE
    /\ UNCHANGED <<recv_state, bufVars, sizeVars, fcVars,
                   needs_max_stream_data, needs_max_data, evVars,
                   max_stream_data_sent, max_data_sent, peer_stream_limit,
                   peer_conn_limit, lifeVars>>

\* A frame in flight reaches the peer, which keeps the largest limit.
PeerGetsMaxStreamData(l) ==
    /\ l \in max_stream_data_sent
    /\ peer_stream_limit' = IF l > peer_stream_limit
                            THEN l ELSE peer_stream_limit
    /\ UNCHANGED <<recv_state, bufVars, sizeVars, fcVars, needVars, evVars,
                   max_stream_data_sent, max_data_sent, stop_sending_sent,
                   peer_conn_limit, lifeVars>>

PeerGetsMaxData(l) ==
    /\ l \in max_data_sent
    /\ peer_conn_limit' = IF l > peer_conn_limit THEN l ELSE peer_conn_limit
    /\ UNCHANGED <<recv_state, bufVars, sizeVars, fcVars, needVars, evVars,
                   max_stream_data_sent, max_data_sent, stop_sending_sent,
                   peer_stream_limit, lifeVars>>

\* The packet's records are dropped: acknowledged (so delivered) ...
MaxStreamDataAcked(l) ==
    /\ l \in max_stream_data_sent
    /\ l <= peer_stream_limit
    /\ max_stream_data_sent' = max_stream_data_sent \ {l}
    /\ UNCHANGED <<recv_state, bufVars, sizeVars, fcVars, needVars, evVars,
                   max_data_sent, stop_sending_sent, peer_stream_limit,
                   peer_conn_limit, lifeVars>>

MaxDataAcked(l) ==
    /\ l \in max_data_sent
    /\ l <= peer_conn_limit
    /\ max_data_sent' = max_data_sent \ {l}
    /\ UNCHANGED <<recv_state, bufVars, sizeVars, fcVars, needVars, evVars,
                   max_stream_data_sent, stop_sending_sent,
                   peer_stream_limit, peer_conn_limit, lifeVars>>

\* Mutants: a lost MAX_STREAM_DATA or MAX_DATA is not sent again.
RearmedDropped == needs_max_stream_data
ConnRearmedDropped == needs_max_data

\* ... or lost, in which case the flag is raised again.  A stream freed in
\* the meantime is left alone.
Rearmed == IF freed THEN needs_max_stream_data ELSE TRUE
ConnRearmed == TRUE

MaxStreamDataLost(l) ==
    /\ closed = "none"
    /\ l \in max_stream_data_sent
    /\ max_stream_data_sent' = max_stream_data_sent \ {l}
    /\ needs_max_stream_data' = Rearmed
    /\ UNCHANGED <<recv_state, bufVars, sizeVars, fcVars, needs_max_data,
                   needs_stop_sending, evVars, max_data_sent,
                   stop_sending_sent, peer_stream_limit, peer_conn_limit,
                   lifeVars>>

MaxDataLost(l) ==
    /\ closed = "none"
    /\ l \in max_data_sent
    /\ max_data_sent' = max_data_sent \ {l}
    /\ needs_max_data' = ConnRearmed
    /\ UNCHANGED <<recv_state, bufVars, sizeVars, fcVars,
                   needs_max_stream_data, needs_stop_sending, evVars,
                   max_stream_data_sent, stop_sending_sent,
                   peer_stream_limit, peer_conn_limit, lifeVars>>

StopSendingLost ==
    /\ Live
    /\ stop_sending_sent
    /\ stop_sending_sent' = FALSE
    /\ needs_stop_sending' = TRUE
    /\ UNCHANGED <<recv_state, bufVars, sizeVars, fcVars,
                   needs_max_stream_data, needs_max_data, evVars,
                   max_stream_data_sent, max_data_sent, peer_stream_limit,
                   peer_conn_limit, lifeVars>>

-----------------------------------------------------------------------------
Init ==
    /\ recv_state = "RECV"
    /\ have = {} /\ read_offset = 0 /\ total_received = 0
    /\ fin_offset = None /\ recv_highest_offset = 0
    /\ fc_recv = NewFlowControl(StreamWindow, StreamWindow)
    /\ conn_fc_recv = NewFlowControl(ConnWindow, ConnWindow)
    /\ needs_max_stream_data = FALSE
    /\ needs_max_data = FALSE
    /\ needs_stop_sending = FALSE
    /\ send_done \in BOOLEAN          \* unidirectional or bidirectional
    /\ freed = FALSE
    /\ readable = "none"
    /\ resets_queued = 0 /\ resets_raised = 0
    /\ closed = "none"
    /\ max_stream_data_sent = {} /\ max_data_sent = {}
    /\ stop_sending_sent = FALSE
    /\ peer_stream_limit = StreamWindow
    /\ peer_conn_limit = ConnWindow
    /\ stopped = FALSE

CreditFrames ==
    \/ EmitMaxStreamData
    \/ EmitMaxData
    \/ EmitStopSending
    \/ \E l \in max_stream_data_sent :
          PeerGetsMaxStreamData(l) \/ MaxStreamDataAcked(l) \/ MaxStreamDataLost(l)
    \/ \E l \in max_data_sent :
          PeerGetsMaxData(l) \/ MaxDataAcked(l) \/ MaxDataLost(l)
    \/ StopSendingLost

Next ==
    \/ \E off \in Offsets, n \in Offsets, fin \in BOOLEAN :
          off + n <= MaxOffset /\ StreamFrame(off, n, fin)
    \/ \E final \in Offsets : ResetStreamFrame(final)
    \/ LateFrame
    \/ PollReadable
    \/ PollReset
    \/ RecvStreamData
    \/ StopSending
    \/ SendSideEnds
    \/ CreditFrames

Spec == Init /\ [][Next]_vars

-----------------------------------------------------------------------------
(* Properties *)

\* Type invariant.
TypeOK ==
    /\ recv_state \in RecvStates
    /\ have \subseteq Offsets
    /\ read_offset \in Offsets
    /\ total_received \in Nat
    /\ fin_offset \in Offsets \cup {None}
    /\ recv_highest_offset \in Offsets
    /\ fc_recv \in FlowControl
    /\ conn_fc_recv \in FlowControl
    /\ needs_max_stream_data \in BOOLEAN
    /\ needs_max_data \in BOOLEAN
    /\ needs_stop_sending \in BOOLEAN
    /\ send_done \in BOOLEAN
    /\ freed \in BOOLEAN
    /\ readable \in {"none", "queued", "told"}
    /\ resets_queued \in Nat
    /\ resets_raised \in Nat
    /\ closed \in Errors
    /\ max_stream_data_sent \subseteq Nat
    /\ max_data_sent \subseteq Nat
    /\ stop_sending_sent \in BOOLEAN
    /\ peer_stream_limit \in Nat
    /\ peer_conn_limit \in Nat
    /\ stopped \in BOOLEAN

\* Overlapping, duplicated and reordered frames are counted once: the total
\* is_complete relies on is exactly the bytes read plus the bytes stored,
\* all of them below the highest offset seen and below the final size.
ReassemblyExact ==
    /\ total_received = read_offset + Cardinality(have)
    /\ have \subseteq read_offset .. (recv_highest_offset - 1)
    /\ read_offset <= recv_highest_offset
    /\ fin_offset # None => recv_highest_offset <= fin_offset

\* What the peer sends never outruns the limit granted to it, and the limit
\* never runs more than the largest window ahead of what was consumed.
WithinGrantedLimit ==
    (DrainsBeforeStop \/ ~stopped) =>
        /\ recv_highest_offset <= fc_recv.limit
        /\ fc_recv.limit <= fc_recv.consumed + StreamMaxWindow

\* Out-of-order data held for the application never exceeds the largest
\* stream window, whatever the peer sends.
BufferBounded == Cardinality(have) <= StreamMaxWindow

\* Credit is returned at most once per byte: neither the stream nor the
\* connection ever counts more consumed than received.  An application that
\* stops a stream without draining it first is excluded.
CreditReturnedOnce ==
    DrainsBeforeStop =>
        /\ fc_recv.consumed <= fc_recv.received
        /\ conn_fc_recv.consumed <= conn_fc_recv.received

\* The application is told whenever there is something to read, and when
\* the data is complete.
NoLostWakeup ==
    (Live /\ recv_state \in {"RECV", "SIZE_KNOWN", "DATA_RECVD"}
          /\ (HasReadable \/ recv_state = "DATA_RECVD")) => readable # "none"

\* A peer that has used all the stream credit it knows of, all of it read by
\* the application, is not left waiting: a larger limit is about to be sent
\* or on its way, also after losses.
StreamPeerNotStarved ==
    (Live /\ ~stopped /\ fc_recv.consumed >= peer_stream_limit) =>
        \/ needs_max_stream_data
        \/ \E l \in max_stream_data_sent : l > peer_stream_limit

\* The same for the connection's credit.
ConnPeerNotStarved ==
    (closed = "none" /\ conn_fc_recv.consumed >= peer_conn_limit) =>
        \/ needs_max_data
        \/ ShouldUpdate(conn_fc_recv)
        \/ \E l \in max_data_sent : l > peer_conn_limit

\* The parts of the inductive invariant that are not properties in their
\* own right.
SizeIsHighest ==
    (closed = "none" /\ fin_offset # None) => recv_highest_offset = fin_offset

StateFits ==
    /\ recv_state = "STOP_SENDING_SENT" => stopped
    /\ recv_state \in {"RECV", "SIZE_KNOWN", "DATA_RECVD"} => ~stopped
    /\ recv_state \notin {"RECV", "STOP_SENDING_SENT"} => fin_offset # None
    /\ recv_state = "DATA_RECVD" => total_received = fin_offset

StreamCredit ==
    ~stopped => /\ fc_recv.consumed = read_offset
                /\ closed = "none" => fc_recv.received = total_received

WindowsFit ==
    /\ fc_recv.window \in 1 .. StreamMaxWindow
    /\ conn_fc_recv.window \in 1 .. ConnMaxWindow
    /\ (DrainsBeforeStop \/ ~stopped) =>
          /\ fc_recv.limit <= fc_recv.consumed + fc_recv.window
          /\ conn_fc_recv.limit <= conn_fc_recv.consumed + conn_fc_recv.window

\* What the stream has not consumed is what the connection has not.
SameUnread ==
    conn_fc_recv.received - conn_fc_recv.consumed =
        fc_recv.received - fc_recv.consumed

ConnConsumedRead ==
    (~stopped /\ recv_state \notin {"RESET_RECVD", "RESET_READ"}) =>
        conn_fc_recv.consumed = read_offset

StoppedIsDrained ==
    DrainsBeforeStop => /\ stopped => ~HasReadable
                        /\ fc_recv.consumed <= fc_recv.received

\* The limit in force is known to the peer, on its way, or due to be sent.
LimitOnItsWay ==
    ~stopped =>
        /\ peer_stream_limit <= fc_recv.limit
        /\ \A l \in max_stream_data_sent : l <= fc_recv.limit
        /\ Live => \/ needs_max_stream_data
                   \/ peer_stream_limit = fc_recv.limit
                   \/ fc_recv.limit \in max_stream_data_sent
        /\ (Live /\ fc_recv.consumed >= fc_recv.limit) => needs_max_stream_data

\* The inductive invariant.
RecvInv ==
    /\ TypeOK
    /\ ReassemblyExact
    /\ SizeIsHighest
    /\ StateFits
    /\ StreamCredit
    /\ WindowsFit
    /\ SameUnread
    /\ ConnConsumedRead
    /\ StoppedIsDrained
    /\ WithinGrantedLimit
    /\ BufferBounded
    /\ LimitOnItsWay

\* A final size, once known, never changes.
FinalSizeStable ==
    [][fin_offset # None => fin_offset' = fin_offset]_vars

\* What was promised is not taken back: the limits advertised to the peer
\* never go down, a receive side that is over stays over, and a stream is
\* freed only when both of its sides are over.
NeverTakenBack ==
    [][/\ DrainsBeforeStop => /\ fc_recv'.limit >= fc_recv.limit
                              /\ conn_fc_recv'.limit >= conn_fc_recv.limit
       /\ Terminal(recv_state) => recv_state' = recv_state
       /\ freed' => Terminal(recv_state') /\ send_done']_vars

-----------------------------------------------------------------------------
(* What comments and docstrings claim, and the code does not do *)

\* Data Recvd is entered once every byte up to the final size is there.
CompleteIsRecvd ==
    (recv_state = "SIZE_KNOWN" /\ closed = "none") =>
        total_received < fin_offset

\* A reset stream's credit is accounted: when the reset has been delivered
\* the connection has consumed everything up to the final size.
ResetCreditReturned ==
    (recv_state = "RESET_READ" /\ ~stopped) =>
        conn_fc_recv.consumed = fin_offset

\* After stop_sending, bytes up to the final size count as received and
\* read.
DiscardCreditReturned ==
    (recv_state = "DATA_READ" /\ stopped) =>
        conn_fc_recv.consumed >= fin_offset

\* A repeated RESET_STREAM is not reported again.
ResetReportedOnce == resets_raised <= 1

\* The stream consumes no byte twice.
ConsumedOnce == fc_recv.consumed <= fc_recv.received

==============================================================================
