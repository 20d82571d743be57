------------------------- MODULE RecvStream_proofs -------------------------
(* The inductive invariant of the receiving side of a stream, and what it   *)
(* implies, for every bound.                                                *)
EXTENDS RecvStream_lemmas

LEMMA FrameTooManyGapsInv ==
    ASSUME RecvInv, Live, NEW off \in Offsets, NEW n \in Offsets,
           NEW fin \in BOOLEAN, off + n <= MaxOffset,
           FrameTooManyGaps(off, n, fin)
    PROVE  RecvInv'
<1> USE DEF FrameTooManyGaps, CloseWith, bufVars, fcVars, needVars, evVars,
            netVars
<1>1. off + n \in Offsets
  BY RecvStreamAssumption DEF Offsets
<1>2. ~FinalSizeViolated(off + n, fin)
  BY SMTT(40) DEF Admissible
<1>3. /\ fin_offset' \in Offsets \cup {None}
      /\ fin_offset' # None => recv_highest_offset' <= fin_offset'
      /\ fin_offset # None => fin_offset' = fin_offset
  BY <1>1, <1>2, FinAfterFacts, SMTT(40)
<1>4. TypeOK'
  BY <1>3, SMTT(40) DEF RecvInv, TypeOK, Errors
<1>5. ReassemblyExact' /\ BufferBounded'
  BY <1>3, SMTT(40) DEF RecvInv, ReassemblyExact, BufferBounded
<1>6. SizeIsHighest' /\ StateFits' /\ StreamCredit' /\ WindowsFit' /\ SameUnread'
  BY <1>3, SMTT(40) DEF RecvInv, SizeIsHighest, StateFits, StreamCredit, WindowsFit,
              SameUnread
<1>7. ConnConsumedRead' /\ StoppedIsDrained' /\ WithinGrantedLimit'
  BY DEF RecvInv, ConnConsumedRead, StoppedIsDrained, WithinGrantedLimit,
         HasReadable
<1>8. LimitOnItsWay'
  BY DEF RecvInv, LimitOnItsWay, Live
<1> QED BY <1>4, <1>5, <1>6, <1>7, <1>8, SMTT(40) DEF RecvInv

LEMMA FrameOverConnLimitInv ==
    ASSUME RecvInv, Live, NEW off \in Offsets, NEW n \in Offsets,
           NEW fin \in BOOLEAN, off + n <= MaxOffset,
           FrameOverConnLimit(off, n, fin)
    PROVE  RecvInv'
<1> USE DEF CloseWith, fcVars, needVars, evVars, netVars
<1>1. /\ have' \subseteq Offsets /\ read_offset' = read_offset
      /\ total_received' \in Nat
      /\ fin_offset' \in Offsets \cup {None}
      /\ recv_highest_offset' \in Offsets
      /\ recv_highest_offset' <= fc_recv.limit
      /\ fin_offset' # None => recv_highest_offset' = fin_offset'
      /\ ReassemblyExact' /\ BufferBounded'
  BY WriteBytesInv, SMTT(40) DEF FrameOverConnLimit
<1>2. ~stopped /\ fin_offset' = FinAfter(off + n, fin)
  BY WriteBytesInv DEF FrameOverConnLimit, RecvInv, StateFits
<1>3. recv_state \in {"RECV", "SIZE_KNOWN"} /\ CloseWith("FLOW_CONTROL_ERROR")
  BY SMTT(40) DEF FrameOverConnLimit
<1>4. TypeOK'
  BY <1>1, <1>3, SMTT(40) DEF RecvInv, TypeOK, Errors
<1>5. StateFits'
  <2>1. fin_offset # None => fin_offset' # None
    <3>1. off + n \in Offsets
      BY RecvStreamAssumption, SMTT(40) DEF Offsets
    <3> QED BY <1>2, <3>1, FinAfterFacts DEF FrameOverConnLimit, Admissible
  <2> QED BY <1>2, <1>3, <2>1, SMTT(40) DEF RecvInv, StateFits
<1>6. SizeIsHighest' /\ StreamCredit' /\ WindowsFit' /\ SameUnread'
  BY <1>1, <1>3, SMTT(40) DEF RecvInv, SizeIsHighest, StreamCredit, WindowsFit, SameUnread
<1>7. ConnConsumedRead' /\ StoppedIsDrained' /\ WithinGrantedLimit'
  BY <1>1, <1>2, <1>3, SMTT(40)
     DEF RecvInv, ConnConsumedRead, StoppedIsDrained, WithinGrantedLimit
<1>8. LimitOnItsWay'
  BY <1>3, SMTT(40) DEF RecvInv, LimitOnItsWay, Live
<1> QED BY <1>1, <1>4, <1>5, <1>6, <1>7, <1>8, SMTT(40) DEF RecvInv

LEMMA FrameAcceptedInv ==
    ASSUME RecvInv, Live, NEW off \in Offsets, NEW n \in Offsets,
           NEW fin \in BOOLEAN, off + n <= MaxOffset,
           FrameAccepted(off, n, fin)
    PROVE  RecvInv'
<1> DEFINE new == Cardinality(NewBytes(off, off + n))
<1>1. /\ new \in Nat
      /\ have' \subseteq Offsets /\ read_offset' = read_offset
      /\ total_received' = total_received + new
      /\ total_received' \in Nat
      /\ fin_offset' = FinAfter(off + n, fin)
      /\ fin_offset' \in Offsets \cup {None}
      /\ recv_highest_offset' \in Offsets
      /\ recv_highest_offset' <= fc_recv.limit
      /\ fin_offset' # None => recv_highest_offset' = fin_offset'
      /\ total_received' <= recv_highest_offset'
      /\ ReassemblyExact' /\ BufferBounded'
  BY WriteBytesInv, SMTT(40) DEF FrameAccepted
<1>2. /\ fc_recv' = AddReceived(fc_recv, new)
      /\ conn_fc_recv' = AddReceived(conn_fc_recv, new)
      /\ recv_state' = StateAfterFrame(total_received + new, fin,
                                       FinAfter(off + n, fin))
      /\ recv_state \in {"RECV", "SIZE_KNOWN"}
      /\ UNCHANGED <<closed, stopped, freed, send_done>>
      /\ closed = "none"
  BY DEF FrameAccepted, lifeVars, Live
<1> HIDE DEF new
<1>3. fc_recv \in FlowControl /\ conn_fc_recv \in FlowControl
  BY SMTT(40) DEF RecvInv, TypeOK
<1>4. /\ fc_recv' \in FlowControl
      /\ fc_recv'.received = fc_recv.received + new
      /\ fc_recv'.consumed = fc_recv.consumed
      /\ fc_recv'.limit = fc_recv.limit /\ fc_recv'.window = fc_recv.window
  BY <1>1, <1>2, <1>3, AddReceivedFacts, Zenon
<1>5. /\ conn_fc_recv' \in FlowControl
      /\ conn_fc_recv'.received = conn_fc_recv.received + new
      /\ conn_fc_recv'.consumed = conn_fc_recv.consumed
      /\ conn_fc_recv'.limit = conn_fc_recv.limit
      /\ conn_fc_recv'.window = conn_fc_recv.window
  BY <1>1, <1>2, <1>3, AddReceivedFacts, ZenonT(60)
<1>6. /\ conn_fc_recv.received \in Nat /\ conn_fc_recv.consumed \in Nat
      /\ fc_recv.received \in Nat /\ fc_recv.consumed \in Nat
      /\ total_received \in Nat
  BY <1>3, FieldsAreNat DEF RecvInv, TypeOK
<1>7. /\ recv_state' \in {"RECV", "SIZE_KNOWN", "DATA_RECVD"}
      /\ ~fin => recv_state' = recv_state
      /\ fin => fin_offset' # None
      /\ recv_state' = "DATA_RECVD" => total_received' >= fin_offset'
  <2>1. CASE ~fin
    BY <1>1, <1>2, <2>1 DEF StateAfterFrame
  <2>2. CASE fin
    <3>1. fin_offset' = off + n /\ fin_offset' # None
      BY <1>1, <2>2, RecvStreamAssumption, SMTT(40) DEF FinAfter, Offsets, None
    <3>2. recv_state' = IF IsComplete(total_received', fin_offset')
                        THEN "DATA_RECVD" ELSE "SIZE_KNOWN"
      BY <1>1, <1>2, <2>2, SMTT(40) DEF StateAfterFrame
    <3> QED BY <2>2, <3>1, <3>2 DEF IsComplete
  <2> QED BY <2>1, <2>2
<1>8. TypeOK'
  <2>1. /\ needs_max_stream_data' \in BOOLEAN /\ needs_max_data' \in BOOLEAN
        /\ needs_stop_sending' \in BOOLEAN /\ send_done' \in BOOLEAN
        /\ stop_sending_sent' \in BOOLEAN /\ stopped' \in BOOLEAN
        /\ freed' \in BOOLEAN
    BY SMTT(40) DEF RecvInv, TypeOK, FrameAccepted, needVars, netVars, lifeVars
  <2>2. readable' \in {"none", "queued", "told"}
    BY SMTT(40) DEF RecvInv, TypeOK, FrameAccepted, ReadableAfter
  <2>3. /\ max_stream_data_sent' \subseteq Nat /\ max_data_sent' \subseteq Nat
        /\ peer_stream_limit' \in Nat /\ peer_conn_limit' \in Nat
        /\ resets_queued' \in Nat /\ resets_raised' \in Nat
    BY SMTT(40) DEF RecvInv, TypeOK, FrameAccepted, netVars
  <2>4. recv_state' \in RecvStates /\ closed' \in Errors /\ read_offset' \in Offsets
    BY <1>1, <1>2, <1>7, SMTT(40) DEF RecvInv, TypeOK, RecvStates
  <2> QED BY <1>1, <1>4, <1>5, <2>1, <2>2, <2>3, <2>4, SMTT(40) DEF TypeOK
<1>9. ~stopped
  BY <1>2, SMTT(40) DEF RecvInv, StateFits
<1>10. StateFits'
  <2>1. recv_state' # "RECV" => fin_offset' # None
    <3>1. ASSUME ~fin PROVE fin_offset' = fin_offset
      BY <1>1, <3>1, SMTT(40) DEF FinAfter
    <3> QED BY <1>2, <1>7, <3>1, SMTT(40) DEF RecvInv, StateFits
  <2>2. recv_state' = "DATA_RECVD" => total_received' = fin_offset'
    BY <1>1, <1>7, <2>1, RecvStreamAssumption, SMTT(40) DEF Offsets
  <2> QED BY <1>2, <1>7, <1>9, <2>1, <2>2, SMTT(40) DEF StateFits
<1>11. SizeIsHighest'
  BY <1>1, SMTT(40) DEF SizeIsHighest
<1>12. StreamCredit' /\ WindowsFit' /\ SameUnread'
  BY <1>1, <1>2, <1>4, <1>5, <1>6, SMTT(40)
     DEF RecvInv, StreamCredit, WindowsFit, SameUnread
<1>13. ConnConsumedRead' /\ StoppedIsDrained' /\ WithinGrantedLimit'
  <2>1. ConnConsumedRead'
    BY <1>1, <1>2, <1>5, <1>6, <1>9, ZenonT(60) DEF RecvInv, ConnConsumedRead
  <2>2. StoppedIsDrained'
    BY <1>1, <1>2, <1>4, <1>5, <1>6, <1>9, SMTT(40) DEF RecvInv, StoppedIsDrained
  <2>3. WithinGrantedLimit'
    BY <1>1, <1>2, <1>4, <1>5, <1>6, <1>9, ZenonT(60) DEF RecvInv, WithinGrantedLimit
  <2> QED BY <2>1, <2>2, <2>3, SMTT(40)
<1>14. LimitOnItsWay'
  BY <1>2, <1>4, ZenonT(60)
     DEF RecvInv, LimitOnItsWay, Live, FrameAccepted, needVars, netVars
<1> QED BY <1>1, <1>8, <1>10, <1>11, <1>12, <1>13, <1>14, SMTT(40) DEF RecvInv


-----------------------------------------------------------------------------
(* Discarding, reading and stopping *)

\* _discard_recv leaves nothing unconsumed, at the stream and, because the
\* two had the same bytes unconsumed, at the connection.
LEMMA DiscardInv ==
    ASSUME RecvInv, Live, NEW end \in Offsets, NEW fin \in BOOLEAN,
           ~FinalSizeViolated(end, fin), DiscardRecv(end, fin),
           stopped' = TRUE, DrainsBeforeStop => ~HasReadable,
           DrainsBeforeStop => end <= fc_recv.limit,
           needs_stop_sending' \in BOOLEAN
    PROVE  RecvInv'
<1> DEFINE grow == IF end > recv_highest_offset
                   THEN end - recv_highest_offset ELSE 0
           unread == fc_recv.received + grow - fc_recv.consumed
<1>1. /\ grow \in Nat
      /\ recv_highest_offset + grow \in Offsets
      /\ recv_highest_offset <= recv_highest_offset + grow
      /\ end <= recv_highest_offset + grow
      /\ DrainsBeforeStop /\ recv_highest_offset <= fc_recv.limit
            => recv_highest_offset + grow <= fc_recv.limit
  BY HaveFacts, RecvStreamAssumption, SMTT(40) DEF Offsets
<1>2. fc_recv \in FlowControl /\ conn_fc_recv \in FlowControl
  BY DEF RecvInv, TypeOK
<1>3. /\ conn_fc_recv.received \in Nat /\ conn_fc_recv.consumed \in Nat
      /\ fc_recv.received \in Nat /\ fc_recv.consumed \in Nat
      /\ fc_recv.limit \in Nat /\ conn_fc_recv.limit \in Nat
      /\ fc_recv.window \in Nat /\ conn_fc_recv.window \in Nat
  BY <1>2, FieldsAreNat, SMTT(40)
<1>4. /\ fc_recv' = AddConsumed(AddReceived(fc_recv, grow), unread)
      /\ conn_fc_recv' = AddConsumed(AddReceived(conn_fc_recv, grow), unread)
      /\ recv_highest_offset' = recv_highest_offset + grow
      /\ recv_state' = IF fin THEN "DATA_READ" ELSE "STOP_SENDING_SENT"
      /\ fin_offset' = FinAfter(end, fin)
      /\ UNCHANGED <<have, read_offset, total_received, closed>>
  BY SMTT(40) DEF DiscardRecv, bufVars
<1>5. unread \in Int /\ fc_recv.consumed + unread = fc_recv.received + grow
      /\ conn_fc_recv.consumed + unread = conn_fc_recv.received + grow
  BY <1>1, <1>3, SMTT(40) DEF RecvInv, SameUnread
<1> HIDE DEF grow, unread
<1>6. /\ fc_recv' \in FlowControl
      /\ fc_recv'.received = fc_recv.received + grow
      /\ fc_recv'.consumed = fc_recv.received + grow
      /\ fc_recv'.limit = fc_recv.limit /\ fc_recv'.window = fc_recv.window
  <2> DEFINE c == AddReceived(fc_recv, grow)
  <2>1. /\ c \in FlowControl
        /\ c.received = fc_recv.received + grow
        /\ c.consumed = fc_recv.consumed
        /\ c.limit = fc_recv.limit /\ c.window = fc_recv.window
    BY <1>1, <1>2, AddReceivedFacts
  <2>2. fc_recv' = AddConsumed(c, unread)
    BY <1>4, SMTT(40)
  <2> HIDE DEF c
  <2>3. c.consumed + unread \in Nat
    BY <1>1, <1>3, <1>5, <2>1, SMTT(40)
  <2> QED BY <1>5, <2>1, <2>2, <2>3, AddConsumedFacts, ZenonT(60)
<1>7. /\ conn_fc_recv' \in FlowControl
      /\ conn_fc_recv'.received = conn_fc_recv.received + grow
      /\ conn_fc_recv'.consumed = conn_fc_recv.received + grow
      /\ conn_fc_recv'.limit = conn_fc_recv.limit
      /\ conn_fc_recv'.window = conn_fc_recv.window
  <2> DEFINE c == AddReceived(conn_fc_recv, grow)
  <2>1. /\ c \in FlowControl
        /\ c.received = conn_fc_recv.received + grow
        /\ c.consumed = conn_fc_recv.consumed
        /\ c.limit = conn_fc_recv.limit /\ c.window = conn_fc_recv.window
    BY <1>1, <1>2, AddReceivedFacts, SMTT(40)
  <2>2. conn_fc_recv' = AddConsumed(c, unread)
    BY <1>4, SMTT(40)
  <2> HIDE DEF c
  <2>3. c.consumed + unread \in Nat
    BY <1>1, <1>3, <1>5, <2>1, SMTT(40)
  <2> QED BY <1>5, <2>1, <2>2, <2>3, AddConsumedFacts, SMTT(40)
<1>8. DrainsBeforeStop => /\ fc_recv.consumed <= fc_recv.received
                          /\ conn_fc_recv.consumed <= conn_fc_recv.received
  BY <1>3, SMTT(40) DEF RecvInv, SameUnread, StoppedIsDrained
<1>9. TypeOK'
  <2>1. /\ needs_max_stream_data' \in BOOLEAN /\ send_done' \in BOOLEAN
        /\ stop_sending_sent' \in BOOLEAN
    BY SMTT(40) DEF RecvInv, TypeOK, DiscardRecv, netVars
  <2>2. freed' \in BOOLEAN
    BY ZenonT(60) DEF RecvInv, TypeOK, DiscardRecv, MaybeCleanup
  <2>3. needs_max_data' \in BOOLEAN
    BY DEF RecvInv, TypeOK, DiscardRecv
  <2>4. /\ max_stream_data_sent' \subseteq Nat /\ max_data_sent' \subseteq Nat
        /\ peer_stream_limit' \in Nat /\ peer_conn_limit' \in Nat
        /\ resets_queued' \in Nat /\ resets_raised' \in Nat
        /\ readable' \in {"none", "queued", "told"}
    BY DEF RecvInv, TypeOK, DiscardRecv, netVars, evVars
  <2>5. recv_state' \in RecvStates /\ closed' \in Errors
    BY <1>4, SMTT(40) DEF RecvInv, TypeOK, RecvStates
  <2>6. fin_offset' \in Offsets \cup {None}
    BY <1>4, FinAfterFacts, SMTT(40)
  <2>7. /\ have' \subseteq Offsets /\ read_offset' \in Offsets
        /\ total_received' \in Nat /\ recv_highest_offset' \in Offsets
    BY <1>1, <1>4, SMTT(40) DEF RecvInv, TypeOK
  <2> QED BY <1>6, <1>7, <2>1, <2>2, <2>3, <2>4, <2>5, <2>6, <2>7, SMTT(40) DEF TypeOK
<1>10. fin_offset' # None => recv_highest_offset' = fin_offset'
  BY <1>4, FinAfterFacts, HaveFacts, RecvStreamAssumption, SMTT(40) DEF Offsets, grow
<1>11. ReassemblyExact' /\ BufferBounded'
  <2>1. /\ have \subseteq read_offset .. ((recv_highest_offset + grow) - 1)
        /\ read_offset <= recv_highest_offset + grow
    BY <1>1, HaveFacts, SMTT(40)
  <2>2. fin_offset' # None => recv_highest_offset' <= fin_offset'
    BY <1>1, <1>4, <1>10, SMTT(40) DEF Offsets
  <2> QED BY <1>4, <2>1, <2>2, SMTT(40) DEF RecvInv, ReassemblyExact, BufferBounded
<1>12. StateFits' /\ SizeIsHighest'
  <2>1. fin => fin_offset' # None
    BY <1>4, RecvStreamAssumption, SMTT(40) DEF FinAfter, Offsets, None
  <2> QED BY <1>4, <1>10, <2>1, SMTT(40) DEF StateFits, SizeIsHighest
<1>13. StreamCredit' /\ SameUnread' /\ ConnConsumedRead' /\ LimitOnItsWay'
  BY <1>1, <1>3, <1>6, <1>7, SMTT(40)
     DEF StreamCredit, SameUnread, ConnConsumedRead, LimitOnItsWay
<1>14. StoppedIsDrained'
  BY <1>1, <1>3, <1>4, <1>6, SMTT(40) DEF StoppedIsDrained, HasReadable
<1>15. WindowsFit'
  BY <1>1, <1>3, <1>6, <1>7, <1>8, SMTT(40) DEF RecvInv, WindowsFit
<1>16. WithinGrantedLimit'
  <2>1. /\ DrainsBeforeStop => recv_highest_offset + grow <= fc_recv.limit
        /\ DrainsBeforeStop =>
              fc_recv.limit <= (fc_recv.received + grow) + StreamMaxWindow
    BY <1>1, <1>3, <1>8, RecvStreamAssumption, SMTT(40) DEF RecvInv, WithinGrantedLimit
  <2> QED BY <1>4, <1>6, <2>1, ZenonT(60) DEF WithinGrantedLimit
<1> QED BY <1>9, <1>11, <1>12, <1>13, <1>14, <1>15, <1>16, SMTT(40) DEF RecvInv


\* recv_stream_data moves read_offset, the stream's credit and the
\* connection's credit by the same number of bytes.
LEMMA RecvStreamDataInv == ASSUME RecvInv, RecvStreamData PROVE RecvInv'
<1> DEFINE m == ReadableEnd
           k == m - read_offset
<1>1. /\ m \in Nat /\ read_offset <= m /\ m <= recv_highest_offset
      /\ m \notin have
      /\ read_offset .. (m - 1) \subseteq have
      /\ k \in Nat
  BY ReadFacts, HaveFacts, SMTT(40)
<1>2. fc_recv \in FlowControl /\ conn_fc_recv \in FlowControl
  BY DEF RecvInv, TypeOK
<1>3. /\ conn_fc_recv.received \in Nat /\ conn_fc_recv.consumed \in Nat
      /\ fc_recv.received \in Nat /\ fc_recv.consumed \in Nat
      /\ fc_recv.limit \in Nat /\ conn_fc_recv.limit \in Nat
      /\ fc_recv.window \in Nat /\ conn_fc_recv.window \in Nat
  BY <1>2, FieldsAreNat, SMTT(40)
<1>4. /\ fc_recv' = AddConsumed(fc_recv, k)
      /\ conn_fc_recv' = AddConsumed(conn_fc_recv, k)
      /\ read_offset' = m
      /\ have' = {b \in have : b >= m}
      /\ recv_state' = IF recv_state = "DATA_RECVD" /\ m >= fin_offset
                       THEN "DATA_READ" ELSE recv_state
      /\ needs_max_stream_data'
            = (needs_max_stream_data \/ ShouldUpdate(fc_recv'))
      /\ UNCHANGED <<total_received, fin_offset, recv_highest_offset, closed,
                     stopped>>
      /\ Live
  BY DEF RecvStreamData, ConnAfterRead, sizeVars
<1>5. /\ m = read_offset + k
      /\ m > read_offset => read_offset \in have
  BY <1>1, HaveFacts, SMTT(40)
<1> HIDE DEF m, k
<1>6. /\ fc_recv' \in FlowControl
      /\ fc_recv'.received = fc_recv.received
      /\ fc_recv'.consumed = fc_recv.consumed + k
      /\ fc_recv'.limit = fc_recv.limit /\ fc_recv'.window = fc_recv.window
  BY <1>1, <1>2, <1>3, <1>4, AddConsumedFacts, SMTT(40)
<1>7. /\ conn_fc_recv' \in FlowControl
      /\ conn_fc_recv'.received = conn_fc_recv.received
      /\ conn_fc_recv'.consumed = conn_fc_recv.consumed + k
      /\ conn_fc_recv'.limit = conn_fc_recv.limit
      /\ conn_fc_recv'.window = conn_fc_recv.window
  BY <1>1, <1>2, <1>3, <1>4, AddConsumedFacts, SMTT(40)
<1>8. /\ Cardinality(have) = k + Cardinality(have')
      /\ Cardinality(have') \in Nat
      /\ have' \subseteq m .. (recv_highest_offset - 1)
  <2>1. have' \subseteq m .. (recv_highest_offset - 1)
    BY <1>1, <1>4, HaveFacts, SMTT(40)
  <2>2. Cardinality(have') \in Nat
    BY <1>1, <2>1, HaveFacts, InsideInterval, SMTT(40)
  <2>3. Cardinality(have) = (m - read_offset) + Cardinality({b \in have : b >= m})
    <3>1. have \in SUBSET Nat /\ \A b \in have : b >= read_offset
      BY HaveFacts
    <3> QED BY <1>1, <3>1, HaveFacts, PrefixTaken, ZenonT(60)
  <2> QED BY <1>1, <1>4, <1>5, <2>1, <2>2, <2>3, HaveFacts, SMTT(40)
<1>9. TypeOK'
  <2>1. /\ needs_stop_sending' \in BOOLEAN /\ send_done' \in BOOLEAN
        /\ stop_sending_sent' \in BOOLEAN /\ stopped' \in BOOLEAN
    BY SMTT(40) DEF RecvInv, TypeOK, RecvStreamData, netVars
  <2>2. freed' \in BOOLEAN
    BY SMTT(40) DEF RecvStreamData, MaybeCleanup
  <2>3. needs_max_data' \in BOOLEAN /\ needs_max_stream_data' \in BOOLEAN
    BY SMTT(40) DEF RecvInv, TypeOK, RecvStreamData
  <2>4. /\ max_stream_data_sent' \subseteq Nat /\ max_data_sent' \subseteq Nat
        /\ peer_stream_limit' \in Nat /\ peer_conn_limit' \in Nat
        /\ resets_queued' \in Nat /\ resets_raised' \in Nat
    BY SMTT(40) DEF RecvInv, TypeOK, RecvStreamData, netVars
  <2>5. /\ recv_state' \in RecvStates /\ closed' \in Errors
        /\ readable' \in {"none", "queued", "told"}
    BY <1>4, ZenonT(60) DEF RecvInv, TypeOK, RecvStates, RecvStreamData
  <2>6. have' \subseteq Offsets /\ read_offset' \in Offsets
    <3>1. m \in Offsets
      BY <1>1, HaveFacts, RecvStreamAssumption, SMTT(40) DEF Offsets
    <3>2. have \subseteq Offsets
      BY SMTT(40) DEF RecvInv, TypeOK
    <3> QED BY <1>4, <3>1, <3>2, SMTT(40)
  <2>7. /\ total_received' \in Nat /\ recv_highest_offset' \in Offsets
        /\ fin_offset' \in Offsets \cup {None}
    BY <1>4, SMTT(40) DEF RecvInv, TypeOK
  <2> QED BY <1>6, <1>7, <2>1, <2>2, <2>3, <2>4, <2>5, <2>6, <2>7, SMTT(40) DEF TypeOK
<1>10. ReassemblyExact'
  <2>1. total_received = m + Cardinality(have')
    BY <1>1, <1>5, <1>8, HaveFacts, SMTT(40) DEF RecvInv, ReassemblyExact
  <2> QED BY <1>1, <1>4, <1>8, <2>1, SMTT(40) DEF RecvInv, ReassemblyExact
<1>11. BufferBounded'
  BY <1>1, <1>8, HaveFacts, RecvStreamAssumption, SMTT(40) DEF RecvInv, BufferBounded
<1>12. SizeIsHighest' /\ StateFits'
  BY <1>4 DEF RecvInv, SizeIsHighest, StateFits
<1>13. SameUnread' /\ StreamCredit' /\ ConnConsumedRead'
  <2>1. SameUnread'
    BY <1>1, <1>3, <1>6, <1>7, SMTT(40) DEF RecvInv, SameUnread
  <2>2. StreamCredit'
    BY <1>4, <1>5, <1>6, SMTT(40) DEF RecvInv, StreamCredit
  <2>3. ConnConsumedRead'
    BY <1>4, <1>5, <1>7, SMTT(40) DEF RecvInv, ConnConsumedRead
  <2> QED BY <2>1, <2>2, <2>3, SMTT(40)
<1>14. StoppedIsDrained'
  <2>1. ASSUME DrainsBeforeStop, stopped PROVE k = 0
    <3>1. ~(m > read_offset)
      BY <1>5, <2>1, SMTT(40) DEF RecvInv, StoppedIsDrained, HasReadable
    <3> QED BY <1>1, <1>5, <3>1, HaveFacts
  <2>2. ASSUME ~stopped PROVE fc_recv.consumed + k <= fc_recv.received
    <3>1. /\ fc_recv.consumed = read_offset
          /\ fc_recv.received = read_offset + Cardinality(have)
      BY <1>4, <2>2, SMTT(40) DEF RecvInv, StreamCredit, ReassemblyExact, Live
    <3> QED BY <1>1, <1>8, <3>1, HaveFacts, SMTT(40)
  <2>3. DrainsBeforeStop => fc_recv.consumed + k <= fc_recv.received
    BY <1>3, <2>1, <2>2, SMTT(40) DEF RecvInv, StoppedIsDrained
  <2>4. ~HasReadable'
    BY <1>1, <1>4, SMTT(40) DEF HasReadable
  <2> QED BY <1>6, <2>3, <2>4 DEF StoppedIsDrained
<1>15. WindowsFit' /\ WithinGrantedLimit'
  BY <1>1, <1>3, <1>4, <1>6, <1>7, RecvStreamAssumption, SMTT(60)
     DEF RecvInv, WindowsFit, WithinGrantedLimit
<1>16. LimitOnItsWay'
  <2>1. fc_recv'.consumed >= fc_recv'.limit => needs_max_stream_data'
    BY <1>4, ZenonT(60) DEF ShouldUpdate
  <2>2. /\ UNCHANGED <<peer_stream_limit, max_stream_data_sent>>
        /\ needs_max_stream_data => needs_max_stream_data'
    BY <1>4, Zenon DEF RecvStreamData, netVars
  <2> QED BY <1>4, <1>6, <2>1, <2>2, ZenonT(60) DEF RecvInv, LimitOnItsWay
<1> QED BY <1>9, <1>10, <1>11, <1>12, <1>13, <1>14, <1>15, <1>16, SMTT(40) DEF RecvInv

LEMMA StopSendingInv == ASSUME RecvInv, StopSending PROVE RecvInv'
<1>1. CASE fin_offset # None /\ DiscardRecv(fin_offset, TRUE)
           /\ UNCHANGED needs_stop_sending
  <2>1. fin_offset \in Offsets /\ needs_stop_sending' \in BOOLEAN /\ Live
    BY <1>1 DEF RecvInv, TypeOK, StopSending
  <2>2. ~FinalSizeViolated(fin_offset, TRUE)
    BY <1>1, <2>1, RecvStreamAssumption, SMTT(40) DEF FinalSizeViolated, Offsets
  <2>3. DrainsBeforeStop => fin_offset <= fc_recv.limit
    BY <1>1, <2>1, SMTT(40)
       DEF RecvInv, SizeIsHighest, WithinGrantedLimit, Live
  <2> QED BY <1>1, <2>1, <2>2, <2>3, DiscardInv, ZenonT(60) DEF StopSending
<1>2. CASE fin_offset = None /\ recv_state' = "STOP_SENDING_SENT"
           /\ needs_stop_sending' = TRUE
           /\ UNCHANGED <<bufVars, sizeVars, fcVars, needs_max_stream_data,
                          needs_max_data, evVars, netVars, send_done, freed,
                          closed>>
  <2> USE <1>2 DEF bufVars, sizeVars, fcVars, evVars, netVars
  <2>1. stopped' = TRUE /\ (DrainsBeforeStop => ~HasReadable) /\ Live
    BY SMTT(40) DEF StopSending
  <2>2. TypeOK'
    <3>1. stopped' \in BOOLEAN /\ recv_state' \in RecvStates
          /\ needs_stop_sending' \in BOOLEAN
      BY <2>1, SMTT(40) DEF RecvStates
    <3> QED BY <3>1, SMTT(40) DEF RecvInv, TypeOK
  <2>3. ReassemblyExact' /\ BufferBounded' /\ SizeIsHighest' /\ SameUnread'
    BY SMTT(40) DEF RecvInv, ReassemblyExact, BufferBounded, SizeIsHighest, SameUnread
  <2>4. /\ StateFits' /\ StreamCredit' /\ ConnConsumedRead' /\ LimitOnItsWay'
    BY <2>1, SMTT(40) DEF StateFits, StreamCredit, ConnConsumedRead, LimitOnItsWay
  <2>5. WindowsFit' /\ WithinGrantedLimit'
    BY <2>1, SMTT(40) DEF RecvInv, WindowsFit, WithinGrantedLimit
  <2>6. StoppedIsDrained'
    BY <2>1, SMTT(40) DEF RecvInv, StoppedIsDrained, HasReadable
  <2> QED BY <2>2, <2>3, <2>4, <2>5, <2>6, SMTT(40) DEF RecvInv
<1> QED BY <1>1, <1>2, Zenon DEF StopSending


LEMMA StreamFrameInv ==
    ASSUME RecvInv, NEW off \in Offsets, NEW n \in Offsets,
           NEW fin \in BOOLEAN, off + n <= MaxOffset,
           StreamFrame(off, n, fin)
    PROVE  RecvInv'
<1>0. Live
  BY DEF StreamFrame
<1>1. CASE FrameContradicts(off, n, fin)
  BY <1>1, CloseInv DEF FrameContradicts, Errors
<1>2. CASE FrameTooLate(off, n, fin)
  BY <1>2, StutterInv, SMTT(40) DEF FrameTooLate
<1>3. CASE FrameOverStreamLimit(off, n, fin)
  BY <1>3, CloseInv, SMTT(40) DEF FrameOverStreamLimit, Errors
<1>4. CASE FrameDiscarded(off, n, fin)
  <2>1. CASE DiscardOverLimit(off + n)
    BY <2>1, CloseInv, SMTT(40) DEF DiscardOverLimit, Errors
  <2>2. CASE DiscardRecv(off + n, fin) /\ UNCHANGED <<needs_stop_sending, stopped>>
    <3>1. off + n \in Offsets
      BY RecvStreamAssumption DEF Offsets
    <3>2. ~FinalSizeViolated(off + n, fin) /\ off + n <= fc_recv.limit
      BY <1>4, SMTT(40) DEF FrameDiscarded, Admissible
    <3>3. stopped' = TRUE /\ (DrainsBeforeStop => ~HasReadable)
      BY <1>4, <2>2, SMTT(40) DEF FrameDiscarded, RecvInv, TypeOK, StateFits,
                        StoppedIsDrained
    <3>4. needs_stop_sending' \in BOOLEAN
      BY <2>2, SMTT(40) DEF RecvInv, TypeOK
    <3> QED BY <1>0, <2>2, <3>1, <3>2, <3>3, <3>4, DiscardInv, SMTT(40)
  <2> QED BY <1>4, <2>1, <2>2, SMTT(40) DEF FrameDiscarded
<1>5. CASE FrameTooManyGaps(off, n, fin)
  BY <1>0, <1>5, FrameTooManyGapsInv, SMTT(40)
<1>6. CASE FrameOverConnLimit(off, n, fin)
  BY <1>0, <1>6, FrameOverConnLimitInv, SMTT(40)
<1>7. CASE FrameAccepted(off, n, fin)
  BY <1>0, <1>7, FrameAcceptedInv
<1> QED BY <1>1, <1>2, <1>3, <1>4, <1>5, <1>6, <1>7, SMTT(40) DEF StreamFrame

-----------------------------------------------------------------------------
(* Theorems *)

LEMMA StepInv == RecvInv /\ [Next]_vars => RecvInv'
<1> SUFFICES ASSUME RecvInv, [Next]_vars PROVE RecvInv'
  OBVIOUS
<1>1. ASSUME NEW off \in Offsets, NEW n \in Offsets, NEW fin \in BOOLEAN,
             off + n <= MaxOffset, StreamFrame(off, n, fin)
      PROVE  RecvInv'
  BY <1>1, StreamFrameInv
<1>2. ASSUME NEW final \in Offsets, ResetStreamFrame(final) PROVE RecvInv'
  BY <1>2, ResetStreamFrameInv
<1>3. CASE LateFrame
  BY <1>3, StutterInv DEF LateFrame
<1>4. CASE PollReadable \/ PollReset
  BY <1>4, PollReadableInv, PollResetInv
<1>5. CASE RecvStreamData \/ StopSending \/ SendSideEnds
  BY <1>5, RecvStreamDataInv, StopSendingInv, SendSideEndsInv
<1>6. CASE CreditFrames
  BY <1>6, CreditFramesInv
<1>7. CASE UNCHANGED vars
  BY <1>7, StutterInv
<1> QED BY <1>1, <1>2, <1>3, <1>4, <1>5, <1>6, <1>7, SMTT(40) DEF Next

\* The inductive invariant holds for every offset bound, window and gap
\* limit, whether or not the application drains a stream before stopping it.
THEOREM RecvInvariant == Spec => []RecvInv
BY InitInv, StepInv, PTL DEF Spec

\* Reassembly counts every byte once, within the final size.
THEOREM ReassemblyIsExact == Spec => []ReassemblyExact
<1>1. RecvInv => ReassemblyExact
  BY DEF RecvInv
<1> QED BY <1>1, RecvInvariant, PTL

\* However the peer cuts and reorders its frames, the data held for the
\* application stays within the largest stream window.
THEOREM BufferIsBounded == Spec => [](BufferBounded /\ WithinGrantedLimit)
<1>1. RecvInv => BufferBounded /\ WithinGrantedLimit
  BY DEF RecvInv
<1> QED BY <1>1, RecvInvariant, PTL

\* No byte's credit is returned twice, at the stream or at the connection.
THEOREM CreditIsReturnedOnce == Spec => []CreditReturnedOnce
<1>1. RecvInv => CreditReturnedOnce
  <2> SUFFICES ASSUME RecvInv, DrainsBeforeStop
               PROVE  /\ fc_recv.consumed <= fc_recv.received
                      /\ conn_fc_recv.consumed <= conn_fc_recv.received
    BY SMTT(40) DEF CreditReturnedOnce
  <2>1. /\ fc_recv.consumed \in Nat /\ fc_recv.received \in Nat
        /\ conn_fc_recv.consumed \in Nat /\ conn_fc_recv.received \in Nat
    BY FieldsAreNat, SMTT(40) DEF RecvInv, TypeOK
  <2> QED BY <2>1 DEF RecvInv, StoppedIsDrained, SameUnread
<1> QED BY <1>1, RecvInvariant, PTL


\* A peer that used up its stream credit gets more, also after losses.
THEOREM StreamPeerIsNotStarved == Spec => []StreamPeerNotStarved
<1>1. RecvInv => StreamPeerNotStarved
  <2> SUFFICES ASSUME RecvInv, Live, ~stopped,
                      fc_recv.consumed >= peer_stream_limit,
                      ~needs_max_stream_data
               PROVE  \E l \in max_stream_data_sent : l > peer_stream_limit
    BY SMTT(40) DEF StreamPeerNotStarved
  <2>1. /\ fc_recv.limit \in Nat /\ peer_stream_limit \in Nat
        /\ fc_recv.consumed \in Nat
    BY FieldsAreNat DEF RecvInv, TypeOK
  <2>2. /\ peer_stream_limit <= fc_recv.limit
        /\ ~(fc_recv.consumed >= fc_recv.limit)
        /\ peer_stream_limit = fc_recv.limit
              \/ fc_recv.limit \in max_stream_data_sent
    BY DEF RecvInv, LimitOnItsWay
  <2>3. fc_recv.limit > peer_stream_limit
    BY <2>1, <2>2
  <2> QED BY <2>1, <2>2, <2>3
<1> QED BY <1>1, RecvInvariant, PTL

LEMMA FinalSizeStep ==
    ASSUME RecvInv, [Next]_vars, fin_offset # None
    PROVE  fin_offset' = fin_offset
<1> USE DEF sizeVars
<1>1. ASSUME NEW off \in Offsets, NEW n \in Offsets, NEW fin \in BOOLEAN,
             off + n <= MaxOffset, StreamFrame(off, n, fin)
      PROVE  fin_offset' = fin_offset
  <2>1. off + n \in Offsets /\ Live
    BY <1>1, RecvStreamAssumption, SMTT(40) DEF Offsets, StreamFrame
  <2>2. CASE FrameContradicts(off, n, fin) \/ FrameOverStreamLimit(off, n, fin)
             \/ FrameTooLate(off, n, fin)
    BY <2>2, SMTT(40) DEF FrameContradicts, FrameOverStreamLimit, FrameTooLate, vars
  <2>3. CASE FrameDiscarded(off, n, fin)
    BY <2>1, <2>3, FinAfterFacts, ZenonT(60)
       DEF FrameDiscarded, Admissible, DiscardOverLimit, DiscardRecv
  <2>4. CASE FrameTooManyGaps(off, n, fin)
    BY <2>1, <2>4, FinAfterFacts, SMTT(40) DEF FrameTooManyGaps, Admissible
  <2>5. CASE FrameOverConnLimit(off, n, fin) \/ FrameAccepted(off, n, fin)
    BY <2>1, <2>5, FinAfterFacts, ZenonT(60)
       DEF FrameOverConnLimit, FrameAccepted, Admissible, WriteBytes
  <2> QED BY <1>1, <2>2, <2>3, <2>4, <2>5, SMTT(40) DEF StreamFrame
<1>2. ASSUME NEW final \in Offsets, ResetStreamFrame(final)
      PROVE  fin_offset' = fin_offset
  BY <1>2, ZenonT(60) DEF ResetStreamFrame, ResetContradicts, ResetOverStreamLimit,
              ResetRepeated, ResetOverConnLimit, ResetAccepted,
              ResetSizeViolated, vars
<1>3. CASE LateFrame \/ UNCHANGED vars
  BY <1>3, SMTT(40) DEF LateFrame, vars
<1>4. CASE PollReadable \/ PollReset \/ RecvStreamData \/ SendSideEnds
  BY <1>4, ZenonT(60) DEF PollReadable, PollReset, RecvStreamData, SendSideEnds
<1>5. CASE StopSending
  BY <1>5, ZenonT(60) DEF StopSending, DiscardRecv, FinAfter
<1>6. CASE CreditFrames
  BY <1>6, Zenon DEF CreditFrames, EmitMaxStreamData, EmitMaxData, EmitStopSending,
              PeerGetsMaxStreamData, MaxStreamDataAcked, MaxStreamDataLost,
              PeerGetsMaxData, MaxDataAcked, MaxDataLost, StopSendingLost
<1> QED BY <1>1, <1>2, <1>3, <1>4, <1>5, <1>6, SMTT(40) DEF Next

\* A final size, once known, is never revised, by FIN, reset or discard.
THEOREM FinalSizeIsStable == Spec => FinalSizeStable
<1>1. RecvInv /\ [Next]_vars => [fin_offset # None => fin_offset' = fin_offset]_vars
  BY FinalSizeStep
<1> QED BY <1>1, RecvInvariant, PTL DEF Spec, FinalSizeStable


=============================================================================
