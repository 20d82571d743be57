------------------------- MODULE RecvStream_lemmas -------------------------
(* Facts about the receiving side of a stream: its helpers, the handlers    *)
(* of credit frames, events and resets, and the bytes a frame writes.       *)
EXTENDS RecvStream, NatLemmas, TLAPS

\* The stored bytes are finitely many and lie below the highest offset.
LEMMA HaveFacts ==
    ASSUME RecvInv
    PROVE  /\ IsFiniteSet(have)
           /\ Cardinality(have) \in Nat
           /\ have \subseteq read_offset .. (recv_highest_offset - 1)
           /\ read_offset \in Nat /\ recv_highest_offset \in Nat
           /\ read_offset <= recv_highest_offset
           /\ recv_highest_offset <= MaxOffset
<1>1. /\ have \subseteq read_offset .. (recv_highest_offset - 1)
      /\ read_offset \in Nat /\ recv_highest_offset \in Nat
      /\ read_offset <= recv_highest_offset
      /\ recv_highest_offset <= MaxOffset
  BY RecvStreamAssumption DEF RecvInv, TypeOK, ReassemblyExact, Offsets
<1>2. IsFiniteSet(have) /\ Cardinality(have) \in Nat
  BY <1>1, InsideInterval
<1> QED BY <1>1, <1>2

\* What the buffer stores after a write, and how many of the bytes are new.
LEMMA WriteFacts ==
    ASSUME RecvInv, NEW off \in Offsets, NEW n \in Offsets,
           off + n <= MaxOffset
    PROVE  /\ Cardinality(NewBytes(off, off + n)) \in Nat
           /\ NewBytes(off, off + n) \subseteq read_offset .. ((off + n) - 1)
           /\ Cardinality(have \cup NewBytes(off, off + n))
                = Cardinality(have) + Cardinality(NewBytes(off, off + n))
<1> DEFINE new == NewBytes(off, off + n)
<1>1. new \subseteq read_offset .. ((off + n) - 1)
  BY HaveFacts DEF NewBytes, Offsets
<1>2. IsFiniteSet(new)
  <2>1. off .. ((off + n) - 1) \in SUBSET Int /\ IsFiniteSet(off .. ((off + n) - 1))
    BY FS_Interval, RecvStreamAssumption DEF Offsets
  <2>2. new \subseteq off .. ((off + n) - 1)
    BY HaveFacts DEF NewBytes, Offsets
  <2> QED BY <2>1, <2>2, FS_Subset, Zenon
<1>3. have \cap new = {}
  BY DEF NewBytes
<1> HIDE DEF new
<1>4. /\ Cardinality(new) \in Nat
      /\ Cardinality(have \cup new) = Cardinality(have) + Cardinality(new)
  BY <1>2, <1>3, HaveFacts, DisjointSizes
<1> QED BY <1>1, <1>4 DEF new

\* Where a read stops.
LEMMA ReadFacts ==
    ASSUME RecvInv
    PROVE  /\ ReadableEnd \in Nat
           /\ read_offset <= ReadableEnd
           /\ ReadableEnd <= recv_highest_offset
           /\ ReadableEnd \notin have
           /\ read_offset .. (ReadableEnd - 1) \subseteq have
<1> DEFINE P(m) == m \notin have /\ read_offset .. (m - 1) \subseteq have
<1>1. PICK x \in read_offset .. recv_highest_offset : P(x)
  <2>1. recv_highest_offset \notin have
    BY HaveFacts
  <2>2. \E m \in read_offset .. recv_highest_offset :
           m \notin have /\ read_offset .. (m - 1) \subseteq have
    BY <2>1, HaveFacts, FirstGap, Zenon
  <2> QED BY <2>2
<1>2. x \in read_offset .. (MaxOffset + 1)
  BY <1>1, HaveFacts, RecvStreamAssumption
<1>3. ReadableEnd \in read_offset .. (MaxOffset + 1) /\ P(ReadableEnd)
  <2> HIDE DEF P
  <2>1. ReadableEnd = CHOOSE m \in read_offset .. (MaxOffset + 1) : P(m)
    BY DEF ReadableEnd, P
  <2> QED BY <1>1, <1>2, <2>1
<1>4. ReadableEnd <= recv_highest_offset
  <2> SUFFICES ASSUME recv_highest_offset < ReadableEnd PROVE FALSE
    BY <1>3, HaveFacts
  <2>1. recv_highest_offset \in read_offset .. (ReadableEnd - 1)
    BY <1>3, HaveFacts
  <2> QED BY <1>3, <2>1, HaveFacts
<1> QED BY <1>3, <1>4, HaveFacts

LEMMA InitInv == Init => RecvInv
<1> SUFFICES ASSUME Init PROVE RecvInv
  OBVIOUS
<1> USE RecvStreamAssumption DEF Init, NewFlowControl
<1>1. TypeOK
  <2>1. fc_recv \in FlowControl /\ conn_fc_recv \in FlowControl
    BY DEF FlowControl
  <2>2. /\ recv_state \in RecvStates /\ closed \in Errors
        /\ readable \in {"none", "queued", "told"}
    BY DEF RecvStates, Errors
  <2>3. /\ have \subseteq Offsets /\ read_offset \in Offsets
        /\ total_received \in Nat
        /\ fin_offset \in Offsets \cup {None}
        /\ recv_highest_offset \in Offsets
        /\ resets_queued \in Nat /\ resets_raised \in Nat
        /\ max_stream_data_sent \subseteq Nat /\ max_data_sent \subseteq Nat
        /\ peer_stream_limit \in Nat /\ peer_conn_limit \in Nat
    BY DEF Offsets, None
  <2>4. /\ needs_max_stream_data \in BOOLEAN /\ needs_max_data \in BOOLEAN
        /\ needs_stop_sending \in BOOLEAN /\ send_done \in BOOLEAN
        /\ freed \in BOOLEAN /\ stop_sending_sent \in BOOLEAN
        /\ stopped \in BOOLEAN
    BY Zenon
  <2> QED BY <2>1, <2>2, <2>3, <2>4 DEF TypeOK
<1>2. ReassemblyExact
  BY FS_EmptySet DEF ReassemblyExact, None
<1>3. BufferBounded
  BY FS_EmptySet DEF BufferBounded
<1>4. /\ SizeIsHighest /\ StateFits /\ StreamCredit /\ WindowsFit
      /\ SameUnread /\ ConnConsumedRead /\ StoppedIsDrained
      /\ WithinGrantedLimit
  BY DEF SizeIsHighest, StateFits, StreamCredit, WindowsFit, SameUnread,
         ConnConsumedRead, StoppedIsDrained, WithinGrantedLimit, None
<1>5. LimitOnItsWay
  BY DEF LimitOnItsWay
<1> QED BY <1>1, <1>2, <1>3, <1>4, <1>5 DEF RecvInv

-----------------------------------------------------------------------------
(* Flow-control records *)

LEMMA FieldsAreNat ==
    ASSUME NEW fc \in FlowControl
    PROVE  /\ fc.received \in Nat
           /\ fc.consumed \in Nat
           /\ fc.limit \in Nat
           /\ fc.window \in Nat
BY DEF FlowControl

LEMMA AddReceivedFacts ==
    ASSUME NEW fc \in FlowControl, NEW n \in Nat
    PROVE  /\ AddReceived(fc, n) \in FlowControl
           /\ AddReceived(fc, n).received = fc.received + n
           /\ AddReceived(fc, n).consumed = fc.consumed
           /\ AddReceived(fc, n).limit = fc.limit
           /\ AddReceived(fc, n).window = fc.window
BY DEF FlowControl, AddReceived

LEMMA AddConsumedFacts ==
    ASSUME NEW fc \in FlowControl, NEW n \in Int, fc.consumed + n \in Nat
    PROVE  /\ AddConsumed(fc, n) \in FlowControl
           /\ AddConsumed(fc, n).received = fc.received
           /\ AddConsumed(fc, n).consumed = fc.consumed + n
           /\ AddConsumed(fc, n).limit = fc.limit
           /\ AddConsumed(fc, n).window = fc.window
BY DEF FlowControl, AddConsumed

LEMMA GrownWindowFacts ==
    ASSUME NEW fc \in FlowControl, NEW mx \in Nat, fc.window \in 1 .. mx
    PROVE  GrownWindow(fc, mx) \in 1 .. mx /\ fc.window <= GrownWindow(fc, mx)
BY FieldsAreNat DEF GrownWindow

LEMMA UpdateLimitFacts ==
    ASSUME NEW fc \in FlowControl, NEW mx \in Nat, fc.window \in 1 .. mx
    PROVE  /\ UpdateLimit(fc, mx) \in FlowControl
           /\ UpdateLimit(fc, mx).received = fc.received
           /\ UpdateLimit(fc, mx).consumed = fc.consumed
           /\ UpdateLimit(fc, mx).window \in 1 .. mx
           /\ fc.window <= UpdateLimit(fc, mx).window
           /\ UpdateLimit(fc, mx).limit
                = fc.consumed + UpdateLimit(fc, mx).window
<1> DEFINE w == GrownWindow(fc, mx)
           u == [fc EXCEPT !.window = w, !.limit = fc.consumed + w]
<1>1. w \in 1 .. mx /\ fc.window <= w /\ w \in Nat
  BY GrownWindowFacts
<1>2. UpdateLimit(fc, mx) = u
  BY DEF UpdateLimit
<1>3. fc.consumed + w \in Nat
  BY <1>1, FieldsAreNat
<1> HIDE DEF w
<1>4. /\ u \in FlowControl
      /\ u.received = fc.received /\ u.consumed = fc.consumed
      /\ u.window = w /\ u.limit = fc.consumed + w
  BY <1>1, <1>3, Zenon DEF FlowControl
<1> QED BY <1>1, <1>2, <1>4

-----------------------------------------------------------------------------
(* Steps that leave the buffer, the sizes and the credit alone *)

LEMMA CoreUnchanged ==
    ASSUME RecvInv, TypeOK', LimitOnItsWay',
           UNCHANGED <<recv_state, bufVars, sizeVars, fcVars, closed, stopped>>
    PROVE  RecvInv'
<1>1. ReassemblyExact' /\ BufferBounded'
  BY DEF RecvInv, ReassemblyExact, BufferBounded, bufVars, sizeVars
<1>2. SizeIsHighest' /\ StateFits' /\ StreamCredit' /\ WindowsFit' /\ SameUnread'
  BY DEF RecvInv, SizeIsHighest, StateFits, StreamCredit, WindowsFit,
         SameUnread, bufVars, sizeVars, fcVars
<1>3. ConnConsumedRead' /\ StoppedIsDrained' /\ WithinGrantedLimit'
  BY DEF RecvInv, ConnConsumedRead, StoppedIsDrained, WithinGrantedLimit,
         HasReadable, bufVars, sizeVars, fcVars
<1> QED BY <1>1, <1>2, <1>3 DEF RecvInv

LEMMA StutterInv ==
    ASSUME RecvInv, UNCHANGED vars
    PROVE  RecvInv'
<1> USE DEF vars, bufVars, sizeVars, fcVars, needVars, evVars, netVars, lifeVars
<1>1. TypeOK'
  BY DEF RecvInv, TypeOK
<1>2. LimitOnItsWay'
  BY DEF RecvInv, LimitOnItsWay, Live
<1> QED BY <1>1, <1>2, CoreUnchanged

\* Events and the freeing of the stream touch no credit.
LEMMA PollReadableInv == ASSUME RecvInv, PollReadable PROVE RecvInv'
<1> USE DEF PollReadable, bufVars, sizeVars, fcVars, needVars, netVars, lifeVars
<1>1. TypeOK'
  BY DEF RecvInv, TypeOK
<1>2. LimitOnItsWay'
  BY DEF RecvInv, LimitOnItsWay, Live
<1> QED BY <1>1, <1>2, CoreUnchanged

LEMMA SendSideEndsInv == ASSUME RecvInv, SendSideEnds PROVE RecvInv'
<1> USE DEF SendSideEnds, bufVars, sizeVars, fcVars, needVars, evVars, netVars
<1>1. TypeOK'
  <2>1. freed' \in BOOLEAN
    BY DEF MaybeCleanup
  <2> QED BY <2>1 DEF RecvInv, TypeOK
<1>2. LimitOnItsWay'
  BY DEF RecvInv, LimitOnItsWay, Live
<1> QED BY <1>1, <1>2, CoreUnchanged

\* Closing the connection, with everything else as it was.
LEMMA CloseInv ==
    ASSUME RecvInv, NEW err \in Errors \ {"none"}, CloseWith(err),
           UNCHANGED <<bufVars, sizeVars>>
    PROVE  RecvInv'
<1> USE DEF CloseWith, bufVars, sizeVars, fcVars, needVars, evVars, netVars
<1>1. TypeOK'
  BY DEF RecvInv, TypeOK
<1>2. ReassemblyExact' /\ BufferBounded'
  BY DEF RecvInv, ReassemblyExact, BufferBounded
<1>3. SizeIsHighest' /\ StateFits' /\ StreamCredit' /\ WindowsFit' /\ SameUnread'
  BY DEF RecvInv, SizeIsHighest, StateFits, StreamCredit, WindowsFit, SameUnread
<1>4. ConnConsumedRead' /\ StoppedIsDrained' /\ WithinGrantedLimit'
  BY DEF RecvInv, ConnConsumedRead, StoppedIsDrained, WithinGrantedLimit,
         HasReadable
<1>5. LimitOnItsWay'
  BY DEF RecvInv, LimitOnItsWay, Live
<1> QED BY <1>1, <1>2, <1>3, <1>4, <1>5 DEF RecvInv

-----------------------------------------------------------------------------
(* Credit frames *)

LEMMA EmitMaxStreamDataInv == ASSUME RecvInv, EmitMaxStreamData PROVE RecvInv'
<1> USE RecvStreamAssumption
        DEF EmitMaxStreamData, bufVars, sizeVars, evVars, lifeVars
<1>1. fc_recv' = UpdateLimit(fc_recv, StreamMaxWindow)
  OBVIOUS
<1>2. fc_recv \in FlowControl /\ fc_recv.window \in 1 .. StreamMaxWindow
  BY DEF RecvInv, TypeOK, WindowsFit
<1>3. /\ fc_recv'.received = fc_recv.received
      /\ fc_recv'.consumed = fc_recv.consumed
      /\ fc_recv'.window \in 1 .. StreamMaxWindow
      /\ fc_recv.window <= fc_recv'.window
      /\ fc_recv'.limit = fc_recv.consumed + fc_recv'.window
      /\ fc_recv' \in FlowControl
  BY <1>1, <1>2, UpdateLimitFacts
<1>4. /\ fc_recv.consumed \in Nat /\ fc_recv.limit \in Nat
      /\ fc_recv.received \in Nat /\ fc_recv.window \in Nat
      /\ fc_recv'.limit \in Nat
  BY <1>2, <1>3, FieldsAreNat
<1>5. max_stream_data_sent' = max_stream_data_sent \cup {fc_recv'.limit}
  BY <1>1
<1> HIDE DEF EmitMaxStreamData
<1>6. TypeOK'
  <2>1. max_stream_data_sent' \subseteq Nat
    BY <1>4, <1>5, Zenon DEF RecvInv, TypeOK
  <2>2. /\ needs_max_stream_data' \in BOOLEAN /\ needs_max_data' \in BOOLEAN
        /\ needs_stop_sending' \in BOOLEAN /\ send_done' \in BOOLEAN
        /\ freed' \in BOOLEAN /\ stop_sending_sent' \in BOOLEAN
        /\ stopped' \in BOOLEAN
    BY Zenon DEF RecvInv, TypeOK, EmitMaxStreamData
  <2> QED BY <1>3, <2>1, <2>2 DEF RecvInv, TypeOK, EmitMaxStreamData
<1>7. ReassemblyExact' /\ BufferBounded' /\ SizeIsHighest' /\ StateFits'
  BY DEF RecvInv, ReassemblyExact, BufferBounded, SizeIsHighest, StateFits,
         EmitMaxStreamData
<1>8. StreamCredit' /\ SameUnread' /\ ConnConsumedRead' /\ StoppedIsDrained'
  BY <1>3 DEF RecvInv, StreamCredit, SameUnread, ConnConsumedRead,
              StoppedIsDrained, HasReadable, EmitMaxStreamData
<1>9. WindowsFit' /\ WithinGrantedLimit'
  BY <1>3, <1>4 DEF RecvInv, TypeOK, WindowsFit, WithinGrantedLimit, Offsets,
                    EmitMaxStreamData
<1>10. LimitOnItsWay'
  <2>1. ASSUME ~stopped
        PROVE  /\ fc_recv.limit <= fc_recv'.limit
               /\ fc_recv'.consumed < fc_recv'.limit
    BY <1>3, <1>4, <2>1 DEF RecvInv, WindowsFit
  <2> SUFFICES ASSUME ~stopped PROVE LimitOnItsWay'
    BY DEF LimitOnItsWay, EmitMaxStreamData
  <2>2. fc_recv.limit <= fc_recv'.limit /\ ~(fc_recv'.consumed >= fc_recv'.limit)
    BY <1>3, <1>4, <2>1
  <2>3. peer_stream_limit' <= fc_recv'.limit
    BY <1>4, <2>2 DEF RecvInv, TypeOK, LimitOnItsWay, EmitMaxStreamData
  <2>4. \A l \in max_stream_data_sent' : l <= fc_recv'.limit
    BY <1>4, <1>5, <2>2, SMTT(40) DEF RecvInv, TypeOK, LimitOnItsWay
  <2> QED BY <1>5, <2>2, <2>3, <2>4 DEF LimitOnItsWay
<1> QED BY <1>6, <1>7, <1>8, <1>9, <1>10 DEF RecvInv

LEMMA EmitMaxDataInv == ASSUME RecvInv, EmitMaxData PROVE RecvInv'
<1> USE RecvStreamAssumption
        DEF EmitMaxData, bufVars, sizeVars, evVars, lifeVars
<1>1. conn_fc_recv' = UpdateLimit(conn_fc_recv, ConnMaxWindow)
  OBVIOUS
<1>2. conn_fc_recv \in FlowControl /\ conn_fc_recv.window \in 1 .. ConnMaxWindow
  BY DEF RecvInv, TypeOK, WindowsFit
<1>3. /\ conn_fc_recv'.received = conn_fc_recv.received
      /\ conn_fc_recv'.consumed = conn_fc_recv.consumed
      /\ conn_fc_recv'.window \in 1 .. ConnMaxWindow
      /\ conn_fc_recv'.limit = conn_fc_recv.consumed + conn_fc_recv'.window
      /\ conn_fc_recv' \in FlowControl
  BY <1>1, <1>2, UpdateLimitFacts
<1>4. /\ conn_fc_recv.consumed \in Nat /\ conn_fc_recv'.window \in Nat
      /\ conn_fc_recv'.limit \in Nat
  BY <1>2, <1>3, FieldsAreNat
<1>5. max_data_sent' = max_data_sent \cup {conn_fc_recv'.limit}
  BY <1>1
<1> HIDE DEF EmitMaxData
<1>6. TypeOK'
  <2>1. max_data_sent' \subseteq Nat
    BY <1>4, <1>5, Zenon DEF RecvInv, TypeOK
  <2>2. /\ needs_max_stream_data' \in BOOLEAN /\ needs_max_data' \in BOOLEAN
        /\ needs_stop_sending' \in BOOLEAN /\ send_done' \in BOOLEAN
        /\ freed' \in BOOLEAN /\ stop_sending_sent' \in BOOLEAN
        /\ stopped' \in BOOLEAN
    BY ZenonT(60) DEF RecvInv, TypeOK, EmitMaxData
  <2> QED BY <1>3, <2>1, <2>2 DEF RecvInv, TypeOK, EmitMaxData
<1>7. ReassemblyExact' /\ BufferBounded' /\ SizeIsHighest' /\ StateFits'
  BY DEF RecvInv, ReassemblyExact, BufferBounded, SizeIsHighest, StateFits,
         EmitMaxData
<1>8. StreamCredit' /\ SameUnread' /\ ConnConsumedRead' /\ StoppedIsDrained'
  BY <1>3 DEF RecvInv, StreamCredit, SameUnread, ConnConsumedRead,
              StoppedIsDrained, HasReadable, EmitMaxData
<1>9. WindowsFit' /\ WithinGrantedLimit'
  BY <1>3, <1>4 DEF RecvInv, WindowsFit, WithinGrantedLimit, EmitMaxData
<1>10. LimitOnItsWay'
  BY DEF RecvInv, LimitOnItsWay, Live, EmitMaxData
<1> QED BY <1>6, <1>7, <1>8, <1>9, <1>10 DEF RecvInv

LEMMA EmitStopSendingInv == ASSUME RecvInv, EmitStopSending PROVE RecvInv'
<1> USE DEF EmitStopSending, bufVars, sizeVars, fcVars, evVars, lifeVars
<1>1. TypeOK'
  BY ZenonT(60) DEF RecvInv, TypeOK
<1>2. LimitOnItsWay'
  BY DEF RecvInv, LimitOnItsWay, Live
<1> QED BY <1>1, <1>2, CoreUnchanged

LEMMA StopSendingLostInv == ASSUME RecvInv, StopSendingLost PROVE RecvInv'
<1> USE DEF StopSendingLost, bufVars, sizeVars, fcVars, evVars, lifeVars
<1>1. TypeOK'
  BY ZenonT(60) DEF RecvInv, TypeOK
<1>2. LimitOnItsWay'
  BY DEF RecvInv, LimitOnItsWay, Live
<1> QED BY <1>1, <1>2, CoreUnchanged

\* The peer learns a limit; the largest one it can learn is the one in force.
LEMMA PeerGetsMaxStreamDataInv ==
    ASSUME RecvInv, NEW l, PeerGetsMaxStreamData(l)
    PROVE  RecvInv'
<1> USE DEF PeerGetsMaxStreamData, bufVars, sizeVars, fcVars, needVars, evVars,
            lifeVars
<1>1. TypeOK'
  <2>1. peer_stream_limit' \in Nat
    BY DEF RecvInv, TypeOK
  <2> QED BY <2>1 DEF RecvInv, TypeOK
<1>2. LimitOnItsWay'
  <2>1. fc_recv.limit \in Nat /\ l \in Nat /\ peer_stream_limit \in Nat
    BY FieldsAreNat, SMTT(40) DEF RecvInv, TypeOK
  <2>2. ASSUME ~stopped
        PROVE  /\ peer_stream_limit' <= fc_recv.limit
               /\ peer_stream_limit = fc_recv.limit =>
                      peer_stream_limit' = fc_recv.limit
    BY <2>1, <2>2 DEF RecvInv, LimitOnItsWay
  <2> QED BY <2>2 DEF RecvInv, LimitOnItsWay, Live
<1> QED BY <1>1, <1>2, CoreUnchanged

LEMMA PeerGetsMaxDataInv ==
    ASSUME RecvInv, NEW l, PeerGetsMaxData(l)
    PROVE  RecvInv'
<1> USE DEF PeerGetsMaxData, bufVars, sizeVars, fcVars, needVars, evVars,
            lifeVars
<1>1. TypeOK'
  <2>1. peer_conn_limit' \in Nat
    BY DEF RecvInv, TypeOK
  <2> QED BY <2>1 DEF RecvInv, TypeOK
<1>2. LimitOnItsWay'
  BY DEF RecvInv, LimitOnItsWay, Live
<1> QED BY <1>1, <1>2, CoreUnchanged

\* An acknowledged limit is one the peer has: if it is the one in force, the
\* peer knows it.
LEMMA MaxStreamDataAckedInv ==
    ASSUME RecvInv, NEW l, MaxStreamDataAcked(l)
    PROVE  RecvInv'
<1> USE DEF MaxStreamDataAcked, bufVars, sizeVars, fcVars, needVars, evVars,
            lifeVars
<1>1. TypeOK'
  BY DEF RecvInv, TypeOK
<1>2. LimitOnItsWay'
  <2>1. fc_recv.limit \in Nat /\ l \in Nat /\ peer_stream_limit \in Nat
    BY FieldsAreNat DEF RecvInv, TypeOK
  <2>2. ASSUME ~stopped, l = fc_recv.limit
        PROVE  peer_stream_limit = fc_recv.limit
    BY <2>1, <2>2 DEF RecvInv, LimitOnItsWay
  <2> QED BY <2>2 DEF RecvInv, LimitOnItsWay, Live
<1> QED BY <1>1, <1>2, CoreUnchanged

LEMMA MaxDataAckedInv ==
    ASSUME RecvInv, NEW l, MaxDataAcked(l)
    PROVE  RecvInv'
<1> USE DEF MaxDataAcked, bufVars, sizeVars, fcVars, needVars, evVars, lifeVars
<1>1. TypeOK'
  BY DEF RecvInv, TypeOK
<1>2. LimitOnItsWay'
  BY DEF RecvInv, LimitOnItsWay, Live
<1> QED BY <1>1, <1>2, CoreUnchanged

\* A lost limit raises the flag again.
LEMMA MaxStreamDataLostInv ==
    ASSUME RecvInv, NEW l, MaxStreamDataLost(l)
    PROVE  RecvInv'
<1> USE DEF MaxStreamDataLost, Rearmed, bufVars, sizeVars, fcVars, evVars,
            lifeVars
<1>1. TypeOK'
  <2>1. needs_max_stream_data' \in BOOLEAN
    BY Zenon DEF RecvInv, TypeOK
  <2> QED BY <2>1, ZenonT(60) DEF RecvInv, TypeOK
<1>2. LimitOnItsWay'
  <2>1. Live' => Live /\ needs_max_stream_data'
    BY DEF Live
  <2> QED BY <2>1 DEF RecvInv, LimitOnItsWay
<1> QED BY <1>1, <1>2, CoreUnchanged

LEMMA MaxDataLostInv ==
    ASSUME RecvInv, NEW l, MaxDataLost(l)
    PROVE  RecvInv'
<1> USE DEF MaxDataLost, ConnRearmed, bufVars, sizeVars, fcVars, evVars,
            lifeVars
<1>1. TypeOK'
  BY DEF RecvInv, TypeOK
<1>2. LimitOnItsWay'
  BY DEF RecvInv, LimitOnItsWay, Live
<1> QED BY <1>1, <1>2, CoreUnchanged

LEMMA CreditFramesInv == ASSUME RecvInv, CreditFrames PROVE RecvInv'
BY EmitMaxStreamDataInv, EmitMaxDataInv, EmitStopSendingInv, SMTT(40),
   PeerGetsMaxStreamDataInv, MaxStreamDataAckedInv, MaxStreamDataLostInv,
   PeerGetsMaxDataInv, MaxDataAckedInv, MaxDataLostInv, StopSendingLostInv
   DEF CreditFrames

-----------------------------------------------------------------------------
(* Resets *)

LEMMA PollResetInv == ASSUME RecvInv, PollReset PROVE RecvInv'
<1> USE DEF PollReset, bufVars, sizeVars, fcVars, needVars, netVars
<1>1. TypeOK'
  <2>1. freed' \in BOOLEAN
    BY DEF RecvInv, TypeOK, MaybeCleanup
  <2>2. recv_state' \in RecvStates
    BY DEF RecvInv, TypeOK, RecvStates
  <2>3. resets_queued' \in Nat
    BY DEF RecvInv, TypeOK
  <2> QED BY <2>1, <2>2, <2>3, SMTT(40) DEF RecvInv, TypeOK
<1>2. ReassemblyExact' /\ BufferBounded' /\ SizeIsHighest' /\ StateFits'
  BY DEF RecvInv, ReassemblyExact, BufferBounded, SizeIsHighest, StateFits
<1>3. StreamCredit' /\ WindowsFit' /\ SameUnread' /\ WithinGrantedLimit'
  BY DEF RecvInv, StreamCredit, WindowsFit, SameUnread, WithinGrantedLimit
<1>4. ConnConsumedRead' /\ StoppedIsDrained'
  BY DEF RecvInv, ConnConsumedRead, StoppedIsDrained, HasReadable
<1>5. LimitOnItsWay'
  <2>1. Live' => Live
    BY DEF Live, MaybeCleanup, RecvInv, TypeOK
  <2> QED BY <2>1 DEF RecvInv, LimitOnItsWay
<1> QED BY <1>1, <1>2, <1>3, <1>4, <1>5, SMTT(40) DEF RecvInv

\* The phantom bytes of a RESET_STREAM are received and consumed at once, so
\* what the connection has not consumed stays what the stream has not.
LEMMA ResetAcceptedInv ==
    ASSUME RecvInv, NEW final \in Offsets, ResetAccepted(final), Live
    PROVE  RecvInv'
<1> DEFINE phantom == final - recv_highest_offset
<1> USE RecvStreamAssumption
<1>1. /\ phantom \in Nat
      /\ recv_highest_offset \in Nat /\ final \in Nat
      /\ fin_offset # None => final = fin_offset
      /\ fin_offset # None => phantom = 0
  BY DEF RecvInv, TypeOK, Offsets, ResetAccepted, ResetSizeViolated,
         SizeIsHighest, Live, None
<1>2. conn_fc_recv \in FlowControl /\ fc_recv \in FlowControl
  BY DEF RecvInv, TypeOK
<1>3. conn_fc_recv' = AddConsumed(AddReceived(conn_fc_recv, phantom), phantom)
  BY DEF ResetAccepted, PhantomAccounted
<1> HIDE DEF phantom
<1>4. /\ conn_fc_recv' \in FlowControl
      /\ conn_fc_recv'.received = conn_fc_recv.received + phantom
      /\ conn_fc_recv'.consumed = conn_fc_recv.consumed + phantom
      /\ conn_fc_recv'.limit = conn_fc_recv.limit
      /\ conn_fc_recv'.window = conn_fc_recv.window
  <2> DEFINE c == AddReceived(conn_fc_recv, phantom)
  <2>1. /\ c \in FlowControl
        /\ c.received = conn_fc_recv.received + phantom
        /\ c.consumed = conn_fc_recv.consumed
        /\ c.limit = conn_fc_recv.limit /\ c.window = conn_fc_recv.window
    BY <1>1, <1>2, AddReceivedFacts
  <2>2. conn_fc_recv' = AddConsumed(c, phantom)
    BY <1>3
  <2> HIDE DEF c
  <2>3. c.consumed + phantom \in Nat /\ phantom \in Int
    BY <1>1, <2>1, FieldsAreNat
  <2> QED BY <2>1, <2>2, <2>3, AddConsumedFacts
<1>5. /\ conn_fc_recv.received \in Nat /\ conn_fc_recv.consumed \in Nat
      /\ conn_fc_recv.limit \in Nat /\ conn_fc_recv.window \in Nat
      /\ fc_recv.received \in Nat /\ fc_recv.consumed \in Nat
      /\ fc_recv.limit \in Nat
  BY <1>2, FieldsAreNat
<1>6. /\ recv_state' = IF recv_state \in {"DATA_RECVD", "DATA_READ"}
                       THEN recv_state ELSE "RESET_RECVD"
      /\ recv_highest_offset' = final /\ fin_offset' = final
      /\ UNCHANGED <<have, read_offset, total_received, fc_recv, closed,
                     stopped>>
      /\ closed = "none" /\ final <= fc_recv.limit
      /\ recv_state \notin {"RESET_RECVD", "RESET_READ"}
  BY DEF ResetAccepted, bufVars, Live
<1>7. TypeOK'
  <2>1. freed' \in BOOLEAN
    BY DEF ResetAccepted, MaybeCleanup
  <2>2. recv_state' \in RecvStates
    BY <1>6 DEF RecvInv, TypeOK, RecvStates
  <2>3. resets_queued' \in Nat /\ resets_raised' \in Nat
    BY DEF RecvInv, TypeOK, ResetAccepted
  <2>4. /\ needs_max_stream_data' \in BOOLEAN /\ needs_max_data' \in BOOLEAN
        /\ needs_stop_sending' \in BOOLEAN /\ send_done' \in BOOLEAN
        /\ stop_sending_sent' \in BOOLEAN /\ stopped' \in BOOLEAN
    BY DEF RecvInv, TypeOK, ResetAccepted, needVars, netVars
  <2>5. /\ max_stream_data_sent' \subseteq Nat /\ max_data_sent' \subseteq Nat
        /\ peer_stream_limit' \in Nat /\ peer_conn_limit' \in Nat
        /\ readable' \in {"none", "queued", "told"}
    BY DEF RecvInv, TypeOK, ResetAccepted, netVars
  <2> QED BY <1>4, <1>6, <2>1, <2>2, <2>3, <2>4, <2>5, SMTT(40) DEF RecvInv, TypeOK
<1>8. ReassemblyExact' /\ BufferBounded'
  <2>1. have \subseteq read_offset .. (final - 1) /\ read_offset <= final
    BY <1>1 DEF RecvInv, TypeOK, ReassemblyExact, Offsets, phantom
  <2> QED BY <1>1, <1>6, <2>1, SMTT(40) DEF RecvInv, ReassemblyExact, BufferBounded
<1>9. SizeIsHighest' /\ StateFits'
  BY <1>1, <1>6, SMTT(40) DEF RecvInv, SizeIsHighest, StateFits, None
<1>10. StreamCredit' /\ WindowsFit' /\ SameUnread'
  BY <1>1, <1>4, <1>5, <1>6, SMTT(40)
     DEF RecvInv, StreamCredit, WindowsFit, SameUnread
<1>11. ConnConsumedRead'
  BY <1>1, <1>4, <1>5, <1>6, SMTT(40) DEF RecvInv, ConnConsumedRead, StateFits
<1>12. StoppedIsDrained' /\ WithinGrantedLimit'
  BY <1>1, <1>5, <1>6, SMTT(40) DEF RecvInv, StoppedIsDrained, WithinGrantedLimit, HasReadable
<1>13. LimitOnItsWay'
  BY <1>6 DEF RecvInv, LimitOnItsWay, Live, ResetAccepted, needVars, netVars
<1> QED BY <1>7, <1>8, <1>9, <1>10, <1>11, <1>12, <1>13, SMTT(40) DEF RecvInv

LEMMA ResetStreamFrameInv ==
    ASSUME RecvInv, NEW final \in Offsets, ResetStreamFrame(final)
    PROVE  RecvInv'
<1>1. CASE ResetContradicts(final)
  BY <1>1, CloseInv DEF ResetContradicts, Errors
<1>2. CASE ResetOverStreamLimit(final)
  BY <1>2, CloseInv DEF ResetOverStreamLimit, Errors
<1>3. CASE ResetRepeated(final)
  BY <1>3, StutterInv DEF ResetRepeated
<1>4. CASE ResetOverConnLimit(final)
  BY <1>4, CloseInv DEF ResetOverConnLimit, Errors
<1>5. CASE ResetAccepted(final)
  BY <1>5, ResetAcceptedInv DEF ResetStreamFrame
<1> QED BY <1>1, <1>2, <1>3, <1>4, <1>5 DEF ResetStreamFrame


-----------------------------------------------------------------------------
(* STREAM frames *)

\* The final size a frame leaves behind covers everything received.
LEMMA FinAfterFacts ==
    ASSUME RecvInv, Live, NEW end \in Offsets, NEW fin \in BOOLEAN,
           ~FinalSizeViolated(end, fin)
    PROVE  /\ FinAfter(end, fin) \in Offsets \cup {None}
           /\ fin_offset # None => FinAfter(end, fin) = fin_offset
           /\ FinAfter(end, fin) # None =>
                 /\ recv_highest_offset <= FinAfter(end, fin)
                 /\ end <= FinAfter(end, fin)
           /\ (FinAfter(end, fin) # None /\ end <= recv_highest_offset) =>
                 FinAfter(end, fin) = recv_highest_offset
           /\ (FinAfter(end, fin) # None /\ end > recv_highest_offset) =>
                 FinAfter(end, fin) = end
BY RecvStreamAssumption, SMTT(40)
   DEF RecvInv, TypeOK, ReassemblyExact, SizeIsHighest, Live, FinalSizeViolated,
       FinAfter, Offsets, None

\* RecvBuf.write keeps the buffer exact, inside the limit and bounded.
LEMMA WriteBytesInv ==
    ASSUME RecvInv, Live, NEW off \in Offsets, NEW n \in Offsets,
           NEW fin \in BOOLEAN, off + n <= MaxOffset,
           recv_state \in {"RECV", "SIZE_KNOWN"},
           Admissible(off, n, fin), WriteBytes(off, n, fin)
    PROVE  LET new == Cardinality(NewBytes(off, off + n)) IN
           /\ new \in Nat
           /\ have' \subseteq Offsets /\ read_offset' = read_offset
           /\ total_received' = total_received + new
           /\ total_received' \in Nat
           /\ fin_offset' = FinAfter(off + n, fin)
           /\ fin_offset' \in Offsets \cup {None}
           /\ recv_highest_offset' \in Offsets
           /\ recv_highest_offset' <= fc_recv.limit
           /\ fin_offset' # None => recv_highest_offset' = fin_offset'
           /\ total_received' <= recv_highest_offset'
           /\ ReassemblyExact' /\ BufferBounded'
<1>0. /\ Cardinality(NewBytes(off, off + n)) \in Nat
      /\ NewBytes(off, off + n) \subseteq read_offset .. ((off + n) - 1)
      /\ Cardinality(have \cup NewBytes(off, off + n))
           = Cardinality(have) + Cardinality(NewBytes(off, off + n))
  BY WriteFacts, ZenonT(60)
<1> DEFINE end == off + n
           nb  == NewBytes(off, off + n)
           top == IF end > recv_highest_offset THEN end ELSE recv_highest_offset
<1> USE RecvStreamAssumption
<1>1. end \in Offsets /\ end \in Nat /\ end <= MaxOffset
  BY DEF Offsets
<1>2. /\ have' = have \cup nb /\ read_offset' = read_offset
      /\ total_received' = total_received + Cardinality(nb)
      /\ fin_offset' = FinAfter(end, fin)
      /\ recv_highest_offset' = top
  BY DEF WriteBytes
<1>3. ~FinalSizeViolated(end, fin) /\ end <= fc_recv.limit
  BY DEF Admissible
<1>4. /\ Cardinality(nb) \in Nat
      /\ nb \subseteq read_offset .. (end - 1)
      /\ Cardinality(have \cup nb) = Cardinality(have) + Cardinality(nb)
  BY <1>0
<1>5. /\ ~stopped /\ fc_recv.consumed = read_offset
      /\ recv_highest_offset <= fc_recv.limit
      /\ fc_recv.limit <= read_offset + StreamMaxWindow
      /\ fc_recv.limit \in Nat
  BY FieldsAreNat, SMTT(40) DEF RecvInv, TypeOK, StateFits, StreamCredit, WithinGrantedLimit
<1> HIDE DEF nb, end
<1>6. /\ top \in Nat /\ top \in Offsets /\ recv_highest_offset <= top
      /\ end <= top /\ top <= fc_recv.limit /\ read_offset <= top
  BY <1>1, <1>3, <1>5, HaveFacts, SMTT(40) DEF Offsets
<1>7. FinAfter(end, fin) # None => top = FinAfter(end, fin)
  BY <1>1, <1>3, FinAfterFacts, HaveFacts, SMTT(40) DEF Offsets
<1>8. FinAfter(end, fin) \in Offsets \cup {None}
  BY <1>1, <1>3, FinAfterFacts
<1> HIDE DEF top
<1>9. have \cup nb \subseteq read_offset .. (top - 1)
  <2>1. ASSUME NEW b \in have PROVE b \in read_offset .. (top - 1)
    BY <1>6, HaveFacts
  <2>2. ASSUME NEW b \in nb PROVE b \in read_offset .. (top - 1)
    <3>1. b \in read_offset .. (end - 1)
      BY <1>4
    <3> QED BY <1>1, <1>6, <3>1, HaveFacts
  <2> QED BY <2>1, <2>2
<1>10. have \cup nb \subseteq read_offset .. (fc_recv.limit - 1)
  BY <1>5, <1>6, <1>9, HaveFacts, SMTT(40)
<1>11. Cardinality(have \cup nb) <= top - read_offset
  BY <1>6, <1>9, HaveFacts, InsideInterval, Zenon
<1>12. Cardinality(have \cup nb) <= fc_recv.limit - read_offset
  <2>1. read_offset \in Nat /\ fc_recv.limit \in Nat /\ read_offset <= fc_recv.limit
    BY <1>5, <1>6, HaveFacts
  <2> QED BY <1>10, <2>1, InsideInterval, ZenonT(60)
<1>13. /\ total_received = read_offset + Cardinality(have)
       /\ total_received \in Nat
  BY DEF RecvInv, TypeOK, ReassemblyExact
<1>14. /\ total_received + Cardinality(nb) = read_offset + Cardinality(have \cup nb)
       /\ total_received + Cardinality(nb) \in Nat
  BY <1>4, <1>13, HaveFacts, SMTT(40)
<1>15. total_received + Cardinality(nb) <= top
  BY <1>4, <1>6, <1>11, <1>13, <1>14, HaveFacts, SMTT(40)
<1>16. Cardinality(have \cup nb) <= StreamMaxWindow
  BY <1>4, <1>5, <1>12, HaveFacts, SMTT(40)
<1>17. have \cup nb \subseteq Offsets
  BY <1>6, <1>9, HaveFacts, SMTT(40) DEF Offsets
<1>18. ReassemblyExact'
  <2>1. fin_offset' # None => recv_highest_offset' <= fin_offset'
    BY <1>2, <1>6, <1>7
  <2> QED BY <1>2, <1>6, <1>9, <1>14, <2>1 DEF ReassemblyExact
<1>19. BufferBounded'
  BY <1>2, <1>16, SMTT(40) DEF BufferBounded
<1> QED BY <1>2, <1>4, <1>6, <1>7, <1>8, <1>14, <1>15, <1>17, <1>18, <1>19, SMTT(40)
        DEF nb, end
=============================================================================
