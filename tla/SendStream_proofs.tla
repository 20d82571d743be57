------------------------- MODULE SendStream_proofs -------------------------
(* Proofs about the sending side of a stream, for every bound. *)
EXTENDS SendStream, NatLemmas, TLAPS

\* The prefix after absorbing parked ranges: it stops at the first byte that
\* is not acked, which lies no higher than the highest byte sent.
LEMMA AbsorbProps ==
    ASSUME SendInv, NEW e \in Nat, e <= highest_sent_offset
    PROVE  /\ Absorb(e) \in Nat
           /\ e <= Absorb(e) /\ Absorb(e) <= highest_sent_offset
           /\ Absorb(e) \notin acked_above
           /\ e .. (Absorb(e) - 1) \subseteq acked_above
<1> DEFINE T == {m \in e .. TotalDataEnd : m \notin acked_above}
<1> DEFINE P(m) == m \notin acked_above /\ e .. (m - 1) \subseteq acked_above
<1>1. /\ highest_sent_offset \in Nat /\ TotalDataEnd \in Nat
      /\ highest_sent_offset <= TotalDataEnd
      /\ \A b \in acked_above : b < highest_sent_offset
      /\ acked_above \subseteq Nat
  BY DEF SendInv, TypeOK, CursorInsideBuffer, FramedBelowHighest, TotalDataEnd
<1>2. T \in SUBSET Nat /\ T # {}
  <2>1. highest_sent_offset \in T
    BY <1>1
  <2> QED BY <1>1, <2>1
<1>3. PICK x \in T : \A y \in T : x <= y
  BY <1>2, LeastNatural, Zenon
<1>4. x \in e .. TotalDataEnd /\ P(x)
  <2>1. x \in e .. TotalDataEnd /\ x \notin acked_above
    OBVIOUS
  <2>2. ASSUME NEW b \in e .. (x - 1) PROVE b \in acked_above
    BY <1>1, <1>3, <2>1
  <2> QED BY <2>1, <2>2
<1>5. Absorb(e) \in e .. TotalDataEnd /\ P(Absorb(e))
  <2> HIDE DEF P, T
  <2>1. Absorb(e) = CHOOSE m \in e .. TotalDataEnd : P(m)
    BY DEF Absorb, P
  <2> QED BY <1>4, <2>1
<1>6. Absorb(e) <= highest_sent_offset
  <2> SUFFICES ASSUME highest_sent_offset < Absorb(e) PROVE FALSE
    BY <1>1, <1>5
  <2>1. highest_sent_offset \in e .. (Absorb(e) - 1)
    BY <1>1, <1>5
  <2> QED BY <1>1, <1>5, <2>1
<1> QED BY <1>1, <1>5, <1>6

LEMMA InitInv == Init => SendInv
<1> SUFFICES ASSUME Init PROVE SendInv
  OBVIOUS
<1>1. TypeOK
  BY SendStreamAssumption, Zenon DEF Init, TypeOK, SendStates, None
<1>2. CursorInsideBuffer /\ WithinCredit /\ FinAtEnd
  BY SendStreamAssumption
     DEF Init, CursorInsideBuffer, WithinCredit, FinAtEnd, TotalDataEnd, None
<1>3. AckedExactly /\ FramedBelowHighest
  BY DEF Init, AckedExactly, FramedBelowHighest
<1>4. NoByteForgotten /\ FinalSizeAgrees
  BY DEF Init, NoByteForgotten, FinalSizeAgrees, TotalDataEnd
<1> QED BY <1>1, <1>2, <1>3, <1>4 DEF SendInv

LEMMA WriteInv ==
    ASSUME SendInv, NEW n \in 0 .. MaxData, NEW f \in BOOLEAN,
           SendStreamData(n, f)
    PROVE  SendInv'
<1> USE SendStreamAssumption DEF SendInv, SendStreamData, fcVars, rstVars,
        histVars, TotalDataEnd, HasPending
<1>1. TypeOK'
  BY DEF TypeOK
<1>2. CursorInsideBuffer'
  BY DEF TypeOK, CursorInsideBuffer
<1>3. NoByteForgotten'
  <2> SUFFICES ASSUME NEW b \in 0 .. (TotalDataEnd' - 1)
               PROVE  \/ b < acked_offset \/ b \in acked_above
                      \/ b >= unsent_offset
                      \/ \E r \in app_frames_sent : b \in Covered(r)
    BY DEF NoByteForgotten, Covered
  <2>1. CASE b < offset + live
    BY <2>1 DEF TypeOK, NoByteForgotten
  <2>2. CASE b >= offset + live
    BY <2>2 DEF TypeOK, CursorInsideBuffer
  <2> QED BY <2>1, <2>2 DEF TypeOK
<1>4. AckedExactly' /\ WithinCredit' /\ FramedBelowHighest'
  BY DEF AckedExactly, WithinCredit, FramedBelowHighest
<1>5. FinalSizeAgrees'
  BY DEF FinalSizeAgrees
<1>6. FinAtEnd'
  BY DEF TypeOK, FinAtEnd
<1> QED BY <1>1, <1>2, <1>3, <1>4, <1>5, <1>6

\* What a limit within the stream's credit lets prepare_frame cut.
LEMMA ChunkProps ==
    ASSUME SendInv, NEW cap \in 0 .. MaxFrame
    PROVE  LET n == ChunkSize(MinOf(cap, StreamAvail)) IN
           /\ n \in Nat
           /\ unsent_offset + n <= TotalDataEnd
           /\ unsent_offset + n <= fc_limit
BY SendStreamAssumption
   DEF SendInv, TypeOK, CursorInsideBuffer, WithinCredit, ChunkSize, MinOf,
       MaxOf, StreamAvail, TotalDataEnd

LEMMA FrameInv ==
    ASSUME SendInv, MaySend, NEW cap \in 0 .. MaxFrame,
           FrameOut(MinOf(cap, StreamAvail))
    PROVE  SendInv'
<1> DEFINE limit == MinOf(cap, StreamAvail)
           n == ChunkSize(limit)
           f == IncludeFin(limit)
           end == unsent_offset + n
           new == [pn |-> next_pn, off |-> unsent_offset, len |-> n, fin |-> f]
<1>1. n \in Nat /\ end <= TotalDataEnd /\ end <= fc_limit
  BY ChunkProps
<1>2. f \in BOOLEAN
      /\ (f => fin /\ fin_offset = None /\ end = TotalDataEnd)
  BY <1>1 DEF IncludeFin, FinPending, SendInv, TypeOK, TotalDataEnd
<1>3. /\ fin_offset' = IF f THEN end ELSE fin_offset
      /\ unsent_offset' = end
      /\ highest_sent_offset' = MaxOf(highest_sent_offset, end)
      /\ fc_received' = MaxOf(fc_received, end)
      /\ send_state' = IF f THEN "DATA_SENT"
                       ELSE IF send_state = "READY" THEN "SEND" ELSE send_state
      /\ app_frames_sent' = app_frames_sent \cup {new}
      /\ next_pn' = next_pn + 1
      /\ fin_framed' = IF f THEN end ELSE fin_framed
      /\ sendable' = HasPending'
      /\ UNCHANGED <<offset, live, acked_offset, acked_above, fin, fin_acked,
                     fc_limit, rstVars, acked_bytes, fin_frame_acked>>
  BY DEF FrameOut
<1> HIDE DEF n, f, end
<1> USE DEF SendInv, TotalDataEnd, rstVars, MaxOf
<1>4. TypeOK'
  <2>1. end \in Nat
    BY <1>1 DEF TypeOK, end
  <2>2. new \in Records
    BY <1>1, <1>2 DEF TypeOK, Records
  <2>3. HasPending' \in BOOLEAN
    BY DEF HasPending
  <2>4. send_state' \in SendStates
    BY <1>2, <1>3 DEF TypeOK, SendStates
  <2> HIDE DEF new
  <2> QED BY <1>2, <1>3, <2>1, <2>2, <2>3, <2>4 DEF TypeOK
<1>5. CursorInsideBuffer' /\ WithinCredit'
  BY <1>1, <1>3 DEF TypeOK, CursorInsideBuffer, WithinCredit, end
<1>6. AckedExactly'
  BY <1>3 DEF AckedExactly
<1>7. NoByteForgotten'
  <2> SUFFICES ASSUME NEW b \in 0 .. (offset + live - 1),
                      ~(b < acked_offset), b \notin acked_above, b < end
               PROVE  \E r \in app_frames_sent' : b \in Covered(r)
    BY <1>1, <1>3 DEF NoByteForgotten, Covered, TypeOK, end
  <2>1. CASE b >= unsent_offset
    <3>1. b \in Covered(new)
      BY <1>1, <2>1 DEF Covered, TypeOK, end
    <3> QED BY <1>3, <3>1
  <2>2. CASE b < unsent_offset
    <3>1. PICK r \in app_frames_sent : b \in Covered(r)
      BY <2>2 DEF NoByteForgotten, TypeOK
    <3> QED BY <1>3, <3>1
  <2> QED BY <2>1, <2>2 DEF TypeOK
<1>8. FinalSizeAgrees'
  BY <1>2, <1>3 DEF FinalSizeAgrees, MaySend
<1>9. FramedBelowHighest'
  <2>1. new.off + new.len <= highest_sent_offset'
    BY <1>1, <1>3 DEF TypeOK, end
  <2>2. highest_sent_offset <= highest_sent_offset'
    BY <1>1, <1>3 DEF TypeOK, end
  <2>3. \A r \in app_frames_sent : r.off \in Nat /\ r.len \in Nat
    BY DEF TypeOK, Records
  <2>4. highest_sent_offset' \in Nat /\ highest_sent_offset \in Nat
    BY <1>4 DEF TypeOK
  <2> HIDE DEF new
  <2> QED BY <1>3, <2>1, <2>2, <2>3, <2>4 DEF FramedBelowHighest, TypeOK
<1>10. FinAtEnd'
  BY <1>1, <1>2, <1>3 DEF FinAtEnd, CursorInsideBuffer, TypeOK, None, end
<1> QED BY <1>4, <1>5, <1>6, <1>7, <1>8, <1>9, <1>10

LEMMA AckInv ==
    ASSUME SendInv, NEW r \in app_frames_sent, OnStreamAcked(r)
    PROVE  SendInv'
<1> DEFINE off == r.off
           n == r.len
           m == AckedAfter(off, n)
<1>1. /\ off \in Nat /\ n \in Nat /\ r.fin \in BOOLEAN
      /\ off + n <= highest_sent_offset
  BY DEF SendInv, TypeOK, Records, FramedBelowHighest
<1>2. /\ offset \in Nat /\ live \in Nat /\ acked_offset \in Nat
      /\ unsent_offset \in Nat /\ highest_sent_offset \in Nat
      /\ offset = acked_offset /\ offset <= unsent_offset
      /\ unsent_offset <= highest_sent_offset
      /\ highest_sent_offset <= offset + live
      /\ acked_above \subseteq Nat
      /\ \A b \in acked_above : b > acked_offset /\ b < highest_sent_offset
  BY DEF SendInv, TypeOK, CursorInsideBuffer, TotalDataEnd, AckedExactly,
         FramedBelowHighest
\* The prefix never shrinks, stays below the highest byte sent, and grows
\* only over the acked record and the parked bytes it reaches.
<1>3. /\ m \in Nat /\ acked_offset <= m /\ m <= highest_sent_offset
      /\ ~Advances(off, n) => m = acked_offset
      /\ Advances(off, n) => /\ off + n <= m
                             /\ m \notin acked_above
                             /\ (off + n) .. (m - 1) \subseteq acked_above
  <2>1. CASE Advances(off, n)
    <3>1. m = Absorb(off + n)
      BY <2>1 DEF AckedAfter
    <3> QED BY <1>1, <1>2, <2>1, <3>1, AbsorbProps DEF Advances
  <2>2. CASE ~Advances(off, n)
    BY <1>2, <2>2 DEF AckedAfter
  <2> QED BY <2>1, <2>2
<1>4. /\ acked_offset' = m
      /\ acked_above' = ParkedAfter(off, n)
      /\ unsent_offset' = MaxOf(unsent_offset, m)
      /\ offset' = m
      /\ live' = live - (m - offset)
      /\ UNCHANGED <<highest_sent_offset, fin, fin_offset>>
  BY <1>2, <1>3
     DEF OnStreamAcked, OnAck, UnsentAfterAck, TrimAfterAck, MinOf, MaxOf
<1>5. /\ app_frames_sent' = app_frames_sent \ {r}
      /\ acked_bytes' = acked_bytes \cup Covered(r)
      /\ fin_frame_acked' = (fin_frame_acked \/ r.fin)
      /\ UNCHANGED <<fcVars, sendable, rstVars, next_pn, fin_framed>>
      /\ fin_acked' \in BOOLEAN
      /\ send_state' \in {send_state, "DATA_RECVD"}
  BY DEF OnStreamAcked, OnAck, SendInv, TypeOK
\* A byte is acked or parked afterwards exactly when it was before or the
\* record covers it.
<1>6. /\ acked_above' \subseteq Nat
      /\ \A b \in acked_above' : b > m /\ b < highest_sent_offset
      /\ \A b \in Nat : (b < m \/ b \in acked_above') <=>
                        (b < acked_offset \/ b \in acked_above
                                          \/ b \in Covered(r))
  <2>1. CASE Parks(off, n)
    <3>1. ~Advances(off, n) /\ m = acked_offset
      BY <1>1, <1>2, <1>3, <2>1 DEF Parks, Advances
    <3>2. acked_above' = acked_above \cup (off .. (off + n - 1))
      BY <1>4, <2>1, <3>1 DEF ParkedAfter
    <3>3. \A b \in off .. (off + n - 1) :
             b \in Nat /\ b > m /\ b < highest_sent_offset
      BY <1>1, <1>2, <2>1, <3>1 DEF Parks
    <3>4. Covered(r) = off .. (off + n - 1)
      BY DEF Covered
    <3> HIDE DEF m, off, n
    <3> QED BY <1>2, <3>1, <3>2, <3>3, <3>4, Zenon
  <2>2. CASE Advances(off, n)
    <3>1. acked_above' = {b \in acked_above : b > m}
      BY <1>1, <1>2, <1>4, <2>2 DEF ParkedAfter, Parks, Advances
    <3>2. ASSUME NEW b \in Nat
          PROVE  (b < m \/ b \in acked_above') <=>
                 (b < acked_offset \/ b \in acked_above \/ b \in Covered(r))
      BY <1>1, <1>2, <1>3, <2>2, <3>1 DEF Covered, Advances
    <3> QED BY <1>2, <3>1, <3>2, ZenonT(60)
  <2>3. CASE ~Parks(off, n) /\ ~Advances(off, n)
    <3>1. acked_above' = acked_above /\ m = acked_offset
      BY <1>3, <1>4, <2>3 DEF ParkedAfter
    <3>2. \A b \in Covered(r) : b < acked_offset
      BY <1>1, <1>2, <2>3 DEF Parks, Advances, Covered
    <3> QED BY <1>2, <3>1, <3>2
  <2> QED BY <2>1, <2>2, <2>3
<1> HIDE DEF m
<1>7. TypeOK'
  <2>1. offset' \in Nat /\ live' \in Nat /\ unsent_offset' \in Nat
        /\ acked_offset' \in Nat
    BY <1>2, <1>3, <1>4 DEF MaxOf
  <2>2. acked_bytes' \in SUBSET Nat
    <3>1. Covered(r) \subseteq Nat
      BY <1>1 DEF Covered
    <3> QED BY <1>5, <3>1, Zenon DEF SendInv, TypeOK
  <2>3. send_state' \in SendStates
    BY <1>5 DEF SendInv, TypeOK, SendStates
  <2>4. fin_frame_acked' \in BOOLEAN
    BY <1>1, <1>5 DEF SendInv, TypeOK
  <2> QED BY <1>4, <1>5, <1>6, <2>1, <2>2, <2>3, <2>4
          DEF SendInv, TypeOK, fcVars, rstVars
<1>8. CursorInsideBuffer'
  BY <1>2, <1>3, <1>4 DEF CursorInsideBuffer, TotalDataEnd, MaxOf
<1>9. AckedExactly'
  <2>1. acked_bytes' \subseteq Nat
    BY <1>7 DEF TypeOK
  <2>2. ASSUME NEW b \in Nat
        PROVE  b \in acked_bytes' <=> b \in (0 .. (m - 1)) \cup acked_above'
    <3>1. b \in acked_bytes' <=> (b < m \/ b \in acked_above')
      BY <1>2, <1>5, <1>6 DEF SendInv, AckedExactly
    <3>2. b < m <=> b \in 0 .. (m - 1)
      BY <1>3
    <3> QED BY <3>1, <3>2
  <2>3. (0 .. (m - 1)) \subseteq Nat
    BY <1>3
  <2>4. acked_bytes' = (0 .. (m - 1)) \cup acked_above'
    BY <1>6, <2>1, <2>2, <2>3, Zenon
  <2> QED BY <1>4, <1>6, <2>4 DEF AckedExactly
<1>10. NoByteForgotten'
  <2> SUFFICES ASSUME NEW b \in 0 .. (TotalDataEnd - 1),
                      ~(b < m), b \notin acked_above', b < unsent_offset'
               PROVE  \E q \in app_frames_sent' : b \in Covered(q)
    <3>1. TotalDataEnd' = TotalDataEnd
      BY <1>2, <1>3, <1>4 DEF TotalDataEnd
    <3>2. TotalDataEnd \in Nat /\ unsent_offset' \in Nat
      BY <1>2, <1>3, <1>4 DEF TotalDataEnd, MaxOf
    <3>3. \A b, q : b \in Covered(q)' <=> b \in Covered(q)
      BY DEF Covered
    <3> QED BY <1>4, <3>1, <3>2, <3>3 DEF NoByteForgotten
  <2>1. b \in Nat /\ ~(b < acked_offset) /\ b \notin acked_above
        /\ b \notin Covered(r)
    BY <1>2, <1>6 DEF TotalDataEnd
  <2>2. b < unsent_offset
    BY <1>2, <1>3, <1>4, <2>1 DEF MaxOf
  <2>3. PICK q \in app_frames_sent : b \in Covered(q)
    BY <1>2, <2>1, <2>2 DEF SendInv, NoByteForgotten
  <2> QED BY <1>5, <2>1, <2>3
<1>11. FinalSizeAgrees' /\ WithinCredit'
  BY <1>4, <1>5 DEF SendInv, FinalSizeAgrees, WithinCredit, fcVars, rstVars
<1>12. FramedBelowHighest'
  BY <1>4, <1>5, <1>6 DEF SendInv, FramedBelowHighest
<1>13. FinAtEnd'
  BY <1>2, <1>3, <1>4, <1>5 DEF SendInv, FinAtEnd, TotalDataEnd
<1> QED BY <1>7, <1>8, <1>9, <1>10, <1>11, <1>12, <1>13 DEF SendInv

LEMMA LossInv ==
    ASSUME SendInv, NEW r \in app_frames_sent, OnStreamLost(r)
    PROVE  SendInv'
<1> DEFINE off == r.off
           n == r.len
<1>1. /\ off \in Nat /\ n \in Nat
      /\ offset \in Nat /\ live \in Nat /\ acked_offset \in Nat
      /\ unsent_offset \in Nat /\ highest_sent_offset \in Nat
      /\ offset = acked_offset /\ offset <= unsent_offset
      /\ unsent_offset <= highest_sent_offset
  BY DEF SendInv, TypeOK, Records, CursorInsideBuffer
<1>2. /\ app_frames_sent' = app_frames_sent \ {r}
      /\ unsent_offset' = UnsentAfterLoss(off, n)
      /\ fin_offset' \in {fin_offset, None}
      /\ fin_acked' \in BOOLEAN /\ sendable' \in BOOLEAN
      /\ UNCHANGED <<offset, live, highest_sent_offset, acked_offset,
                     acked_above, fin, send_state, fcVars, rstVars, next_pn,
                     histVars>>
  BY DEF OnStreamLost, OnLoss, SendInv, TypeOK, HasPending
\* The cursor moves down to the lost bytes, but not below the acked prefix.
<1>3. /\ unsent_offset' \in Nat
      /\ acked_offset <= unsent_offset' /\ unsent_offset' <= unsent_offset
      /\ n > 0 => unsent_offset' <= off \/ unsent_offset' = acked_offset
  BY <1>1, <1>2 DEF UnsentAfterLoss, MinOf, MaxOf
<1>4. TypeOK'
  BY <1>2, <1>3 DEF SendInv, TypeOK, fcVars, rstVars, histVars
<1>5. CursorInsideBuffer'
  BY <1>1, <1>2, <1>3 DEF SendInv, CursorInsideBuffer, TotalDataEnd
<1>6. AckedExactly' /\ FinalSizeAgrees' /\ WithinCredit'
  BY <1>2 DEF SendInv, AckedExactly, FinalSizeAgrees, WithinCredit,
              fcVars, rstVars, histVars
<1>7. NoByteForgotten'
  <2> SUFFICES ASSUME NEW b \in 0 .. (TotalDataEnd - 1),
                      ~(b < acked_offset), b \notin acked_above,
                      b < unsent_offset'
               PROVE  \E q \in app_frames_sent' : b \in Covered(q)
    <3>1. TotalDataEnd' = TotalDataEnd /\ TotalDataEnd \in Nat
      BY <1>1, <1>2 DEF TotalDataEnd
    <3>2. \A b, q : b \in Covered(q)' <=> b \in Covered(q)
      BY DEF Covered
    <3> QED BY <1>2, <1>3, <3>1, <3>2 DEF NoByteForgotten
  <2>1. b \in Nat /\ b < unsent_offset
    BY <1>1, <1>3 DEF TotalDataEnd
  <2>2. PICK q \in app_frames_sent : b \in Covered(q)
    BY <1>1, <2>1 DEF SendInv, NoByteForgotten
  <2>3. b \notin Covered(r)
    BY <1>1, <1>3, <2>1 DEF Covered
  <2> QED BY <1>2, <2>2, <2>3
<1>8. FramedBelowHighest'
  BY <1>2 DEF SendInv, FramedBelowHighest
<1>9. FinAtEnd'
  BY <1>2 DEF SendInv, FinAtEnd, TotalDataEnd, histVars
<1> QED BY <1>4, <1>5, <1>6, <1>7, <1>8, <1>9 DEF SendInv

\* The remaining steps leave the buffer and the records alone.
LEMMA ResetInv ==
    ASSUME SendInv,
           ResetStream \/ EmitResetStream \/ OnResetAcked \/ OnResetLost
    PROVE  SendInv'
<1> USE DEF SendInv, bufVars, fcVars, histVars
<1>1. UNCHANGED <<bufVars, fcVars, histVars, app_frames_sent>>
  BY DEF ResetStream, EmitResetStream, OnResetAcked, OnResetLost
<1>2. TypeOK'
  <2>1. ResetFinalSize \in Nat
    BY DEF TypeOK, ResetFinalSize, MaxOf
  <2>2. /\ send_state' \in SendStates
        /\ needs_reset_stream' \in BOOLEAN /\ reset_in_flight' \in BOOLEAN
        /\ reset_stream_final_size' \in Nat
        /\ sendable' \in BOOLEAN /\ next_pn' \in Nat
    <3>1. CASE ResetStream
      BY <2>1, <3>1, Zenon DEF TypeOK, SendStates, ResetStream
    <3>2. CASE EmitResetStream
      <4>1. /\ UNCHANGED <<send_state, sendable, reset_stream_final_size>>
            /\ needs_reset_stream' = FALSE /\ reset_in_flight' = TRUE
            /\ next_pn' = next_pn + 1
        BY <3>2 DEF EmitResetStream
      <4>2. next_pn' \in Nat
        BY <4>1 DEF TypeOK
      <4>3. /\ send_state' \in SendStates /\ sendable' \in BOOLEAN
            /\ reset_stream_final_size' \in Nat
        BY <4>1 DEF TypeOK
      <4> QED BY <4>1, <4>2, <4>3, Zenon
    <3>3. CASE OnResetAcked
      <4>1. send_state' \in SendStates
        BY <3>3 DEF TypeOK, SendStates, OnResetAcked
      <4>2. UNCHANGED <<needs_reset_stream, reset_stream_final_size, sendable,
                        next_pn>> /\ reset_in_flight' = FALSE
        BY <3>3 DEF OnResetAcked
      <4> QED BY <4>1, <4>2, Zenon DEF TypeOK
    <3>4. CASE OnResetLost
      BY <3>4, Zenon DEF TypeOK, OnResetLost
    <3> QED BY <3>1, <3>2, <3>3, <3>4
  <2> QED BY <1>1, <2>2 DEF TypeOK
<1>3. FinalSizeAgrees'
  <2>1. CASE ResetStream
    <3>1. ResetFinalSize = highest_sent_offset
      BY DEF TypeOK, ResetFinalSize, MaxOf, FinAtEnd
    <3>2. fin_framed # None => highest_sent_offset = fin_framed
      BY DEF FinAtEnd
    <3> QED BY <1>1, <2>1, <3>1, <3>2 DEF ResetStream, FinalSizeAgrees
  <2>2. CASE EmitResetStream
    BY <1>1, <2>2 DEF EmitResetStream, FinalSizeAgrees
  <2>3. CASE OnResetAcked
    BY <1>1, <2>3 DEF OnResetAcked, FinalSizeAgrees
  <2>4. CASE OnResetLost
    BY <1>1, <2>4 DEF OnResetLost, FinalSizeAgrees
  <2> QED BY <2>1, <2>2, <2>3, <2>4
<1>4. /\ CursorInsideBuffer' /\ AckedExactly' /\ WithinCredit'
      /\ FramedBelowHighest' /\ FinAtEnd' /\ NoByteForgotten'
  BY <1>1 DEF CursorInsideBuffer, AckedExactly, WithinCredit,
              FramedBelowHighest, FinAtEnd, NoByteForgotten, TotalDataEnd,
              Covered
<1> QED BY <1>2, <1>3, <1>4

LEMMA MaxStreamDataInv ==
    ASSUME SendInv, NEW mx \in 0 .. MaxLimit, OnMaxStreamData(mx)
    PROVE  SendInv'
<1> USE DEF SendInv, bufVars, rstVars, histVars
<1>1. /\ UNCHANGED <<bufVars, histVars, app_frames_sent, send_state, rstVars,
                     fc_received, next_pn>>
      /\ fc_limit' = MaxOf(fc_limit, mx)
      /\ sendable' \in BOOLEAN
  BY DEF OnMaxStreamData, TypeOK, HasPending
<1>2. TypeOK' /\ WithinCredit'
  BY <1>1, SendStreamAssumption DEF TypeOK, WithinCredit, MaxOf
<1>3. /\ CursorInsideBuffer' /\ AckedExactly' /\ FinalSizeAgrees'
      /\ FramedBelowHighest' /\ FinAtEnd' /\ NoByteForgotten'
  BY <1>1 DEF CursorInsideBuffer, AckedExactly, FinalSizeAgrees,
              FramedBelowHighest, FinAtEnd, NoByteForgotten, TotalDataEnd,
              Covered
<1> QED BY <1>2, <1>3

LEMMA StutterInv == SendInv /\ UNCHANGED vars => SendInv'
BY DEF SendInv, vars, bufVars, fcVars, rstVars, histVars, TypeOK,
       CursorInsideBuffer, AckedExactly, FinalSizeAgrees, WithinCredit,
       FramedBelowHighest, FinAtEnd, NoByteForgotten, TotalDataEnd, Covered

\* One step of the stream, whatever it is, preserves the invariant.
LEMMA StepInv == SendInv /\ [Next]_vars => SendInv'
<1> SUFFICES ASSUME SendInv, [Next]_vars PROVE SendInv'
  OBVIOUS
<1>1. CASE \E n \in 0 .. MaxData, f \in BOOLEAN : SendStreamData(n, f)
  BY <1>1, WriteInv
<1>2. CASE \E cap \in 0 .. MaxFrame : EmitStreamFrames(cap)
  <2> PICK cap \in 0 .. MaxFrame : EmitStreamFrames(cap)
    BY <1>2
  <2>1. CASE MaySend /\ FrameOut(MinOf(cap, StreamAvail))
    BY <2>1, FrameInv
  <2>2. CASE /\ sendable' = FALSE
             /\ UNCHANGED <<send_state, bufVars, fcVars, rstVars,
                            app_frames_sent, next_pn, histVars>>
    BY <2>2, ZenonT(60)
       DEF SendInv, bufVars, fcVars, rstVars, histVars, TypeOK,
           CursorInsideBuffer, AckedExactly, FinalSizeAgrees, WithinCredit,
           FramedBelowHighest, FinAtEnd, NoByteForgotten, TotalDataEnd, Covered
  <2> QED BY <2>1, <2>2, Zenon DEF EmitStreamFrames
<1>3. CASE \E r \in app_frames_sent : OnStreamAcked(r) \/ OnStreamLost(r)
  BY <1>3, AckInv, LossInv
<1>4. CASE ResetStream \/ EmitResetStream \/ OnResetAcked \/ OnResetLost
  BY <1>4, ResetInv
<1>5. CASE \E mx \in 0 .. MaxLimit : OnMaxStreamData(mx)
  BY <1>5, MaxStreamDataInv
<1>6. CASE UNCHANGED vars
  BY <1>6, StutterInv
<1> QED BY <1>1, <1>2, <1>3, <1>4, <1>5, <1>6 DEF Next

\* The sending side keeps its inductive invariant for every amount of data,
\* frame size and credit, and every order of ACKs and losses.
THEOREM SendInvariant == Spec => []SendInv
<1> QED BY InitInv, StepInv, PTL DEF Spec

\* SendBuf never cuts a frame outside its buffer and never trims a byte that
\* was not acknowledged, for every bound.
THEOREM SendCursorSafe == Spec => [](CursorInsideBuffer /\ AckedExactly)
<1>1. SendInv => CursorInsideBuffer /\ AckedExactly
  BY DEF SendInv
<1> QED BY <1>1, SendInvariant, PTL

\* No byte the application wrote is ever dropped by the sender: it stays
\* acknowledged, in flight or due to be sent, for every bound.
THEOREM SendNoByteForgotten == Spec => []NoByteForgotten
<1>1. SendInv => NoByteForgotten
  BY DEF SendInv
<1> QED BY <1>1, SendInvariant, PTL

\* A RESET_STREAM's final size never contradicts what was framed, and no
\* frame exceeds the peer's limit, for every bound.
THEOREM SendFinalSizeAndCredit == Spec => [](FinalSizeAgrees /\ WithinCredit)
<1>1. SendInv => FinalSizeAgrees /\ WithinCredit
  BY DEF SendInv
<1> QED BY <1>1, SendInvariant, PTL

\* After a reset, or once fully acknowledged, no STREAM frame is framed
\* again: SilentAfterEnd for every bound.
THEOREM SendSilentAfterEnd == Spec => SilentAfterEnd
<1> DEFINE A == (send_state \in {"RESET_SENT", "RESET_RECVD", "DATA_RECVD"})
                    => (app_frames_sent' \subseteq app_frames_sent)
<1>1. [Next]_vars => [A]_vars
  <2> SUFFICES ASSUME Next, ~MaySend,
                      ~(app_frames_sent' \subseteq app_frames_sent)
               PROVE  FALSE
    BY DEF MaySend
  <2> QED BY DEF Next, SendStreamData, EmitStreamFrames, OnStreamAcked,
              OnStreamLost, ResetStream, EmitResetStream, OnResetAcked,
              OnResetLost, OnMaxStreamData, MaySend
<1> QED BY <1>1, PTL DEF Spec, SilentAfterEnd
=============================================================================
