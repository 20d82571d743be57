-------------------------- MODULE StreamMap_proofs --------------------------
(***************************************************************************)
(* StreamMapInv is an invariant of the stream map, for every credit, every *)
(* governor and every number of streams and losses.  The bound on the live *)
(* streams is the one conjunct about cardinalities: it follows from the    *)
(* others, since the streams opened are the live and the freed ones.       *)
(***************************************************************************)
EXTENDS StreamMap, FiniteSetTheorems, TLAPS

\* The live streams and the freed ones share the numbers below peer_opened,
\* and peer_opened runs at most initial_max_streams ahead of the freed ones.
LEMMA LiveStreamsBounded ==
  ASSUME NEW S, NEW F, NEW opened \in Nat, NEW limit \in Nat,
         S \cup F = 0 .. (opened - 1), S \cap F = {},
         opened <= limit, limit <= Cardinality(F) + InitialMaxStreams
  PROVE  /\ IsFiniteSet(S) /\ IsFiniteSet(F)
         /\ Cardinality(S) <= InitialMaxStreams
<1>1. IsFiniteSet(0 .. (opened - 1)) /\ Cardinality(0 .. (opened - 1)) = opened
  BY FS_Interval
<1>2. S \in SUBSET (0 .. (opened - 1)) /\ F \in SUBSET (0 .. (opened - 1))
  OBVIOUS
<1>3. IsFiniteSet(S) /\ IsFiniteSet(F)
  BY <1>1, <1>2, FS_Subset
<1>4. opened = Cardinality(S) + Cardinality(F) - Cardinality(S \cap F)
  BY SMTT(40), <1>1, <1>3, FS_Union
<1>5. Cardinality(S \cap F) = 0
  BY FS_EmptySet
<1>6. Cardinality(S) \in Nat /\ Cardinality(F) \in Nat
  BY <1>3, FS_CardinalityType
<1> QED
  BY <1>3, <1>4, <1>5, <1>6, StreamMapAssumption

\* The governor's window is at least one stream and never more than the
\* configured credit.
LEMMA WindowInRange ==
  ASSUME NEW l \in Nat, NEW open_c \in Int, NEW budget \in Nat, NEW work \in Nat,
         NEW n \in Nat, NEW cap \in Nat \ {0}
  PROVE  Larger(1, ConnLimit(l, open_c, budget, work, n, cap)) \in 1 .. cap
<1> DEFINE d == Larger(1, n)
<1>1. d \in Nat \ {0}
  BY DEF Larger
<1>2. budget \div d \in Nat /\ l \div 2 \in Nat
  BY <1>1
<1>3. MeanShare(budget, n) \in Nat
  BY <1>2 DEF MeanShare, Larger
<1> DEFINE spare == Larger(budget - work, 0)
<1>4. spare \in Nat
  BY DEF Larger
<1>5. spare \div d \in Nat
  BY <1>1, <1>4
<1> HIDE DEF spare
<1> DEFINE part == Larger(1, spare \div d)
<1>6. part \in Nat
  BY <1>5 DEF Larger
<1>7. WindowAim(l, open_c, budget, work, n) \in Int
  <2> DEFINE mean == MeanShare(budget, n)
  <2>1. WindowAim(l, open_c, budget, work, n) =
          IF spare > 0
          THEN IF l < mean THEN l + Smaller(part, mean - l)
               ELSE IF l - mean < mean THEN l + 1 ELSE Larger(2 * mean, l \div 2)
          ELSE IF open_c <= l THEN Larger(mean, l \div 2) ELSE l
    BY DEF WindowAim, spare
  <2> HIDE DEF part, mean, d
  <2>2. mean \in Nat
    BY <1>3 DEF mean
  <2> QED
    BY <1>2, <1>4, <1>6, <2>1, <2>2 DEF Larger, Smaller
<1> QED
  BY <1>7, StreamMapAssumption DEF ConnLimit, Larger, Smaller

-----------------------------------------------------------------------------
(* Every action keeps the invariant *)

\* The initial states satisfy it.
LEMMA InitInv == Init => StreamMapInv
<1> SUFFICES ASSUME Init PROVE StreamMapInv
  OBVIOUS
<1>1. TypeOK
  BY StreamMapAssumption, Zenon DEF Init, TypeOK
<1>2. StreamsAccounted /\ OpenedOnce
  BY FS_EmptySet DEF Init, StreamsAccounted, OpenedOnce
<1>3. StreamsBounded
  BY FS_EmptySet, StreamMapAssumption DEF Init, StreamsBounded
<1>4. LimitsAgree
  BY StreamMapAssumption DEF Init, LimitsAgree
<1> QED
  BY <1>1, <1>2, <1>3, <1>4, StreamMapAssumption DEF Init, StreamMapInv

\* What the server's counters and sets promise survives a step that leaves
\* them alone.
LEMMA ServerUnchanged ==
  ASSUME StreamMapInv, UNCHANGED <<streams, peer_opened, peer_completed,
           local_max, regrant_window, openVars, freed>>
  PROVE  /\ StreamsAccounted' /\ StreamsBounded' /\ OpenedOnce'
         /\ (peer_opened <= local_max)' /\ (InitialMaxStreams <= local_max)'
         /\ (regrant_window <= InitialMaxStreams)'
  BY DEF StreamMapInv, openVars, StreamsAccounted, StreamsBounded, OpenedOnce

\* A frame for a stream: one that opens streams adds exactly those between
\* the streams opened so far and its own, none of them freed.
LEMMA ReceiveFrameInv ==
  ASSUME StreamMapInv, NEW i \in Nat, ReceiveFrame(i)
  PROVE  StreamMapInv'
<1> USE DEF clientVars, serverVars, wireVars, openVars
<1>1. CASE i \in streams \/ WasOpened(i)
  <2>1. UNCHANGED vars
    BY <1>1 DEF ReceiveFrame, vars
  <2> QED
    BY <2>1 DEF vars, StreamMapInv, TypeOK, StreamsAccounted, StreamsBounded,
                OpenedOnce, LimitsAgree
<1>2. CASE ~(i \in streams \/ WasOpened(i)) /\ i + 1 > local_max
  <2>1. /\ closed' = "STREAM_LIMIT_ERROR" /\ UNCHANGED <<serverVars, openVars,
             clientVars, wireVars, freed, credit_forgotten, conforming>>
    BY <1>2 DEF ReceiveFrame
  <2>2. ~conforming
    BY <1>2 DEF ReceiveFrame, StreamMapInv, TypeOK, LimitsAgree
  <2>3. TypeOK' /\ LimitsAgree'
    BY <2>1, <2>2 DEF StreamMapInv, TypeOK, LimitsAgree
  <2> QED
    BY <2>1, <2>3, ServerUnchanged DEF StreamMapInv
<1>3. CASE ~(i \in streams \/ WasOpened(i)) /\ ~(i + 1 > local_max)
  <2>1. /\ streams' = streams \cup Created(i)
        /\ peer_opened' = Larger(peer_opened, i + 1)
        /\ reported' = reported \cup Created(i)
        /\ reported_twice' = reported_twice \cup (reported \cap Created(i))
        /\ UNCHANGED <<peer_completed, local_max, regrant_window,
                       needs_max_streams, closed, clientVars, wireVars, freed,
                       credit_forgotten, conforming>>
    BY <1>3 DEF ReceiveFrame
  <2>2. peer_opened \in Nat /\ peer_opened <= i /\ peer_opened' = i + 1
    BY <1>3, <2>1 DEF StreamMapInv, TypeOK, WasOpened, Larger
  <2>3. Created(i) = peer_opened .. i
    BY <2>2 DEF Created, StreamMapInv, StreamsAccounted
  <2>4. /\ 0 .. (peer_opened' - 1) = (0 .. (peer_opened - 1)) \cup Created(i)
        /\ (0 .. (peer_opened - 1)) \cap Created(i) = {}
    BY <2>2, <2>3
  <2>5. TypeOK'
    <3>1. Created(i) \subseteq Nat
      BY <2>2, <2>3
    <3>2. /\ streams' \subseteq Nat /\ reported' \subseteq Nat
          /\ reported_twice' \subseteq Nat
      BY <2>1, <3>1, Zenon DEF StreamMapInv, TypeOK
    <3>3. peer_opened' \in Nat
      BY <2>2
    <3> QED
      BY <2>1, <3>2, <3>3, Zenon DEF StreamMapInv, TypeOK
  <2>6. StreamsAccounted'
    BY <2>1, <2>4 DEF StreamMapInv, StreamsAccounted
  <2>7. OpenedOnce'
    BY <2>1, <2>4 DEF StreamMapInv, OpenedOnce
  <2>8. LimitsAgree'
    BY <1>3, <2>1, <2>2 DEF StreamMapInv, TypeOK, LimitsAgree, ReceiveFrame
  <2>9. peer_opened' <= local_max'
    BY <1>3, <2>1, <2>2 DEF StreamMapInv, TypeOK
  <2>10. StreamsBounded'
    BY Zenon, <2>1, <2>2, <2>5, <2>6, <2>9, LiveStreamsBounded
       DEF StreamMapInv, TypeOK, StreamsAccounted, StreamsBounded
  <2> QED
    BY <2>1, <2>5, <2>6, <2>7, <2>8, <2>9, <2>10 DEF StreamMapInv
<1> QED
  BY <1>1, <1>2, <1>3

\* check_max_streams_update: the limit only grows, and to no more than the
\* window beyond the completions.
LEMMA UpdateFacts ==
  ASSUME StreamMapInv, NEW completed \in Nat, NEW window \in Nat,
         peer_completed <= completed, window <= InitialMaxStreams,
         CheckMaxStreamsUpdate(completed, window)
  PROVE  /\ local_max' \in Nat /\ needs_max_streams' \in BOOLEAN
         /\ local_max <= local_max'
         /\ local_max' <= completed + InitialMaxStreams
  BY StreamMapAssumption
     DEF StreamMapInv, TypeOK, StreamsBounded, CheckMaxStreamsUpdate, Larger

\* A stream is freed once, and the completions count it.
LEMMA MaybeCleanupInv ==
  ASSUME StreamMapInv, NEW i \in Nat, MaybeCleanup(i)
  PROVE  StreamMapInv'
<1> USE DEF clientVars, serverVars, wireVars, openVars
<1>1. /\ i \in streams /\ i \notin freed
      /\ streams' = streams \ {i} /\ freed' = freed \cup {i}
      /\ peer_completed' = peer_completed + 1
      /\ CheckMaxStreamsUpdate(peer_completed + 1, regrant_window)
      /\ UNCHANGED <<clientVars, peer_opened, regrant_window, wireVars, openVars,
                     credit_forgotten, closed, conforming>>
  BY DEF MaybeCleanup, StreamMapInv, StreamsAccounted
<1>2. /\ local_max' \in Nat /\ needs_max_streams' \in BOOLEAN
      /\ local_max <= local_max'
      /\ local_max' <= peer_completed' + InitialMaxStreams
  BY <1>1, UpdateFacts, StreamMapAssumption DEF StreamMapInv, TypeOK
<1>3. TypeOK'
  BY <1>1, <1>2 DEF StreamMapInv, TypeOK
<1>4. IsFiniteSet(freed)
  BY Zenon, LiveStreamsBounded
     DEF StreamMapInv, TypeOK, StreamsAccounted, StreamsBounded
<1>5. Cardinality(freed') = Cardinality(freed) + 1
  BY Zenon, <1>1, <1>4, FS_AddElement
<1>6. StreamsAccounted'
  BY <1>1, <1>5 DEF StreamMapInv, StreamsAccounted
<1>7. OpenedOnce'
  BY <1>1 DEF StreamMapInv, OpenedOnce
<1>8. LimitsAgree'
  BY <1>1, <1>2 DEF StreamMapInv, TypeOK, LimitsAgree
<1>9. peer_opened' <= local_max' /\ InitialMaxStreams <= local_max'
  BY <1>1, <1>2, StreamMapAssumption DEF StreamMapInv, TypeOK
<1>10. StreamsBounded'
  BY Zenon, <1>2, <1>3, <1>6, <1>9, LiveStreamsBounded
     DEF TypeOK, StreamsAccounted, StreamsBounded
<1> QED
  BY <1>1, <1>3, <1>6, <1>7, <1>8, <1>9, <1>10 DEF StreamMapInv


\* The governor moves the window within the credit; what was granted stays.
LEMMA ApplyBudgetInv ==
  ASSUME StreamMapInv, NEW budget \in Budgets, NEW work \in Works,
         NEW n \in Conns, ApplyBudget(budget, work, n)
  PROVE  StreamMapInv'
<1> USE DEF clientVars, serverVars, wireVars, openVars
<1>1. PICK open_c \in Int :
        /\ regrant_window' = Larger(1, ConnLimit(regrant_window, open_c, budget,
                                                 work, n, InitialMaxStreams))
        /\ CheckMaxStreamsUpdate(peer_completed, regrant_window')
        /\ UNCHANGED <<clientVars, streams, peer_opened, peer_completed, wireVars,
                       openVars, freed, credit_forgotten, closed, conforming>>
  BY DEF ApplyBudget, StreamMapInv, TypeOK, Smaller
<1>2. regrant_window' \in 1 .. InitialMaxStreams
  BY <1>1, WindowInRange, StreamMapAssumption, Zenon DEF StreamMapInv, TypeOK
<1>3. /\ local_max' \in Nat /\ needs_max_streams' \in BOOLEAN
      /\ local_max <= local_max'
      /\ local_max' <= peer_completed' + InitialMaxStreams
  BY <1>1, <1>2, UpdateFacts, StreamMapAssumption DEF StreamMapInv, TypeOK
<1>4. TypeOK'
  BY <1>1, <1>2, <1>3, StreamMapAssumption DEF StreamMapInv, TypeOK
<1>5. StreamsAccounted' /\ OpenedOnce'
  BY <1>1 DEF StreamMapInv, StreamsAccounted, OpenedOnce
<1>6. LimitsAgree'
  BY <1>1, <1>3 DEF StreamMapInv, TypeOK, LimitsAgree
<1>7. peer_opened' <= local_max' /\ InitialMaxStreams <= local_max'
  BY <1>1, <1>3, StreamMapAssumption DEF StreamMapInv, TypeOK
<1>8. StreamsBounded'
  BY <1>1, <1>3 DEF StreamMapInv, StreamsBounded
<1>9. regrant_window' <= InitialMaxStreams
  BY <1>2, StreamMapAssumption
<1> QED
  BY <1>4, <1>5, <1>6, <1>7, <1>8, <1>9 DEF StreamMapInv

\* MAX_STREAMS goes out, or is declared lost: no limit beyond the one in
\* force is ever on the wire.
LEMMA MaxStreamsWireInv ==
  ASSUME StreamMapInv,
         EmitMaxStreams \/ \E m \in max_streams_sent : MaxStreamsLost(m)
  PROVE  StreamMapInv'
<1> USE DEF clientVars, serverVars, wireVars, openVars
<1>1. /\ max_streams_sent' \cup strays' \subseteq max_streams_sent \cup strays \cup {local_max}
      /\ needs_max_streams' \in BOOLEAN /\ losses' \in Nat
      /\ UNCHANGED <<clientVars, streams, peer_opened, peer_completed, local_max,
                     regrant_window, blocked_sent, openVars, freed,
                     credit_forgotten, closed, conforming>>
  <2>1. CASE EmitMaxStreams
    BY <2>1, Zenon DEF EmitMaxStreams, StreamMapInv, TypeOK
  <2>2. CASE \E m \in max_streams_sent : MaxStreamsLost(m)
    BY <2>2 DEF MaxStreamsLost, RearmMaxStreams, StreamMapInv, TypeOK
  <2> QED
    BY <2>1, <2>2
<1>2. TypeOK'
  BY <1>1, ZenonT(60) DEF StreamMapInv, TypeOK
<1>3. LimitsAgree'
  <2>1. \A m \in max_streams_sent' \cup strays' : m <= local_max
    <3>1. local_max <= local_max
      BY DEF StreamMapInv, TypeOK
    <3> QED
      BY <1>1, <3>1, Zenon DEF StreamMapInv, LimitsAgree
  <2> QED
    BY <1>1, <2>1, Zenon DEF StreamMapInv, LimitsAgree
<1> QED
  BY <1>1, <1>2, <1>3, ServerUnchanged DEF StreamMapInv

\* The client's steps: whatever limit it takes, the server granted it.
LEMMA ClientInv ==
  ASSUME StreamMapInv,
         \/ SetPeerLimits \/ HandshakeDone \/ OpenStream \/ EmitStreamsBlocked
         \/ \E m \in blocked_sent : BlockedSettled(m)
         \/ \E m \in max_streams_sent : DeliverMaxStreams(m)
         \/ \E m \in strays : DeliverStray(m)
  PROVE  StreamMapInv'
<1> USE DEF clientVars, serverVars, wireVars, openVars
<1>1. /\ UNCHANGED <<serverVars, openVars, freed, closed, conforming>>
      /\ max_streams_sent' \subseteq max_streams_sent /\ strays' = strays
  BY DEF SetPeerLimits, HandshakeDone, OpenStream, EmitStreamsBlocked,
         BlockedSettled, DeliverMaxStreams, DeliverStray, OnMaxStreams
<1>2. /\ peer_max' \in Nat /\ local_opened' \in Nat
      /\ streams_blocked_at' \in Nat /\ blocked_sent' \subseteq Nat
      /\ needs_streams_blocked' \in BOOLEAN /\ handshake_confirmed' \in BOOLEAN
      /\ losses' \in Nat /\ credit_forgotten' \in BOOLEAN
      /\ peer_max' <= local_max
      /\ local_opened <= local_opened' /\ local_opened' <= local_max
  <2>1. CASE SetPeerLimits
    BY <2>1, StreamMapAssumption
       DEF SetPeerLimits, StreamMapInv, TypeOK, LimitsAgree
  <2>2. CASE HandshakeDone
    BY <2>2 DEF HandshakeDone, StreamMapInv, TypeOK, LimitsAgree
  <2>3. CASE OpenStream
    <3>1. \/ UNCHANGED local_opened
          \/ local_opened < peer_max /\ local_opened' = local_opened + 1
      BY <2>3 DEF OpenStream, AtPeerLimit, StreamMapInv, TypeOK
    <3>2. /\ local_opened' \in Nat /\ local_opened <= local_opened'
          /\ local_opened' <= local_max
      BY <3>1 DEF StreamMapInv, TypeOK, LimitsAgree
    <3>3. needs_streams_blocked' \in BOOLEAN
      BY <2>3, Zenon DEF OpenStream, StreamMapInv, TypeOK
    <3> QED
      BY <2>3, <3>2, <3>3, Zenon DEF OpenStream, StreamMapInv, TypeOK, LimitsAgree
  <2>4. CASE EmitStreamsBlocked
    BY <2>4 DEF EmitStreamsBlocked, StreamMapInv, TypeOK, LimitsAgree
  <2>5. CASE \E m \in blocked_sent : BlockedSettled(m)
    BY <2>5 DEF BlockedSettled, StreamMapInv, TypeOK, LimitsAgree
  <2>6. CASE \E m \in max_streams_sent \cup strays :
               OnMaxStreams(m) /\ UNCHANGED <<blocked_sent, losses>>
    BY <2>6 DEF OnMaxStreams, Larger, StreamMapInv, TypeOK, LimitsAgree
  <2> QED
    BY <2>1, <2>2, <2>3, <2>4, <2>5, <2>6 DEF DeliverMaxStreams, DeliverStray
<1>3. TypeOK'
  BY <1>1, <1>2 DEF StreamMapInv, TypeOK
<1>4. LimitsAgree'
  BY <1>1, <1>2 DEF StreamMapInv, TypeOK, LimitsAgree
<1> QED
  BY <1>1, <1>3, <1>4, ServerUnchanged DEF StreamMapInv

\* Every step keeps the invariant.
LEMMA StepInv == StreamMapInv /\ [Next]_vars => StreamMapInv'
<1> SUFFICES ASSUME StreamMapInv, [Next]_vars PROVE StreamMapInv'
  OBVIOUS
<1>1. CASE UNCHANGED vars
  BY <1>1 DEF vars, clientVars, serverVars, wireVars, openVars, StreamMapInv,
     TypeOK, StreamsAccounted, StreamsBounded, OpenedOnce, LimitsAgree
<1>2. CASE \E i \in Ordinals : ReceiveFrame(i) \/ MaybeCleanup(i)
  BY <1>2, ReceiveFrameInv, MaybeCleanupInv, StreamMapAssumption DEF Ordinals
<1>3. CASE \E budget \in Budgets, work \in Works, n \in Conns :
             ApplyBudget(budget, work, n)
  BY <1>3, ApplyBudgetInv
<1>4. CASE EmitMaxStreams \/ \E m \in max_streams_sent : MaxStreamsLost(m)
  BY <1>4, MaxStreamsWireInv
<1>5. CASE \/ SetPeerLimits \/ HandshakeDone \/ OpenStream \/ EmitStreamsBlocked
           \/ \E m \in blocked_sent : BlockedSettled(m)
           \/ \E m \in max_streams_sent : DeliverMaxStreams(m)
           \/ \E m \in strays : DeliverStray(m)
  BY <1>5, ClientInv
<1> QED
  BY <1>1, <1>2, <1>3, <1>4, <1>5 DEF Next

\* The stream map is sound: streams are accounted for, bounded and reported
\* once, and the two ends agree on the limit (stream_map.mojo).
THEOREM StreamMapSound == Spec => []StreamMapInv
  BY InitInv, StepInv, PTL DEF Spec

\* Whatever stream ids the peer uses and however the governor moves the
\* window, at most initial_max_streams_bidi streams are live, and a client
\* that runs this code is never closed on with STREAM_LIMIT_ERROR.
THEOREM LiveStreamsStayBounded ==
  Spec => [](Cardinality(streams) <= InitialMaxStreams
             /\ (conforming => closed = "none"))
<1>1. StreamMapInv => Cardinality(streams) <= InitialMaxStreams
                      /\ (conforming => closed = "none")
  BY DEF StreamMapInv, StreamsBounded, LimitsAgree
<1> QED
  BY <1>1, StreamMapSound, PTL

=============================================================================
