------------------------ MODULE LossRecovery_proofs ------------------------
(***************************************************************************)
(* The accounting of outstanding packets is right for every number of      *)
(* packets, every kind of packet and every loss threshold.                 *)
(***************************************************************************)
EXTENDS LossRecovery, NatLemmas

\* Settling a part of the outstanding packets takes its ack-eliciting ones off
\* the count.
LEMMA SettledCount ==
    ASSUME NEW P, IsFiniteSet(P), NEW G \in SUBSET P
    PROVE  /\ IsFiniteSet(P \ G) /\ IsFiniteSet(Ae(P)) /\ IsFiniteSet(Ae(G))
           /\ Cardinality(Ae(P)) \in Nat /\ Cardinality(Ae(G)) \in Nat
           /\ Cardinality(Ae(P \ G)) \in Nat
           /\ Cardinality(Ae(P \ G)) = Cardinality(Ae(P)) - Cardinality(Ae(G))
<1>1. /\ IsFiniteSet(P \ G) /\ IsFiniteSet(Ae(P)) /\ IsFiniteSet(Ae(G))
      /\ IsFiniteSet(Ae(P \ G))
  BY FS_Subset DEF Ae
<1>2. Ae(P) = Ae(P \ G) \cup Ae(G) /\ Ae(P \ G) \cap Ae(G) = {}
  BY DEF Ae
<1>3. /\ Cardinality(Ae(P \ G)) \in Nat /\ Cardinality(Ae(G)) \in Nat
      /\ Cardinality(Ae(P)) = Cardinality(Ae(P \ G)) + Cardinality(Ae(G))
  BY <1>1, <1>2, DisjointSizes, Zenon
<1> QED BY <1>1, <1>3

\* A count of zero means none.
LEMMA NoneCounted ==
    ASSUME NEW P, IsFiniteSet(P)
    PROVE  /\ Cardinality(Ae(P)) \in Nat
           /\ Cardinality(Ae(P)) = 0 <=> Ae(P) = {}
<1>1. IsFiniteSet(Ae(P))
  BY FS_Subset DEF Ae
<1> QED BY <1>1, FS_CardinalityType, FS_EmptySet

\* A non-empty set of naturals with a bound has its maximum among its members.
LEMMA MaxIsMember ==
    ASSUME NEW n \in Nat, NEW T \in SUBSET (0 .. n), T # {}
    PROVE  Max(T) \in T
<1> DEFINE D == {n - x : x \in T}
<1>1. D \in SUBSET Nat /\ D # {}
  OBVIOUS
<1>2. PICK d \in D : \A e \in D : d <= e
  BY <1>1, LeastNatural, Zenon
<1>3. PICK x \in T : d = n - x
  OBVIOUS
<1>4. ASSUME NEW y \in T PROVE x >= y
  <2>1. n - x <= n - y
    BY <1>2, <1>3, Zenon
  <2> QED BY <2>1
<1>5. \E z \in T : \A y \in T : z >= y
  BY <1>4
<1> QED BY <1>5 DEF Max

-----------------------------------------------------------------------------

\* The initial state.
LEMMA InitInv == Init => RecoveryInv
<1> SUFFICES ASSUME Init PROVE RecoveryInv
  OBVIOUS
<1> USE DEF Init
<1>1. TypeOK
  BY LossRecoveryAssumption, Zenon DEF TypeOK, None
<1>2. \A s \in Spaces : IsFiniteSet(sent_packets[s])
  BY FS_EmptySet
<1>3. AeCountExact
  <2>1. Ae({}) = {}
    BY DEF Ae
  <2> QED BY <2>1, FS_EmptySet DEF AeCountExact
<1>4. BaseIffOutstanding /\ RecordsOutstanding /\ NumbersSound
  BY DEF BaseIffOutstanding, RecordsOutstanding, NumbersSound, Ae, Pns
<1>5. LargestAckedSound /\ UnkeyedIsQuiet /\ skip_lo <= skip_hi
  BY DEF LargestAckedSound, UnkeyedIsQuiet, None
<1> QED BY <1>1, <1>2, <1>3, <1>4, <1>5 DEF RecoveryInv

\* A step that leaves the packets and their bookkeeping alone.
LEMMA QuietStep ==
    ASSUME RecoveryInv, TypeOK',
           UNCHANGED <<next_pn, sent_packets, largest_acked_pn, ae_in_flight,
                       pto_base_set, skip_lo, skip_hi, app_frames_sent>>,
           UnkeyedIsQuiet'
    PROVE  RecoveryInv'
BY Zenon DEF RecoveryInv, AeCountExact, BaseIffOutstanding, RecordsOutstanding,
       NumbersSound, LargestAckedSound

\* Keys of a level become available.
LEMMA InstallKeysInv ==
    ASSUME RecoveryInv, NEW s \in Spaces, InstallKeys(s)
    PROVE  RecoveryInv'
<1> USE DEF InstallKeys
<1>1. TypeOK'
  BY DEF RecoveryInv, TypeOK, connVars
<1>2. UnkeyedIsQuiet'
  BY DEF RecoveryInv, TypeOK, UnkeyedIsQuiet
<1> QED BY <1>1, <1>2, QuietStep DEF connVars

\* The handshake completes, the connection closes, an optimistic ACK arrives.
LEMMA StateChangeInv ==
    ASSUME RecoveryInv, UNCHANGED <<spaceVars, app_frames_sent>>, TypeOK'
    PROVE  RecoveryInv'
<1>1. UnkeyedIsQuiet'
  BY DEF RecoveryInv, UnkeyedIsQuiet, spaceVars
<1> QED BY <1>1, QuietStep DEF spaceVars

\* The handshake ends.
LEMMA HandshakeCompleteInv ==
    ASSUME RecoveryInv, HandshakeComplete
    PROVE  RecoveryInv'
<1>1. TypeOK'
  BY Zenon DEF RecoveryInv, TypeOK, HandshakeComplete, spaceVars
<1> QED BY <1>1, StateChangeInv DEF HandshakeComplete

\* The connection closes.
LEMMA CloseInv ==
    ASSUME RecoveryInv, Close
    PROVE  RecoveryInv'
<1>1. TypeOK'
  BY DEF RecoveryInv, TypeOK, Close, spaceVars
<1> QED BY <1>1, StateChangeInv DEF Close

\* An optimistic ACK only closes.
LEMMA OptimisticAckInv ==
    ASSUME RecoveryInv, NEW s \in Spaces, NEW pns, HandleOptimisticAck(s, pns)
    PROVE  RecoveryInv'
<1>1. TypeOK'
  BY DEF RecoveryInv, TypeOK, HandleOptimisticAck, spaceVars
<1> QED BY <1>1, StateChangeInv DEF HandleOptimisticAck

\* A probe timeout.
LEMMA PtoFiresInv ==
    ASSUME RecoveryInv, NEW fired \in SUBSET Spaces, PtoFires(fired)
    PROVE  RecoveryInv'
<1> USE DEF PtoFires
<1>1. TypeOK'
  <2>1. probe_pending' \in [Spaces -> BOOLEAN]
    BY Zenon DEF RecoveryInv, TypeOK
  <2>2. pto_count' \in Nat
    BY DEF RecoveryInv, TypeOK
  <2> QED BY <2>1, <2>2 DEF RecoveryInv, TypeOK
<1>2. UnkeyedIsQuiet'
  <2> SUFFICES ASSUME NEW t \in Spaces, keys[t] # "installed"
               PROVE  ~probe_pending'[t]
    BY DEF UnkeyedIsQuiet, RecoveryInv
  <2>1. t \notin fired
    BY DEF HasDeadline
  <2> QED BY <2>1, Zenon DEF RecoveryInv, UnkeyedIsQuiet
<1> QED BY <1>1, <1>2, QuietStep


\* Forgetting a space that holds no stream frame records.
LEMMA ForgetInv ==
    ASSUME RecoveryInv, NEW s \in Spaces, s # App, Forget(s), TypeOK',
           UNCHANGED <<next_pn, largest_acked_pn, skip_lo, skip_hi, app_frames_sent>>,
           \A t \in Spaces : keys'[t] # "installed" => keys[t] # "installed" \/ t = s
    PROVE  RecoveryInv'
<1> USE DEF Forget
<1>1. \A t \in Spaces : IsFiniteSet(sent_packets'[t])
  BY FS_EmptySet DEF RecoveryInv, TypeOK
<1>2. AeCountExact'
  <2>1. Ae({}) = {} /\ Cardinality({}) = 0
    BY FS_EmptySet DEF Ae
  <2> QED BY <2>1, Zenon DEF AeCountExact, RecoveryInv, TypeOK
<1>3. BaseIffOutstanding'
  <2>1. Ae({}) = {}
    BY DEF Ae
  <2>2. ASSUME NEW t \in Spaces PROVE pto_base_set'[t] <=> Ae(sent_packets'[t]) # {}
    <3>1. CASE t = s
      BY <2>1, <3>1 DEF RecoveryInv, TypeOK
    <3>2. CASE t # s
      BY <3>2 DEF RecoveryInv, TypeOK, BaseIffOutstanding
    <3> QED BY <3>1, <3>2
  <2> QED BY <2>2 DEF BaseIffOutstanding
<1>4. RecordsOutstanding'
  BY DEF RecoveryInv, TypeOK, RecordsOutstanding
<1>5. NumbersSound'
  BY DEF RecoveryInv, TypeOK, NumbersSound
<1>6. LargestAckedSound' /\ (skip_lo <= skip_hi)'
  BY DEF RecoveryInv, LargestAckedSound
<1>7. UnkeyedIsQuiet'
  BY DEF RecoveryInv, TypeOK, UnkeyedIsQuiet
<1> QED BY <1>1, <1>2, <1>3, <1>4, <1>5, <1>6, <1>7 DEF RecoveryInv

\* The types after Forget.
LEMMA ForgetType ==
    ASSUME TypeOK, NEW s \in Spaces, Forget(s)
    PROVE  /\ sent_packets' \in [Spaces -> SUBSET Packet]
           /\ ae_in_flight' \in [Spaces -> Nat]
           /\ pto_base_set' \in [Spaces -> BOOLEAN]
           /\ probe_pending' \in [Spaces -> BOOLEAN]
<1>1. sent_packets' \in [Spaces -> SUBSET Packet] /\ ae_in_flight' \in [Spaces -> Nat]
  BY DEF TypeOK, Forget
<1>2. pto_base_set' \in [Spaces -> BOOLEAN] /\ probe_pending' \in [Spaces -> BOOLEAN]
  BY DEF TypeOK, Forget
<1> QED BY <1>1, <1>2

\* The keys of a space are discarded.
LEMMA DiscardSpaceInv ==
    ASSUME RecoveryInv, NEW s \in Spaces, DiscardSpace(s)
    PROVE  RecoveryInv'
<1> USE DEF DiscardSpace
<1>1. TypeOK'
  <2>1. TypeOK
    BY DEF RecoveryInv
  <2>2. keys' \in [Spaces -> {"none", "installed", "discarded"}]
    BY <2>1 DEF TypeOK
  <2> QED BY <2>1, <2>2, ForgetType DEF TypeOK
<1>2. \A t \in Spaces : keys'[t] # "installed" => keys[t] # "installed" \/ t = s
  BY DEF RecoveryInv, TypeOK
<1> QED BY <1>1, <1>2, ForgetInv

\* A Retry forgets the Initial packets.
LEMMA RetryInv ==
    ASSUME RecoveryInv, Retry
    PROVE  RecoveryInv'
<1> USE DEF Retry
<1>1. TypeOK'
  <2>1. TypeOK
    BY DEF RecoveryInv
  <2> QED BY <2>1, ForgetType DEF TypeOK
<1>2. \A t \in Spaces : keys'[t] # "installed" => keys[t] # "installed"
  OBVIOUS
<1>3. 0 # App
  BY DEF App
<1> QED BY <1>1, <1>2, <1>3, ForgetInv

\* What an ACK that is not optimistic says of its largest number.
LEMMA HonestMax ==
    ASSUME RecoveryInv, NEW s \in Spaces, NEW n \in Nat, NEW pns \in SUBSET (0 .. n),
           pns # {}, ~Optimistic(s, pns)
    PROVE  /\ Max(pns) \in Nat /\ Max(pns) < next_pn[s]
           /\ s = App => Max(pns) \notin skip_lo .. (skip_hi - 1)
<1>1. Max(pns) \in pns
  BY MaxIsMember
<1>2. ~(Max(pns) >= next_pn[s]) /\ (s = App => Max(pns) \notin skip_lo .. (skip_hi - 1))
  BY <1>1, Zenon DEF Optimistic
<1>3. Max(pns) \in Nat
  <2>1. ASSUME NEW x \in pns PROVE x \in Nat
    OBVIOUS
  <2> QED BY <1>1, <2>1, Zenon
<1>4. next_pn[s] \in Nat
  BY DEF RecoveryInv, TypeOK
<1> QED BY <1>2, <1>3, <1>4

\* The new largest acknowledged number keeps LargestAckedSound.
LEMMA LargestAfter ==
    ASSUME RecoveryInv, NEW s \in Spaces, NEW top \in Nat, top < next_pn[s],
           s = App => top \notin skip_lo .. (skip_hi - 1),
           largest_acked_pn' = [largest_acked_pn EXCEPT
              ![s] = IF top > largest_acked_pn[s] THEN top ELSE largest_acked_pn[s]],
           UNCHANGED <<next_pn, skip_lo, skip_hi>>
    PROVE  LargestAckedSound' /\ largest_acked_pn' \in [Spaces -> Nat \cup {None}]
BY SMTT(40) DEF RecoveryInv, TypeOK, LargestAckedSound

\* An ACK of nothing outstanding.
LEMMA StaleAckInv ==
    ASSUME RecoveryInv, NEW s \in Spaces, NEW n \in Nat, NEW pns \in SUBSET (0 .. n),
           HandleStaleAck(s, pns)
    PROVE  RecoveryInv'
<1> USE DEF HandleStaleAck
<1>1. /\ Max(pns) \in Nat /\ Max(pns) < next_pn[s]
      /\ s = App => Max(pns) \notin skip_lo .. (skip_hi - 1)
  BY HonestMax, Zenon
<1>2. LargestAckedSound' /\ largest_acked_pn' \in [Spaces -> Nat \cup {None}]
  BY <1>1, LargestAfter, ZenonT(60) DEF RecoveryInv, TypeOK
<1>3. TypeOK'
  BY <1>2 DEF RecoveryInv, TypeOK, connVars
<1> QED BY <1>2, <1>3 DEF RecoveryInv, connVars, AeCountExact, BaseIffOutstanding,
           RecordsOutstanding, NumbersSound, UnkeyedIsQuiet


-----------------------------------------------------------------------------

\* A packet is sent.
LEMMA SendInv ==
    ASSUME RecoveryInv, NEW s \in Spaces, NEW k \in Kinds, NEW gap \in 0 .. MaxGap,
           NEW recorded \in BOOLEAN, Send(s, k, gap, recorded)
    PROVE  RecoveryInv'
<1> DEFINE pn == next_pn[s] + gap
           p == [pn |-> pn, ae |-> k.ae, in_flight |-> k.in_flight, size |-> k.size]
<1>k. k.ae \in BOOLEAN /\ k.in_flight \in BOOLEAN /\ k.size \in Nat
  BY LossRecoveryAssumption
<1>g. gap \in Nat
  BY LossRecoveryAssumption
<1>t. TypeOK
  BY DEF RecoveryInv
<1>n. pn \in Nat /\ next_pn[s] \in Nat /\ next_pn[s] <= pn
  BY <1>g, <1>t DEF TypeOK
<1>p. p \in Packet /\ p.pn = pn /\ p.ae = k.ae
  BY <1>k, <1>n DEF Packet
<1>a. /\ keys[s] = "installed" /\ (gap > 0 => s = App)
      /\ next_pn' = [next_pn EXCEPT ![s] = pn + 1]
      /\ skip_lo' = IF gap > 0 THEN next_pn[s] ELSE skip_lo
      /\ skip_hi' = IF gap > 0 THEN pn ELSE skip_hi
      /\ sent_packets' = [sent_packets EXCEPT ![s] = @ \cup {p}]
      /\ ae_in_flight' = IF k.ae THEN [ae_in_flight EXCEPT ![s] = @ + 1] ELSE ae_in_flight
      /\ pto_base_set' = IF k.ae THEN [pto_base_set EXCEPT ![s] = TRUE] ELSE pto_base_set
      /\ probe_pending' = IF k.ae THEN [probe_pending EXCEPT ![s] = FALSE] ELSE probe_pending
      /\ recorded => s = App /\ k.ae
      /\ app_frames_sent' = IF recorded THEN app_frames_sent \cup {pn} ELSE app_frames_sent
      /\ UNCHANGED <<largest_acked_pn, keys, pto_count, retried, handshaking, closing>>
  BY DEF Send, ProbesAfterSend, GapEnd
<1> HIDE DEF pn, p
<1>s. /\ sent_packets'[s] = sent_packets[s] \cup {p}
      /\ \A t \in Spaces : t # s => sent_packets'[t] = sent_packets[t]
      /\ next_pn'[s] = pn + 1
      /\ \A t \in Spaces : t # s => next_pn'[t] = next_pn[t]
  BY <1>a, <1>t DEF TypeOK
<1>1. TypeOK'
  <2>1. next_pn' \in [Spaces -> Nat] /\ skip_lo' \in Nat /\ skip_hi' \in Nat
    BY <1>a, <1>n, <1>t DEF TypeOK
  <2>2. sent_packets' \in [Spaces -> SUBSET Packet]
    BY <1>a, <1>p, <1>t DEF TypeOK
  <2>3. ae_in_flight' \in [Spaces -> Nat]
    BY <1>a, <1>t DEF TypeOK
  <2>4. pto_base_set' \in [Spaces -> BOOLEAN] /\ probe_pending' \in [Spaces -> BOOLEAN]
    BY <1>a, <1>t DEF TypeOK
  <2>5. app_frames_sent' \subseteq Nat
    BY <1>a, <1>n, <1>t DEF TypeOK
  <2> QED BY <2>1, <2>2, <2>3, <2>4, <2>5, <1>a, <1>t DEF TypeOK
<1>2. \A t \in Spaces : IsFiniteSet(sent_packets'[t])
  BY <1>s, FS_AddElement DEF RecoveryInv
<1>3. p \notin sent_packets[s]
  BY <1>p, <1>n DEF RecoveryInv, NumbersSound
<1>4. AeCountExact'
  <2> SUFFICES ASSUME NEW t \in Spaces
               PROVE  ae_in_flight'[t] = Cardinality(Ae(sent_packets'[t]))
    BY DEF AeCountExact
  <2>0. ae_in_flight[t] = Cardinality(Ae(sent_packets[t])) /\ IsFiniteSet(sent_packets[t])
    BY DEF RecoveryInv, AeCountExact
  <2>1. CASE t # s
    <3>1. ae_in_flight'[t] = ae_in_flight[t]
      BY <2>1, <1>a, <1>t DEF TypeOK
    <3> QED BY <3>1, <2>0, <2>1, <1>s
  <2>2. CASE t = s /\ k.ae
    <3>1. Ae(sent_packets'[s]) = Ae(sent_packets[s]) \cup {p} /\ p \notin Ae(sent_packets[s])
      BY <2>2, <1>s, <1>p, <1>3, Zenon DEF Ae
    <3>2. IsFiniteSet(Ae(sent_packets[s]))
      BY <2>0, <2>2, FS_Subset DEF Ae
    <3>3. Cardinality(Ae(sent_packets'[s])) = Cardinality(Ae(sent_packets[s])) + 1
      BY <3>1, <3>2, FS_AddElement, ZenonT(60)
    <3>4. ae_in_flight'[s] = ae_in_flight[s] + 1
      BY <2>2, <1>a, <1>t DEF TypeOK
    <3> QED BY <3>3, <3>4, <2>0, <2>2
  <2>3. CASE t = s /\ ~k.ae
    <3>1. Ae(sent_packets'[s]) = Ae(sent_packets[s])
      BY <2>3, <1>s, <1>p DEF Ae
    <3> QED BY <3>1, <2>0, <2>3, <1>a
  <2> QED BY <2>1, <2>2, <2>3, <1>k
<1>5. BaseIffOutstanding'
  <2> SUFFICES ASSUME NEW t \in Spaces
               PROVE  pto_base_set'[t] <=> Ae(sent_packets'[t]) # {}
    BY DEF BaseIffOutstanding
  <2>0. pto_base_set[t] <=> Ae(sent_packets[t]) # {}
    BY DEF RecoveryInv, BaseIffOutstanding
  <2>1. CASE t # s
    <3>1. pto_base_set'[t] = pto_base_set[t]
      BY <2>1, <1>a, <1>t DEF TypeOK
    <3> QED BY <3>1, <2>0, <2>1, <1>s
  <2>2. CASE t = s /\ k.ae
    <3>1. p \in Ae(sent_packets'[s])
      BY <2>2, <1>s, <1>p, Zenon DEF Ae
    <3>2. pto_base_set'[s] = TRUE
      BY <2>2, <1>a, <1>t DEF TypeOK
    <3> QED BY <3>1, <3>2, <2>2
  <2>3. CASE t = s /\ ~k.ae
    <3>1. Ae(sent_packets'[s]) = Ae(sent_packets[s])
      BY <2>3, <1>s, <1>p DEF Ae
    <3> QED BY <3>1, <2>0, <2>3, <1>a
  <2> QED BY <2>1, <2>2, <2>3, <1>k
<1>6. RecordsOutstanding'
  <2> SUFFICES ASSUME NEW q \in app_frames_sent'
               PROVE  App \in Spaces /\ q \in Pns(Ae(sent_packets'[App]))
    BY DEF RecordsOutstanding
  <2>1. CASE q \in app_frames_sent
    <3>1. App \in Spaces /\ q \in Pns(Ae(sent_packets[App]))
      BY <2>1 DEF RecoveryInv, RecordsOutstanding
    <3>2. sent_packets[App] \subseteq sent_packets'[App]
      BY <3>1, <1>s
    <3> QED BY <3>1, <3>2 DEF Pns, Ae
  <2>2. CASE q \notin app_frames_sent
    <3>1. recorded /\ q = pn /\ s = App /\ k.ae
      BY <2>2, <1>a
    <3>2. p \in Ae(sent_packets'[App])
      BY <3>1, <1>s, <1>p, Zenon DEF Ae
    <3> QED BY <3>1, <3>2, <1>p DEF Pns
  <2> QED BY <2>1, <2>2
<1>7. NumbersSound' /\ (skip_lo <= skip_hi)'
  <2>0. NumbersSound /\ skip_lo <= skip_hi /\ skip_lo \in Nat /\ skip_hi \in Nat
    BY <1>t DEF RecoveryInv, TypeOK
  <2>1. (skip_lo <= skip_hi)'
    BY <2>0, <1>a, <1>n
  <2> SUFFICES ASSUME NEW t \in Spaces
               PROVE  /\ \A q, r \in sent_packets'[t] : q.pn = r.pn => q = r
                      /\ \A q \in sent_packets'[t] : q.pn < next_pn'[t]
                      /\ t = App => /\ \A q \in sent_packets'[t] :
                                          q.pn \notin skip_lo' .. (skip_hi' - 1)
                                    /\ skip_hi' <= next_pn'[t]
    BY <2>1 DEF NumbersSound
  <2>2. \A q \in sent_packets[t] : q.pn \in Nat /\ q.pn < next_pn[t]
    BY <2>0, <1>t DEF TypeOK, Packet, NumbersSound
  <2>3. CASE t # s
    <3>1. t = App => gap = 0
      BY <2>3, <1>a, <1>g
    <3> QED BY <3>1, <2>0, <2>3, <1>s, <1>a, <1>g DEF NumbersSound
  <2>4. CASE t = s
    <3>1. \A q, r \in sent_packets'[t] : q.pn = r.pn => q = r
      BY <2>0, <2>2, <2>4, <1>s, <1>p, <1>n DEF NumbersSound
    <3>2. \A q \in sent_packets'[t] : q.pn < next_pn'[t]
      BY <2>2, <2>4, <1>s, <1>p, <1>n
    <3>3. ASSUME t = App PROVE /\ \A q \in sent_packets'[t] :
                                    q.pn \notin skip_lo' .. (skip_hi' - 1)
                               /\ skip_hi' <= next_pn'[t]
      <4>1. CASE gap > 0
        BY <4>1, <2>2, <2>4, <1>s, <1>p, <1>n, <1>a, SMTT(40)
      <4>2. CASE ~(gap > 0)
        <5>1. skip_lo' = skip_lo /\ skip_hi' = skip_hi /\ pn = next_pn[s]
          BY <4>2, <1>a, <1>g, <1>n DEF pn
        <5>2. skip_hi <= next_pn[s]
          BY <2>0, <2>4, <3>3 DEF NumbersSound
        <5> QED BY <5>1, <5>2, <3>3, <2>0, <2>4, <1>s, <1>p, <1>n, SMTT(40) DEF NumbersSound
      <4> QED BY <4>1, <4>2, SMTT(40)
    <3> QED BY <3>1, <3>2, <3>3
  <2> QED BY <2>3, <2>4
<1>8. LargestAckedSound'
  <2> SUFFICES ASSUME NEW t \in Spaces
               PROVE  /\ largest_acked_pn[t] < next_pn'[t]
                      /\ t = App => largest_acked_pn[t] \notin skip_lo' .. (skip_hi' - 1)
    BY <1>a DEF LargestAckedSound
  <2>1. /\ largest_acked_pn[t] < next_pn[t]
        /\ t = App => largest_acked_pn[t] \notin skip_lo .. (skip_hi - 1)
        /\ largest_acked_pn[t] \in Int /\ next_pn[t] \in Nat
    BY <1>t, SMTT(40) DEF RecoveryInv, LargestAckedSound, TypeOK, None
  <2>2. CASE t # s
    <3>1. t = App => gap = 0
      BY <2>2, <1>a, <1>g
    <3> QED BY <3>1, <2>1, <2>2, <1>s, <1>a, SMTT(40)
  <2>3. CASE t = s
    BY <2>1, <2>3, <1>s, <1>a, <1>n, <1>g, SMTT(40)
  <2> QED BY <2>2, <2>3, SMTT(40)
<1>9. UnkeyedIsQuiet'
  BY <1>a, <1>t, SMTT(40) DEF RecoveryInv, UnkeyedIsQuiet, TypeOK
<1> QED BY <1>1, <1>2, <1>4, <1>5, <1>6, <1>7, <1>8, <1>9 DEF RecoveryInv


\* An ACK settles packets, as acknowledged or as lost.
LEMMA HandleAckInv ==
    ASSUME RecoveryInv, NEW s \in Spaces, NEW n \in Nat, NEW pns \in SUBSET (0 .. n),
           NEW old \in Int, HandleAck(s, pns, old)
    PROVE  RecoveryInv'
<1> DEFINE acked == {p \in sent_packets[s] : p.pn \in pns}
           top == Max(pns)
           largest == IF top > largest_acked_pn[s] THEN top ELSE largest_acked_pn[s]
           left == sent_packets[s] \ acked
           lost == Lost(s, left, largest, old)
           gone == acked \cup lost
           count == ae_in_flight[s] - Cardinality(Ae(gone))
<1>t. TypeOK
  BY SMTT(40) DEF RecoveryInv
<1>a. /\ keys[s] = "installed" /\ pns # {} /\ ~Optimistic(s, pns)
      /\ largest_acked_pn' = [largest_acked_pn EXCEPT ![s] = largest]
      /\ sent_packets' = [sent_packets EXCEPT ![s] = left \ lost]
      /\ ae_in_flight' = [ae_in_flight EXCEPT ![s] = IF count <= 0 THEN 0 ELSE count]
      /\ pto_base_set' = IF count <= 0 THEN [pto_base_set EXCEPT ![s] = FALSE]
                                       ELSE pto_base_set
      /\ probe_pending' = IF count <= 0 THEN [probe_pending EXCEPT ![s] = FALSE]
                                        ELSE probe_pending
      /\ app_frames_sent' = IF s = App THEN app_frames_sent \ Pns(gone)
                                       ELSE app_frames_sent
      /\ pto_count' = 0
      /\ UNCHANGED <<next_pn, keys, skip_lo, skip_hi, retried, handshaking, closing>>
  BY ZenonT(60) DEF HandleAck, CountAfter, BaseAfter, RecordsAfter
<1>g. gone \subseteq sent_packets[s] /\ left \ lost = sent_packets[s] \ gone
  BY ZenonT(60) DEF Lost
<1>m. /\ top \in Nat /\ top < next_pn[s]
      /\ s = App => top \notin skip_lo .. (skip_hi - 1)
  BY <1>a, HonestMax, ZenonT(60)
<1>l. LargestAckedSound' /\ largest_acked_pn' \in [Spaces -> Nat \cup {None}]
  <2> HIDE DEF top
  <2> QED BY <1>a, <1>m, LargestAfter, ZenonT(60)
<1> HIDE DEF acked, top, largest, left, lost, gone
<1>s. /\ sent_packets'[s] = sent_packets[s] \ gone
      /\ \A t \in Spaces : t # s => sent_packets'[t] = sent_packets[t]
  BY <1>a, <1>g, <1>t DEF TypeOK
<1>f. IsFiniteSet(sent_packets[s])
  BY DEF RecoveryInv
<1>c. /\ IsFiniteSet(sent_packets[s] \ gone)
      /\ count = Cardinality(Ae(sent_packets[s] \ gone))
      /\ count \in Nat
  <2>1. ae_in_flight[s] = Cardinality(Ae(sent_packets[s]))
    BY DEF RecoveryInv, AeCountExact
  <2> QED BY <1>f, <1>g, <2>1, SettledCount
<1> HIDE DEF count
<1>z. count <= 0 <=> Ae(sent_packets[s] \ gone) = {}
  <2>1. count = 0 <=> Ae(sent_packets[s] \ gone) = {}
    BY <1>c, NoneCounted, SMTT(40)
  <2> QED BY <2>1, <1>c
<1>1. TypeOK'
  <2>1. sent_packets' \in [Spaces -> SUBSET Packet]
    BY <1>a, <1>g, <1>t DEF TypeOK
  <2>2. ae_in_flight' \in [Spaces -> Nat]
    BY <1>a, <1>c, <1>t DEF TypeOK
  <2>3. pto_base_set' \in [Spaces -> BOOLEAN]
    BY <1>a, <1>t DEF TypeOK
  <2>4. probe_pending' \in [Spaces -> BOOLEAN]
    BY <1>a, <1>t DEF TypeOK
  <2>5. app_frames_sent' \subseteq Nat
    BY <1>a, <1>t, ZenonT(60) DEF TypeOK
  <2> QED BY <2>1, <2>2, <2>3, <2>4, <2>5, <1>a, <1>l, <1>t, SMTT(40) DEF TypeOK
<1>2. \A t \in Spaces : IsFiniteSet(sent_packets'[t])
  BY <1>s, <1>c DEF RecoveryInv
<1>3. AeCountExact'
  <2> SUFFICES ASSUME NEW t \in Spaces
               PROVE  ae_in_flight'[t] = Cardinality(Ae(sent_packets'[t]))
    BY SMTT(40) DEF AeCountExact
  <2>1. CASE t = s
    BY <2>1, <1>s, <1>c, <1>a, <1>t, SMTT(40) DEF TypeOK
  <2>2. CASE t # s
    BY <2>2, <1>s, <1>a, <1>t, SMTT(40) DEF TypeOK, RecoveryInv, AeCountExact
  <2> QED BY <2>1, <2>2
<1>4. BaseIffOutstanding'
  <2> SUFFICES ASSUME NEW t \in Spaces
               PROVE  pto_base_set'[t] <=> Ae(sent_packets'[t]) # {}
    BY SMTT(40) DEF BaseIffOutstanding
  <2>0. pto_base_set[t] <=> Ae(sent_packets[t]) # {}
    BY DEF RecoveryInv, BaseIffOutstanding
  <2>1. CASE t # s
    <3>1. pto_base_set'[t] = pto_base_set[t]
      BY <2>1, <1>a, <1>t, SMTT(40) DEF TypeOK
    <3> QED BY <3>1, <2>0, <2>1, <1>s, SMTT(40)
  <2>2. CASE t = s /\ count <= 0
    <3>1. pto_base_set'[s] = FALSE
      BY <2>2, <1>a, <1>t DEF TypeOK
    <3> QED BY <3>1, <2>2, <1>s, <1>z, ZenonT(60)
  <2>3. CASE t = s /\ ~(count <= 0)
    <3>1. Ae(sent_packets'[s]) # {} /\ Ae(sent_packets[s]) # {}
      <4>1. Ae(sent_packets'[s]) # {}
        BY <2>3, <1>s, <1>z
      <4>2. Ae(sent_packets'[s]) \subseteq Ae(sent_packets[s])
        BY <1>s DEF Ae
      <4> QED BY <4>1, <4>2
    <3>2. pto_base_set'[s] = pto_base_set[s]
      BY <2>3, <1>a
    <3> QED BY <3>1, <3>2, <2>0, <2>3
  <2> QED BY <2>1, <2>2, <2>3, SMTT(40)
<1>5. RecordsOutstanding'
  <2> SUFFICES ASSUME NEW q \in app_frames_sent'
               PROVE  App \in Spaces /\ q \in Pns(Ae(sent_packets'[App]))
    BY DEF RecordsOutstanding
  <2>1. q \in app_frames_sent /\ (s = App => q \notin Pns(gone))
    BY <1>a
  <2>2. App \in Spaces /\ q \in Pns(Ae(sent_packets[App]))
    BY <2>1 DEF RecoveryInv, RecordsOutstanding
  <2>3. PICK p \in Ae(sent_packets[App]) : p.pn = q
    BY <2>2 DEF Pns
  <2>4. p \in sent_packets'[App]
    <3>1. CASE s = App
      <4>1. p \notin gone
        BY <3>1, <2>1, <2>3, SMTT(40) DEF Pns
      <4> QED BY <4>1, <3>1, <2>3, <1>s DEF Ae
    <3>2. CASE s # App
      BY <3>2, <2>2, <2>3, <1>s, SMTT(40) DEF Ae
    <3> QED BY <3>1, <3>2
  <2> QED BY <2>2, <2>3, <2>4 DEF Pns, Ae
<1>6. NumbersSound' /\ (skip_lo <= skip_hi)'
  <2>1. \A t \in Spaces : sent_packets'[t] \subseteq sent_packets[t]
    BY <1>s, SMTT(40)
  <2> QED BY <2>1, <1>a DEF RecoveryInv, NumbersSound
<1>7. UnkeyedIsQuiet'
  BY <1>a, <1>t DEF RecoveryInv, UnkeyedIsQuiet, TypeOK
<1> QED BY <1>1, <1>2, <1>3, <1>4, <1>5, <1>6, <1>7, <1>l DEF RecoveryInv

-----------------------------------------------------------------------------

\* Every step, one action at a time.
LEMMA StepInv == RecoveryInv /\ [Next]_vars => RecoveryInv'
<1> SUFFICES ASSUME RecoveryInv, [Next]_vars PROVE RecoveryInv'
  OBVIOUS
<1>1. ASSUME NEW s \in Spaces, InstallKeys(s) PROVE RecoveryInv'
  BY <1>1, InstallKeysInv
<1>2. ASSUME NEW s \in Spaces, NEW k \in Kinds, NEW gap \in 0 .. MaxGap,
             NEW recorded \in BOOLEAN, Send(s, k, gap, recorded)
      PROVE  RecoveryInv'
  BY <1>2, SendInv
<1>3. ASSUME NEW s \in Spaces, NEW pns \in SUBSET (0 .. (MaxPn[s] + 1)),
             \/ \E old \in -1 .. MaxPn[s] : HandleAck(s, pns, old)
             \/ HandleStaleAck(s, pns)
             \/ HandleOptimisticAck(s, pns)
      PROVE  RecoveryInv'
  <2>1. MaxPn[s] + 1 \in Nat
    BY LossRecoveryAssumption
  <2>2. CASE \E old \in -1 .. MaxPn[s] : HandleAck(s, pns, old)
    <3>1. PICK old \in -1 .. MaxPn[s] : HandleAck(s, pns, old)
      BY <2>2
    <3>2. old \in Int
      BY LossRecoveryAssumption
    <3> QED BY <2>1, <3>1, <3>2, HandleAckInv, Zenon
  <2>3. CASE HandleStaleAck(s, pns)
    BY <2>1, <2>3, StaleAckInv, ZenonT(60)
  <2>4. CASE HandleOptimisticAck(s, pns)
    BY <2>4, OptimisticAckInv
  <2> QED BY <1>3, <2>2, <2>3, <2>4
<1>4. ASSUME NEW s \in Spaces, DiscardSpace(s) PROVE RecoveryInv'
  BY <1>4, DiscardSpaceInv
<1>5. ASSUME NEW fired \in SUBSET Spaces, PtoFires(fired) PROVE RecoveryInv'
  BY <1>5, PtoFiresInv
<1>6. CASE HandshakeComplete
  BY <1>6, HandshakeCompleteInv
<1>7. CASE Retry
  BY <1>7, RetryInv
<1>8. CASE Close
  BY <1>8, CloseInv
<1>9. CASE UNCHANGED vars
  <2>1. UNCHANGED <<spaceVars, app_frames_sent>> /\ TypeOK'
    BY <1>9 DEF vars, spaceVars, connVars, RecoveryInv, TypeOK
  <2> QED BY <2>1, StateChangeInv, SMTT(40)
<1> QED BY <1>1, <1>2, <1>3, <1>4, <1>5, <1>6, <1>7, <1>8, <1>9 DEF Next

\* RecoveryInv holds in every reachable state: the count of ack-eliciting
\* packets, the PTO base, the stream frame records and the packet numbers of
\* PacketNumberSpace agree with the packets outstanding.
THEOREM RecoveryInvariant == Spec => []RecoveryInv
BY InitInv, StepInv, PTL DEF Spec

\* ae_in_flight counts the outstanding ack-eliciting packets.
THEOREM AeCountIsExact == Spec => []AeCountExact
<1>1. RecoveryInv => AeCountExact
  BY DEF RecoveryInv
<1> QED BY <1>1, RecoveryInvariant, PTL

\* time_of_last_ae_sent is set exactly while an ack-eliciting packet is
\* outstanding.
THEOREM ProbeTimeoutIsArmed == Spec => []BaseIffOutstanding
<1>1. RecoveryInv => BaseIffOutstanding
  BY DEF RecoveryInv
<1> QED BY <1>1, RecoveryInvariant, PTL

\* Every record in app_frames_sent belongs to an outstanding packet, so its
\* frames are settled once.
THEOREM FramesAreSettledOnce == Spec => []RecordsOutstanding
<1>1. RecoveryInv => RecordsOutstanding
  BY DEF RecoveryInv
<1> QED BY <1>1, RecoveryInvariant, PTL

\* No ACK of a number that was not sent moves largest_acked_pn.
THEOREM LargestAckedIsSound == Spec => []LargestAckedSound
<1>1. RecoveryInv => LargestAckedSound
  BY SMTT(40) DEF RecoveryInv
<1> QED BY <1>1, RecoveryInvariant, PTL


-----------------------------------------------------------------------------

\* The step that ProbeKept speaks of.
ProbeStep ==
    \A s \in Spaces :
        (probe_pending[s] /\ ~probe_pending'[s]) =>
            \/ \E p \in sent_packets'[s] \ sent_packets[s] : p.ae
            \/ Ae(sent_packets'[s]) = {}

\* Sending drops a probe only with a new ack-eliciting packet.
LEMMA SendProbe ==
    ASSUME RecoveryInv, NEW s \in Spaces, NEW k \in Kinds, NEW gap \in 0 .. MaxGap,
           NEW recorded \in BOOLEAN, Send(s, k, gap, recorded)
    PROVE  ProbeStep
<1> DEFINE pn == next_pn[s] + gap
           p == [pn |-> pn, ae |-> k.ae, in_flight |-> k.in_flight, size |-> k.size]
<1>a. /\ sent_packets' = [sent_packets EXCEPT ![s] = @ \cup {p}]
      /\ probe_pending' = IF k.ae THEN [probe_pending EXCEPT ![s] = FALSE]
                                  ELSE probe_pending
  BY DEF Send, ProbesAfterSend
<1>t. TypeOK /\ NumbersSound
  BY DEF RecoveryInv
<1>1. p \in sent_packets'[s]
  BY <1>a, <1>t, SMTT(40) DEF TypeOK
<1>2. p \notin sent_packets[s]
  <2>1. next_pn[s] \in Nat /\ gap \in Nat
    BY <1>t, LossRecoveryAssumption DEF TypeOK
  <2>2. p.pn = next_pn[s] + gap
    OBVIOUS
  <2>3. \A q \in sent_packets[s] : q.pn < next_pn[s]
    BY <1>t DEF NumbersSound
  <2>4. ~(p.pn < next_pn[s])
    BY <2>1, <2>2
  <2> HIDE DEF p, pn
  <2> QED BY <2>3, <2>4
<1> SUFFICES ASSUME NEW t \in Spaces, probe_pending[t], ~probe_pending'[t]
             PROVE  \E q \in sent_packets'[t] \ sent_packets[t] : q.ae
  BY DEF ProbeStep
<1>3. k.ae /\ t = s
  BY <1>a, <1>t DEF TypeOK
<1> QED BY <1>1, <1>2, <1>3, SMTT(40)

\* Acknowledgement drops a probe only when no ack-eliciting packet is left.
LEMMA AckProbe ==
    ASSUME RecoveryInv, RecoveryInv', NEW s \in Spaces, NEW pns, NEW old,
           HandleAck(s, pns, old)
    PROVE  ProbeStep
<1> SUFFICES ASSUME NEW t \in Spaces, probe_pending[t], ~probe_pending'[t]
             PROVE  Ae(sent_packets'[t]) = {}
  BY SMTT(40) DEF ProbeStep
<1>t. TypeOK /\ TypeOK'
  BY SMTT(40) DEF RecoveryInv
<1>1. PICK count : /\ ae_in_flight' = [ae_in_flight EXCEPT
                                        ![s] = IF count <= 0 THEN 0 ELSE count]
                   /\ probe_pending' = IF count <= 0
                                       THEN [probe_pending EXCEPT ![s] = FALSE]
                                       ELSE probe_pending
  BY Zenon DEF HandleAck
<1>2. t = s /\ count <= 0
  BY <1>1, <1>t DEF TypeOK
<1>3. ae_in_flight'[s] <= 0 /\ ae_in_flight'[s] \in Nat
  BY <1>1, <1>2, <1>t, SMTT(40) DEF TypeOK
<1>4. ae_in_flight'[s] = Cardinality(Ae(sent_packets'[s])) /\ IsFiniteSet(sent_packets'[s])
  BY DEF RecoveryInv, AeCountExact
<1>5. Cardinality(Ae(sent_packets'[s])) = 0
  BY <1>3, <1>4
<1> QED BY <1>2, <1>4, <1>5, NoneCounted, SMTT(40)

\* Forgetting a space drops its probe with its packets.
LEMMA ForgetProbe ==
    ASSUME RecoveryInv, NEW s \in Spaces, Forget(s)
    PROVE  ProbeStep
<1>t. TypeOK
  BY DEF RecoveryInv
<1>1. sent_packets'[s] = {} /\ probe_pending' = [probe_pending EXCEPT ![s] = FALSE]
  BY <1>t DEF Forget, TypeOK
<1> SUFFICES ASSUME NEW t \in Spaces, probe_pending[t], ~probe_pending'[t]
             PROVE  Ae(sent_packets'[t]) = {}
  BY DEF ProbeStep
<1>2. t = s
  BY <1>1, <1>t DEF TypeOK
<1> QED BY <1>1, <1>2 DEF Ae

\* A pending probe is never lost: _check_timers' decision to probe a space
\* stands until an ack-eliciting packet went out in it or none is outstanding.
THEOREM ProbesAreKept == Spec => ProbeKept
<1>1. ASSUME RecoveryInv, RecoveryInv', [Next]_vars PROVE [ProbeStep]_vars
  <2>0. SUFFICES ASSUME Next PROVE ProbeStep
    BY <1>1, SMTT(40)
  <2>1. ASSUME UNCHANGED probe_pending PROVE ProbeStep
    BY <2>1 DEF ProbeStep
  <2>2. ASSUME NEW s \in Spaces, NEW k \in Kinds, NEW gap \in 0 .. MaxGap,
               NEW recorded \in BOOLEAN, Send(s, k, gap, recorded)
        PROVE  ProbeStep
    BY <1>1, <2>2, SendProbe
  <2>3. ASSUME NEW s \in Spaces, NEW pns, NEW old, HandleAck(s, pns, old)
        PROVE  ProbeStep
    BY <1>1, <2>3, AckProbe
  <2>4. ASSUME NEW s \in Spaces, DiscardSpace(s) PROVE ProbeStep
    BY <1>1, <2>4, ForgetProbe DEF DiscardSpace
  <2>5. ASSUME Retry PROVE ProbeStep
    BY <1>1, <2>5, ForgetProbe DEF Retry
  <2>6. ASSUME NEW fired \in SUBSET Spaces, PtoFires(fired) PROVE ProbeStep
    <3>1. \A t \in Spaces : probe_pending[t] => probe_pending'[t]
      BY <2>6, Zenon DEF PtoFires
    <3> QED BY <3>1 DEF ProbeStep
  <2>7. ASSUME \/ \E s \in Spaces : \/ InstallKeys(s)
                                    \/ \E pns : \/ HandleStaleAck(s, pns)
                                                \/ HandleOptimisticAck(s, pns)
               \/ HandshakeComplete
               \/ Close
        PROVE  ProbeStep
    <3>1. UNCHANGED probe_pending
      BY <2>7 DEF InstallKeys, HandleStaleAck, HandleOptimisticAck,
                  HandshakeComplete, Close, spaceVars
    <3> QED BY <3>1, <2>1
  <2> QED BY <2>0, <2>2, <2>3, <2>4, <2>5, <2>6, <2>7 DEF Next
<1> QED BY <1>1, RecoveryInvariant, PTL DEF Spec, ProbeKept, ProbeStep

=============================================================================
