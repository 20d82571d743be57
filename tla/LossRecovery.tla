---------------------------- MODULE LossRecovery ----------------------------
(***************************************************************************)
(* The sending half of the packet number spaces (quic/pn_space.mojo) with  *)
(* the recovery state they share (quic/recovery.mojo): the packets sent    *)
(* and not settled, the count of ack-eliciting ones, the base of the probe *)
(* timeout (PTO), the probes pending, the bytes in flight, and the records *)
(* of stream frames by packet number (app_frames_sent).                    *)
(*                                                                         *)
(* Clock values are left out.  time_of_last_ae_sent is whether it is set,  *)
(* a PTO may fire whenever its deadline exists, and the time threshold of  *)
(* loss detection takes any prefix of the packets older than the largest   *)
(* acknowledged one (send times grow with packet numbers).                 *)
(***************************************************************************)
EXTENDS Integers, FiniteSets, FiniteSetsExt

CONSTANTS Spaces,              \* of 0 (Initial), 1 (Handshake), 2 (Application)
          Kinds,               \* packets: [ae, in_flight, size]
          K_PACKET_THRESHOLD,
          MaxPn,               \* bound: packet numbers of each space
          MaxGap,              \* bound: packet numbers skipped at once
          MaxPto,              \* bound: probe timeouts in a row
          IsServer

ASSUME LossRecoveryAssumption ==
    /\ Spaces \subseteq {0, 1, 2}
    /\ Kinds \subseteq [ae : BOOLEAN, in_flight : BOOLEAN, size : Nat]
    /\ \A k \in Kinds : k.ae => k.in_flight
    /\ K_PACKET_THRESHOLD \in Nat \ {0} /\ MaxPn \in [Spaces -> Nat] /\ MaxGap \in Nat
    /\ MaxPto \in Nat /\ IsServer \in BOOLEAN

VARIABLES next_pn, sent_packets, largest_acked_pn, ae_in_flight,
          pto_base_set,      \* time_of_last_ae_sent is not None
          probe_pending,
          keys,              \* "none", "installed", "discarded"
          skip_lo, skip_hi   \* the last gap, Application space only

VARIABLES bytes_in_flight, pto_count,
          app_frames_sent,   \* the packet numbers with a record
          retried, handshaking, closing

spaceVars == <<next_pn, sent_packets, largest_acked_pn, ae_in_flight,
               pto_base_set, probe_pending, keys, skip_lo, skip_hi>>
connVars == <<bytes_in_flight, pto_count, app_frames_sent, retried,
              handshaking, closing>>
vars == <<spaceVars, connVars>>

None == -1
App == 2
Packet == [pn : Nat, ae : BOOLEAN, in_flight : BOOLEAN, size : Nat]

Pns(P) == {p.pn : p \in P}
Ae(P) == {p \in P : p.ae}
Bytes(P) == MapThenSumSet(LAMBDA p : p.size, {p \in P : p.in_flight})

Init ==
    /\ next_pn = [s \in Spaces |-> 0]
    /\ sent_packets = [s \in Spaces |-> {}]
    /\ largest_acked_pn = [s \in Spaces |-> None]
    /\ ae_in_flight = [s \in Spaces |-> 0]
    /\ pto_base_set = [s \in Spaces |-> FALSE]
    /\ probe_pending = [s \in Spaces |-> FALSE]
    /\ keys = [s \in Spaces |-> IF s = 0 THEN "installed" ELSE "none"]
    /\ skip_lo = 0 /\ skip_hi = 0
    /\ bytes_in_flight = 0 /\ pto_count = 0 /\ app_frames_sent = {}
    /\ retried = FALSE /\ handshaking = TRUE /\ closing = FALSE

\* _install_new_keys.
InstallKeys(s) ==
    /\ keys[s] = "none"
    /\ keys' = [keys EXCEPT ![s] = "installed"]
    /\ UNCHANGED <<next_pn, sent_packets, largest_acked_pn, ae_in_flight,
                   pto_base_set, probe_pending, skip_lo, skip_hi, connVars>>

\* _on_handshake_complete: probes of an idle client stop.
HandshakeComplete ==
    /\ handshaking /\ ~closing
    /\ handshaking' = FALSE
    /\ UNCHANGED <<spaceVars, bytes_in_flight, pto_count, app_frames_sent,
                   retried, closing>>

-----------------------------------------------------------------------------
(* Sending *)

\* Mutant: any packet satisfies the probe.
ProbesAfterSendAny(s, k) == [probe_pending EXCEPT ![s] = FALSE]

ProbesAfterSend(s, k) ==
    IF k.ae THEN [probe_pending EXCEPT ![s] = FALSE] ELSE probe_pending

GapEnd(s, gap) == next_pn[s] + gap

\* alloc_pn, on_packet_sent and the record of its stream frames.  `gap`
\* numbers are skipped first, in the Application space only.
Send(s, k, gap, recorded) ==
    LET pn == next_pn[s] + gap
        p == [pn |-> pn, ae |-> k.ae, in_flight |-> k.in_flight, size |-> k.size]
    IN  /\ keys[s] = "installed" /\ (closing => ~k.ae)
        /\ gap > 0 => s = App /\ ~handshaking
        /\ pn <= MaxPn[s]
        /\ next_pn' = [next_pn EXCEPT ![s] = pn + 1]
        /\ skip_lo' = IF gap > 0 THEN next_pn[s] ELSE skip_lo
        /\ skip_hi' = IF gap > 0 THEN GapEnd(s, gap) ELSE skip_hi
        /\ sent_packets' = [sent_packets EXCEPT ![s] = @ \cup {p}]
        /\ ae_in_flight' = IF k.ae THEN [ae_in_flight EXCEPT ![s] = @ + 1]
                                   ELSE ae_in_flight
        /\ pto_base_set' = IF k.ae THEN [pto_base_set EXCEPT ![s] = TRUE]
                                   ELSE pto_base_set
        /\ probe_pending' = ProbesAfterSend(s, k)
        /\ bytes_in_flight' = bytes_in_flight + Bytes({p})
        /\ recorded => s = App /\ k.ae
        /\ app_frames_sent' = IF recorded THEN app_frames_sent \cup {pn}
                                          ELSE app_frames_sent
        /\ UNCHANGED <<largest_acked_pn, keys, pto_count, retried, handshaking,
                       closing>>

-----------------------------------------------------------------------------
(* Acknowledgements and losses *)

\* An ACK names a number never sent: not allocated yet, or in the last gap.
Optimistic(s, pns) ==
    \/ \E pn \in pns : pn >= next_pn[s]
    \/ s = App /\ \E pn \in pns : pn \in skip_lo .. (skip_hi - 1)

\* Released bytes; the counter stops at zero.
Release(P) ==
    IF Bytes(P) > bytes_in_flight THEN 0 ELSE bytes_in_flight - Bytes(P)

\* _detect_losses: by packet threshold, or sent long enough ago (up to `old`).
Lost(s, left, largest, old) ==
    {p \in left : /\ p.pn <= largest
                  /\ \/ largest - p.pn >= K_PACKET_THRESHOLD
                     \/ p.pn <= old}

\* Mutant: packets that leave by loss stay in the count.
SettledAckedOnly(s, acked, lost) == ae_in_flight[s] - Cardinality(Ae(acked))

\* The ack-eliciting count after packets were settled, one by one;
\* sync_ae_tracking stops it at zero.
CountAfter(s, acked, lost) == ae_in_flight[s] - Cardinality(Ae(acked \cup lost))

RecordsAfter(s, acked, lost) ==
    IF s = App THEN app_frames_sent \ Pns(acked \cup lost) ELSE app_frames_sent

\* Mutant: sync_ae_tracking is not called.
BaseAfterKept(s, count) == pto_base_set

\* sync_ae_tracking.
BaseAfter(s, count) ==
    IF count <= 0 THEN [pto_base_set EXCEPT ![s] = FALSE] ELSE pto_base_set

\* _handle_ack: the packets named are acknowledged, then losses are detected.
HandleAck(s, pns, old) ==
    LET acked == {p \in sent_packets[s] : p.pn \in pns}
        top == Max(pns)
        largest == IF top > largest_acked_pn[s] THEN top ELSE largest_acked_pn[s]
        left == sent_packets[s] \ acked
        lost == Lost(s, left, largest, old)
        count == CountAfter(s, acked, lost)
    IN  /\ keys[s] = "installed" /\ ~closing
        /\ pns # {} /\ ~Optimistic(s, pns) /\ old < largest
        /\ acked # {}
        /\ largest_acked_pn' = [largest_acked_pn EXCEPT ![s] = largest]
        /\ sent_packets' = [sent_packets EXCEPT ![s] = left \ lost]
        /\ ae_in_flight' = [ae_in_flight EXCEPT ![s] = IF count <= 0 THEN 0 ELSE count]
        /\ pto_base_set' = BaseAfter(s, count)
        /\ probe_pending' = IF count <= 0 THEN [probe_pending EXCEPT ![s] = FALSE]
                                          ELSE probe_pending
        /\ bytes_in_flight' = Release(acked \cup lost)
        /\ app_frames_sent' = RecordsAfter(s, acked, lost)
        /\ pto_count' = 0
        /\ UNCHANGED <<next_pn, keys, skip_lo, skip_hi, retried, handshaking, closing>>

\* An ACK of nothing outstanding only moves the largest number.
HandleStaleAck(s, pns) ==
    /\ keys[s] = "installed" /\ ~closing
    /\ pns # {} /\ ~Optimistic(s, pns)
    /\ {p \in sent_packets[s] : p.pn \in pns} = {}
    /\ largest_acked_pn' = [largest_acked_pn EXCEPT
                              ![s] = IF Max(pns) > @ THEN Max(pns) ELSE @]
    /\ UNCHANGED <<next_pn, sent_packets, ae_in_flight, pto_base_set,
                   probe_pending, keys, skip_lo, skip_hi, connVars>>

\* An optimistic ACK closes the connection and changes nothing else.
HandleOptimisticAck(s, pns) ==
    /\ keys[s] = "installed" /\ ~closing
    /\ pns # {} /\ Optimistic(s, pns)
    /\ closing' = TRUE
    /\ UNCHANGED <<spaceVars, bytes_in_flight, pto_count, app_frames_sent,
                   retried, handshaking>>

-----------------------------------------------------------------------------
(* Probe timeouts *)

HighestKeyed == {s \in Spaces : /\ keys[s] = "installed"
                                /\ \A t \in Spaces : keys[t] = "installed" => t <= s}

\* _pto_deadline is not None.  (A server whose client's address is not
\* validated has none: here its timeouts just do not fire.)
HasDeadline(s) ==
    /\ ~closing /\ keys[s] = "installed" /\ ~probe_pending[s]
    /\ \/ pto_base_set[s]
       \/ /\ ~IsServer /\ handshaking /\ s \in HighestKeyed
          /\ \A t \in Spaces : ~pto_base_set[t]

\* _check_timers: every space whose deadline has passed gets a probe, and the
\* backoff grows once.
PtoFires(fired) ==
    /\ fired # {} /\ \A s \in fired : HasDeadline(s)
    /\ pto_count < MaxPto
    /\ probe_pending' = [s \in Spaces |-> s \in fired \/ probe_pending[s]]
    /\ pto_count' = pto_count + 1
    /\ UNCHANGED <<next_pn, sent_packets, largest_acked_pn, ae_in_flight,
                   pto_base_set, keys, skip_lo, skip_hi, bytes_in_flight,
                   app_frames_sent, retried, handshaking, closing>>

-----------------------------------------------------------------------------
(* Discarding a space, Retry, close *)

\* Mutant: the bytes in flight are not released.
ForgetKeepsBytes(s) ==
    /\ sent_packets' = [sent_packets EXCEPT ![s] = {}]
    /\ ae_in_flight' = [ae_in_flight EXCEPT ![s] = 0]
    /\ pto_base_set' = [pto_base_set EXCEPT ![s] = FALSE]
    /\ probe_pending' = [probe_pending EXCEPT ![s] = FALSE]
    /\ UNCHANGED bytes_in_flight

\* Everything of space s is forgotten and its bytes released.
Forget(s) ==
    /\ sent_packets' = [sent_packets EXCEPT ![s] = {}]
    /\ ae_in_flight' = [ae_in_flight EXCEPT ![s] = 0]
    /\ pto_base_set' = [pto_base_set EXCEPT ![s] = FALSE]
    /\ probe_pending' = [probe_pending EXCEPT ![s] = FALSE]
    /\ bytes_in_flight' = Release(sent_packets[s])

\* _discard_initial_space, _discard_handshake_space.
DiscardSpace(s) ==
    /\ s # App /\ keys[s] = "installed"
    /\ Forget(s)
    /\ keys' = [keys EXCEPT ![s] = "discarded"]
    /\ UNCHANGED <<next_pn, largest_acked_pn, skip_lo, skip_hi, pto_count,
                   app_frames_sent, retried, handshaking, closing>>

\* _on_retry: the Initial packets are forgotten, numbers go on.
Retry ==
    /\ ~IsServer /\ ~retried /\ ~closing /\ 0 \in Spaces
    /\ keys[0] = "installed" /\ \A s \in Spaces \ {0} : keys[s] = "none"
    /\ largest_acked_pn[0] = None
    /\ Forget(0)
    /\ retried' = TRUE
    /\ UNCHANGED <<next_pn, largest_acked_pn, keys, skip_lo, skip_hi, pto_count,
                   app_frames_sent, handshaking, closing>>

\* close_transport, close_app, or a peer's close.
Close ==
    /\ ~closing
    /\ closing' = TRUE
    /\ UNCHANGED <<spaceVars, bytes_in_flight, pto_count, app_frames_sent,
                   retried, handshaking>>

Next ==
    \/ \E s \in Spaces :
          \/ InstallKeys(s)
          \/ \E k \in Kinds, gap \in 0 .. MaxGap, recorded \in BOOLEAN :
                Send(s, k, gap, recorded)
          \/ \E pns \in SUBSET (0 .. (MaxPn[s] + 1)) :
                \/ \E old \in -1 .. MaxPn[s] : HandleAck(s, pns, old)
                \/ HandleStaleAck(s, pns)
                \/ HandleOptimisticAck(s, pns)
          \/ DiscardSpace(s)
    \/ \E fired \in SUBSET Spaces : PtoFires(fired)
    \/ HandshakeComplete
    \/ Retry
    \/ Close

Spec == Init /\ [][Next]_vars

-----------------------------------------------------------------------------
(* Properties *)

\* Type invariant.
TypeOK ==
    /\ next_pn \in [Spaces -> Nat]
    /\ sent_packets \in [Spaces -> SUBSET Packet]
    /\ largest_acked_pn \in [Spaces -> Nat \cup {None}]
    /\ ae_in_flight \in [Spaces -> Nat]
    /\ pto_base_set \in [Spaces -> BOOLEAN]
    /\ probe_pending \in [Spaces -> BOOLEAN]
    /\ keys \in [Spaces -> {"none", "installed", "discarded"}]
    /\ skip_lo \in Nat /\ skip_hi \in Nat
    /\ app_frames_sent \subseteq Nat
    /\ handshaking \in BOOLEAN /\ closing \in BOOLEAN /\ retried \in BOOLEAN
    /\ pto_count \in Nat

\* The running count of ack-eliciting packets is what sent_packets holds,
\* after any mix of sends, ACKs, losses, discards and Retry.
AeCountExact == \A s \in Spaces : ae_in_flight[s] = Cardinality(Ae(sent_packets[s]))

\* A space has a PTO base exactly while an ack-eliciting packet is
\* outstanding in it: none is ever left without a probe timeout, and no
\* timer runs for nothing.
BaseIffOutstanding ==
    \A s \in Spaces : pto_base_set[s] <=> Ae(sent_packets[s]) # {}

\* A stream frame record belongs to an ack-eliciting packet still outstanding
\* in the Application space: it is applied once, as acknowledged or as lost.
RecordsOutstanding ==
    app_frames_sent # {} =>
        App \in Spaces /\ app_frames_sent \subseteq Pns(Ae(sent_packets[App]))

\* Outstanding packets have distinct numbers, all allocated, none in the gap
\* that the optimistic-ACK check watches.
NumbersSound ==
    \A s \in Spaces :
        /\ \A p, q \in sent_packets[s] : p.pn = q.pn => p = q
        /\ \A p \in sent_packets[s] : p.pn < next_pn[s]
        /\ s = App => /\ \A p \in sent_packets[s] : p.pn \notin skip_lo .. (skip_hi - 1)
                      /\ skip_hi <= next_pn[s]

\* The largest acknowledged number was allocated and is not in the gap: an
\* optimistic ACK never moves the threshold that declares packets lost.
LargestAckedSound ==
    \A s \in Spaces :
        /\ largest_acked_pn[s] < next_pn[s]
        /\ s = App => largest_acked_pn[s] \notin skip_lo .. (skip_hi - 1)

\* The bytes in flight are exactly those of the outstanding packets: the
\* counter never hits its floor.
BytesExact ==
    bytes_in_flight = MapThenSumSet(LAMBDA s : Bytes(sent_packets[s]), Spaces)

\* A space without keys has nothing outstanding and asks for no probe.
UnkeyedIsQuiet ==
    \A s \in Spaces : keys[s] # "installed" =>
        sent_packets[s] = {} /\ ~pto_base_set[s] /\ ~probe_pending[s]

\* The inductive invariant behind all of these but BytesExact.
RecoveryInv ==
    /\ TypeOK
    /\ \A s \in Spaces : IsFiniteSet(sent_packets[s])
    /\ skip_lo <= skip_hi
    /\ AeCountExact
    /\ BaseIffOutstanding
    /\ RecordsOutstanding
    /\ NumbersSound
    /\ LargestAckedSound
    /\ UnkeyedIsQuiet

\* A pending probe is dropped only when an ack-eliciting packet goes out in
\* its space, or none is outstanding there any more.
ProbeKept ==
    [][\A s \in Spaces :
          (probe_pending[s] /\ ~probe_pending'[s]) =>
              \/ \E p \in sent_packets'[s] \ sent_packets[s] : p.ae
              \/ Ae(sent_packets'[s]) = {}]_vars

=============================================================================
