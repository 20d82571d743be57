---------------------------- MODULE CryptoStream ----------------------------
(***************************************************************************)
(* The CRYPTO stream of one encryption level (quic/crypto_stream.mojo),    *)
(* from the TLS engine that writes it to the TLS engine that reads it.     *)
(* The sender stages bytes, frames them one frame per packet, and stages   *)
(* them again after a loss, a probe timeout, a packet at a lower level or  *)
(* a Retry.  The network loses, reorders and duplicates packets.  The      *)
(* receiver reassembles and feeds TLS after every packet.                  *)
(*                                                                         *)
(* A byte is its rank in what TLS wrote: byte b belongs at offset b - 1.   *)
(***************************************************************************)
EXTENDS Integers, Sequences, SequencesExt, FiniteSets, FiniteSetsExt

CONSTANTS MaxBytes,       \* bound: bytes TLS writes
          MaxPackets,     \* bound: packets sent
          Chunks,         \* bytes a packet has room for
          Window,         \* how far ahead of recv_offset data may start (16384)
          MaxPending      \* MAX_PENDING_FRAGMENTS

ASSUME CryptoStreamAssumption ==
    /\ MaxBytes \in Nat /\ MaxPackets \in Nat /\ Chunks \subseteq Nat \ {0}
    /\ Window \in Nat /\ MaxPending \in Nat

VARIABLES written,        \* bytes TLS has written
          send,           \* send_offset, send_buf, sent_cursor
          packets,        \* the CRYPTO frame of every packet sent, by number
          in_flight,      \* sent_packets
          acked,          \* packets acknowledged
          largest_acked,
          retry_at,       \* last packet sent before a Retry; None if there was none
          lost_ever       \* history: some packet was declared lost

VARIABLES received,           \* packets the receiver processed
          tls_in,             \* bytes fed to TLS; recv_offset is its length
          pending_fragments

sendVars == <<written, send, packets, in_flight, acked, largest_acked,
              retry_at, lost_ever>>
recvVars == <<received, tls_in, pending_fragments>>
vars == <<sendVars, recvVars>>

None == -1
K_PACKET_THRESHOLD == 3

Frame(off, data) == [offset |-> off, data |-> data]
EndOf(f) == f.offset + Len(f.data)
From(s, n) == SubSeq(s, n + 1, Len(s))         \* s without its first n

-----------------------------------------------------------------------------
(* Send side *)

Unsent(s) == From(s.buf, s.cursor)
HasUnsent(s) == s.cursor < Len(s.buf)

\* Mutant: the offset is not moved over the prefix dropped.
CompactKeepsOffset(s) == [offset |-> s.offset, buf |-> Unsent(s), cursor |-> 0]

CompactSent(s) ==
    [offset |-> s.offset + s.cursor, buf |-> Unsent(s), cursor |-> 0]

Write(n) ==
    /\ written + n <= MaxBytes
    /\ written' = written + n
    /\ send' = [send EXCEPT !.buf = @ \o [i \in 1 .. n |-> written + i]]
    /\ UNCHANGED <<packets, in_flight, acked, largest_acked, retry_at, lost_ever,
                   recvVars>>

\* next_crypto_frame with room for k bytes, in a packet of its own.
Emit(k) ==
    LET chunk == SubSeq(send.buf, send.cursor + 1,
                        Min({Len(send.buf), send.cursor + k}))
        moved == [send EXCEPT !.cursor = @ + Len(chunk)]
    IN  /\ HasUnsent(send) /\ Len(packets) < MaxPackets
        /\ packets' = Append(packets, Frame(send.offset + send.cursor, chunk))
        /\ in_flight' = in_flight \cup {Len(packets) + 1}
        /\ send' = IF HasUnsent(moved) THEN moved ELSE CompactSent(moved)
        /\ UNCHANGED <<written, acked, largest_acked, retry_at, lost_ever, recvVars>>

\* requeue: an empty buffer takes the frame, an earlier frame replaces the
\* buffer, one that continues it is appended, and any other is ignored.
Requeue(s, f) ==
    LET c == CompactSent(s)
        end == c.offset + Len(c.buf)
    IN  IF c.buf = <<>> \/ f.offset < c.offset
        THEN [offset |-> f.offset, buf |-> f.data, cursor |-> 0]
        ELSE IF f.offset <= end
        THEN [c EXCEPT !.buf = @ \o From(f.data, end - f.offset)]
        ELSE c

\* The frames of a set of packets, in packet number order.
FramesOf(pns) == [i \in 1 .. Cardinality(pns) |->
                    packets[CHOOSE pn \in pns : Cardinality({q \in pns : q <= pn}) = i]]

\* _handle_ack and _detect_losses: packets `pns` are acknowledged; those up to
\* `x`, older than the largest acknowledged, are lost and their data requeued.
Acknowledge(pns, x) ==
    LET largest == Max(pns \cup {largest_acked})
        left == in_flight \ pns
        lost == {pn \in left : pn <= x}
    IN  /\ pns # {}
        /\ x < largest /\ x >= largest - K_PACKET_THRESHOLD
        /\ acked' = acked \cup pns
        /\ largest_acked' = largest
        /\ in_flight' = left \ lost
        /\ send' = FoldLeft(Requeue, send, FramesOf(lost))
        /\ lost_ever' = (lost_ever \/ lost # {})
        /\ UNCHANGED <<written, packets, retry_at, recvVars>>

\* Mutant: without looking whether something is still staged.
RetransmitAlways ==
    /\ in_flight # {}
    /\ send' = FoldLeft(Requeue, send, FramesOf(in_flight))
    /\ UNCHANGED <<written, packets, in_flight, acked, largest_acked, retry_at,
                   lost_ever, recvVars>>

\* A probe timeout, or a packet received at a lower level: all that is in
\* flight is staged again, unless something still is.
RetransmitAll ==
    /\ ~HasUnsent(send) /\ in_flight # {}
    /\ send' = FoldLeft(Requeue, send, FramesOf(in_flight))
    /\ UNCHANGED <<written, packets, in_flight, acked, largest_acked, retry_at,
                   lost_ever, recvVars>>

\* rewind's buffer, or none if the frames sent leave a gap.
NoBuffer == <<0>>

Rewound(frames) ==
    LET Join(buf, f) ==
          IF buf = NoBuffer \/ f.offset > Len(buf) THEN NoBuffer
          ELSE buf \o From(f.data, Len(buf) - f.offset)
    IN  FoldLeft(Join, <<>>, frames)

\* Mutant: rewind forgets the bytes not sent yet.
RewindSentOnly == Rewound(FramesOf(in_flight))

Rewind ==
    Rewound(FramesOf(in_flight) \o
            IF HasUnsent(send) THEN <<Frame(send.offset + send.cursor, Unsent(send))>>
                               ELSE <<>>)

\* _on_retry: the first Retry, from a server that has read nothing.  Only a
\* client's Initial level follows one.
Retry ==
    /\ retry_at = None /\ received = {}
    /\ Rewind # NoBuffer
    /\ retry_at' = Len(packets)
    /\ send' = [offset |-> 0, buf |-> Rewind, cursor |-> 0]
    /\ in_flight' = {}
    /\ UNCHANGED <<written, packets, acked, largest_acked, lost_ever, recvVars>>

-----------------------------------------------------------------------------
(* Receive side *)

\* One turn of _merge_pending: the first fragment that starts within the
\* buffer gives it what it has beyond.
MergeStep(st) ==
    LET ready == {i \in 1 .. Len(st.pend) : st.pend[i].offset <= Len(st.buf)}
        f == st.pend[Min(ready)]
    IN  IF ready = {} THEN st
        ELSE [buf  |-> st.buf \o From(f.data, Len(st.buf) - f.offset),
              pend |-> RemoveAt(st.pend, Min(ready))]

MergePending(st) == FoldLeft(LAMBDA a, f : MergeStep(a), st, st.pend)

\* Mutant: a fragment that starts inside a pending one counts as held by it.
AlreadyPendingStart(f) ==
    \E p \in ToSet(pending_fragments) : p.offset <= f.offset /\ f.offset <= EndOf(p)

\* One pending fragment holds all of f.
AlreadyPending(f) ==
    \E p \in ToSet(pending_fragments) :
        p.offset <= f.offset /\ EndOf(f) <= EndOf(p)

\* receive, for a frame that is not refused; `buf` counts from offset 0.
Receive(f) ==
    IF EndOf(f) <= Len(tls_in) THEN [buf |-> tls_in, pend |-> pending_fragments]
    ELSE IF f.offset <= Len(tls_in)
    THEN MergePending([buf |-> tls_in \o From(f.data, Len(tls_in) - f.offset),
                       pend |-> pending_fragments])
    ELSE IF AlreadyPending(f)
    THEN [buf |-> tls_in, pend |-> pending_fragments]
    ELSE MergePending([buf |-> tls_in, pend |-> Append(pending_fragments, f)])

\* receive raises: the packet stays unprocessed, and is not acknowledged.
Refused(f) ==
    \/ f.offset > Len(tls_in) + Window
    \/ /\ f.offset > Len(tls_in)
       /\ ~AlreadyPending(f)
       /\ Len(pending_fragments) >= MaxPending

\* A packet arrives for the first time; _drive_handshake then drains to TLS.
\* Packets from before a Retry went to a server that did not read them.
Deliver(pn) ==
    LET r == Receive(packets[pn])
    IN  /\ pn > retry_at /\ pn \notin received
        /\ ~Refused(packets[pn])
        /\ received' = received \cup {pn}
        /\ tls_in' = r.buf
        /\ pending_fragments' = r.pend
        /\ UNCHANGED sendVars

-----------------------------------------------------------------------------

Init ==
    /\ written = 0 /\ send = [offset |-> 0, buf |-> <<>>, cursor |-> 0]
    /\ packets = <<>> /\ in_flight = {} /\ acked = {} /\ largest_acked = None
    /\ retry_at = None /\ lost_ever = FALSE
    /\ received = {} /\ tls_in = <<>> /\ pending_fragments = <<>>

Next ==
    \/ \E n \in 1 .. MaxBytes : Write(n)
    \/ \E k \in Chunks : Emit(k)
    \/ \E pns \in SUBSET (received \cap in_flight), x \in 0 .. MaxPackets :
          Acknowledge(pns, x)
    \/ RetransmitAll
    \/ Retry
    \/ \E pn \in DOMAIN packets : Deliver(pn)

Spec == Init /\ [][Next]_vars

-----------------------------------------------------------------------------
(* Properties *)

Bytes == 1 .. MaxBytes
Carried(pns) == UNION {ToSet(packets[pn].data) : pn \in pns}

\* Positions some processed packet carried, and the bytes it had there.
Covered == UNION {packets[pn].offset .. (EndOf(packets[pn]) - 1) : pn \in received}
CarriedAt(pos) ==
    {packets[pn].data[pos - packets[pn].offset + 1] :
        pn \in {q \in received : pos \in packets[q].offset .. (EndOf(packets[q]) - 1)}}

\* Type invariant.
TypeOK ==
    /\ written \in 0 .. MaxBytes
    /\ send.offset \in Nat /\ send.buf \in Seq(Bytes) /\ send.cursor \in 0 .. Len(send.buf)
    /\ Len(packets) <= MaxPackets
    /\ in_flight \subseteq DOMAIN packets /\ acked \subseteq received
    /\ in_flight \cap acked = {}
    /\ tls_in \in Seq(Bytes) /\ Len(pending_fragments) <= MaxPending

\* TLS is fed the longest gapless prefix of what arrived, whatever the order,
\* the overlaps and the duplicates: nothing mergeable is left pending.
PrefixDelivered ==
    /\ 0 .. (Len(tls_in) - 1) \subseteq Covered
    /\ Len(tls_in) \notin Covered

\* Every byte fed to TLS is one a packet carried at that position.
DeliveredAsCarried ==
    \A i \in DOMAIN tls_in : tls_in[i] \in CarriedAt(i - 1)

\* Nothing processed is dropped: what is not yet fed to TLS is pending.
PendingHoldsTheRest ==
    {p \in Covered : p >= Len(tls_in)} =
        UNION {f.offset .. (EndOf(f) - 1) : f \in ToSet(pending_fragments)}

\* The reassembly of receive_with: all three hold in every state.
ReassemblySound ==
    TypeOK /\ PrefixDelivered /\ DeliveredAsCarried /\ PendingHoldsTheRest

\* Every byte TLS wrote is staged, in flight or acknowledged.
AllHeld == 1 .. written \subseteq ToSet(Unsent(send)) \cup Carried(in_flight \cup acked)

\* Probe timeouts and Retry forget no byte: as long as no packet was declared
\* lost, every byte TLS wrote is staged, in flight or acknowledged.
KeptUntilLost == lost_ever \/ AllHeld

\* Byte b is sent at offset b - 1.
AtOwnOffset(f) == \A i \in DOMAIN f.data : f.data[i] = f.offset + i

\* Before anything is acknowledged, every byte is sent and staged at its own
\* offset, through any number of probe timeouts and a Retry, and a Retry finds
\* no gap in what was sent: the client never has to ignore it.
FirstFlightAtOwnOffset ==
    acked = {} => /\ \A pn \in DOMAIN packets : AtOwnOffset(packets[pn])
                  /\ AtOwnOffset(Frame(send.offset, send.buf))
                  /\ Rewind # NoBuffer

\* A Retry that is followed stages everything TLS wrote, from offset 0.
RetryStagesAll ==
    [][retry_at' # retry_at => send' = [offset |-> 0, buf |-> [i \in 1 .. written |-> i],
                                        cursor |-> 0]]_vars

-----------------------------------------------------------------------------
(* What comments and tests claim, and the code does not do *)

\* The CRYPTO data of a packet declared lost is queued for retransmission.
LostIsRequeued ==
    [][\A pn \in in_flight \ (in_flight' \cup acked') :
          ToSet(packets[pn].data) \subseteq
              ToSet(Unsent(send')) \cup Carried(in_flight \cup acked)']_vars

\* send_buf[0] sits at stream offset send_offset: every byte is sent at its
\* own offset.
SentAtOwnOffset == \A pn \in DOMAIN packets : AtOwnOffset(packets[pn])

\* A requeue keeps the bytes not sent yet.
UnsentKept ==
    [][ToSet(Unsent(send)) \subseteq ToSet(Unsent(send')) \cup Carried(in_flight)']_vars

=============================================================================
