------------------------------ MODULE Handshake ------------------------------
(***************************************************************************)
(* The QUIC handshake of two QuicConnections (quic/connection.mojo) over a *)
(* network that loses and reorders datagrams: the three packet number      *)
(* spaces with their keys, CRYPTO flights, ACKs, probe timeouts, the       *)
(* coalescing of packets into datagrams, the server's anti-amplification   *)
(* allowance, and the steps that discard keys and confirm the handshake.   *)
(*                                                                         *)
(* TLS is external: it turns a complete flight at one level into the next. *)
(* A flight is cut into numbered pieces, each the CRYPTO frame of one      *)
(* packet.  Packets are identified by what they carry: a retransmission    *)
(* and its original are the same, so an ACK names contents, not numbers.   *)
(* The congestion window is open, and neither side closes or gives up.     *)
(***************************************************************************)
EXTENDS Integers, Sequences, FiniteSets, FiniteSetsExt

CONSTANTS
  CHello, SHello, SFlight,   \* pieces of the ClientHello, the ServerHello and the server's Handshake flight
  Room,                      \* pieces a full datagram holds
  AmpFactor, Fudge,          \* the server may send AmpFactor times what it received, less Fudge
  MaxAllow,                  \* bound: allowance beyond this is not counted
  MaxNet,                    \* bound: datagrams on the way, per direction
  MaxLosses,                 \* bound: datagrams the network loses
  MaxEarly                   \* bound: probe timers that fire while a datagram is on its way

ASSUME HandshakeAssumption ==
  /\ {CHello, SHello, SFlight, Room, AmpFactor, MaxNet} \subseteq Nat \ {0}
  /\ {Fudge, MaxAllow, MaxLosses, MaxEarly} \subseteq Nat

VARIABLES
  ep,       \* ep[e]: the connection of endpoint e
  net,      \* net[e]: the datagrams on their way to e, oldest first
  losses,   \* datagrams lost so far
  early     \* probe timers that fired with a datagram on its way

vars == <<ep, net, losses, early>>

Endpoints == {"client", "server"}
Peer(e) == IF e = "client" THEN "server" ELSE "client"
Spaces == 0 .. 2           \* Initial, Handshake, Application

PING == 0
HANDSHAKE_DONE == 100

\* What e's TLS writes at level s; HANDSHAKE_DONE stands among the frames of
\* the server's Application space.
Flight(e, s) ==
  CASE e = "client" /\ s = 0 -> 1 .. CHello
    [] e = "client" /\ s = 1 -> {1}
    [] e = "server" /\ s = 0 -> 1 .. SHello
    [] e = "server" /\ s = 1 -> 1 .. SFlight
    [] e = "server" /\ s = 2 -> {HANDSHAKE_DONE}
    [] OTHER -> {}

Frames(e, s) == Flight(e, s) \cup {PING}

\* A connection: keys[s] are installed for s \in keys; sent[s] are the
\* ack-eliciting frames in flight, old[s] those that were already in flight
\* when the probe timer last fired; got[s] is what the peer's packets brought.
Connection(e) ==
  [keys : SUBSET Spaces, complete : BOOLEAN, established : BOOLEAN, validated : BOOLEAN,
   allowance : Int,
   got : [Spaces -> SUBSET Nat], unsent : [Spaces -> SUBSET Nat],
   sent : [Spaces -> SUBSET Nat], old : [Spaces -> SUBSET Nat],
   ack_needed : [Spaces -> BOOLEAN], probe_pending : [Spaces -> BOOLEAN]]

Nothing == [s \in Spaces |-> {}]

Fresh(e) ==
  [keys |-> {0}, complete |-> FALSE, established |-> FALSE, validated |-> e = "client",
   allowance |-> -Fudge,
   got |-> Nothing, sent |-> Nothing, old |-> Nothing,
   unsent |-> IF e = "client" THEN [Nothing EXCEPT ![0] = Flight("client", 0)] ELSE Nothing,
   ack_needed |-> [s \in Spaces |-> FALSE], probe_pending |-> [s \in Spaces |-> FALSE]]

Init ==
  /\ ep = [e \in Endpoints |-> Fresh(e)]
  /\ net = [e \in Endpoints |-> <<>>]
  /\ losses = 0
  /\ early = 0

-----------------------------------------------------------------------------
(* Keys and the TLS engine. *)

\* _discard_initial_space, _discard_handshake_space: packets in flight are
\* forgotten; the CRYPTO stream of the level is left as it is.
Discard(c, s) ==
  [c EXCEPT !.keys = @ \ {s}, !.sent[s] = {}, !.old[s] = {},
            !.ack_needed[s] = FALSE, !.probe_pending[s] = FALSE]

\* Mutant: the client takes a complete handshake for a confirmed one.
DriveClientConfirms(c) ==
  LET hello == IF 0 \in c.keys /\ Flight("server", 0) \subseteq c.got[0]
               THEN [c EXCEPT !.keys = @ \cup {1}] ELSE c
  IN IF ~hello.complete /\ Flight("server", 1) \subseteq hello.got[1]
     THEN Discard([hello EXCEPT !.keys = @ \cup {2}, !.complete = TRUE, !.established = TRUE,
                                !.unsent[1] = Flight("client", 1)], 0)
     ELSE hello

\* _drive_handshake on the client: a complete ServerHello gives Handshake
\* keys; a complete server flight gives the Finished and 1-RTT keys.  The
\* handshake is complete but not confirmed, and Initial keys go.
DriveClient(c) ==
  LET hello == IF 0 \in c.keys /\ Flight("server", 0) \subseteq c.got[0]
               THEN [c EXCEPT !.keys = @ \cup {1}] ELSE c
  IN IF ~hello.complete /\ Flight("server", 1) \subseteq hello.got[1]
     THEN Discard([hello EXCEPT !.keys = @ \cup {2}, !.complete = TRUE,
                                !.unsent[1] = Flight("client", 1)], 0)
     ELSE hello

\* ... and on the server: the ClientHello is answered by the whole flight and
\* both sets of keys; the client's Finished completes and confirms the
\* handshake, discards Initial and Handshake keys and owes HANDSHAKE_DONE.
DriveServer(c) ==
  LET hello == IF 1 \notin c.keys /\ ~c.complete /\ Flight("client", 0) \subseteq c.got[0]
               THEN [c EXCEPT !.keys = @ \cup {1, 2},
                              !.unsent[0] = Flight("server", 0), !.unsent[1] = Flight("server", 1)]
               ELSE c
  IN IF ~hello.complete /\ Flight("client", 1) \subseteq hello.got[1]
     THEN Discard(Discard([hello EXCEPT !.complete = TRUE, !.established = TRUE,
                                        !.unsent[2] = {HANDSHAKE_DONE}], 0), 1)
     ELSE hello

DriveHandshake(e, c) == IF e = "client" THEN DriveClient(c) ELSE DriveServer(c)

-----------------------------------------------------------------------------
(* Receiving. *)

\* Mutant: a lost HANDSHAKE_DONE is not sent again.
OnAckDropsDone(c, s, acks, all) ==
  LET newly == acks \cap c.sent[s]
      rest  == c.sent[s] \ acks
      lost  == CASE newly = {} -> {}
                 [] newly # {} /\ all -> rest
                 [] newly # {} /\ ~all ->
                      IF newly \subseteq c.old[s] \ {PING} THEN {} ELSE rest \cap c.old[s]
  IN [c EXCEPT !.sent[s] = rest \ lost, !.old[s] = (@ \cap rest) \ lost,
               !.unsent[s] = @ \cup (lost \ {PING, HANDSHAKE_DONE}),
               !.probe_pending[s] = @ /\ (newly = {} \/ rest \ lost # {})]

\* _handle_ack_frame and _detect_losses: what the ACK newly covers leaves
\* flight; an ACK of a probe, or of something younger than it, also loses what
\* was in flight when the probe timer fired (the time threshold has passed),
\* and may lose all the rest (the packet threshold).  Lost CRYPTO and
\* HANDSHAKE_DONE are staged again; with nothing left in flight a pending probe
\* is called off.
OnAck(c, s, acks, all) ==
  LET newly == acks \cap c.sent[s]
      rest  == c.sent[s] \ acks
      lost  == CASE newly = {} -> {}
                 [] newly # {} /\ all -> rest
                 [] newly # {} /\ ~all ->
                      IF newly \subseteq c.old[s] \ {PING} THEN {} ELSE rest \cap c.old[s]
  IN [c EXCEPT !.sent[s] = rest \ lost, !.old[s] = (@ \cap rest) \ lost,
               !.unsent[s] = @ \cup (lost \ {PING}),
               !.probe_pending[s] = @ /\ (newly = {} \/ rest \ lost # {})]

\* _on_handshake_done on the client.
OnHandshakeDone(c) == Discard([c EXCEPT !.established = TRUE], 1)

\* _decrypt_and_dispatch_packet and the _drive_handshake after it.  A
\* Handshake packet validates the client's address and ends the server's
\* Initial space before its frames are read.
RecvPacket(e, c, s, p, all) ==
  LET opened == IF e = "server" /\ s = 1 THEN Discard([c EXCEPT !.validated = TRUE], 0) ELSE c
      acked  == OnAck(opened, s, p.acks, all)
      read   == [acked EXCEPT !.got[s] = @ \cup p.frames,
                              !.ack_needed[s] = @ \/ p.frames # {}]
      done   == IF HANDSHAKE_DONE \in p.frames THEN OnHandshakeDone(read) ELSE read
  IN DriveHandshake(e, done)

\* A packet of a space without keys is skipped.  (A server holds 1-RTT
\* packets back until its handshake is complete; none is sent before that.)
Readable(c, s, d) == d.packets[s].here /\ s \in c.keys

RecvIfReadable(e, c, s, d, all) ==
  IF Readable(c, s, d) THEN RecvPacket(e, c, s, d.packets[s], all) ELSE c

\* _retransmit_crypto_if_needed: a packet read at level s stages again the
\* CRYPTO in flight at the higher levels that have nothing staged.
RetransmitAbove(c, lowest) ==
  [c EXCEPT !.unsent = [s \in Spaces |->
     IF s > lowest /\ s \in c.keys /\ c.unsent[s] = {}
     THEN c.sent[s] \ {PING, HANDSHAKE_DONE} ELSE c.unsent[s]]]

\* The allowance after n more units were received.
Credited(c, n) == [c EXCEPT !.allowance = Min({@ + AmpFactor * n, MaxAllow})]

\* The lowest space a packet of the datagram was read in; 2 if there is none.
Lowest(c, c1, d) ==
  CASE Readable(c, 0, d) -> 0
    [] ~Readable(c, 0, d) /\ Readable(c1, 1, d) -> 1
    [] OTHER -> 2

-----------------------------------------------------------------------------
(* Sending. *)

NoPacket == [here |-> FALSE, frames |-> {}, acks |-> {}]

\* send's budget: a full datagram, less on a server that has not validated
\* the client's address.
Budget(c) == IF c.validated THEN Room ELSE Max({0, Min({Room, c.allowance})})

\* A server defers its Initial frames when a padded datagram does not fit.
Deferred(e, c, s) == e = "server" /\ s = 0 /\ Budget(c) < Room

\* The ack-eliciting frames of _build_frames_for_space: one CRYPTO frame (or
\* HANDSHAKE_DONE) if any is staged, else a PING if a probe is due.
FramesFor(e, c, s) ==
  CASE Deferred(e, c, s) -> {}
    [] ~Deferred(e, c, s) /\ c.unsent[s] # {} -> {Min(c.unsent[s])}
    [] OTHER -> IF c.probe_pending[s] THEN {PING} ELSE {}

\* _plan_space_packet, with room left in the datagram.
PlanPacket(e, c, s, room) ==
  LET frames == FramesFor(e, c, s)
  IN IF s \in c.keys /\ room > 0 /\ (frames # {} \/ c.ack_needed[s])
     THEN [here |-> TRUE, frames |-> frames, acks |-> IF c.ack_needed[s] THEN c.got[s] ELSE {}]
     ELSE NoPacket

Used(p) == Cardinality(p.frames \ {PING})

\* The packets of the next datagram, coalesced in the order of the spaces; a
\* deferred ServerHello ends the datagram.
Packets(e, c) ==
  LET p0 == PlanPacket(e, c, 0, Budget(c))
      ended == Deferred(e, c, 0) /\ 0 \in c.keys /\ c.unsent[0] # {}
      p1 == IF ended THEN NoPacket ELSE PlanPacket(e, c, 1, Budget(c) - Used(p0))
      p2 == IF ended THEN NoPacket ELSE PlanPacket(e, c, 2, Budget(c) - Used(p0) - Used(p1))
  IN <<p0, p1, p2>>

\* _commit_plans_to_datagram pads a datagram with an ack-eliciting server
\* Initial, or with an early packet of a client that is not established.
Padded(e, c, ps) ==
  IF e = "server" THEN ps[1].frames # {}
  ELSE (ps[1].here \/ ps[2].here) /\ ~c.established

Size(e, c, ps) ==
  IF Padded(e, c, ps) THEN Room ELSE Max({1, Used(ps[1]) + Used(ps[2]) + Used(ps[3])})

Datagram(e, c, ps) == [packets |-> [s \in Spaces |-> ps[s + 1]], size |-> Size(e, c, ps)]

HasSomething(d) == \E s \in Spaces : d.packets[s].here

\* The connection after the datagram d left: PTO and ACK bookkeeping of
\* on_packet_sent and mark_ack_sent, and the allowance spent.
Sent(c, d) ==
  [c EXCEPT
     !.unsent = [s \in Spaces |-> c.unsent[s] \ d.packets[s].frames],
     !.sent = [s \in Spaces |-> c.sent[s] \cup d.packets[s].frames],
     !.old = [s \in Spaces |-> c.old[s] \ d.packets[s].frames],
     !.ack_needed = [s \in Spaces |-> c.ack_needed[s] /\ ~d.packets[s].here],
     !.probe_pending = [s \in Spaces |-> c.probe_pending[s] /\ d.packets[s].frames = {}],
     !.allowance = IF c.validated THEN @ ELSE @ - d.size]

Send(e) ==
  /\ Len(net[Peer(e)]) < MaxNet
  /\ \E ps \in {Packets(e, ep[e])} :
     \E d \in {Datagram(e, ep[e], ps)} :
        /\ HasSomething(d)
        /\ ep' = [ep EXCEPT ![e] = Sent(@, d)]
        /\ net' = [net EXCEPT ![Peer(e)] = Append(@, d)]
  /\ UNCHANGED <<losses, early>>

-----------------------------------------------------------------------------
(* Timers. *)

\* Mutant: a handshaking client with nothing in flight arms no timer.
PtoArmedInFlight(e, s) ==
  LET c == ep[e]
  IN c.validated /\ s \in c.keys /\ ~c.probe_pending[s] /\ c.sent[s] # {}

\* _pto_deadline is not None: never on a server that has not validated the
\* client's address; for something ack-eliciting in flight; and, on a client
\* that is still handshaking with nothing in flight, in its highest keyed space.
PtoArmed(e, s) ==
  LET c == ep[e]
  IN /\ c.validated
     /\ s \in c.keys
     /\ ~c.probe_pending[s]
     /\ \/ c.sent[s] # {}
        \/ /\ e = "client"
           /\ ~c.complete
           /\ s = Max(c.keys)
           /\ \A t \in Spaces : c.sent[t] = {}

Quiet == \A e \in Endpoints : net[e] = <<>>

Armed(e) == {s \in Spaces : PtoArmed(e, s)}

\* _check_timers, PTO, for the spaces whose deadline has passed: CRYPTO in
\* flight is staged again unless some is staged, and the next packet of the
\* space is a probe.
PtoFires(e, fired) ==
  /\ fired \subseteq Armed(e)
  /\ fired # {}
  /\ Quiet \/ early < MaxEarly
  /\ ep' = [ep EXCEPT ![e] =
       [@ EXCEPT !.probe_pending = [s \in Spaces |-> @[s] \/ s \in fired],
                 !.old = [s \in Spaces |-> IF s \in fired THEN ep[e].sent[s] ELSE @[s]],
                 !.unsent = [s \in Spaces |->
                    IF s \in fired /\ @[s] = {} THEN ep[e].sent[s] \ {PING, HANDSHAKE_DONE} ELSE @[s]]]]
  /\ early' = IF Quiet THEN early ELSE early + 1
  /\ UNCHANGED <<net, losses>>

-----------------------------------------------------------------------------
(* The network. *)

Without(q, i) == SubSeq(q, 1, i - 1) \o SubSeq(q, i + 1, Len(q))

\* recv_from_buffer: the packets in the order of the datagram, then the
\* retransmission.
Deliver(e, i, all) ==
  /\ i \in 1 .. Len(net[e])
  /\ \E d \in {net[e][i]} :
     \E c0 \in {IF e = "server" /\ ~ep[e].validated THEN Credited(ep[e], d.size) ELSE ep[e]} :
     \E c1 \in {RecvIfReadable(e, c0, 0, d, all)} :
     \E c2 \in {RecvIfReadable(e, c1, 1, d, all)} :
     \E c3 \in {RecvIfReadable(e, c2, 2, d, all)} :
        ep' = [ep EXCEPT ![e] = RetransmitAbove(c3, Lowest(c0, c1, d))]
  /\ net' = [net EXCEPT ![e] = Without(@, i)]
  /\ UNCHANGED <<losses, early>>

Lose(e, i) ==
  /\ i \in 1 .. Len(net[e])
  /\ losses < MaxLosses
  /\ losses' = losses + 1
  /\ net' = [net EXCEPT ![e] = Without(@, i)]
  /\ UNCHANGED <<ep, early>>

Next ==
  \/ \E e \in Endpoints : Send(e)
  \/ \E e \in Endpoints, fired \in SUBSET Spaces : PtoFires(e, fired)
  \/ \E e \in Endpoints, i \in 1 .. MaxNet, all \in BOOLEAN : Deliver(e, i, all)
  \/ \E e \in Endpoints, i \in 1 .. MaxNet : Lose(e, i)

Spec == Init /\ [][Next]_vars

\* The driver calls send() when timeout() says so and after every datagram;
\* the network delivers what it does not lose.
Fairness ==
  /\ \A e \in Endpoints : WF_vars(Send(e))
  /\ \A e \in Endpoints : SF_vars(PtoFires(e, Armed(e)))
  /\ \A e \in Endpoints : WF_vars(\E all \in BOOLEAN : Deliver(e, 1, all))

FairSpec == Spec /\ Fairness

-----------------------------------------------------------------------------
(* Properties. *)

TypeOK ==
  /\ \A e \in Endpoints : ep[e] \in Connection(e)
  /\ \A e \in Endpoints, s \in Spaces :
       /\ ep[e].unsent[s] \subseteq Flight(e, s)
       /\ ep[e].sent[s] \subseteq Frames(e, s)
       /\ ep[e].old[s] \subseteq ep[e].sent[s]
       /\ ep[e].got[s] \subseteq Frames(Peer(e), s)
  /\ losses \in 0 .. MaxLosses
  /\ early \in 0 .. MaxEarly

\* Keys are discarded only when the peer no longer needs them: a server drops
\* Initial keys once the client has read the whole ServerHello, and Handshake
\* keys once the client has read the whole flight; a client drops Initial keys
\* when the server has answered its ClientHello, and Handshake keys, and
\* becomes established, only when the server is.  A server that has not
\* validated the client's address never sends more than its allowance.
HandshakeInv ==
  LET c == ep["client"]
      v == ep["server"]
  IN /\ TypeOK
     /\ 0 \notin v.keys => Flight("server", 0) \subseteq c.got[0]
     /\ v.established => c.complete
     /\ 0 \notin c.keys => Flight("client", 0) \subseteq v.got[0] /\ c.complete
     /\ c.established => v.established /\ 1 \notin c.keys
     /\ v.allowance >= 0 \/ v.allowance = -Fudge

\* What TLS wrote at a level is never forgotten while the level has keys:
\* every piece is staged, in flight, or known to the peer; and so is
\* HANDSHAKE_DONE on an established server.
NothingForgotten ==
  \A e \in Endpoints, s \in Spaces :
    LET written == CASE e = "client" /\ s = 1 -> ep[e].complete
                     [] e = "server" /\ s < 2 -> 1 \in ep[e].keys
                     [] e = "server" /\ s = 2 -> ep[e].established
                     [] OTHER -> TRUE
    IN s \in ep[e].keys /\ written =>
         Flight(e, s) \subseteq ep[e].unsent[s] \cup ep[e].sent[s] \cup ep[Peer(e)].got[s]

Established == \A e \in Endpoints : ep[e].established

\* The server has answered, and a piece of its ServerHello is neither staged
\* nor on its way nor read: only the server's books have it in flight.
HelloStranded ==
  LET c == ep["client"]
      v == ep["server"]
  IN /\ 1 \in v.keys /\ ~v.validated
     /\ \E x \in Flight("server", 0) :
          /\ x \notin v.unsent[0] \cup c.got[0]
          /\ \A i \in 1 .. Len(net["client"]) : x \notin net["client"][i].packets[0].frames

\* Both sides become established when the network loses finitely many
\* datagrams, whatever it reorders and however tight the server's allowance
\* is; the one way to fail is to strand a piece of the ServerHello for good.
HandshakeCompletes == <>Established \/ <>[]HelloStranded

\* What the comment on _pto_deadline says: a client's probes keep the
\* handshake from deadlocking.
HandshakeNeverStuck == <>Established
=============================================================================
