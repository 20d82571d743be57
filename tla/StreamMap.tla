----------------------------- MODULE StreamMap -----------------------------
(***************************************************************************)
(* Stream concurrency (quic/stream_map.mojo): a client opens bidirectional *)
(* streams under the limit its server grants with MAX_STREAMS.  Both       *)
(* endpoints run the same StreamMap code; here the client's part of it is  *)
(* the opening side and the server's the accepting side, whose window the  *)
(* overload governor narrows and widens.                                   *)
(*                                                                         *)
(* A stream is its ordinal (stream id div 4).  What happens on a stream is *)
(* left open: a frame for any opened stream may arrive at any time, also   *)
(* after the stream was freed, and a stream may become fully closed at any *)
(* time; the handlers that close one all end with maybe_cleanup.           *)
(***************************************************************************)
EXTENDS Integers, FiniteSets

CONSTANTS InitialMaxStreams,  \* the server's initial_max_streams_bidi
          UNLIMITED,          \* governor: no budget
          MIN_CREDIT,         \* governor: least credit kept under pressure
          Budgets, Works, Conns,  \* governor decisions, open streams and
                                  \* connections server-wide
          MaxStreams,         \* bound: streams the client opens
          MaxLosses           \* bound: packets declared lost

ASSUME StreamMapAssumption ==
    /\ InitialMaxStreams \in Nat \ {0}
    /\ UNLIMITED \in Nat /\ MIN_CREDIT \in Nat
    /\ Budgets \subseteq Nat /\ Works \subseteq Nat /\ Conns \subseteq Nat
    /\ MaxStreams \in Nat /\ MaxLosses \in Nat

VARIABLES
    \* The client: local_opened_bidi, peer_max_streams_bidi, the STREAMS_BLOCKED
    \* flags, and whether HANDSHAKE_DONE has arrived.
    local_opened, peer_max, needs_streams_blocked, streams_blocked_at,
    handshake_confirmed,
    \* The server: its live streams, peer_opened_bidi, peer_completed_bidi,
    \* local_max_streams_bidi, regrant_window, needs_max_streams_bidi.
    streams, peer_opened, peer_completed, local_max, regrant_window,
    needs_max_streams,
    \* The network: limits in flight whose record is kept, limits of packets
    \* declared lost that may still arrive, and STREAMS_BLOCKED in flight.
    max_streams_sent, strays, blocked_sent,
    closed,   \* the CONNECTION_CLOSE the server raised, or "none"
    conforming    \* the client runs this code; else it sends any stream id

\* History: streams the server reported opened, those it reported twice,
\* those it freed, whether the client forgot a limit, and losses so far.
VARIABLES reported, reported_twice, freed, credit_forgotten, losses

clientVars == <<local_opened, peer_max, needs_streams_blocked,
                streams_blocked_at, handshake_confirmed>>
serverVars == <<streams, peer_opened, peer_completed, local_max,
                regrant_window, needs_max_streams>>
wireVars   == <<max_streams_sent, strays, blocked_sent, losses>>
openVars   == <<reported, reported_twice>>
vars == <<clientVars, serverVars, wireVars, openVars, freed,
          credit_forgotten, closed, conforming>>

Larger(a, b) == IF a > b THEN a ELSE b
Smaller(a, b) == IF a < b THEN a ELSE b

Ordinals == 0 .. (MaxStreams - 1)

-----------------------------------------------------------------------------
(* The governor's share of a connection *)

MeanShare(budget, n) == Larger(1, budget \div Larger(1, n))

\* The window conn_limit aims at, before it is clamped.
WindowAim(l, open_c, budget, work, n) ==
    LET mean  == MeanShare(budget, n)
        spare == Larger(budget - work, 0)
    IN  IF spare > 0
        THEN IF l < mean THEN l + Smaller(Larger(1, spare \div Larger(1, n)), mean - l)
             ELSE IF l - mean < mean THEN l + 1 ELSE Larger(2 * mean, l \div 2)
        ELSE IF open_c <= l THEN Larger(mean, l \div 2) ELSE l

\* Mutant: without the upper clamp.
ConnLimitUncapped(l, open_c, budget, work, n, cap) ==
    IF budget = UNLIMITED THEN cap
    ELSE Larger(WindowAim(l, open_c, budget, work, n), Smaller(MIN_CREDIT, cap))

\* conn_limit: a connection's next window from its current one.
ConnLimit(l, open_c, budget, work, n, cap) ==
    IF budget = UNLIMITED THEN cap
    ELSE Smaller(Larger(WindowAim(l, open_c, budget, work, n),
                        Smaller(MIN_CREDIT, cap)), cap)

-----------------------------------------------------------------------------
(* The server *)

\* check_max_streams_update with these completions and this window.
CheckMaxStreamsUpdate(completed, window) ==
    /\ local_max' = Larger(local_max, completed + window)
    /\ needs_max_streams' = (needs_max_streams \/ completed + window > local_max)

\* was_opened: its initiator opened it, whether or not it is still there.
WasOpened(i) == i < peer_opened

\* Mutant: streams freed before i are created again.
CreatedFromZero(i) == {j \in 0 .. i : j \notin streams}

\* The streams get_or_create_peer_stream(i) creates: all up to i.
Created(i) == {j \in peer_opened .. i : j \notin streams}

\* A STREAM, RESET_STREAM or STOP_SENDING frame for stream i arrives at the
\* server (_resolve_frame_stream): a live stream takes it, one closed and
\* freed drops it, one past the limit closes the connection, and any other
\* opens every stream up to i.
ReceiveFrame(i) ==
    /\ closed = "none" /\ (conforming => i < local_opened)
    /\ IF i \in streams \/ WasOpened(i)
       THEN UNCHANGED <<serverVars, openVars, closed>>
       ELSE IF i + 1 > local_max
       THEN closed' = "STREAM_LIMIT_ERROR" /\ UNCHANGED <<serverVars, openVars>>
       ELSE /\ streams' = streams \cup Created(i)
            /\ peer_opened' = Larger(peer_opened, i + 1)
            /\ reported' = reported \cup Created(i)
            /\ reported_twice' = reported_twice \cup (reported \cap Created(i))
            /\ UNCHANGED <<peer_completed, local_max, regrant_window,
                           needs_max_streams, closed>>
    /\ UNCHANGED <<clientVars, wireVars, freed, credit_forgotten, conforming>>

\* maybe_cleanup of a stream that became fully closed.
MaybeCleanup(i) ==
    /\ i \in streams /\ closed = "none"
    /\ streams' = streams \ {i}
    /\ peer_completed' = peer_completed + 1
    /\ CheckMaxStreamsUpdate(peer_completed + 1, regrant_window)
    /\ freed' = freed \cup {i}
    /\ UNCHANGED <<clientVars, peer_opened, regrant_window, wireVars, openVars,
                   credit_forgotten, closed, conforming>>

\* apply_budget at an interval close of the governor.
ApplyBudget(budget, work, n) ==
    LET open_c == peer_opened - Smaller(peer_opened, peer_completed)
        window == Larger(1, ConnLimit(regrant_window, open_c, budget, work, n,
                                      InitialMaxStreams))
    IN
    /\ closed = "none"
    /\ regrant_window' = window
    /\ CheckMaxStreamsUpdate(peer_completed, window)
    /\ UNCHANGED <<clientVars, streams, peer_opened, peer_completed, wireVars,
                   openVars, freed, credit_forgotten, closed, conforming>>

\* _emit_cid_and_fc_frames: the limit in force goes out, with a record.
EmitMaxStreams ==
    /\ needs_max_streams /\ closed = "none"
    /\ needs_max_streams' = FALSE
    /\ max_streams_sent' = max_streams_sent \cup {local_max}
    /\ UNCHANGED <<clientVars, streams, peer_opened, peer_completed, local_max,
                   regrant_window, strays, blocked_sent, losses, openVars,
                   freed, credit_forgotten, closed, conforming>>

\* Mutant: a lost MAX_STREAMS is not sent again.
RearmNothing == needs_max_streams

\* needs_max_streams_bidi after the loss of a MAX_STREAMS.
RearmMaxStreams == TRUE

\* _on_app_pkt_lost for a MAX_STREAMS record.  The packet may still arrive.
MaxStreamsLost(m) ==
    /\ m \in max_streams_sent /\ losses < MaxLosses
    /\ max_streams_sent' = max_streams_sent \ {m}
    /\ strays' = strays \cup {m}
    /\ losses' = losses + 1
    /\ needs_max_streams' = RearmMaxStreams
    /\ UNCHANGED <<clientVars, streams, peer_opened, peer_completed, local_max,
                   regrant_window, blocked_sent, openVars, freed,
                   credit_forgotten, closed, conforming>>

-----------------------------------------------------------------------------
(* The client *)

\* _on_handshake_complete, which the client runs again for every datagram
\* until HANDSHAKE_DONE: set_peer_limits takes the limit of the server's
\* transport parameters.
SetPeerLimits ==
    /\ ~handshake_confirmed /\ closed = "none"
    /\ peer_max' = InitialMaxStreams
    /\ credit_forgotten' = (credit_forgotten \/ peer_max > InitialMaxStreams)
    /\ UNCHANGED <<local_opened, needs_streams_blocked, streams_blocked_at, handshake_confirmed, serverVars, wireVars,
                   openVars, freed, closed, conforming>>

\* _on_handshake_done.  The handshake has completed before.
HandshakeDone ==
    /\ ~handshake_confirmed /\ peer_max > 0 /\ closed = "none"
    /\ handshake_confirmed' = TRUE
    /\ UNCHANGED <<local_opened, peer_max, needs_streams_blocked,
                   streams_blocked_at, serverVars, wireVars,
                   openVars, freed, credit_forgotten, closed, conforming>>

\* Mutant: one stream too many.
AtPeerLimitLate == local_opened > peer_max

\* open_stream's refusal.
AtPeerLimit == local_opened >= peer_max

\* open_stream: refused at the peer's limit, with a STREAMS_BLOCKED due.
OpenStream ==
    /\ closed = "none"
    /\ \/ /\ AtPeerLimit
          /\ needs_streams_blocked' = TRUE
          /\ UNCHANGED local_opened
       \/ /\ ~AtPeerLimit /\ local_opened < MaxStreams
          /\ local_opened' = local_opened + 1
          /\ UNCHANGED needs_streams_blocked
    /\ UNCHANGED <<peer_max, streams_blocked_at, handshake_confirmed,
                   serverVars, wireVars, openVars, freed, credit_forgotten,
                   closed, conforming>>

\* _on_max_streams_from_cursor: only a larger limit counts.
OnMaxStreams(m) ==
    /\ peer_max > 0
    /\ peer_max' = Larger(peer_max, m)
    /\ needs_streams_blocked' = (needs_streams_blocked /\ m <= peer_max)
    /\ streams_blocked_at' = IF m > peer_max THEN 0 ELSE streams_blocked_at
    /\ UNCHANGED <<local_opened, handshake_confirmed,
                   serverVars, openVars, freed, credit_forgotten, closed,
                   conforming>>

\* A MAX_STREAMS arrives and its packet is acknowledged.
DeliverMaxStreams(m) ==
    /\ m \in max_streams_sent /\ closed = "none"
    /\ OnMaxStreams(m)
    /\ max_streams_sent' = max_streams_sent \ {m}
    /\ UNCHANGED <<strays, blocked_sent, losses>>

\* A MAX_STREAMS declared lost arrives after all, or a duplicate does.
DeliverStray(m) ==
    /\ m \in strays /\ closed = "none"
    /\ OnMaxStreams(m)
    /\ UNCHANGED wireVars

\* emit_blocked_frames: STREAMS_BLOCKED once per limit.
EmitStreamsBlocked ==
    /\ needs_streams_blocked /\ streams_blocked_at # peer_max /\ closed = "none"
    /\ streams_blocked_at' = peer_max
    /\ blocked_sent' = blocked_sent \cup {peer_max}
    /\ UNCHANGED <<local_opened, peer_max, needs_streams_blocked,
                   handshake_confirmed, serverVars, max_streams_sent, strays,
                   losses, openVars, freed, credit_forgotten, closed,
                   conforming>>

\* STREAMS_BLOCKED is acknowledged (the server only validates it) or lost:
\* then it is announced again if it is still the latest announcement.
BlockedSettled(m) ==
    /\ m \in blocked_sent
    /\ blocked_sent' = blocked_sent \ {m}
    /\ \/ UNCHANGED <<streams_blocked_at, losses>>
       \/ /\ losses < MaxLosses
          /\ losses' = losses + 1
          /\ streams_blocked_at' = IF streams_blocked_at = m THEN 0
                                   ELSE streams_blocked_at
    /\ UNCHANGED <<local_opened, peer_max, needs_streams_blocked,
                   handshake_confirmed, serverVars, max_streams_sent, strays,
                   openVars, freed, credit_forgotten, closed, conforming>>

-----------------------------------------------------------------------------
Init ==
    /\ local_opened = 0 /\ peer_max = 0 /\ needs_streams_blocked = FALSE
    /\ streams_blocked_at = 0
    /\ handshake_confirmed = FALSE
    /\ streams = {} /\ peer_opened = 0 /\ peer_completed = 0
    /\ local_max = InitialMaxStreams /\ regrant_window = InitialMaxStreams
    /\ needs_max_streams = FALSE
    /\ max_streams_sent = {} /\ strays = {} /\ blocked_sent = {} /\ losses = 0
    /\ closed = "none" /\ conforming \in BOOLEAN
    /\ reported = {} /\ reported_twice = {} /\ freed = {}
    /\ credit_forgotten = FALSE

Next ==
    \/ \E i \in Ordinals :
          ReceiveFrame(i) \/ MaybeCleanup(i)
    \/ \E budget \in Budgets, work \in Works, n \in Conns :
          ApplyBudget(budget, work, n)
    \/ EmitMaxStreams
    \/ \E m \in max_streams_sent : MaxStreamsLost(m) \/ DeliverMaxStreams(m)
    \/ \E m \in strays : DeliverStray(m)
    \/ SetPeerLimits \/ HandshakeDone \/ OpenStream
    \/ EmitStreamsBlocked
    \/ \E m \in blocked_sent : BlockedSettled(m)


Spec == Init /\ [][Next]_vars

\* Everything the network and the handlers must get done: a frame of every
\* stream opened arrives, every stream is closed in the end, a limit due is
\* sent, a limit sent arrives or is declared lost (the probe timeout sees to
\* that; losses are bounded), and HANDSHAKE_DONE arrives.
Fairness ==
    /\ \A i \in Ordinals : WF_vars(ReceiveFrame(i)) /\ WF_vars(MaybeCleanup(i))
    /\ WF_vars(EmitMaxStreams)
    /\ WF_vars(\E m \in max_streams_sent :
                  DeliverMaxStreams(m) \/ MaxStreamsLost(m))
    /\ WF_vars(SetPeerLimits)
    /\ WF_vars(HandshakeDone)

FairSpec == Spec /\ Fairness

-----------------------------------------------------------------------------
(* Properties *)

\* Type invariant.
TypeOK ==
    /\ local_opened \in Nat /\ peer_max \in Nat /\ streams_blocked_at \in Nat
    /\ needs_streams_blocked \in BOOLEAN /\ handshake_confirmed \in BOOLEAN
    /\ streams \subseteq Nat /\ peer_opened \in Nat /\ peer_completed \in Nat
    /\ local_max \in Nat /\ regrant_window \in Nat \ {0}
    /\ needs_max_streams \in BOOLEAN
    /\ max_streams_sent \subseteq Nat /\ strays \subseteq Nat
    /\ blocked_sent \subseteq Nat /\ losses \in Nat
    /\ closed \in {"none", "STREAM_LIMIT_ERROR"} /\ conforming \in BOOLEAN
    /\ reported \subseteq Nat /\ reported_twice \subseteq Nat
    /\ freed \subseteq Nat /\ credit_forgotten \in BOOLEAN

\* Every stream the peer ever opened is either live or freed, and the two
\* counters count them: opened, and completed.
StreamsAccounted ==
    /\ streams \cup freed = 0 .. (peer_opened - 1)
    /\ streams \cap freed = {}
    /\ peer_completed = Cardinality(freed)

\* Whatever stream ids the peer sends, and however the governor moves the
\* window, the server never holds more than initial_max_streams streams: the
\* limit runs at most that far ahead of the streams completed.
StreamsBounded ==
    /\ local_max <= peer_completed + InitialMaxStreams
    /\ Cardinality(streams) <= InitialMaxStreams

\* stream_opened is raised once for every stream, also when late frames
\* address one that was freed.
OpenedOnce == reported = 0 .. (peer_opened - 1) /\ reported_twice = {}

\* The client never believes in a limit the server has not granted, through
\* lost, late and duplicated MAX_STREAMS, so that the server never has to
\* close the connection on it.
LimitsAgree ==
    /\ peer_max <= local_max
    /\ \A m \in max_streams_sent \cup strays : m <= local_max
    /\ local_opened <= local_max
    /\ conforming => closed = "none" /\ peer_opened <= local_opened

\* The inductive invariant.
StreamMapInv ==
    /\ TypeOK
    /\ StreamsAccounted
    /\ StreamsBounded
    /\ OpenedOnce
    /\ LimitsAgree
    /\ peer_opened <= local_max
    /\ InitialMaxStreams <= local_max
    /\ regrant_window <= InitialMaxStreams

\* A client at its limit gets room for another stream: completions raise the
\* limit however narrow the window, and a lost MAX_STREAMS is sent again.
\* Excluded is a client that forgot a limit by running set_peer_limits again.
CreditReturns ==
    (conforming /\ AtPeerLimit) ~>
        (~AtPeerLimit \/ credit_forgotten \/ local_opened = MaxStreams)

-----------------------------------------------------------------------------
(* What comments claim, and the code does not do *)

\* The emitter of STREAMS_BLOCKED checks that the client is still blocked.
BlockedWhenAnnounced ==
    [][blocked_sent' \subseteq blocked_sent \/ AtPeerLimit]_vars

\* Credit granted is never taken back: the limit a client works with never
\* goes down.
PeerLimitKept == [][peer_max' >= peer_max]_vars


=============================================================================
