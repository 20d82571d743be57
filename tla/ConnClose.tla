------------------------------ MODULE ConnClose ------------------------------
(***************************************************************************)
(* How one QuicConnection (quic/connection.mojo) ends: a local close with  *)
(* its CONNECTION_CLOSE datagrams, a peer's close, the close, drain and    *)
(* idle timers and the server's handshake deadline.  The driver calls      *)
(* send() no later than timeout() says, and drops a closed connection.     *)
(***************************************************************************)
EXTENDS Integers

CONSTANTS
  PTO,                   \* the probe timeout, taken as constant
  LocalIdle, PeerIdle,   \* max_idle_timeout of both sides, 0 for none
  HANDSHAKE_TIMEOUT,     \* a server's handshake deadline, from its creation at time 1
  MaxTime                \* bound: the clock stops here, three PTOs after the last close or datagram

ASSUME CloseAssumption ==
  /\ PTO \in Nat \ {0}
  /\ LocalIdle \in Nat /\ PeerIdle \in Nat /\ HANDSHAKE_TIMEOUT \in Nat
  /\ MaxTime \in Nat \ {0}

VARIABLES
  now,
  is_server, established,
  closing, draining, closed,    \* the state bits
  owed, last_sent, timer,       \* CloseState; a timer that is 0 is not armed
  drain_timer,
  idle_timer,                   \* when the last datagram arrived
  ended                         \* history: when the connection first stopped being usable

closeVars == <<now, is_server, established, closing, draining, closed, owed, last_sent,
               timer, drain_timer, idle_timer, ended>>

Init ==
  /\ now = 1 /\ idle_timer = 1
  /\ is_server \in BOOLEAN
  /\ established = FALSE
  /\ closing = FALSE /\ draining = FALSE /\ closed = FALSE
  /\ owed = FALSE /\ last_sent = 0 /\ timer = 0 /\ drain_timer = 0
  /\ ended = 0

\* The bound on inputs.
InTime == now + 3 * PTO < MaxTime

Terminal == closing \/ draining \/ closed

\* _effective_idle_timeout: the peer's value is known with its parameters.
IdleTimeout ==
  LET peer == IF established THEN PeerIdle ELSE 0
  IN IF LocalIdle = 0 \/ (peer # 0 /\ peer < LocalIdle) THEN peer ELSE LocalIdle

\* timeout(): the deadlines of this part of the connection.
Deadlines ==
  (IF is_server /\ ~established /\ ~Terminal THEN {1 + HANDSHAKE_TIMEOUT} ELSE {})
  \cup (IF IdleTimeout > 0 THEN {idle_timer + IdleTimeout} ELSE {})
  \cup ({timer, drain_timer} \ {0})

-----------------------------------------------------------------------------
\* Mutant: the close timer is left unarmed.
CloseUntimed ==
  /\ InTime
  /\ ~Terminal
  /\ closing' = TRUE
  /\ owed' = TRUE
  /\ ended' = now
  /\ UNCHANGED <<now, is_server, established, draining, closed, last_sent, timer, drain_timer, idle_timer>>

\* close_transport and close_app, by way of _close_impl.
Close ==
  /\ InTime
  /\ ~Terminal
  /\ closing' = TRUE
  /\ owed' = TRUE
  /\ timer' = now + 3 * PTO
  /\ ended' = now
  /\ UNCHANGED <<now, is_server, established, draining, closed, last_sent, drain_timer, idle_timer>>

\* _on_connection_close.
Drain ==
  /\ draining' = TRUE
  /\ drain_timer' = now + 3 * PTO
  /\ ended' = IF Terminal THEN ended ELSE now

\* Mutant: every datagram a closing connection receives owes a CLOSE.
RecvAlwaysOwes(frame) ==
  /\ InTime
  /\ ~draining /\ ~closed
  /\ IF closing THEN /\ owed' = TRUE
                     /\ UNCHANGED idle_timer
                ELSE /\ idle_timer' = now
                     /\ UNCHANGED owed
  /\ established' = (established \/ (frame = "finished" /\ ~closing))
  /\ IF frame = "close" THEN Drain ELSE UNCHANGED <<draining, drain_timer, ended>>
  /\ UNCHANGED <<now, is_server, closing, closed, last_sent, timer>>

\* recv_from_buffer on a connection that is neither draining nor closed.  A
\* closing one owes another CLOSE if the last is a PTO old, reads only a
\* CONNECTION_CLOSE, and keeps its idle timer.
Recv(frame) ==
  /\ InTime
  /\ ~draining /\ ~closed
  /\ IF closing THEN /\ owed' = (owed \/ now >= last_sent + PTO)
                     /\ UNCHANGED idle_timer
                ELSE /\ idle_timer' = now
                     /\ UNCHANGED owed
  /\ established' = (established \/ (frame = "finished" /\ ~closing))
  /\ IF frame = "close" THEN Drain ELSE UNCHANGED <<draining, drain_timer, ended>>
  /\ UNCHANGED <<now, is_server, closing, closed, last_sent, timer>>

\* _check_timers: the first of drain, close, idle and handshake deadlines
\* that has passed closes the connection, and only its own timer is cleared.
DrainExpired == drain_timer > 0 /\ now >= drain_timer
CloseExpired == timer > 0 /\ now >= timer
IdleExpired == IdleTimeout > 0 /\ now >= idle_timer + IdleTimeout
HandshakeExpired == ~Terminal /\ is_server /\ ~established /\ now >= 1 + HANDSHAKE_TIMEOUT

Expired == DrainExpired \/ CloseExpired \/ IdleExpired \/ HandshakeExpired

\* Mutant: a connection that is no longer usable returns before its timers.
CheckTimersOfUsable ==
  /\ closed' = (closed \/ (Expired /\ ~Terminal))
  /\ drain_timer' = drain_timer
  /\ timer' = timer
  /\ ended' = IF Expired /\ ~Terminal THEN now ELSE ended

CheckTimers ==
  /\ closed' = (closed \/ Expired)
  /\ drain_timer' = IF DrainExpired THEN 0 ELSE drain_timer
  /\ timer' = IF CloseExpired /\ ~DrainExpired THEN 0 ELSE timer
  /\ ended' = IF Expired /\ ~Terminal THEN now ELSE ended

\* send(): nothing leaves a draining or closed connection; a closing one
\* sends the CLOSE it owes, which stays owed unless it fitted in every space.
Send(fits) ==
  /\ CheckTimers
  /\ LET speaks == closing /\ owed /\ ~draining /\ ~closed'
     IN /\ owed' = (owed /\ ~(speaks /\ fits))
        /\ last_sent' = IF speaks /\ fits THEN now ELSE last_sent
  /\ UNCHANGED <<now, is_server, established, closing, draining, idle_timer>>

\* The driver lets no deadline pass without calling send().
Tick ==
  /\ ~closed
  /\ \A d \in Deadlines : d > now
  /\ now < MaxTime
  /\ now' = now + 1
  /\ UNCHANGED <<is_server, established, closing, draining, closed, owed, last_sent,
                 timer, drain_timer, idle_timer, ended>>

Next ==
  \/ Close
  \/ \E frame \in {"data", "finished", "close"} : Recv(frame)
  \/ \E fits \in BOOLEAN : Send(fits)
  \/ Tick

Fairness == WF_closeVars(Tick) /\ WF_closeVars(Send(TRUE))

-----------------------------------------------------------------------------
TypeOK ==
  /\ now \in 1 .. MaxTime
  /\ is_server \in BOOLEAN /\ established \in BOOLEAN /\ owed \in BOOLEAN
  /\ closing \in BOOLEAN /\ draining \in BOOLEAN /\ closed \in BOOLEAN
  /\ idle_timer \in 1 .. now
  /\ last_sent \in 0 .. now
  /\ ended \in 0 .. now
  /\ timer \in Nat /\ drain_timer \in Nat

\* Which timer ends which state: the close timer of a closing connection runs
\* from when it stopped being usable, whatever the peer sends since.
TimerOfState ==
  /\ closing /\ ~closed => ended > 0 /\ timer = ended + 3 * PTO /\ now <= timer
  /\ draining /\ ~closing /\ ~closed => ended > 0 /\ drain_timer = ended + 3 * PTO /\ now <= drain_timer

\* A connection that was closed, or told of the peer's close, is gone three
\* probe timeouts later at the latest; a server's handshake does not outlast
\* its deadline, nor any connection its idle timeout; and a connection that is
\* not usable any more keeps a timer that will end it.
CloseInv ==
  /\ TypeOK
  /\ TimerOfState
  /\ Terminal /\ ~closed => now <= ended + 3 * PTO
  /\ is_server /\ ~established /\ ~Terminal => now <= 1 + HANDSHAKE_TIMEOUT
  /\ ~closed /\ IdleTimeout > 0 => now <= idle_timer + IdleTimeout
  /\ Terminal /\ ~closed => Deadlines # {}

\* Two CLOSE datagrams that carry the close in every space are a probe
\* timeout apart, however many datagrams the peer sends meanwhile, and none
\* follows the peer's own close.
CloseRateLimited ==
  [][last_sent' # last_sent => /\ last_sent = 0 \/ now >= last_sent + PTO
                               /\ ~draining /\ ~closed]_closeVars

\* A connection that is closing or draining is eventually closed.
CloseEnds == Terminal ~> closed
=============================================================================
