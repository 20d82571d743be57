-------------------------- MODULE ConnClose_proofs --------------------------
(***************************************************************************)
(* CloseInv for every probe timeout, idle timeout and handshake deadline.  *)
(***************************************************************************)
EXTENDS ConnClose, TLAPS

Spec == Init /\ [][Next]_closeVars

\* The idle timeout is a number, 0 when neither side set one.
LEMMA IdleTimeoutType == IdleTimeout \in Nat
BY CloseAssumption DEF IdleTimeout

\* A timer armed three probe timeouts after a positive time is armed.
LEMMA TimerArmed ==
  ASSUME NEW start \in Nat, NEW time \in Nat, NEW t, start > 0, t = start + 3 * PTO, time <= t
  PROVE  t # 0 /\ time <= start + 3 * PTO
BY CloseAssumption

\* A fresh connection satisfies the invariant.
LEMMA InitInv == Init => CloseInv
<1> SUFFICES ASSUME Init PROVE CloseInv
    OBVIOUS
<1>1. TypeOK
  <2>1. now = 1 /\ idle_timer = 1 /\ last_sent = 0 /\ ended = 0 /\ timer = 0 /\ drain_timer = 0
      BY DEF Init
  <2>2. /\ now \in 1 .. MaxTime /\ idle_timer \in 1 .. now /\ last_sent \in 0 .. now
        /\ ended \in 0 .. now /\ timer \in Nat /\ drain_timer \in Nat
      BY <2>1, CloseAssumption
  <2>3. /\ is_server \in BOOLEAN /\ established \in BOOLEAN /\ owed \in BOOLEAN
        /\ closing \in BOOLEAN /\ draining \in BOOLEAN /\ closed \in BOOLEAN
      BY Zenon DEF Init
  <2> QED
      BY <2>2, <2>3, Zenon DEF TypeOK
<1>2. TimerOfState
    BY DEF Init, TimerOfState
<1> QED
    BY <1>1, <1>2, IdleTimeoutType, CloseAssumption DEF Init, CloseInv, Terminal

\* close_transport and close_app keep the invariant.
LEMMA CloseKeeps == CloseInv /\ Close => CloseInv'
<1> SUFFICES ASSUME CloseInv, Close PROVE CloseInv'
    OBVIOUS
<1> USE CloseAssumption
<1>1. TypeOK'
    BY DEF CloseInv, TypeOK, Close, InTime
<1>2. TimerOfState'
    BY DEF CloseInv, TypeOK, TimerOfState, Close, Terminal
<1>3. IdleTimeout' = IdleTimeout
    BY DEF Close, IdleTimeout
<1>4. timer' \in Deadlines'
    BY DEF CloseInv, TypeOK, Close, Deadlines
<1> QED
    BY <1>1, <1>2, <1>3, <1>4, IdleTimeoutType DEF CloseInv, TypeOK, Close, Terminal

\* Receiving a datagram keeps the invariant, the peer's close included.
LEMMA RecvKeeps == ASSUME NEW frame, CloseInv, Recv(frame) PROVE CloseInv'
<1> USE CloseAssumption
<1>1. TypeOK'
  <2>1. /\ now' \in 1 .. MaxTime /\ idle_timer' \in 1 .. now' /\ last_sent' \in 0 .. now'
        /\ ended' \in 0 .. now' /\ timer' \in Nat /\ drain_timer' \in Nat
      BY DEF CloseInv, TypeOK, Recv, Drain
  <2>2. /\ is_server' \in BOOLEAN /\ established' \in BOOLEAN
        /\ closing' \in BOOLEAN /\ draining' \in BOOLEAN /\ closed' \in BOOLEAN
      BY Zenon DEF CloseInv, TypeOK, Recv, Drain
  <2>3. owed' \in BOOLEAN
      BY Zenon DEF CloseInv, TypeOK, Recv
  <2> QED
      BY <2>1, <2>2, <2>3, Zenon DEF TypeOK
<1>2. TimerOfState'
    BY DEF CloseInv, TypeOK, TimerOfState, Recv, Drain, Terminal
<1>3. closing => IdleTimeout' = IdleTimeout /\ idle_timer' = idle_timer
    BY DEF Recv, IdleTimeout
<1>4. ~closing => idle_timer' = now
    BY DEF Recv
<1>5. IdleTimeout' \in Nat
    BY DEF IdleTimeout
<1>6. ~closed' /\ IdleTimeout' > 0 => now' <= idle_timer' + IdleTimeout'
    BY <1>3, <1>4, <1>5 DEF CloseInv, TypeOK, Recv
<1>7. Terminal' /\ ~closed' => now' <= ended' + 3 * PTO /\ Deadlines' # {}
  <2> SUFFICES ASSUME Terminal', ~closed' PROVE now' <= ended' + 3 * PTO /\ Deadlines' # {}
      OBVIOUS
  <2>1. CASE closing'
    <3>1. ended' > 0 /\ timer' = ended' + 3 * PTO /\ now' <= timer'
        BY <1>1, <1>2, <2>1, Zenon DEF TimerOfState
    <3>2. ended' \in Nat /\ now' \in Nat /\ 3 * PTO \in Nat
        BY <1>1 DEF TypeOK
    <3>3. timer' # 0 /\ now' <= ended' + 3 * PTO
        BY <3>1, <3>2, TimerArmed, Zenon
    <3>4. timer' \in Deadlines'
        BY <3>3 DEF Deadlines
    <3> QED
        BY <3>3, <3>4
  <2>2. CASE ~closing' /\ draining'
    <3>1. ended' > 0 /\ drain_timer' = ended' + 3 * PTO /\ now' <= drain_timer'
        BY <1>1, <1>2, <2>2, Zenon DEF TimerOfState
    <3>2. ended' \in Nat /\ now' \in Nat /\ 3 * PTO \in Nat
        BY <1>1 DEF TypeOK
    <3>3. drain_timer' # 0 /\ now' <= ended' + 3 * PTO
        BY <3>1, <3>2, TimerArmed, Zenon
    <3>4. drain_timer' \in Deadlines'
        BY <3>3 DEF Deadlines
    <3> QED
        BY <3>3, <3>4
  <2> QED
      BY <2>1, <2>2 DEF Terminal
<1>8. is_server' /\ ~established' /\ ~Terminal' => now' <= 1 + HANDSHAKE_TIMEOUT
    BY DEF CloseInv, Recv, Drain, Terminal
<1> QED
    BY <1>1, <1>2, <1>6, <1>7, <1>8 DEF CloseInv

\* send(), with its timers, keeps the invariant.
LEMMA SendKeeps == ASSUME NEW fits \in BOOLEAN, CloseInv, Send(fits) PROVE CloseInv'
<1> USE CloseAssumption
<1>1. TypeOK'
    BY DEF CloseInv, TypeOK, Send, CheckTimers
<1>2. TimerOfState'
    BY DEF CloseInv, TypeOK, TimerOfState, Send, CheckTimers, Expired, Terminal
<1>3. IdleTimeout' = IdleTimeout
    BY DEF Send, IdleTimeout
<1>4. ~closed' /\ IdleTimeout' > 0 => now' <= idle_timer' + IdleTimeout'
    BY <1>3 DEF CloseInv, Send, CheckTimers
<1>5. Terminal' /\ ~closed' => now' <= ended' + 3 * PTO /\ Deadlines' # {}
  <2> SUFFICES ASSUME Terminal', ~closed' PROVE now' <= ended' + 3 * PTO /\ Deadlines' # {}
      OBVIOUS
  <2>1. CASE closing'
    <3>1. ended' > 0 /\ timer' = ended' + 3 * PTO /\ now' <= timer'
        BY <1>1, <1>2, <2>1, Zenon DEF TimerOfState
    <3>2. ended' \in Nat /\ now' \in Nat /\ 3 * PTO \in Nat
        BY <1>1 DEF TypeOK
    <3>3. timer' # 0 /\ now' <= ended' + 3 * PTO
        BY <3>1, <3>2, TimerArmed, Zenon
    <3>4. timer' \in Deadlines'
        BY <3>3 DEF Deadlines
    <3> QED
        BY <3>3, <3>4
  <2>2. CASE ~closing' /\ draining'
    <3>1. ended' > 0 /\ drain_timer' = ended' + 3 * PTO /\ now' <= drain_timer'
        BY <1>1, <1>2, <2>2, Zenon DEF TimerOfState
    <3>2. ended' \in Nat /\ now' \in Nat /\ 3 * PTO \in Nat
        BY <1>1 DEF TypeOK
    <3>3. drain_timer' # 0 /\ now' <= ended' + 3 * PTO
        BY <3>1, <3>2, TimerArmed, Zenon
    <3>4. drain_timer' \in Deadlines'
        BY <3>3 DEF Deadlines
    <3> QED
        BY <3>3, <3>4
  <2> QED
      BY <2>1, <2>2 DEF Terminal
<1>6. is_server' /\ ~established' /\ ~Terminal' => now' <= 1 + HANDSHAKE_TIMEOUT
    BY DEF CloseInv, Send, CheckTimers, Terminal
<1> QED
    BY <1>1, <1>2, <1>4, <1>5, <1>6 DEF CloseInv

\* The clock keeps the invariant: it passes no deadline.
LEMMA TickKeeps == CloseInv /\ Tick => CloseInv'
<1> SUFFICES ASSUME CloseInv, Tick PROVE CloseInv'
    OBVIOUS
<1> USE CloseAssumption
<1>1. TypeOK'
    BY DEF CloseInv, TypeOK, Tick
<1>2. closing => timer \in Deadlines
    BY DEF CloseInv, TypeOK, TimerOfState, Tick, Deadlines
<1>3. draining /\ ~closing => drain_timer \in Deadlines
    BY DEF CloseInv, TypeOK, TimerOfState, Tick, Deadlines
<1>4. TimerOfState'
    BY <1>2, <1>3 DEF CloseInv, TypeOK, TimerOfState, Tick
<1>5. IdleTimeout' = IdleTimeout
    BY DEF Tick, IdleTimeout
<1>6. IdleTimeout > 0 => idle_timer + IdleTimeout \in Deadlines
    BY DEF Deadlines
<1>7. ~closed' /\ IdleTimeout' > 0 => now' <= idle_timer' + IdleTimeout'
    BY <1>5, <1>6, IdleTimeoutType DEF CloseInv, TypeOK, Tick
<1>8. is_server /\ ~established /\ ~Terminal => 1 + HANDSHAKE_TIMEOUT \in Deadlines
    BY DEF Deadlines
<1>9. is_server' /\ ~established' /\ ~Terminal' => now' <= 1 + HANDSHAKE_TIMEOUT
    BY <1>8 DEF CloseInv, TypeOK, Tick, Terminal
<1>10. Terminal' /\ ~closed' => now' <= ended' + 3 * PTO /\ Deadlines' # {}
  <2> SUFFICES ASSUME Terminal', ~closed' PROVE now' <= ended' + 3 * PTO /\ Deadlines' # {}
      OBVIOUS
  <2>1. CASE closing'
    <3>1. ended' > 0 /\ timer' = ended' + 3 * PTO /\ now' <= timer'
        BY <1>1, <1>4, <2>1, Zenon DEF TimerOfState
    <3>2. ended' \in Nat /\ now' \in Nat /\ 3 * PTO \in Nat
        BY <1>1 DEF TypeOK
    <3>3. timer' # 0 /\ now' <= ended' + 3 * PTO
        BY <3>1, <3>2, TimerArmed, Zenon
    <3>4. timer' \in Deadlines'
        BY <3>3 DEF Deadlines
    <3> QED
        BY <3>3, <3>4
  <2>2. CASE ~closing' /\ draining'
    <3>1. ended' > 0 /\ drain_timer' = ended' + 3 * PTO /\ now' <= drain_timer'
        BY <1>1, <1>4, <2>2, Zenon DEF TimerOfState
    <3>2. ended' \in Nat /\ now' \in Nat /\ 3 * PTO \in Nat
        BY <1>1 DEF TypeOK
    <3>3. drain_timer' # 0 /\ now' <= ended' + 3 * PTO
        BY <3>1, <3>2, TimerArmed, Zenon
    <3>4. drain_timer' \in Deadlines'
        BY <3>3 DEF Deadlines
    <3> QED
        BY <3>3, <3>4
  <2> QED
      BY <2>1, <2>2 DEF Terminal
<1> QED
    BY <1>1, <1>4, <1>7, <1>9, <1>10 DEF CloseInv

\* CloseInv is inductive.
LEMMA StepInv == CloseInv /\ [Next]_closeVars => CloseInv'
<1> SUFFICES ASSUME CloseInv, [Next]_closeVars PROVE CloseInv'
    OBVIOUS
<1>1. CASE Close
    BY <1>1, CloseKeeps
<1>2. ASSUME NEW frame \in {"data", "finished", "close"}, Recv(frame) PROVE CloseInv'
    BY <1>2, RecvKeeps
<1>3. ASSUME NEW fits \in BOOLEAN, Send(fits) PROVE CloseInv'
    BY <1>3, SendKeeps
<1>4. CASE Tick
    BY <1>4, TickKeeps
<1>5. CASE UNCHANGED closeVars
    BY <1>5 DEF closeVars, CloseInv, TypeOK, TimerOfState, Terminal, IdleTimeout, Deadlines
<1> QED
    BY <1>1, <1>2, <1>3, <1>4, <1>5 DEF Next

\* For every probe timeout and every idle and handshake timeout, a connection
\* that was closed or told of a close is gone within three probe timeouts,
\* and none outlasts its idle timeout or its handshake deadline.
THEOREM CloseSound == Spec => []CloseInv
<1> QED
    BY InitInv, StepInv, PTL DEF Spec
=============================================================================
