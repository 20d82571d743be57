----------------------------- MODULE Governor ------------------------------
(***************************************************************************)
(* The overload governor's controller (protect/governor.mojo): one step    *)
(* per interval close, on the p90 queue wait, the streams completed, the   *)
(* open streams and the connections holding some.                          *)
(***************************************************************************)
EXTENDS Integers

CONSTANTS T, Interval,            \* the dial max_queue_delay_us, interval_us(T)
          Cap,                    \* a connection's configured stream credit
          FLOOR, UNLIMITED, RELEASE, PENDING_MAX, MEASURED, REFUSE_AFTER,
          Delays, Dones, Works, Actives  \* what an interval may measure

VARIABLES mode, budget, refuse_new, since_cut, clear_streak, hot_streak,
          over,    \* history: the last close was over the target
          parity   \* history: of the closes, so that each one is a step

govVars == <<mode, budget, refuse_new, since_cut, clear_streak, hot_streak,
             over, parity>>

Least(a, b) == IF a < b THEN a ELSE b
Most(a, b) == IF a > b THEN a ELSE b

Floor == Least(FLOOR, Cap)

Pressure == mode \in {"CUTTING", "HOLDING"}

-----------------------------------------------------------------------------
\* The open work that leaves no excess queue: what a cut aims at.
Target(delay, done, work) ==
    work - Least(work, (done * (delay - T)) \div Interval)

\* Mutant: a cut waits one close longer to be measured, so that a server
\* over its target right after a release is held without a budget.
CutTakenEffectLate(since, work) ==
    since > MEASURED /\ (work <= budget \/ since >= PENDING_MAX)

\* The last cut was measured for a whole interval, and open work came down
\* to it or will not.
CutTakenEffect(since, work) ==
    since >= MEASURED /\ (work <= budget \/ since >= PENDING_MAX)

\* The budget after a cut.
CutBudget(target, work) ==
    LET base == Least(budget, work)
    IN  Most(Floor, Least(Most(target, base \div 2), base))

\* step, delay above the target.
CloseOver(delay, done, work) ==
    LET since  == Least(since_cut + 1, PENDING_MAX)
        hot    == IF delay > 4 * T THEN Least(hot_streak + 1, REFUSE_AFTER) ELSE 0
        target == Target(delay, done, work)
    IN
    /\ delay > T
    /\ clear_streak' = 0
    /\ hot_streak' = hot
    /\ refuse_new' = (refuse_new \/ (hot >= REFUSE_AFTER /\ budget <= Most(Floor, target)))
    /\ IF CutTakenEffect(since, work)
       THEN mode' = "CUTTING" /\ since_cut' = 0 /\ budget' = CutBudget(target, work)
       ELSE mode' = "HOLDING" /\ since_cut' = since /\ UNCHANGED budget
    /\ over' = TRUE

\* The budget of a clear close that does not release: it grows while used.
GrownBudget(clear, work, active) ==
    IF clear < RELEASE /\ work >= budget \div 2
    THEN Least(budget + Most(1, active), UNLIMITED) ELSE budget

\* Mutant: only calm releases, which a busy but healthy server never has.
ReleasesLate(clear, grown, active) == clear > RELEASE

\* The budget returns to unlimited.
Releases(clear, grown, active) == clear >= RELEASE \/ grown >= active * Cap

\* step, delay at or below the target.
CloseClear(delay, work, active) ==
    LET clear == Least(clear_streak + 1, RELEASE)
        grown == GrownBudget(clear, work, active)
    IN
    /\ delay <= T
    /\ refuse_new' = FALSE /\ hot_streak' = 0
    /\ since_cut' = Least(since_cut + 1, PENDING_MAX)
    /\ clear_streak' = clear
    /\ IF mode = "NORMAL" THEN UNCHANGED <<mode, budget>>
       ELSE IF Releases(clear, grown, active)
       THEN mode' = "NORMAL" /\ budget' = UNLIMITED
       ELSE mode' = "RECOVERING" /\ budget' = grown
    /\ over' = FALSE

-----------------------------------------------------------------------------
GovInit ==
    /\ mode = "NORMAL" /\ budget = UNLIMITED /\ refuse_new = FALSE
    /\ since_cut = PENDING_MAX /\ clear_streak = 0 /\ hot_streak = 0
    /\ over = FALSE /\ parity = 0

\* Governor.close.
Close(delay, done, work, active) ==
    /\ CloseOver(delay, done, work) \/ CloseClear(delay, work, active)
    /\ parity' = 1 - parity

GovNext ==
    \E delay \in Delays, done \in Dones, work \in Works, active \in Actives :
       Close(delay, done, work, active)

-----------------------------------------------------------------------------
(* Properties *)

\* The budget is finite exactly while the governor is at work, and then at
\* least the floor: no close leaves a server that counts as normal under a
\* budget, or one over its target without any (HOLDING with no cut made,
\* right after a release).  New connections are refused only under pressure,
\* with a history of hot closes.
GovernorInv ==
    /\ mode \in {"NORMAL", "CUTTING", "HOLDING", "RECOVERING"}
    /\ budget \in Nat /\ since_cut \in 0 .. PENDING_MAX
    /\ clear_streak \in 0 .. RELEASE /\ hot_streak \in 0 .. REFUSE_AFTER
    /\ mode = "NORMAL" <=> budget = UNLIMITED
    /\ budget >= Floor
    /\ refuse_new => Pressure
    /\ Pressure <=> over

\* Once the queue wait stays at or below the target, budget, windows and
\* refusals go away for good, whatever the load: the squeeze cannot keep
\* itself going.
GovernorReleases == <>[](~over) => <>[](mode = "NORMAL" /\ ~refuse_new)
=============================================================================
