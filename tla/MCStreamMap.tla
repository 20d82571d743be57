---------------------------- MODULE MCStreamMap ----------------------------
(***************************************************************************)
(* A window of two streams, one of which the governor can take away; and,  *)
(* as the other part, the governor's controller by itself.                 *)
(***************************************************************************)
EXTENDS StreamMap

CONSTANTS T, Interval, FLOOR, RELEASE, PENDING_MAX, MEASURED, REFUSE_AFTER,
          Cap, Delays, Dones, GovWorks, Actives

VARIABLES mode, budget, refuse_new, since_cut, clear_streak, hot_streak, over, parity,
          part   \* which of the two runs

G == INSTANCE Governor WITH Works <- GovWorks

govVars == <<mode, budget, refuse_new, since_cut, clear_streak, hot_streak,
             over, parity>>
MCvars == <<vars, govVars, part>>

\* While the governor runs, the stream map rests, with a client of which
\* CreditReturns promises nothing.
MCInit ==
    /\ Init /\ G!GovInit /\ part \in {"stream_map", "governor"}
    /\ part = "governor" => ~conforming

InStreamMap == part = "stream_map" /\ UNCHANGED <<govVars, part>>
StreamMapPart == InStreamMap /\ Next
GovernorPart == part = "governor" /\ G!GovNext /\ UNCHANGED <<vars, part>>

MCNext == StreamMapPart \/ GovernorPart

\* The fairness of StreamMap's FairSpec, for the part that runs; and
\* interval closes go on.
MCFairSpec ==
    /\ MCInit /\ [][MCNext]_MCvars
    /\ \A i \in Ordinals : WF_MCvars(InStreamMap /\ ReceiveFrame(i))
                           /\ WF_MCvars(InStreamMap /\ MaybeCleanup(i))
    /\ WF_MCvars(InStreamMap /\ EmitMaxStreams)
    /\ WF_MCvars(InStreamMap /\ \E m \in max_streams_sent :
                    DeliverMaxStreams(m) \/ MaxStreamsLost(m))
    /\ WF_MCvars(InStreamMap /\ SetPeerLimits)
    /\ WF_MCvars(InStreamMap /\ HandshakeDone)
    /\ WF_MCvars(GovernorPart)

\* The budget, the mode and the refusals of the governor fit each other.
GovernorInv == G!GovernorInv

\* The governor lets go once the queue wait stays at or below the target.
GovernorReleases == G!GovernorReleases
=============================================================================
