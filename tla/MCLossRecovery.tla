--------------------------- MODULE MCLossRecovery ---------------------------
(***************************************************************************)
(* Two spaces, of two and three packet numbers.  A packet is               *)
(* ack-eliciting, or only padded (in flight, not ack-eliciting), or an ACK *)
(* alone.                                                                  *)
(***************************************************************************)
EXTENDS LossRecovery, TLC

MCMaxPn == 0 :> 1 @@ 2 :> 2

MCKinds == {[ae |-> TRUE,  in_flight |-> TRUE,  size |-> 2],
            [ae |-> FALSE, in_flight |-> TRUE,  size |-> 1],
            [ae |-> FALSE, in_flight |-> FALSE, size |-> 1]}
=============================================================================
