----------------------------- MODULE FlowControl -----------------------------
(***************************************************************************)
(* The FlowControl struct of quic/flow_control.mojo, used for one stream   *)
(* and for the whole connection: `received` is checked against `limit`,    *)
(* `consumed` moves the limit, and `window` doubles on each update up to   *)
(* max_window.  blocked_at belongs to the sending side only.               *)
(***************************************************************************)
EXTENDS Integers

FlowControl == [received : Nat, consumed : Nat, limit : Nat, window : Nat]

NewFlowControl(limit, window) ==
    [received |-> 0, consumed |-> 0, limit |-> limit, window |-> window]

\* Less than a third of the window is left, or none at all.
ShouldUpdate(fc) ==
    fc.consumed >= fc.limit \/ fc.limit - fc.consumed < fc.window \div 3

GrownWindow(fc, max_window) ==
    CASE fc.window >= max_window     -> fc.window
      [] 2 * fc.window <= max_window -> 2 * fc.window
      [] OTHER                       -> max_window

UpdateLimitLessUnread(fc, max_window) ==
    LET w == GrownWindow(fc, max_window)
    IN  [fc EXCEPT !.window = w, !.limit = 2 * fc.consumed + w - fc.received]

UpdateLimit(fc, max_window) ==
    LET w == GrownWindow(fc, max_window)
    IN  [fc EXCEPT !.window = w, !.limit = fc.consumed + w]

AddReceived(fc, n) == [fc EXCEPT !.received = @ + n]
AddConsumed(fc, n) == [fc EXCEPT !.consumed = @ + n]

CheckLimit(fc, n) == fc.received + n <= fc.limit

==============================================================================
