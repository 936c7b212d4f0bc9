--------------------------- MODULE MCDroidMailbox ---------------------------
(***************************************************************************)
(* One thread that asks first, one that does not, and two at a time.       *)
(***************************************************************************)
EXTENDS DroidMailbox

TwoThreads == {"ui", "service"}
Alone == [callers |-> {"ui"}, asks |-> TRUE, calls |-> 3]
AllUses == {Alone, [Alone EXCEPT !.asks = FALSE],
            [callers |-> TwoThreads, asks |-> TRUE, calls |-> 2]}
=============================================================================
