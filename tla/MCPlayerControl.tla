-------------------------- MODULE MCPlayerControl --------------------------
(***************************************************************************)
(* Small songs for PlayerControl: two note events, a control event and the *)
(* end, five samples long with blocks of two samples; the last two events  *)
(* have one time.                                                          *)
(***************************************************************************)
EXTENDS PlayerControl

Song == <<0, 1, 4, 5, 5>>
Notes == {1, 2}

(* every request; the start, the inside and what lies past the end *)
Anything == [commands |-> CommandKinds, jumps |-> {0, 2, 7}, most |-> 3, songs |-> 1]
Holding == [Anything EXCEPT !.commands =
              {"pause", "stop", "restart", "jump", "forward", "back", "sync"}]
TwoSongs == [Anything EXCEPT !.commands = {"stop"}, !.most = 1, !.songs = 2]
Requests == {Anything, Holding, TwoSongs}

(* seeks that stay clear of the first event, and restarts *)
Seeking == [commands |-> {"stop", "previous", "jump", "forward", "back"},
            jumps |-> {1, 3}, most |-> 4, songs |-> 1]
Restarting == [Seeking EXCEPT !.commands = {"restart", "stop"}]
Seeks == {Seeking, Restarting}
SessionsOfAllKinds == Requests \cup Seeks

ToTheStart == {[Seeking EXCEPT !.commands = {"jump"}, !.jumps = {0}, !.most = 1]}
=============================================================================
