---------------------------- MODULE MCVoicePool ----------------------------
(***************************************************************************)
(* Small setups for VoicePool, one channel each.                           *)
(***************************************************************************)
EXTENDS VoicePool

OneChannel == {"ch"}
ThreeNotes == {"C", "D", "E"}
OneGroup == {{"C", "D"}}

(* notes, pedals and mode messages with overlapping notes *)
Keyboard == [voices |-> 2, overlap |-> TRUE, surround |-> FALSE, layers |-> {1, 2},
             drums |-> {}, notes |-> {"C"}, pending |-> 2,
             events |-> {"note", "pedals", "sounds_off", "controllers", "assign",
                         "system_reset"}]

(* mono mode and no overlapping notes *)
Mono == [voices |-> 3, overlap |-> FALSE, surround |-> FALSE, layers |-> {1, 2},
         drums |-> {}, notes |-> ThreeNotes, pending |-> 1,
         events |-> {"note", "mono", "pedals"}]

(* the polyphony changes while notes play *)
Regulated == [voices |-> 2, overlap |-> TRUE, surround |-> FALSE, layers |-> {1},
              drums |-> OneChannel, notes |-> {"C"}, pending |-> 1,
              events |-> {"note", "tune", "polyphony", "restart", "song_end"}]

(* surround chorus, one sample per note, constant polyphony *)
Chorused == [voices |-> 3, overlap |-> TRUE, surround |-> TRUE, layers |-> {1},
             drums |-> {}, notes |-> {"C"}, pending |-> 2,
             events |-> {"note", "offset", "sounds_off", "restart", "song_end"}]

(* surround chorus, two samples per note *)
Layered == [voices |-> 3, overlap |-> FALSE, surround |-> TRUE, layers |-> {1, 2},
            drums |-> {}, notes |-> {"C", "E"}, pending |-> 2,
            events |-> {"note", "pedals"}]

AllSetups == {Keyboard, Mono, Regulated, Chorused}
LayeredOnly == {Layered}
=============================================================================
