------------------------- MODULE MCNightlyLearning -------------------------
(***************************************************************************)
(* Instances of NightlyLearning for TLC: the measurements a day may show.  *)
(***************************************************************************)
EXTENDS NightlyLearning

Snow == [collapsed |-> TRUE, dayAhead |-> "losing", slow |-> "losing",
         clear |-> FALSE]
Gap == [collapsed |-> FALSE, dayAhead |-> "none", slow |-> "none",
        clear |-> TRUE]
Good == [collapsed |-> FALSE, dayAhead |-> "holding", slow |-> "holding",
         clear |-> TRUE]
Bad == [collapsed |-> FALSE, dayAhead |-> "losing", slow |-> "losing",
        clear |-> TRUE]

MixedDays == {Snow, Good, Bad}
BadDays == {Bad}
GappyDays == {Gap, Bad}
=============================================================================
