------------------------- MODULE MCConfirmedChanges -------------------------
(* Constants for TLC: one reply draft and one payment draft, under review at the
   same time. *)
EXTENDS ConfirmedChanges

MCItem == {<<"reply draft", 1>>, <<"payment draft", 1>>}

=============================================================================
