--------------------------- MODULE MCReviewScoring ---------------------------
(***************************************************************************)
(* Model-checking instance of ReviewScoring: the first review belongs to   *)
(* one hotel, the others to another.                                       *)
(***************************************************************************)
EXTENDS ReviewScoring, TLC

CONSTANTS h1, h2

MCHotelOf == [r \in Reviews |-> IF r = 1 THEN h1 ELSE h2]
=============================================================================
