--------------------------- MODULE MCDealDeadlines ---------------------------
(* DealDeadlines on short windows of different lengths.                     *)
EXTENDS DealDeadlines
=============================================================================
