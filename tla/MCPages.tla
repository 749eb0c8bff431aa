------------------------------ MODULE MCPages ------------------------------
(* PageLooks for TLC: two kinds of pages and two reclaimers.               *)
EXTENDS PageLooks
=============================================================================
