----------------------------- MODULE MC_Longform -----------------------------
(* The script as written: all 100 pages and the six lists at full length. *)
EXTENDS Longform
=============================================================================
