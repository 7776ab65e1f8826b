----------------------------- MODULE MCDesktop -----------------------------
(* Instances of Desktop for TLC. *)
EXTENDS Desktop, TLC

CONSTANTS h1, h2, u1, u2, d1, d2

=============================================================================
