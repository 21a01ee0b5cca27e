--------------------------- MODULE MCLoginCapture ---------------------------
(* Instances of LoginCapture for TLC: one or two captures of one flow, which
   differ in nothing but their name. *)
EXTENDS LoginCapture

CONSTANTS c1, c2
=============================================================================
