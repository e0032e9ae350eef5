------------------------------- MODULE MC_Ibd -------------------------------
(* Model-checking instance of Ibd. MaxHeight 6 with a skip threshold of 1 *)
(* and a buffer of 3 lets a round fetch more blocks than the buffer holds,*)
(* lets answers overtake each other, and lets a second round start from a *)
(* non-empty local chain.                                                 *)
EXTENDS Ibd
=============================================================================
