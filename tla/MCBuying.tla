-------------------------------- MODULE MCBuying --------------------------------
(* Instances of Buying.                                                          *)
EXTENDS Buying

CONSTANTS s1, s2
=================================================================================
