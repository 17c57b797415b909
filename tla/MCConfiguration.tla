-------------------------- MODULE MCConfiguration --------------------------
(* A small instance of Configuration.  A Duration has 15 bits: a second is  *)
(* 8 of its units, the default times fit, 40 minutes and 2048 seconds are   *)
(* negative, and 2048 minutes are a multiple of 2^15.                       *)
EXTENDS Configuration

Written == {-1, 0, 1, 40, 2048}
=============================================================================
