------------------------------ MODULE MCUnaryCalls ------------------------------
(***************************************************************************)
(* Instances of UnaryCalls: two goroutines, each call with a message of    *)
(* its own (MCUnaryCalls.cfg); one goroutine that passes its message again *)
(* (MCUnaryReuse.cfg); a REST client that is reconfigured                  *)
(* (MCUnaryOptions.cfg).                                                   *)
(***************************************************************************)
EXTENDS UnaryCalls, TLC

CONSTANTS c1, c2, m1, m2
=================================================================================
