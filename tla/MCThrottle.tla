------------------------------ MODULE MCThrottle ------------------------------
(* Small instances of Throttle for TLC: half a millisecond per tick, a     *)
(* token every millisecond or every two.                                   *)
EXTENDS Throttle

MCRates == {500, 1000}
MCBursts == {0, 1, 2}
MCSizes == {0, 1, InitialSize}
===============================================================================
