----------------------------- MODULE MCDCCLoco ------------------------------
(* Two locos; speed codes 0..7 with HALF = 4: 0 and 4 stop, 1 and 5 are    *)
(* emergency stops, 2 and 6 drive backwards and forwards, the latter when  *)
(* a loco is reversed in its consist.                                      *)
EXTENDS DCCLoco

\* An emergency stop, a speed backwards, and two orders that are refused.
MCOrders == {<<-1, 0>>, <<1, 0>>, <<HALF - 1, 1>>, <<1, 2>>}
=============================================================================
