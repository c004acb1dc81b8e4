---------------------------- MODULE MCThrottles -----------------------------
(***************************************************************************)
(* The clients for TLC: two devices on the XpressNet bus, the first of its *)
(* three places for the one heard last.                                    *)
(***************************************************************************)
EXTENDS Throttles

ThreePlaces == <<2, 1, 2>>
=============================================================================
