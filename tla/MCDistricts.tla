----------------------------- MODULE MCDistricts -----------------------------
(* Two usages: one loco on tracks of every mode, and two locos, with their *)
(* consists, on a layout of DC tracks.                                     *)
EXTENDS Districts

MCUsages == {[cabs |-> {3}, kinds |-> Kinds, mods |-> Mods],
             [cabs |-> {3, 4}, kinds |-> {"DC"}, mods |-> {}]}
=============================================================================
