----------------------------- MODULE MCProfiles -----------------------------
(* An instance of Profiles for TLC: two profiles.                          *)
EXTENDS Profiles, TLC

CONSTANTS default, work, i1, i2, i3

TwoProfiles == (default :> i1) @@ (work :> i2)
=============================================================================
