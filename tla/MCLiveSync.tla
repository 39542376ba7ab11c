----------------------------- MODULE MCLiveSync -----------------------------
(* Two players tapping at once, two screens, one failure anywhere.          *)
EXTENDS LiveSync
=============================================================================
