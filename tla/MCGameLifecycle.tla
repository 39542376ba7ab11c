--------------------------- MODULE MCGameLifecycle --------------------------
(* Two seats, two players with one deck, and requests that overlap.         *)
EXTENDS GameLifecycle, TLC

\* The slots and the players are interchangeable.
Interchangeable ==
  Permutations(OwnerSlots) \cup Permutations(PlayerSlots) \cup Permutations(Players)
=============================================================================
