------------------------------ MODULE MCClaims ------------------------------
(***************************************************************************)
(* Two brews and a few loose copies, with the identifiers of the rows in   *)
(* two orders.  The first request may make the second obsolete, and the    *)
(* third runs into their locks.                                            *)
(***************************************************************************)
EXTENDS Claims, TLC

CONSTANTS d1, d2

R(at, proxy, qty) == [at |-> at, proxy |-> proxy, qty |-> qty, version |-> 0]

MCTables ==
  {(1 :> R(d2, FALSE, 1)) @@ (2 :> R("box", FALSE, 2)) @@ (3 :> R(d1, TRUE, 2))
      @@ (4 :> R(d2, TRUE, 1)) @@ [i \in Ids |-> NoRow],
   (1 :> R(d1, TRUE, 1)) @@ (2 :> R("pending", FALSE, 1)) @@ (3 :> R(d1, FALSE, 1))
      @@ (4 :> R(d2, TRUE, 2)) @@ [i \in Ids |-> NoRow]}

MCOffered == <<Kinds, {"materialize", "confirm", "split"}, {"materialize"}>>

=============================================================================
