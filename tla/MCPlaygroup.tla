---------------------------- MODULE MCPlaygroup ----------------------------
EXTENDS Playgroup

CONSTANT Guests
Interchangeable == Permutations(Guests) \cup Permutations(Slots)

\* Bound: what happens after a decision about owners was overtaken is not explored.
OwnersAreSettled == "roles" \notin raced

\* Bound: evenings of the playgroup go on next to one open request.
QuietEvenings ==
  Cardinality(Open) =< 1 \/ \A n \in SessionIds : sessions[n] = NoSession

=============================================================================
