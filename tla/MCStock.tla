------------------------------ MODULE MCStock ------------------------------
(***************************************************************************)
(* Two printings of a card.  What cannot matter any more is not told       *)
(* apart: the identifiers of the rows, but for what refers to them; what   *)
(* an import was that has been undone, or whose row is gone, but for its   *)
(* share in the balance of the copies.                                     *)
(***************************************************************************)
EXTENDS Intake, FiniteSets, TLC

Symmetry == Permutations(Printings)

Content(i) == <<rows[i], {e \in DOMAIN log : log[e].row = i}>>

Status(e) ==
  IF log[e].reversed THEN <<"reversed", log[e].batch>>
  ELSE IF log[e].row = 0 THEN <<"gone", log[e].batch>>
  ELSE <<"live", [log[e] EXCEPT !.row = 0]>>

\* TLC keeps a function with updates unevaluated: `rows \in Tables' has it evaluate
\* the table once in every state.
View ==
  <<rows \in Tables, deck, [p \in Printings |-> owned[p] + Imported(log, p)],
    [e \in DOMAIN log |-> Status(e)],
    [c \in {Content(i) : i \in Rows(rows)} |->
       Cardinality({i \in Rows(rows) : Content(i) = c})]>>

\* Bound: two copies once something has been imported.
FewImported == log # <<>> => Quantity(rows, Rows(rows)) <= 2

=============================================================================
