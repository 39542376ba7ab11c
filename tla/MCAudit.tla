------------------------------ MODULE MCAudit ------------------------------
(***************************************************************************)
(* Two printings of a card and an audit.  The identifiers of the rows      *)
(* are not told apart, but for what the audits hold on them.               *)
(***************************************************************************)
EXTENDS Audit

Symmetry == Permutations(Printings)

OnRow(i) ==
  [a \in DOMAIN audits |->
     <<audits[a].held[i], audits[a].scans.match[i], audits[a].scans.partial[i]>>]

Apart(a) ==
  <<audits[a].status, audits[a].scope, audits[a].gone, audits[a].scans.extra,
    audits[a].expected = audits[a].start>>

View ==
  <<deck, [p \in Printings |-> owned[p] - Copies(rows, p)],
    [a \in DOMAIN audits |-> Apart(a)],
    [c \in {<<rows[i], OnRow(i)>> : i \in Rows(rows)} |->
       Cardinality({i \in Rows(rows) : <<rows[i], OnRow(i)>> = c})]>>

=============================================================================
