\* Up to three revisions, two of them countered or declined.
CONSTANTS
  Proposer = p
  Recipient = q
  ProposerRows = {a1}
  RecipientRows = {b1}
  MaxRevisions = 3

SPECIFICATION Spec

INVARIANTS
  TypeOK
  RecordIsCurrent
  PendingIsSound

PROPERTIES
  ClosedIsFinal
  DeclineRestores

\* A closed trade with no row left and nobody in the playgroup: nothing to do.
CHECK_DEADLOCK FALSE
