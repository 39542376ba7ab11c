\* Up to five taps on a table of three.
CONSTANTS
  N = 3
  StartingLife = 3
  PoisonLethal = 2
  CmdLethal = 2
  PartnerSeats <- MCPartnerSeats
  LifeDeltas <- MCLifeDeltas
  PoisonDeltas <- MCPoisonDeltas
  CmdDeltas <- MCCmdDeltas
  SuppliedKeys <- MCSuppliedKeys
  Versions <- MCVersions

SPECIFICATION Spec

INVARIANTS
  TypeOK
  ReplayMatchesBoard
  CauseIsCurrent
  CommanderDamageIsPaidInLife

PROPERTIES
  NoUnnoticedLoss
  ManualIsPermanent
  OneTurnPerRound

\* The exploration stops at the last version of the bound.
CHECK_DEADLOCK FALSE
