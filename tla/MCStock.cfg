CONSTANTS
  Printings = {A, B}
  MaxRows = 4
  MaxCopies = 3
  MaxImports = 2
  NoRow = NoRow
SPECIFICATION SpecIntake
SYMMETRY Symmetry
VIEW View
CONSTRAINT FewImported
INVARIANTS
  TypeOK
  Conserved
  PlaceholdersStayHome
  NoneStranded
PROPERTIES PullsReplaceProxies ImportsCanBeUndone
