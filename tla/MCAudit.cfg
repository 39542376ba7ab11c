CONSTANTS
  Printings = {A, B}
  MaxRows = 3
  MaxCopies = 2
  MaxImports = 0
  MaxAudits = 1
  MaxScans = 2
  NoRow = NoRow
SPECIFICATION SpecAudit
SYMMETRY Symmetry
VIEW View
INVARIANTS
  Conserved
  CountsAreAsFound
PROPERTY ScopeIsolates
