SPECIFICATION Spec
CONSTANTS
  Tenant = "t"
  Contents = {"a", "b", "bad"}
  Items <- MCItems
  Refused = {"bad"}
  Imports = {i1, i2}
  Jobs = {"j1", "j2"}
  Reads <- MCReads
  Matches <- MCMatches
  Requires <- MCRequires
  Artifacts <- MCArtifacts
  Types = {"policy", "log"}
  Daemons = {d1, d2}
  Budgets <- MCBudgets
  NoDocument = NoDocument
INVARIANTS ImportedDocumentIsKept HandledResultsAreInGraph
PROPERTY ReportedImportIsProjected
CHECK_DEADLOCK FALSE
