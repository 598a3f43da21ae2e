SPECIFICATION Spec
CONSTANTS
  t1 = t1
  t2 = t2
  reserved = reserved
  r1 = r1
  reservedName = reservedName
  padded = padded
  c1 = c1
  c2 = c2
  c3 = c3
  Tenants <- MCTenants
  Reviewers <- MCReviewers
  Text <- MCText
  Sessions = {s1, s2, s3}
  NoOne = NoOne
  Leftover = Leftover
  PageSize = 1
  MaxVerdicts = 1
  RelationshipTypes = {"EQUAL", "SUBSET", "NONE"}
  NoRelationship = "NONE"
  DefaultPageSize = 2
  MaxPageSize = 3
  Callers = {c1, c2, c3}
  Calls <- MCCalls
  Servers <- MCServers
  Certs <- MCCerts
  Glob <- MCGlob
  NoTenant = NoTenant
  MaxUpload = 1
  MaxJobs = 4
SYMMETRY Interchangeable
INVARIANTS
  LogTellsTheState
  
  WalkReadsEveryMapping
PROPERTIES
  ActiveWhenUsed
  
CHECK_DEADLOCK FALSE
