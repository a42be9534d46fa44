SPECIFICATION FairSpec
CONSTANTS
  Tools = {"t1"}
  Groups = {"g1"}
  GroupOf <- MCGroupOf
  Limit = 2
  MaxRequests = 3
  Quotas <- MCQuotas
  MaxOutput = 3
  Faults = {"disk", "long", "kill"}
INVARIANTS ResultsWhole NoOrphans ViewFresh ExitComplete
PROPERTIES RequestsEnd
CHECK_DEADLOCK FALSE
