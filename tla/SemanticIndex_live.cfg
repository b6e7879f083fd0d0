SPECIFICATION FairSpec
CONSTANTS
  Writers = {w1}
  Readers = {r1}
  Workers = {k1}
  NBeads = 2
  Texts = 2
  Backends = {"faiss", "external"}
  Required = TRUE
  Faults = {}
  MaxWrites = 1
  MaxFailures = 1
  Nobody = Nobody
  NoPrint = NoPrint
INVARIANTS  ReadyRowsHaveVectors
PROPERTIES CleanAnswersAreCurrent IndexCatchesUp
