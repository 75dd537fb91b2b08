\* Two batches share a compliance and a plagiarism task; two processes, one of which dies.
CONSTANTS
  c1 = c1
  c2 = c2
  p1 = p1
  j1 = j1
  j2 = j2
  x1 = x1
  x2 = x2
  t1 = t1
  t2 = t2
  None = None
  Processes = {x1, x2}
  RunIds = {j1, j2}
  Compliance = {c1}
  Plagiarism = {p1}
  Proposals <- MCProposals
  Texts = {t1}
  MaxCalls = 3
  MaxExecutions = 3
SPECIFICATION Spec
SYMMETRY Symmetry
INVARIANT TypeOK
INVARIANT SummaryMeansPublished
PROPERTY ImplementsRegister
CHECK_DEADLOCK FALSE
