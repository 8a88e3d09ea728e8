CONSTANTS
  q0 = q0
  q1 = q1
  q2 = q2
  q3 = q3
  q4 = q4
  d1 = d1
  d2 = d2
  Scale = 10
  RequestIds = {q0, q1, q2, q3, q4}
  Creation = q0
  Deliveries = {d1, d2}
  Entries <- AllEntries
  Budget = 4
  MaxSession = 1
  CallsFail = TRUE

SPECIFICATION PaperSpec

SYMMETRY Symmetry
VIEW Unended

INVARIANTS
  BooksBalance

PROPERTIES
  AnswersAreRecorded
  ValuationIsCurrent
  RefinesPaperJournal
