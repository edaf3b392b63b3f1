CONSTANTS
  Users = {u1, u2}
  Keys = {k1, k2}
  Amounts = {2}
  Threads = {t1, t2}
  Deposit = 2
  MaxFaults = 1
  Crashes = TRUE
  None = None
SPECIFICATION Spec
INVARIANTS TypeOK ExecutedOnce JournalIsTrue BooksBalance
PROPERTIES ImplementsBook
SYMMETRY Symmetry
