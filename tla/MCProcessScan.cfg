CONSTANTS
  Pids <- MCPids
  Programs = {"shell", "agent", "tmux"}
  LinksOf <- MCLinksOf
  NoLink = "none"
  MaxChurn = 2
  Hints <- MCHints
  NamesAgent <- MCNamesAgent
  Requests <- MCRequests
  MaxNodes = 3
SPECIFICATION Spec
INVARIANTS
  TypeOK
  RecordedParentsWereReal
  ProvenWindowHeldTheTarget
  AbsenceIsProven
  StrictPickIsTheOnlyOne
  ProofOutranksHints
CHECK_DEADLOCK FALSE
