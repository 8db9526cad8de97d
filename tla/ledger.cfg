SPECIFICATION Spec
CONSTANTS
  Writers = {w1, w2, w3}
  Keys = {"k1", "k1-padding", "key-0002", "key-0003"}
  Short = {"k1"}
  Padded <- MCPadded
  MaxNumber = 6
  Days = {1, 2}
  NoDate = NoDate
SYMMETRY Symmetry
INVARIANTS ChainIsTheCommitOrder ChainIsWalked 
CHECK_DEADLOCK FALSE
