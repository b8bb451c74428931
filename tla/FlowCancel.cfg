SPECIFICATION FairSpec
CONSTANT Rows = 2
INVARIANTS
  TypeOK
  HandedCursorClosed
  NoNeedlessCancel
PROPERTY ExecutingQueryCancelled
