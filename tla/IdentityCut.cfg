SPECIFICATION MCSpec
CONSTANTS None = None
          NoWord = NoWord
          A = A
          B = B
INVARIANTS EachIsFlagged
CHECK_DEADLOCK FALSE
