SPECIFICATION MCSpec
CONSTANTS None = None
          NoWord = NoWord
          A = A
          B = B
INVARIANTS PlaceholderHoldsOneLine
           ClassesKeptTogether
           LossIsTold
           GatesHoldAtTheEnd
CHECK_DEADLOCK FALSE
