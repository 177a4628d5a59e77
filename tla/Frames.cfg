\* Three threads; two words of their own and four bytes of dispatcher's
\* calls fill a stack but for its last word.
SPECIFICATION Spec
CONSTANTS
  N = 3
  SIZE = 68
  DEPTH = 2
  SCRATCH = 4
  Programs = {"micros", "fifos", "org"}
INVARIANTS Restored ReturnsKept
PROPERTIES OnOwnStack
