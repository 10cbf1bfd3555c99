\* Two String8 objects of up to three bytes over NUL, 'a' and a byte above
\* 127, and literals with and without a NUL inside.
CONSTANTS
  Vars = {x, y}
  Bytes <- S8Bytes
  Lits <- S8Lits
  MaxLen = 3
SPECIFICATION Spec
INVARIANTS ComparisonIsLexicographic
