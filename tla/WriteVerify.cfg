\* Two requests, the adapter's two retries, up to two dropped writes and two
\* requests of a verifier that raise on a live connection.
CONSTANTS
  Values = {v1, v2}
  MaxWrites = 2
  MaxRetries = 2
  MaxDrops = 2
  MaxErrors = 2
  MaxFlaps = 1
  MaxEdits = 1
SPECIFICATION Spec
INVARIANTS TypeOK RewritesBounded
PROPERTIES VerifiersEnd WriteIsDurable
\* When every verifier has ended and the bounds are used up nothing is left.
CHECK_DEADLOCK FALSE
