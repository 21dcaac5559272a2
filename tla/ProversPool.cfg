\* Three provers in a pool of capacity two, shared by three pipeline workers,
\* with the node stopping at any time.  The node really stops: once the
\* context is cancelled every worker returns ErrDone, so deadlock is not
\* checked; GetReturns covers progress.
CONSTANTS
  Provers = {p1, p2, p3}
  Workers = {w1, w2, w3}
  MaxServerProofs = 2
  NoProver = NoProver
SPECIFICATION Spec
CHECK_DEADLOCK FALSE
INVARIANT ProversAccounted
PROPERTY GetReturns
