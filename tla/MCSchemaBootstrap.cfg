\* Any of the three may be starting, working or dead.
SPECIFICATION Spec
CONSTANTS
    Process = {p1, p2, p3}
    None = None
INVARIANT TypeOK
INVARIANT OnlyKnownDeadlocks
PROPERTY TransactionsEnd
