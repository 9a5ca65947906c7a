\* The table of the code (30 powers of two); 16 appends take the count
\* from 1 across the powers 2, 4, 8 and 16, with two distinct commitments.
CONSTANTS
    POW_LEN = 30
    Commitments = {1, 2}
    MaxAppends = 16
SPECIFICATION Spec
INVARIANT RootIsMTH
INVARIANT PowIndexBracket
\* main.rs appends a fixed number of leaves and then stops.
CHECK_DEADLOCK FALSE
