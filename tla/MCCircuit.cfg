\* Three callers that try three times, and a threshold of two.
SPECIFICATION FairCirSpec
CONSTANTS
    Callers = {c1, c2, c3}
    Threshold = 2
    Retries = 2
INVARIANTS
    LoadIsShed
PROPERTY CircuitRecovers
