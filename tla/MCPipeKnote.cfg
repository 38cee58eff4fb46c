CONSTANTS
    r = r
    w1 = w1
    w2 = w2
    Threads = {r, w1, w2}
    Calls <- MCCalls
    Notes <- MCNotes
    PIPE_SIZE = 3
    BIG_PIPE_SIZE = 4
    PIPE_BUF = 2
    LIMITBIGPIPES = 2
    SerialBig = TRUE
    LateResize = FALSE
SPECIFICATION Spec
INVARIANTS EofTold
