\* Two turns that may want either runtime.
SPECIFICATION Spec
CONSTANTS
    t1 = t1
    t2 = t2
    Turns <- MCTurns
INVARIANT RuntimesApart
