SPECIFICATION Spec
CONSTANTS
    Lengths = {0, 4}
    Block = 2
    SeekIn = {}
INVARIANT PauseSettles
