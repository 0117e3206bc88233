SPECIFICATION FairSpec
CONSTANTS
    Lengths = {0, 4}
    Block = 2
    SeekIn = {}
PROPERTY ResumedPlaybackEnds
