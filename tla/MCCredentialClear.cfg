CONSTANTS
    MaxSaves = 1
    MaxChunks = 2
    MaxPrevious = 1
    Attempts = 2
    Corrupt = corrupt
SPECIFICATION Spec
PROPERTY ClearRetains
