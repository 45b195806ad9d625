\* Sequential calls; chunk and word scaled down from 32 and 64, more instances
\* than a word has bits.
CONSTANTS
    Chunk = 2
    Word = 4
    Stored = {{}, {1}}
    LastId = 5
SPECIFICATION SequentialSpec
INVARIANT NextIsAvailable
