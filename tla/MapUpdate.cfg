\* Two map update threads or none, two battleground maps (a map without
\* instances is one of them before its first) with up to three instances; the
\* executor's queue takes two requests.
CONSTANTS
    w1 = w1
    w2 = w2
    bg1 = bg1
    bg2 = bg2
    Workers = {w1, w2}
    World = World
    PlainMaps = {}
    Battlegrounds = {bg1, bg2}
    QueueLimit = 2
    Chunk = 4
    Word = 8
    Stored = {{}}
    LastId = 3
SPECIFICATION FairSpec
INVARIANTS WorldAlone EachMapOnce OneThreadPerMap NextIsAvailable
PROPERTIES TickEnds
