SPECIFICATION MCSpec
CONSTANTS
    Viewer = v
    Visitor = w
    Clients = {v, w}
    Asks <- AsksOfBoth
    Pictures = {a}
    Cut = Cut
    NoFrame = NoFrame
    Junk = Junk
    NB_BUFFER = 2
    minimum_size = FALSE
    soft_framedrop = TRUE
INVARIANT ResolutionIsSet
CHECK_DEADLOCK FALSE
