CONSTANTS
    Sizes = {0, 1, 2}
    Options = {1, 2}
    MaxChanges = 3

SPECIFICATION PaintSpec

INVARIANTS
    TrailFollowsText
