\* One game of any launcher, whose user keeps away from what the managers lose.
CONSTANTS
    Launchers = {"lutris", "heroic", "faugus", "steam"}
    Texts = {a, b}
    Empty = Empty
    Unset = Unset
    Fresh = Fresh
    Missing = Missing
SPECIFICATION CarefulSpec
PROPERTIES HandsBack WrappingKeeps
