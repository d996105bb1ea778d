SPECIFICATION Spec
CONSTANTS
    l1 = l1
    l2 = l2
    Lanes = {l1, l2}
    Pages = {1,2,3}
    Sets = {1,2,3,4,5,6}
    Blocks = 2
    AdoptMin = 1
    WriteFails = TRUE
    Exports = 1
    Restores = 2
    Retained <- OneHistory
    Coded = {2}
    Room = 2
INVARIANT PagesKeepTheirRows
INVARIANT LaneRowsExact
INVARIANT PrefixIntact
INVARIANT SlotsExact
PROPERTY PinnedStays
VIEW View
