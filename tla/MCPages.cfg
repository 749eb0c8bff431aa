SPECIFICATION LooksSpec
CONSTANTS
    Pages = {cache, anon}
    Anon = {anon}
    Exec = {}
    Reclaimers = {kswapd, direct}
    kswapd = kswapd
    Tasks = {t}
    Swap = TRUE
    inactive_ratio = 1
    WordSize = 3
    MaxPtes = 1
    None = None
    Watched = {cache}
INVARIANTS TypeOK FlagsTellTheList NoActiveInPageList ReleasedByTheLast
PROPERTY DeactivatedAfterTwoLooks
