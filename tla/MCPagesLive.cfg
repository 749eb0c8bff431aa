SPECIFICATION PressedKeptSpec
CONSTANTS
    Pages = {exec, cache}
    Anon = {}
    Exec = {exec}
    Reclaimers = {kswapd}
    kswapd = kswapd
    Tasks = {t}
    Swap = TRUE
    inactive_ratio = 1
    WordSize = 4
    MaxPtes = 1
    None = None
INVARIANT KeptAtMostTwice
PROPERTY IdlePagesAge
