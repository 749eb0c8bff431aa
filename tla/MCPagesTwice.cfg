SPECIFICATION LookSpec
CONSTANTS
    Pages = {cache}
    Anon = {}
    Exec = {}
    Reclaimers = {kswapd}
    kswapd = kswapd
    Tasks = {t}
    Swap = TRUE
    inactive_ratio = 1
    WordSize = 4
    MaxPtes = 1
    None = None
PROPERTY SecondReferenceActivates
