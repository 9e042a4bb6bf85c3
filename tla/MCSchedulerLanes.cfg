CONSTANTS
    p1 = p1
    p2 = p2
    Calls = {c1, c2}
    Peers = {p1, p2}
    NoPeer = NoPeer
    Requests <- SendsAndDownloads
    Slots <- TwoForSends
    MaxWait = 1
    MaxRetries = 2
    FloodSeconds = {1, 2}
SPECIFICATION Spec
PROPERTIES
    DownloadsNeverDelaySends
