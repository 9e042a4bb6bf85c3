CONSTANTS
    Handles = {h1, h2}
    Sends = {s1, s2}
    Old = 1
    MaxBad = 2
SPECIFICATION FairSpec
INVARIANTS
    FilesAndRowsAgree
    SentUploadsStay
    SendsLoseOnlyOldFiles
PROPERTIES
    UnsentUploadsGo
