\* Entries cover: a deposit before, in and after the stored block, with a
\* payout before or after it in the same block.
CONSTANTS
    MaxEntries = 3
    MaxTotal = 2
    MaxMainHeight = 3
    Strdest <- MCStrdest
    Address <- MCAddress
    Logs <- MCLogs
SPECIFICATION ScanSpec
INVARIANTS
    ScanTypeOK
    DepositsExact
    ResumePoint
