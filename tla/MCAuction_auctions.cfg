SPECIFICATION AuctionSpec
CONSTANTS
    Lots = {l1, l2}
    Bidders = {b1, b2}
    Treasuries = {t1}
    Assets = {xlm}
    AuctionAdmins = {adm}
    Amounts = {1, 2}
    Reserves = {0, 2}
    Windows <- ShortWindows
    Funds = 4
    MaxBids = 2
    Horizon = 2
    Skew = 1
    MaxPageSize = 1
    AUCTION = auction
    NONE = none
INVARIANTS AuctionTypeOK SettlementFair FundsAccounted EscrowRecoverable PagesComplete
PROPERTIES RecordFinal
SYMMETRY Symmetry
CHECK_DEADLOCK FALSE
