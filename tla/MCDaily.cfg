\* Six days of a small bank, for every choice of module MCDailyReplay.
CONSTANTS
  bank = bank
  affiliate = affiliate
  S = S
  H = H
  loan = loan
  deposit = deposit
  repo = repo
  Accounts = {bank, affiliate}
  Positions = {S, H, loan, deposit, repo}
  NoPosition = NoPosition
  Specs <- MCSpecs
  Horizon = 6
  Par = 4
  Lot = 8
  NearMaturity = 1
SPECIFICATION DailySpec
INVARIANT BooksAgree PledgesBacked TaintFollowsSales PositionOrderIrrelevant
CHECK_DEADLOCK FALSE
