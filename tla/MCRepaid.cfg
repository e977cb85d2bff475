\* A repo that matures, with and without a cash-flow schedule of its own.
CONSTANTS
  bank = bank
  affiliate = affiliate
  S = S
  H = H
  loan = loan
  deposit = deposit
  repo = repo
  Accounts = {bank, affiliate}
  Positions = {S, H, loan, deposit, repo}
  NoPosition = NoPosition
  Specs <- RepaidSpecs
  Horizon = 6
  Par = 4
  Lot = 8
  NearMaturity = 1
SPECIFICATION DailySpec
INVARIANT FundingReleases
CHECK_DEADLOCK FALSE
