SPECIFICATION FairSpec
CONSTANTS
  Citizen = {1, 2}
  OfferId = {1, 2}
  Seller <- OwnOffer
  Task = {1, 2, 3, 4, 5, 6}
  Asked <- Requests
  Opening <- Granted
  Half = 4
  Price = {1, 7}
  Stock = {2}
INVARIANTS
  TypeOK
  BalancesExact
  StockExact
PROPERTIES
  BuyersCovered
  CancelledFinal
  RequestsAnswered
CHECK_DEADLOCK FALSE
