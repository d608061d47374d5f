SPECIFICATION MCSpec
CONSTANTS
  Player = {"ann", "bob", "eve"}
  Kind = {"herb", "bow", "sword", "shield"}
  Stackable = {"herb"}
  StacksStored = {"herb"}
  NSlot = 6
  Tab <- MCTab
  Wear <- MCWear
  NCell = 2
  MaxStack = 5
  Fee = 1
  SellRow = {1}
  WantRow = {1}
  Sought = {"herb"}
  Price = {1}
  NRow = 2
  MaxPay = 1
  Weapon = 5
  Shield = 6
  TwoHanded = {"bow"}
  Usable = {"herb"}
  Cost <- MCCost
  Gain <- MCGain
  Orders <- MCOrders
  MaxLaid = 1
  MaxOps <- MCOps
  MaxDie = 1
INVARIANTS
  GoodsTypeOK
  SavedAgrees
  RowsBacked
  ConfirmedTogether
PROPERTIES
  ExchangeWhole
  ImplementsMarket
CHECK_DEADLOCK FALSE
