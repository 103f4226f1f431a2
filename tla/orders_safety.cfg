SPECIFICATION FairOrdersSpec
CONSTANTS
  o1 = o1  o2 = o2  c1 = c1  c2 = c2  c3 = c3  m1 = m1  l1 = l1
  None = None
  Orders <- TwoOrders
  BenchCalls <- TwoCalls
  McpCalls <- OneTool
  Reloads <- OneReload
  MaxModelCalls = 1
  StartFiles <- FreshMarks
  MayRestart = TRUE
  WritesMayFail = TRUE
INVARIANTS
  OrdersTypeOK
  DraftingBounded
  ShopFaceFilled
  BenchCatchesUp
PROPERTIES
  DraftsEnd
CHECK_DEADLOCK FALSE
