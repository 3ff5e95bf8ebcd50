SPECIFICATION LinksSpec
CONSTANTS
  RadioQueue = 2
  UsbQueue = 1
  PortQueue = 1
  AppQueue = 1
  TxQueue = 1
  UsbTxQueue = 1
  Poll = {p1, p2}
  Drones = 2
  MaxStream = 2
  MaxStray = 2
  MaxIn = 3
  MaxOut = 3
CHECK_DEADLOCK FALSE
INVARIANTS LinksTypeOK NeverDropped InOrder SentOnce AnswersBalance
