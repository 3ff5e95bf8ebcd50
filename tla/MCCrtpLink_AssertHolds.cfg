SPECIFICATION Spec
CONSTANTS
  RadioQueue = 2
  UsbQueue = 1
  PortQueue = 1
  AppQueue = 1
  TxQueue = 2
  UsbTxQueue = 1
  MaxIn = 3
  MaxOut = 3
CHECK_DEADLOCK FALSE
INVARIANT AssertHolds
