SPECIFICATION BridgeSpec
CONSTANTS
  Packet <- Nonces
  Delivery = {d1, d2}
  MaxEpoch = 2
  MaxTime = 3
  MaxBlock = 2
  VERIFICATION_EXPIRY = 1
  Confirmations = 2
  ZkAccepted = {"golem"}
  None = None
  u1 = u1
  u2 = u2
  User <- Users
  Value <- Values
  layerZeroFee = 1
PROPERTIES DepositIsWhole
CHECK_DEADLOCK FALSE
