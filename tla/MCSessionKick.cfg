\* One world server: does a kick accepted by the char server reach the avatar?
SPECIFICATION LiveSpec
CONSTANTS
  c1 = c1
  c2 = c2
  a1 = a1
  Client = {c1, c2}
  Account = {a1}
  World = {w1}
  AcctOf <- MCAcctOf
  MaxMsg = 1
  MaxVer = 1
PROPERTY KickReachesWorld
