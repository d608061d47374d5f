\* One world server, two runs of the program on one account.
SPECIFICATION LiveSpec
CONSTANTS
  c1 = c1
  c2 = c2
  a1 = a1
  Client = {c1, c2}
  Account = {a1}
  World = {w1}
  AcctOf <- MCAcctOf
  MaxMsg = 2
  MaxVer = 1
INVARIANTS TypeOK OneCharSocket OneEntryPerWorld
PROPERTIES NoRollback NoLockout KickEndsAvatar
