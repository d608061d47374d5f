\* Two world servers that share the database, two runs of the program.
SPECIFICATION Spec
CONSTANTS
  c1 = c1
  c2 = c2
  a1 = a1
  Client = {c1, c2}
  Account = {a1}
  World = {w1, w2}
  AcctOf <- MCAcctOf
  MaxMsg = 1
  MaxVer = 1
SYMMETRY MCSymmetry
INVARIANT OneAvatar
