\* One pair of characters that forms parties over and over: two entries in the
\* table for a scan that goes on to 5.
SPECIFICATION Spec
CONSTANTS
  Player = {p1, p2}
  Slot = {q1}
  None = None
  Levels = {1}
  MaxPid = 5
  TableSize = 3
  Garbage = {}
  MaxPrompts = 1
INVARIANT PidsInTable
