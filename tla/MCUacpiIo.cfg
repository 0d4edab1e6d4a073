SPECIFICATION IoSpec
CONSTANTS
  WORD = 2
  LEGACY = 4
  EXTENDED = 8
  Functions = {0, 1}
  U16 = 65536
  Ports = {0, 1, 2}
  Widths = {1, 2}
  Bytes = {0, 1}
  Zero = 0
  MaxWrites = 2
INVARIANTS
  RegistersFaithful
