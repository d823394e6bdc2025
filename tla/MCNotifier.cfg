SPECIFICATION Spec
CONSTANTS
  Message = {m1, m2}
  Command = {k1}
  Consumer = {c1, c2}
  CommandLoop = CommandLoop
  MaxVersion = 3
SYMMETRY NotifierSymmetry
INVARIANT TypeOK
INVARIANT NoMessageSleptPast
INVARIANT NoCommandSleptPast
