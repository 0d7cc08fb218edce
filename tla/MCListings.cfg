\* Pages of two out of up to four files, three times taken or writes meanwhile.
CONSTANTS
  c1 = c1
  Clients = {c1}
  Order <- MCOrder
  Mine <- MCMine
  PageSize = 2
  MaxWrites = 3
SPECIFICATION LSpec
INVARIANT LTypeOK
 
