SPECIFICATION FairSpec
CONSTANTS
  Clients = {c1, c2, c3}
  Handles = {h1, h2}
  NoOwner = NoOwner
  CountMod = 8
  MaxSettings = {0, 1, 2}
PROPERTIES LimitKept StartServed
