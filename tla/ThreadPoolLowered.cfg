SPECIFICATION Spec
CONSTANTS
  Clients = {c1, c2, c3}
  Handles = {h1, h2}
  NoOwner = NoOwner
  CountMod = 8
  MaxSettings = {1, 2}
PROPERTY LimitAlwaysKept
