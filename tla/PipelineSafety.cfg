CONSTANTS
  Contexts = {h1, h2, h3}
  Casts = {{"read", "inactive"}, {"write", "exception"}, {"read", "event"}}
  Outside = {"read", "write"}
  MaxDepth = 3
SPECIFICATION Spec
SYMMETRY Symmetry
INVARIANTS Linked LookupsAgree
PROPERTY NearestHandler
