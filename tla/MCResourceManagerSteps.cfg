CONSTANTS
  NoResource = NoResource
  Parts <- MCParts
  Names <- MCNames
  Resources = {x, y}
  Threads = {t1, t2}
SPECIFICATION Spec
INVARIANT LookupsAreAtomic
PROPERTY ImplementsResourceManager
SYMMETRY Symmetry
