CONSTANTS
  NoResource = NoResource
  Parts <- MCParts
  Names <- MCNames
  Resources = {x, y}
  ValidApis <- MCValidApis
  BeforeSlash <- MCBeforeSlash
SPECIFICATION Spec
SYMMETRY Symmetry
INVARIANTS TypeOK NoDanglingShortcut StringsReachResources
PROPERTIES ShortcutOutlivesRemoval AddKeepsResolution
