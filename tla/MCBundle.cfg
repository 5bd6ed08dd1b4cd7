SPECIFICATION FairSpec
CONSTANTS
  License = license
  Access = access
  Parts <- MCParts
  BundleParts <- MCBundleParts
  c1 = c1  c2 = c2
  Slots = {c1, c2}
  LicenseEdits = 0
  AccessEdits = 2
  MaxEdits <- MCMaxEdits
  Heals = TRUE
INVARIANTS TypeOK VersionNamesParts
PROPERTIES PartsMoveForward HoldsCurrent RefusalEnds
