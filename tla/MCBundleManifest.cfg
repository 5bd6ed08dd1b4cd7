SPECIFICATION Spec
CONSTANTS
  License = license
  Access = access
  Parts <- MCParts
  BundleParts <- MCBundleParts
  c1 = c1  c2 = c2
  Slots = {c1, c2}
  LicenseEdits = 1
  AccessEdits = 0
  MaxEdits <- MCMaxEdits
  Heals = FALSE
SYMMETRY Symmetry
INVARIANT OneManifestPerVersion
