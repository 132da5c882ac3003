CONSTANTS
  g1 = g1
  g2 = g2
  g3 = g3
  Reg = Reg
  Otr = Otr
  Otr2 = Otr2
  NoProfile = NoProfile
  Browsers <- MCBrowsers
  MaxTabs <- MCMaxTabs
  Groups <- MCGroups
  GroupHash <- MCGroupHash
  HashBits <- MCHashBits
  GroupIdInputs <- MCGroupIdInputs
  NewGroupColors <- MCNewGroupColors
  ColorInputs <- MCColorInputs
SPECIFICATION SpecLookups
PROPERTY TabLookupProfileFilter
