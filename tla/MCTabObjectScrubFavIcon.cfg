CONSTANTS
  Origins <- MCOrigins
  Paths <- MCPaths
  Tabs <- MCTabs
  Extension = Extension
  NoExtension = NoExtension
  NoUrl = NoUrl
  NoObject = NoObject
  HasTabsPermission = FALSE
SPECIFICATION Spec

PROPERTY FavIconScrubbed
