CONSTANTS
  Reg = Reg
  Otr = Otr
  NoProfile = NoProfile
  MaxBrowsers <- MCMaxBrowsers
  MaxTabs <- MCMaxTabs
  Callers <- MCCallers
  NoExtension = "webui"
  SplitMode <- MCSplitMode
  DevtoolsPermitted <- MCDevtoolsPermitted
  FileAccess <- MCFileAccess
  Indexes <- MCIndexes
  Urls <- MCUrls
  UserWindowTypes <- MCUserWindowTypes
SPECIFICATION Spec
INVARIANTS
  TypeOK
  ExtensionUrlNeverInIncognito
  ResultDescribesCreatedTab
  OpenerInSameStrip
