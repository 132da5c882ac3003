CONSTANTS
  Reg = Reg
  Otr = Otr
  NoProfile = NoProfile
  MaxBrowsers <- MCMaxBrowsers
  MaxTabs <- MCMaxTabs
  Callers <- MCCallers
  NoExtension = "webui"
  SplitMode <- MCSplitMode
  DevtoolsPermitted <- MCDevtoolsPermitted
  FileAccess <- MCFileAccess
  Indexes <- MCIndexesClamp
  Urls <- MCUrlsClamp
  UserWindowTypes <- MCUserWindowTypes
SPECIFICATION Spec
PROPERTY TabAtClampedIndex
