CONSTANTS
  Downloads <- MCDownloads
  Addresses <- MCAddresses
  NullAddress = 0
  NoDownload = NoDownload
SPECIFICATION Spec
INVARIANTS
  TypeOK
  CallbackOwnership
PROPERTIES
  CallbackEventuallyRuns
