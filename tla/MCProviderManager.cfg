SPECIFICATION Spec
CONSTANTS
  a1 = a1
  a2 = a2
  u1 = u1
  u2 = u2
  u3 = u3
  u4 = u4
  NoUrl = NoUrl
  NoId = NoId
  Urls <- MCUrls
  Ids <- MCIds
  FirstUrls <- MCFirst
  CdnUrls <- MCCdn
INVARIANTS
  TypeOK
  OneProviderPerAgent
  HeldUnlessExpired
PROPERTIES
  NullOnlyWhenNoneFree
