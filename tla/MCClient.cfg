SPECIFICATION FairSpec
CONSTANTS
  unparsable = unparsable
  tag = tag
  Unparsable = unparsable
  Frequencies = {1, 2}
  Docs <- TwoDocuments
  Tags = {tag}
  Contents <- TheContents
  MaxEdits = 1
  MaxStarts = 2
INVARIANTS
  InstalledIsTagged
  FlushIsAlone
  CurlIsUp
PROPERTIES
  TagsStay
  ConfigConverges
  SubscriptionsConverge
  CallsReturn
