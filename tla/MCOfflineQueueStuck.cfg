SPECIFICATION FairQueueSpec
CONSTANTS
  Tabs = {t1}
  Actions = {a1, a2}
  MaxRetries = 2
  MaxReloads = 1
  Resolving = {}
PROPERTY SyncsWhenNetworkReturns
