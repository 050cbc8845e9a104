SPECIFICATION QueueSpec
CONSTANTS
  Tabs = {t1, t2}
  Actions = {a1, a2}
  MaxRetries = 2
  MaxReloads = 1
  Resolving = {t1}
SYMMETRY Symmetry
INVARIANTS QueueTypeOK  OncePerPage
PROPERTY SettledBySendOrUser
