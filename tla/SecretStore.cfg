SPECIFICATION Spec
CONSTANTS
  Secrets = {s1, s2}
  MaxKey = 3
  Readers = {ui, worker}
  UI = ui
  Nobody = nobody
INVARIANT TypeOK
INVARIANT CacheIsCurrent
PROPERTY CallsAreAtomic
PROPERTY CallsReturn
