SPECIFICATION FairSpec
CONSTANTS
  Threads = {t1, t2}
  Hosts = {h1, h2}
  Consul = consul
  Agents = {consul}
  Garbage = garbage
  None = None
  MaxChanges = 2
  NDEBUG = TRUE
INVARIANTS NeverANewerInstance
PROPERTIES DiesOnlyInHandler ThreadsReturn
CHECK_DEADLOCK FALSE
