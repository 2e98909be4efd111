SPECIFICATION FreshSpec
CONSTANTS
  w1 = w1
  w2 = w2
  t1 = t1
  t2 = t2
  NoThread = NoThread
  Workers = {w1, w2}
  Threads = {t1, t2}
  Owner <- OneThreadEach
  Values = {"a", "b"}
  Types = {"EMAIL"}
  SaveEvery = 1
  CompactAt = 2
  ValuesPerRequest = 1
  MaxFaults = 0
INVARIANT FreshStoreComplete
