SPECIFICATION FairSpec
CONSTANTS
  w1 = w1
  w2 = w2
  t1 = t1
  t2 = t2
  v1 = v1
  v2 = v2
  NoThread = NoThread
  Workers = {w1}
  Threads = {t1, t2}
  Owner <- TwoThreads
  Values = {v1, v2}
  Types = {"EMAIL"}
  SaveEvery = 2
  CompactAt = 2
  ValuesPerRequest = 1
  MaxFaults = 1
INVARIANTS NothingForgotten DebounceLossBound
PROPERTIES SaveEnds
