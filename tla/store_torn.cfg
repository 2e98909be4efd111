SPECIFICATION Spec
CONSTANTS
  w1 = w1
  w2 = w2
  t1 = t1
  t2 = t2
  v1 = v1
  v2 = v2
  NoThread = NoThread
  Workers = {w1, w2}
  Threads = {t1, t2}
  Owner <- TwoWorkers
  Values = {v1, v2}
  Types = {"EMAIL"}
  SaveEvery = 2
  CompactAt = 2
  ValuesPerRequest = 1
  MaxFaults = 2
INVARIANT AckedAlwaysRecoverable
