CONSTANTS
  c1 = c1
  c2 = c2
  t1 = t1
  t2 = t2
  k1 = k1
  k2 = k2
  A = A
  B = B
  Cpus = {c1, c2}
  Threads = {t1, t2}
  Kontexts = {k1, k2}
  Kontainers = {A, B}
  KontextOf <- TwoKontexts
  Belongings <- TogetherOrApart
  Native = Native
  Guest = Guest
  None = None
  Preemptible = FALSE
  Debugged = {k1}
  FpuUsed = {k1}
  DebugAnyTime = FALSE
  FpuBeforeRun = FALSE
SPECIFICATION FairSpec
INVARIANTS NativeRestored PayloadOwn TlbOwn TlbCurrent
PROPERTY UnmapEnds
