SPECIFICATION FairSpec
CONSTANTS
  t1 = t1
  t2 = t2
  t3 = t3
  p1 = p1
  p2 = p2
  Threads = {t1, t2, t3}
  Procs = {p1, p2}
  ProcOf <- MCProcOf
  Keys = {k1, k2}
  Subjects = {s1}
  RequestIds = {q1}
  Revisions = {v1, v2}
  Bodies = {b1}
  Tampered = tampered
  Forged = forged
  Gone = gone
  Null = null
  MaxCalls = 2
  MaxDamage = 1
PROPERTIES
  ImplementsLedger
  PayloadVerified
  EveryCallEnds
