SPECIFICATION Spec
CONSTANTS
  Threads = {t1, t2}
  n1 = n1
  n2 = n2
  wide = wide
  narrow = narrow
  Names = {n1, n2}
  TS <- SameTS
  Narrowed = narrow
  Wildcard = {n2}
  Dsts = {d1}
  AnyDst = nodst
  SAs = {s1, s2}
  NoSA = nosa
  Children = {c1, c2}
  MaxOps = 3
CHECK_DEADLOCK FALSE
INVARIANTS TypeOK ReqidsCounted UpdateKeepsReqid NoStaleAcquire FlushFinal
PROPERTIES TrapsUsable FlushReturns
