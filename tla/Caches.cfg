SPECIFICATION MCSpec
CONSTANTS
  Absent = Absent
  svc = svc
  sec = sec
  conf = conf
  cm = cm
  ing = ing
  prx = prx
  ext = ext
  gw = gw
  rt = rt
  pol = pol
  Objects = {svc, sec, conf, cm, ing, prx, ext, gw, rt, pol}
  KindOf <- MCKindOf
  Contents <- MCContents
  Configured = {conf}
  Scenarios = {"services", "certificates", "configuration", "class", "extensions", "slices"}
  c1 = c1
  c2 = c2
  Classes = {c1, c2}
  None = None
  MaxChanges = 6
  NotCached = NotCached
  Slices = {s1, s2}
  s1 = s1
  s2 = s2
  svc1 = svc1
  svc2 = svc2
  ServiceOf <- MCServiceOf
  Dags <- MCDags
  MaxContent = 1
  MaxRebuilds = 3
  MaxEvents = 2
SYMMETRY ClassSymmetry
CHECK_DEADLOCK FALSE
INVARIANTS
  DagCurrent
  GatewayClassCurrent
  ConsistentUnlessOverlapped
  SnapshotUnlessRaced
