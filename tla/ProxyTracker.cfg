\* Two uids and seven proxy slots, throttling on or off from the start; the
\* watermarks start at 3/1 and may be moved, also to -1/-1.
CONSTANTS
  Uids = {u1, u2}
  Proxies = {p1, p2, p3, p4, p5, p6}
  Width = 4
  InitHigh = 3
  InitLow = 1
  Watermarks <- TrackerWatermarks
  Throttles = {TRUE, FALSE}
  None = None
SPECIFICATION Spec
SYMMETRY Symmetry
INVARIANTS TypeOK CountMatchesLiveProxies CallbackOnlyOverHigh
