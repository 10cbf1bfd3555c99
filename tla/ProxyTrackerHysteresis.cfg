\* Does the limit flag go down once a uid's count has dropped to the low
\* watermark, with the watermarks fixed at 3/0?
CONSTANTS
  Uids = {u1}
  Proxies = {p1, p2, p3, p4}
  Width = 4
  InitHigh = 3
  InitLow = 0
  Watermarks <- ZeroLowWatermarks
  Throttles = {TRUE}
  None = None
SPECIFICATION Spec
INVARIANTS FlagDownAtLow
