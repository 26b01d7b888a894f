SPECIFICATION Spec
CONSTANTS
  Threads = {t1, t2}
  m_intervalMs = 3
  kTickRange = 64
  kUptime = 5
  kClockBound = 12
CHECK_DEADLOCK FALSE
INVARIANT OncePerInterval
