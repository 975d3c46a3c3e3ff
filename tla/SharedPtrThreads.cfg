SPECIFICATION FairSpec
CONSTANTS
  Threads = {t1, t2}
  Objects = {a, b}
  Strong = {p, q, r, s, m}
  Weak = {}
  User <- TwoUsers
  In <- TwoIn
  Sources = {p, q, r, s}
  t1 = t1  t2 = t2  a = a  b = b  p = p  q = q  r = r  s = s  m = m  k = k
  w = w
  Null = Null
INVARIANTS CountsExact NoFault NoLeak
PROPERTY CallsEnd
CHECK_DEADLOCK FALSE
