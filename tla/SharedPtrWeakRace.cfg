SPECIFICATION Spec
CONSTANTS
  Threads = {t1, t2}
  Objects = {a}
  Strong = {p, r}
  Weak = {w}
  User <- WeakUsers
  In <- WeakIn
  Sources = {p, r, w}
  t1 = t1  t2 = t2  a = a  b = b  p = p  q = q  r = r  s = s  m = m  k = k
  w = w
  Null = Null
INVARIANT AssertHolds
CHECK_DEADLOCK FALSE
