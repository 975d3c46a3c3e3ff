SPECIFICATION Spec
CONSTANTS
  Threads = {t1}
  Objects = {a, b}
  Strong = {p, q, m}
  Weak = {k, w}
  User <- OneUser
  In <- OneIn
  Sources = {p, q, w}
  t1 = t1  t2 = t2  a = a  b = b  p = p  q = q  r = r  s = s  m = m  k = k
  w = w
  Null = Null
INVARIANTS CountsExact NoFault NoDangling NoLeak
CHECK_DEADLOCK FALSE
