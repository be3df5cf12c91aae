\* Two servers, each with one handler and a sweep, race on one row; one of
\* them may crash.
SPECIFICATION Spec
CONSTANTS
  k1 = k1
  r1 = r1
  r2 = r2
  junk = junk
  h1 = h1
  h2 = h2
  Server = {s1, s2}
  Caller = {c1}
  Key = {k1}
  Request = {r1, r2, junk}
  KeyOf <- MCKeyOf
  HeadOf <- MCHeadOf
  Junk <- MCJunk
  EffectId = {i1}
  Token = {t1, t2, t3}
  MaxAttempts = 2
  MaxCrashes = 1
  None = None
SYMMETRY Symmetry
INVARIANTS
  AtMostOneReview
  FailedIsDefinite
PROPERTIES
  ImplementsPromise
