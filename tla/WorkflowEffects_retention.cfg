\* One server that may crash once, one handler, one key that three requests
\* share, two rows one after the other (a prune between them), up to two
\* creations of each row; tokens for those and for two lookups at a time.
SPECIFICATION FairSpec
CONSTANTS
  k1 = k1
  r1 = r1
  r2 = r2
  junk = junk
  h1 = h1
  h2 = h2
  Server = {s1}
  Caller = {c1}
  Key = {k1}
  Request = {r1, r2, junk}
  KeyOf <- MCKeyOf
  HeadOf <- MCHeadOf
  Junk <- MCJunk
  EffectId = {1, 2}
  Token = {1, 2, 3, 4, 5, 6}
  MaxAttempts = 2
  MaxCrashes = 1
  None = None
ACTION_CONSTRAINT SmallestFresh
INVARIANTS
  TypeOK
  SucceededHasReview
  TriesCountCreations
PROPERTIES
  AmbiguousOnlyLooksUp
  PublishedIsReported
  PendingIsLeft
