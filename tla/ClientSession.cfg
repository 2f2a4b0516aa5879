\* Two rival clients of different image paths, one of them with two threads; they exit and
\* come back, and the driver is unloaded and loaded again.
CONSTANTS
  t1 = t1  t2 = t2  t3 = t3  p1 = p1  p2 = p2  i1 = i1  i2 = i2
  NoPid = NoPid
  NoToken = NoToken
  NoImage = NoImage
  Pids = {p1, p2}
  Images = {i1, i2}
  ImageOf <- TwoPaths
  Threads = {t1, t2, t3}
  Owner <- TwoOfOne
  MaxTokens = 3
  MaxRequests = 2
SYMMETRY Alike
SPECIFICATION Spec
INVARIANTS TypeOK UnloadNeedsAuthorization ClientHoldsToken GuardSound StartupIsClients
