SPECIFICATION CaptureSpec
CONSTANTS
  p1 = p1
  p2 = p2
  g1 = g1
  g2 = g2
  Identities <- SomeIdentities
  Packages = {p1, p2}
  Generations = {g1, g2}
  Failures <- SomeFailures
  Malformed = Malformed
  None = None
  Forgeries <- SomeForgeries
  source = source
  review = review
  huge = huge
  a = a
  b = b
  c = c
  d = d
  Bundles <- SomeBundles
  Lists <- SomeLists
  Paths = {a, b, c, d}
  Contents = {source, review, huge}
  NoFile = NoFile
  Size <- Sizes
  MaxFile = 4
  MaxTotal = 6
  MaxDeclared = 2
  MaxFiles = 3
  Starts = {start}
  Provenance <- SomeProvenance
  MaxTime = 3
  MaxEdits = 1
SYMMETRY GenerationSymmetry
INVARIANTS VerifiedIsLast OneStory PromotionEarned AdoptedAsImported UntouchedVerifies AdoptedCorresponds
PROPERTIES TerminalIsFinal ImplementsLifecycle
