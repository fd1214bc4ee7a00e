SPECIFICATION FairSpec
CONSTANTS
  a = a
  b = b
  Units = {a, b}
  Signed <- MCSigned
  Factory <- MCFactory
  Manifests <- MCManifests
  ChunkCapacity = 2
  ReuseAfterActivate = FALSE
INVARIANT RunsOnlySigned
INVARIANT ReadyIsVerified
INVARIANT DigestMatchesStore
PROPERTY DownloadEnds
