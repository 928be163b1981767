SPECIFICATION Spec
CONSTANTS
  Files = {1, 2, 3, 4}
  TabFiles = {2}
  HashFiles = {3}
  OpaqueFiles = {4}
  Elsewhere = 9
  Alignment = 4
  Modulus = 32
  Added <- MCAdded
  Manifests <- MCManifests
  Directories <- MCDirectories
  MaxShards = 2
  MaxCalls = 3
INVARIANTS
  TypeOK
  LoadedSound
  RoundTrip
  UnfinishedIsPrefix
PROPERTIES
  DiscoverExact
