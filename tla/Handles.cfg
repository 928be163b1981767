SPECIFICATION Spec
CONSTANTS
  Streams = {s1}
  Users = {u1}
  Files <- MCFiles
  Devices <- MCDevices
  BlockOf <- MCBlockOf
  SizeOf <- MCSizeOf
  Fds = {0, 1, 2, 3, 4}
  Addresses = {0, 1}
  Page = 2
  MaxWindow = 4
INVARIANTS
  TypeOK
  DescriptorsOwned
  DescriptorsReachTheirFile
  MappingsOwned
  AdviceStaysInside
