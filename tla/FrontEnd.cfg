SPECIFICATION Spec
CONSTANTS
  FileProfiles <- MCFileProfiles
  EnvProfiles <- MCEnvProfiles
  AskedDims <- MCAskedDims
  MaxKeyLen = 2
  MaxResizeDim = 6
  UintMod = 65536
  Millisecond = 10
  MaxParams = 2
  MaxSide = 9
  MaxPasses = 2
  MaxChunks = 2
INVARIANTS BootsRunnable CopyReadsItsSource RendersFit XMLTypeAccepted
