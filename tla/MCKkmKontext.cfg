CONSTANTS
  c1 = c1
  c2 = c2
  k1 = k1
  k2 = k2
  NoKontext = NoKontext
  Cpus <- MCCpus
  Kontexts <- MCKontexts
  Preemption = FALSE
  Affinity <- MCAffinity
  MaxCalls <- MCMaxCalls
  PreemptCountCap = 3
  MIB <- MCMIB
  VdsoSlot <- MCVdsoSlot
  Program <- MCProgram
  Entry <- MCEntry
  InitFlags <- MCInitFlags
  InitMem <- MCInitMem
  HostNmi = FALSE
SPECIFICATION FairSpec
INVARIANT TypeOK
INVARIANT KxWindowOwned
INVARIANT NativeStateRestored
INVARIANT IoExitFaithful
INVARIANT GuestCausedUnsupported
PROPERTY CallReturns
PROPERTY ImplementsDomain
