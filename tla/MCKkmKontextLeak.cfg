CONSTANTS
  c1 = c1
  c2 = c2
  k1 = k1
  k2 = k2
  NoKontext = NoKontext
  Cpus <- MCCpus
  Kontexts <- MCKontexts
  Preemption = TRUE
  Affinity <- MCAffinityPinned
  MaxCalls <- MCMaxCalls
  PreemptCountCap = 3
  MIB <- MCMIB
  VdsoSlot <- MCVdsoSlot
  Program <- MCProgram
  Entry <- MCEntry
  InitFlags <- MCInitFlags
  InitMem <- MCInitMem
  HostNmi = FALSE
SPECIFICATION Spec
INVARIANT PreemptBalanced
