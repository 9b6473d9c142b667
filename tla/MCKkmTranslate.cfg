CONSTANTS
  MIB <- MCMIB
  GuestVAs <- MCGuestVAs
  VdsoSlots <- MCVdsoSlots
SPECIFICATION Spec
INVARIANT TypeOK
INVARIANT TranslationInsideGuestMemory
