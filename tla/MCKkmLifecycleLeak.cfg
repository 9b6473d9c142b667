CONSTANTS
  k1 = k1
  k2 = k2
  Kontexts <- MCKontexts
  NPages <- MCNPages
  KKM_GUEST_AREA_PAGES <- MCGuestAreaPages
  KKM_IDT_ALLOCATION_PAGES <- MCIdtAllocationPages
SPECIFICATION Spec
INVARIANT KontextPagesReleased
