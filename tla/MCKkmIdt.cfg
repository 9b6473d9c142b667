CONSTANTS
  c1 = c1
  c2 = c2
  Cpus <- MCCpus
  AddrBits = 16
  NR_VECTORS = 256
  KKM_IDT_CODE_START_VA = 61440
  KKM_KX_INTR_CODE_SIZE = 2048
  KKM_KX_ENTRY_CODE_SIZE = 512
  KKM_IDT_VA = 57344
  NATIVE_IDT_VA = 4096
  Layouts <- MCLayouts
  NativeIdtSizes = {4095}
  Ids = {1, 2}
  KKM_INVALID_ID = 65535
SPECIFICATION Spec
INVARIANT TypeOK
INVARIANT GatesReachHandlers
