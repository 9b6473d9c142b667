--------------------------- MODULE MCKkmTranslate ---------------------------
(* Instantiates the translator with the real layout in MiB units and the   *)
(* guest addresses on both sides of every range boundary.                  *)
EXTENDS KkmTranslate

MCMIB == 1

\* the first and last unit of every range, and the units just outside them
Boundaries ==
  { 0, KKM_GUEST_MEM_START_VA, KKM_GUEST_MAX_PHYS_MEM,
    KKM_GUEST_VA_OFFSET, KKM_GUEST_MEM_TOP_VA,
    KKM_GUEST_VVAR_VDSO_BASE_VA,
    KKM_GUEST_VVAR_VDSO_BASE_VA + 1, KKM_GUEST_VVAR_VDSO_BASE_VA + 2,
    KKM_GUEST_VVAR_VDSO_BASE_VA + 3 }

MCGuestVAs == { b + d : b \in Boundaries, d \in {-1, 0} } \ {-1}

\* the VDSO slot as the monitor may register it: unused, or one to three MiB
\* at a monitor address inside or far above its guest-memory window
MCVdsoSlots ==
  [used : BOOLEAN, memory_size : {1, 2, 3},
   userspace_addr : {KKM_KM_USER_MEM_BASE + 4, 64 * KKM_TIB}]
=============================================================================
