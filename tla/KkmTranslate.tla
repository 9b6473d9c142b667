---------------------------- MODULE KkmTranslate ----------------------------
(***************************************************************************)
(* The guest-virtual to monitor-virtual address translator of kkm_kontext.c*)
(* (kkm_guest_va_to_monitor_va) and the address-layout macros it uses.     *)
(*                                                                         *)
(* Addresses are integers counted in a unit of MIB bytes: every layout     *)
(* constant of the code is a multiple of a mebibyte, so with MIB = 1 the   *)
(* real 47-bit layout fits TLC's integers with every ratio kept exact.     *)
(* The only data abstracted is the offset inside a mebibyte, which no      *)
(* comparison of the code can distinguish for MiB-aligned slot sizes.      *)
(*                                                                         *)
(* The state machine around the operator is the emulator's view of one     *)
(* call: a guest address is translated against the current VDSO slot.      *)
(***************************************************************************)
EXTENDS Integers

CONSTANTS
  MIB,        \* KKM_MIB expressed in the address unit
  GuestVAs,   \* guest addresses the emulators may be asked to translate
  VdsoSlots   \* possible contents of kkm->mem_slot[KKM_KM_RSRV_VDSOSLOT]

ASSUME MIB \in Nat \ {0}

\* #define KKM_GIB / KKM_TIB
KKM_GIB == 1024 * MIB
KKM_TIB == 1024 * KKM_GIB

\* bottom portion of the guest address space
KKM_GUEST_MEM_START_VA == 2 * MIB
KKM_GUEST_MAX_PHYS_MEM == 512 * KKM_GIB

\* top portion of the guest address space
KKM_GUEST_MEM_TOP_VA == 128 * KKM_TIB - 2 * MIB
KKM_GUEST_VA_OFFSET ==
  KKM_GUEST_MEM_TOP_VA - (KKM_GUEST_MAX_PHYS_MEM - 2 * MIB)

\* monitor mapping area for guest physical memory (0x100000000000 = 16 TiB)
KKM_KM_USER_MEM_BASE == 16 * KKM_TIB

\* VDSO handling
KKM_GUEST_VVAR_VDSO_BASE_VA == KKM_GUEST_MEM_TOP_VA + 1 * MIB

(***************************************************************************)
(* Mutants: plausible slips in the range tests below, each of which a      *)
(* property checked on this module must detect.                           *)
(***************************************************************************)
InLowRangeInclusive(guest_va) ==
  guest_va >= KKM_GUEST_MEM_START_VA /\ guest_va <= KKM_GUEST_MAX_PHYS_MEM
InHighRangeUnbounded(guest_va) == guest_va < KKM_GUEST_MEM_TOP_VA

(***************************************************************************)
(* kkm_guest_va_to_monitor_va: the three ranges are tried in the code's    *)
(* order; the result is the returned bool and the value left in            *)
(* *monitor_va (0 on failure, set before any range is tried).              *)
(***************************************************************************)
InLowRange(guest_va) ==
  guest_va >= KKM_GUEST_MEM_START_VA /\ guest_va < KKM_GUEST_MAX_PHYS_MEM
InHighRange(guest_va) ==
  guest_va >= KKM_GUEST_VA_OFFSET /\ guest_va < KKM_GUEST_MEM_TOP_VA
InVdsoRange(mem_slot, guest_va) ==
  /\ mem_slot.used
  /\ guest_va >= KKM_GUEST_VVAR_VDSO_BASE_VA
  /\ guest_va < KKM_GUEST_VVAR_VDSO_BASE_VA + mem_slot.memory_size

\* the ranges are disjoint, so CASE selects the code's first match
kkm_guest_va_to_monitor_va(mem_slot, guest_va) ==
  CASE InLowRange(guest_va) ->
         [ok |-> TRUE, va |-> KKM_KM_USER_MEM_BASE + guest_va]
    [] InHighRange(guest_va) ->
         [ok |-> TRUE,
          va |-> KKM_KM_USER_MEM_BASE + (guest_va - KKM_GUEST_VA_OFFSET)]
    [] InVdsoRange(mem_slot, guest_va) ->
         [ok |-> TRUE,
          va |-> guest_va - KKM_GUEST_VVAR_VDSO_BASE_VA + mem_slot.userspace_addr]
    [] OTHER -> [ok |-> FALSE, va |-> 0]

VARIABLES
  vdso_slot,    \* the VDSO memory slot the monitor registered
  probe_va,     \* last address handed to the translator
  probe_result  \* last result; starts as the locals' initial values

vars == <<vdso_slot, probe_va, probe_result>>

Init ==
  /\ vdso_slot \in VdsoSlots
  /\ probe_va = 0
  /\ probe_result = [ok |-> FALSE, va |-> 0]

\* An emulator translates a guest rip (GP) or cr2 (PF).
Translate(a) ==
  /\ probe_va' = a
  /\ probe_result' = kkm_guest_va_to_monitor_va(vdso_slot, a)
  /\ UNCHANGED vdso_slot

Next == \E a \in GuestVAs : Translate(a)

Spec == Init /\ [][Next]_vars

-----------------------------------------------------------------------------
TypeOK ==
  /\ vdso_slot \in VdsoSlots
  /\ probe_va \in GuestVAs \cup {0}
  \* *monitor_va is a uint64_t: a negative value would be a wrapped result
  /\ probe_result \in [ok : BOOLEAN, va : Nat]

InRange(a, lo, hi) == a >= lo /\ a < hi

(***************************************************************************)
(* Memory safety of the emulators' probes: whatever guest address comes in,*)
(* a successful translation lands inside the monitor memory backing the    *)
(* guest, i.e. the guest-physical window [BASE, BASE + MAX_PHYS) or the    *)
(* VDSO slot's own range, so copy_from_user/copy_to_user in the GP and PF  *)
(* emulators never touch monitor memory outside what the guest owns.       *)
(***************************************************************************)
TranslationInsideGuestMemory ==
  probe_result.ok =>
    \/ InRange(probe_result.va, KKM_KM_USER_MEM_BASE,
               KKM_KM_USER_MEM_BASE + KKM_GUEST_MAX_PHYS_MEM)
    \/ /\ vdso_slot.used
       /\ InRange(probe_result.va, vdso_slot.userspace_addr,
                  vdso_slot.userspace_addr + vdso_slot.memory_size)
=============================================================================
