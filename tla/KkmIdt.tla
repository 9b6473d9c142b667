------------------------------- MODULE KkmIdt -------------------------------
(***************************************************************************)
(* The contents of the system-wide kx IDT that kkm_idt_init and            *)
(* kkm_idt_descr_init (kkm_idt.c) build, and the accessors the switch      *)
(* engine uses: the interrupt gates, the native and guest IDT descriptors, *)
(* the redirect pointer in kx global, and the per-cpu last_id table.       *)
(* KkmLifecycle models which pages the area occupies; KkmReloc the         *)
(* patching of the copied syscall stub.                                    *)
(*                                                                         *)
(* Widths are scaled as in KkmReloc: an address has AddrBits bits, split   *)
(* into offset_low and offset_middle of a quarter and offset_high of half  *)
(* of them (16, 16 and 32 of 64 in the build).  Vectors keep their numbers *)
(* and NR_VECTORS its value.                                               *)
(***************************************************************************)
EXTENDS Integers, FiniteSets

CONSTANTS
  Cpus,                   \* possible CPUs (NR_CPUS of them)
  AddrBits,               \* width of an address (64 in the build)
  NR_VECTORS,             \* 256
  KKM_IDT_CODE_START_VA,  \* where the kx copy of the entry code executes
  KKM_KX_INTR_CODE_SIZE,  \* bytes of interrupt entry code copied
  KKM_KX_ENTRY_CODE_SIZE, \* bytes of guest entry code copied
  KKM_IDT_VA,             \* kkm_mmu_get_idt_va(): the IDT in the kx window
  NATIVE_IDT_VA,          \* the address of the kernel's own IDT
  Layouts,                \* layouts of the assembled entry code, see below
  NativeIdtSizes,         \* sizes kkm_store_idt may report
  Ids,                    \* ids kkm_idt_set_id may be given
  KKM_INVALID_ID

ADDR_MOD == 2 ^ AddrBits
FIELD_MOD == 2 ^ (AddrBits \div 4)
Vectors == 0..(NR_VECTORS - 1)

\* asm/trapnr.h
X86_TRAP_BP == 3
X86_TRAP_OF == 4
X86_TRAP_DF == 8
X86_TRAP_TS == 10
X86_TRAP_NP == 11
X86_TRAP_SS == 12
X86_TRAP_GP == 13
X86_TRAP_PF == 14
X86_TRAP_AC == 17
X86_TRAP_SE == 30

GATE_INTERRUPT == 14

\* the vectors whose handler kkm_idt_descr_init replaces
NonStandard == {X86_TRAP_DF, X86_TRAP_TS, X86_TRAP_NP, X86_TRAP_SS,
                X86_TRAP_GP, X86_TRAP_PF, X86_TRAP_AC, X86_TRAP_SE}

(***************************************************************************)
(* A layout of the entry code (kkm_intr_entry.S and kkm_intr_table.h, not  *)
(* in these sources): the kernel address of kkm_intr_entry_0, the size of  *)
(* one generic stub (stub i is at kkm_intr_entry_0 + i * stub, and         *)
(* intr_function_pointers[i] holds its address), the offset of each       *)
(* distinguished handler, the offset of kkm_intr_fill that ends the code,  *)
(* and the length of kkm_switch_to_gp_asm .. kkm_guest_entry_end.          *)
(***************************************************************************)
intr_function_pointers(L) == [i \in Vectors |-> L.entry0 + i * L.stub]
Handler(L, v) == L.entry0 + L.special[v]

VARIABLES
  layout,       \* the layout of this build
  n_entries,    \* kkm_idt.n_entries
  last_id,      \* kkm_idt.desc_entries[cpu].last_id
  native_desc,  \* idt_entry->native_idt_desc
  guest_desc,   \* idt_entry->guest_idt_desc
  gates,        \* the gate_structs in the allocated idt page, if any
  redirect,     \* the redirect pointer at the start of kx global
  status        \* "none", "ready" or "failed" (kkm_idt_init's result)

vars == <<layout, n_entries, last_id, native_desc, guest_desc, gates,
          redirect, status>>

NoPage == <<>>
ZeroDesc == [size |-> 0, address |-> 0]

Init ==
  /\ layout \in Layouts
  /\ n_entries = 0
  /\ last_id = [c \in Cpus |-> 0]
  /\ native_desc = ZeroDesc
  /\ guest_desc = ZeroDesc
  /\ gates = NoPage
  /\ redirect = "NULL"
  /\ status = "none"

\* Mutant: the first overflow check dropped.
KxCodeFitsUnchecked(L) == L.entry_code < KKM_KX_ENTRY_CODE_SIZE

\* the two kx code overflow checks (-EINVAL)
KxCodeFits(L) ==
  /\ L.fill < KKM_KX_INTR_CODE_SIZE
  /\ L.entry_code < KKM_KX_ENTRY_CODE_SIZE

\* replace non standard handlers
ReplaceNonStandard(ptrs, L) ==
  [i \in Vectors |-> IF i \in NonStandard THEN Handler(L, i) ELSE ptrs[i]]

\* Mutant: the & 0xFFFF mask on the middle field dropped.
OffsetMiddleUnmasked(a) == a \div FIELD_MOD

\* (intr_entry_addr >> 16) & 0xFFFF
OffsetMiddle(a) == (a \div FIELD_MOD) % FIELD_MOD

\* one interrupt gate per vector, at the kx copy of its handler: 64-bit
\* interrupt gate, kernel CS, no IST, present, DPL 3 only for int3 and into
\* (zero and reserved are 0)
FillGates(ptrs) ==
  [i \in Vectors |->
     LET a == (KKM_IDT_CODE_START_VA + ptrs[i] - ptrs[0]) % ADDR_MOD IN
     [offset_low |-> a % FIELD_MOD,
      segment |-> "__KERNEL_CS", ist |-> 0, type |-> GATE_INTERRUPT,
      dpl |-> IF i \in {X86_TRAP_BP, X86_TRAP_OF} THEN 3 ELSE 0,
      p |-> 1,
      offset_middle |-> OffsetMiddle(a),
      offset_high |-> (a \div (FIELD_MOD * FIELD_MOD)) % (FIELD_MOD * FIELD_MOD)]]

\* kkm_idt_descr_init after the checks and the page allocation: the native
\* descriptor from the platform (a size other than 0xfff is only
\* reported), the gates, the guest descriptor (native size, kx window
\* address), the code copies and the redirect pointer.  Every failure
\* leaves kkm_idt as the memset left it and no area.
kkm_idt_descr_init(allocOk, size) ==
  IF KxCodeFits(layout) /\ allocOk
  THEN /\ native_desc' = [size |-> size, address |-> NATIVE_IDT_VA]
       /\ gates' = FillGates(ReplaceNonStandard(intr_function_pointers(layout), layout))
       /\ guest_desc' = [size |-> size, address |-> KKM_IDT_VA]
       /\ redirect' = "kkm_switch_to_host_kernel"
       /\ status' = "ready"
  ELSE /\ native_desc' = ZeroDesc
       /\ guest_desc' = ZeroDesc
       /\ gates' = NoPage
       /\ redirect' = "NULL"
       /\ status' = "failed"

\* kkm_idt_init: clear kkm_idt, mark every cpu's last_id invalid, then
\* kkm_idt_descr_init, whose allocation may fail.
KkmIdtInit ==
  /\ status = "none"
  /\ n_entries' = Cardinality(Cpus)
  /\ last_id' = [c \in Cpus |-> KKM_INVALID_ID]
  /\ \E allocOk \in BOOLEAN, size \in NativeIdtSizes :
       kkm_idt_descr_init(allocOk, size)
  /\ UNCHANGED layout

\* kkm_idt_cleanup: free the area (the gates and kx global go with it);
\* the descriptors and ids stay until the next kkm_idt_init clears them.
KkmIdtCleanup ==
  /\ status \in {"ready", "failed"}
  /\ gates' = NoPage
  /\ redirect' = "NULL"
  /\ status' = "none"
  /\ UNCHANGED <<layout, n_entries, last_id, native_desc, guest_desc>>

\* kkm_idt_set_id
kkm_idt_set_id(c, id) ==
  /\ last_id' = [last_id EXCEPT ![c] = id]
  /\ UNCHANGED <<layout, n_entries, native_desc, guest_desc, gates,
                 redirect, status>>

\* kkm_idt_get_id and kkm_idt_get_desc only read
kkm_idt_get_id(c) == last_id[c]
kkm_idt_get_desc == [native |-> native_desc, guest |-> guest_desc]

Next ==
  \/ KkmIdtInit
  \/ KkmIdtCleanup
  \/ \E c \in Cpus, id \in Ids : kkm_idt_set_id(c, id)

Spec == Init /\ [][Next]_vars

-----------------------------------------------------------------------------
TypeOK ==
  /\ layout \in Layouts
  /\ n_entries \in {0, Cardinality(Cpus)}
  /\ last_id \in [Cpus -> Ids \cup {0, KKM_INVALID_ID}]
  /\ status \in {"none", "ready", "failed"}
  /\ gates \in {NoPage} \cup [Vectors -> [offset_low : 0..(FIELD_MOD - 1),
       segment : {"__KERNEL_CS"}, ist : {0}, type : {GATE_INTERRUPT},
       dpl : {0, 3}, p : {1}, offset_middle : 0..(FIELD_MOD - 1),
       offset_high : 0..(FIELD_MOD * FIELD_MOD - 1)]]

\* Reference: the address a gate's three offset fields put together, the
\* handler the entry code provides for a vector, and the address the kx
\* copy of a kernel-text address executes at.
GateTarget(g) ==
  g.offset_low + g.offset_middle * FIELD_MOD + g.offset_high * FIELD_MOD ^ 2
OwnHandler(L, v) ==
  IF v \in NonStandard THEN Handler(L, v) ELSE L.entry0 + v * L.stub
KxCopy(L, a) == KKM_IDT_CODE_START_VA + (a - L.entry0)
CopiedIntrCode ==
  KKM_IDT_CODE_START_VA .. (KKM_IDT_CODE_START_VA + KKM_KX_INTR_CODE_SIZE - 1)

(***************************************************************************)
(* Once kkm_idt_init has succeeded, every vector's gate is a present       *)
(* interrupt gate whose offset, split over three fields and relocated from *)
(* intr_function_pointers[0], is the kx copy of that vector's own handler  *)
(* (the distinguished one for the non-standard vectors), and lies inside   *)
(* the interrupt entry code memcpy copied: the overflow check on           *)
(* kkm_intr_fill is what keeps every handler inside the copy.              *)
(***************************************************************************)
GatesReachHandlers ==
  status = "ready" =>
    \A v \in Vectors :
      LET g == gates[v] IN
      /\ g.p = 1 /\ g.type = GATE_INTERRUPT /\ g.ist = 0
      /\ GateTarget(g) = KxCopy(layout, OwnHandler(layout, v))
      /\ GateTarget(g) \in CopiedIntrCode

\* Vectors for which the CPU pushes an error code (Intel SDM vol. 3, table
\* 6-1; AMD APM vol. 2, section 8.2): #CP and #VC besides the eight above.
X86_TRAP_CP == 21
X86_TRAP_VC == 29
ErrorCodeVectors == NonStandard \cup {X86_TRAP_CP, X86_TRAP_VC}

(***************************************************************************)
(* Every exception that pushes an error code enters a distinguished        *)
(* handler, the ones "carrying extra vector-specific prologue" for that    *)
(* frame; a generic stub expects a frame without one.                      *)
(***************************************************************************)
ErrorCodeFramesHandled ==
  status = "ready" =>
    \A v \in ErrorCodeVectors :
      GateTarget(gates[v]) \in {KxCopy(layout, Handler(layout, n)) : n \in NonStandard}
=============================================================================
