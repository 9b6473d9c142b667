------------------------------ MODULE KkmIdtKx ------------------------------
(***************************************************************************)
(* kkm_idt_descr_init builds the kx area in one pass: the gates (KkmIdt),  *)
(* then the memcpy of the interrupt entry code into idt_text_page0 and the *)
(* relocation of the three labelled syscall-stub instructions in that copy *)
(* (KkmReloc).  This module composes the two: the labels sit in the same   *)
(* entry code whose layout gives the gate targets, their copies execute in *)
(* the kx window at KKM_IDT_CODE_START_VA + (label - kkm_intr_entry_0)     *)
(* (the address start_payload writes to MSR_LSTAR for the first one), a    *)
(* failed init copies nothing, and kkm_idt_cleanup frees the copy so that  *)
(* the next init copies and patches the kernel text afresh.                *)
(*                                                                         *)
(* A layout also gives the offsets from kkm_intr_entry_0 of the three      *)
(* labels (labels[1..3]); like the rest of the layout it comes from the    *)
(* assembly, which is not under src/.                                      *)
(***************************************************************************)
EXTENDS KkmIdt

CONSTANTS
  DispBits,   \* width of a displacement (32 in the build)
  Disps       \* displacements the assembler may emit at the labels

VARIABLES text, insn, kx, exec, done

R == INSTANCE KkmReloc WITH InsnAddrs <- {}, KxExecAddrs <- {}

relocVars == <<text, insn, kx, exec, done>>
kxVars == <<vars, relocVars>>

\* The labelled instructions in kernel text, where they are linked and
\* where their kx copies execute; before the first init the copy is what
\* the memcpy will produce.
KxInit ==
  /\ Init
  /\ \E d \in [R!Sites -> Disps] :
       text = [i \in R!Sites |-> R!Assembled(i, d[i])]
  /\ insn = [i \in R!Sites |-> layout.entry0 + layout.labels[i]]
  /\ exec = [i \in R!Sites |-> KKM_IDT_CODE_START_VA + layout.labels[i]]
  /\ kx = text
  /\ done = FALSE

\* kkm_idt_init; when kkm_idt_descr_init gets past its checks and the
\* allocation, the copied stub is relocated in the same call.
KxIdtInit ==
  /\ KkmIdtInit
  /\ IF status' = "ready" THEN R!Relocate ELSE UNCHANGED relocVars

\* kkm_idt_cleanup frees idt_text_page0 with the rest of the area.
KxIdtCleanup ==
  /\ KkmIdtCleanup
  /\ kx' = text
  /\ done' = FALSE
  /\ UNCHANGED <<text, insn, exec>>

KxNext ==
  \/ KxIdtInit
  \/ KxIdtCleanup
  \/ /\ \E c \in Cpus, id \in Ids : kkm_idt_set_id(c, id)
     /\ UNCHANGED relocVars

KxSpec == KxInit /\ [][KxNext]_kxVars

-----------------------------------------------------------------------------
(***************************************************************************)
(* The relocated syscall stub in the kx copy does what the kernel-text     *)
(* original does (KkmReloc's property), for copies made by every           *)
(* successful init of the composed run, at the execution address the       *)
(* IDT layout gives them.                                                  *)
(***************************************************************************)
RelocationPreservesAccess == R!RelocationPreservesAccess
=============================================================================
