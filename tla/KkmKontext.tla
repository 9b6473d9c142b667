----------------------------- MODULE KkmKontext -----------------------------
(***************************************************************************)
(* The domain-switch engine, fault dispatcher and fault emulators of       *)
(* kkm_kontext.c, on several CPUs, with one monitor thread per kontext     *)
(* issuing the run call kkm_kontext_switch_kernel.                         *)
(*                                                                         *)
(* Per CPU: the thread on it, its interrupt flag and preemption count, the *)
(* execution domain, the per-cpu current_kontext, the kontext whose guest  *)
(* area is mapped in the CPU's kx window, the architectural registers the  *)
(* switch saves and restores (cr3, fs/gs base, LSTAR, TSS sp0, IDT), and   *)
(* the payload's live rip and flags.  Per kontext: the thread's position   *)
(* in kkm_kontext_switch_kernel, the saved native state of struct          *)
(* kkm_kontext, the guest area (registers, trap info, vector, saved sp0)   *)
(* and the kkm_run exit record.  The guest payload is a small program; its *)
(* data accesses touch monitor pages whose mapping state the page-fault    *)
(* emulator changes by touching them.                                      *)
(*                                                                         *)
(* Register values are tagged tuples naming whose value they are, e.g.     *)
(* <<"percpu", c>> is CPU c's own GS base and <<"mm", k>> thread k's cr3.  *)
(***************************************************************************)
EXTENDS Integers, FiniteSets

CONSTANTS
  Cpus,        \* physical CPUs
  Kontexts,    \* kontexts, each driven by one monitor thread
  NoKontext,   \* model value: no kontext / no thread
  Preemption,  \* kernel built with involuntary preemption and preempt counts
  Affinity,    \* Affinity[k]: the CPUs thread k may run on
  MaxCalls,    \* bound: run calls the monitor issues per kontext
  PreemptCountCap, \* bound: saturation value of the preemption count
  MIB,         \* address unit, see KkmTranslate
  VdsoSlot,    \* kkm->mem_slot[KKM_KM_RSRV_VDSOSLOT]
  Program,     \* guest code: address -> [op, va, rdx]
  Entry,       \* Entry[k]: the rips the monitor may set for kontext k
  InitFlags,   \* rflags the monitor may set: [iopl, if]
  InitMem,     \* monitor page -> mapping state before the first run
  HostNmi      \* the host raises NMIs (perf counters, the NMI watchdog)

Tr == INSTANCE KkmTranslate WITH GuestVAs <- {}, VdsoSlots <- {VdsoSlot},
        vdso_slot <- VdsoSlot, probe_va <- 0,
        probe_result <- [ok |-> FALSE, va |-> 0]

Translate(a) == Tr!kkm_guest_va_to_monitor_va(VdsoSlot, a)

\* vectors (asm/traps.h) and the host timer vector
X86_TRAP_NMI == 2
X86_TRAP_UD == 6
X86_TRAP_GP == 13
X86_TRAP_PF == 14
HOST_TIMER_VECTOR == 236

\* return values of kkm_process_intr and kkm_kontext_switch_kernel
KKM_KONTEXT_FAULT_PROCESS_DONE == "DONE"
RetVals == {"0", KKM_KONTEXT_FAULT_PROCESS_DONE, "-EFAULT", "-EOPNOTSUPP"}

\* the first opcode byte of each guest instruction; only "out" is 0xEF,
\* KKM_OUT_OPCODE (out %eax,%dx), one byte long
Opcode == [out |-> 239, in |-> 237, hlt |-> 244, ud |-> 15,
           load |-> 139, store |-> 137]
KKM_OUT_OPCODE == 239

Ops == DOMAIN Opcode
PageStates == {"absent", "zero", "rw", "ro", "unmapped"}
Domains == {"host", "guest_kernel", "guest_payload", "trapped"}
PCs == {"user", "begin", "mapped", "in_guest", "returned"}

VARIABLES
  pc, calls, ret,                  \* monitor threads
  running, irq_on, preempt,        \* per-CPU scheduling state
  domain, current_kontext, kx_ga,  \* per-CPU kkm state
  hw, live,                        \* per-CPU registers
  knative, ga, run,                \* per-kontext kkm state
  mem                              \* monitor pages

vars == <<pc, calls, ret, running, irq_on, preempt, domain, current_kontext,
          kx_ga, hw, live, knative, ga, run, mem>>

CpuOf(k) == CHOOSE c \in Cpus : running[c] = k
OnCpu(k) == \E c \in Cpus : running[c] = k

\* what a CPU holds while thread k runs host code on it
NativeHw(k, c) ==
  [cr3 |-> <<"mm", k>>, fs_base |-> <<"tls", k>>, gs_base |-> <<"percpu", c>>,
   lstar |-> <<"entry_syscall", c>>, sp0 |-> <<"tss", c>>,
   idt |-> <<"native_idt">>]

\* the scheduler's context switch loads the thread's own registers only
SwitchIn(k, c) ==
  hw' = [hw EXCEPT ![c].cr3 = <<"mm", k>>, ![c].fs_base = <<"tls", k>>]

\* get_cpu: preempt_disable.  The code never calls put_cpu, so the count
\* only grows; it saturates at PreemptCountCap, which keeps zero and
\* non-zero (all that preemption and the properties distinguish) exact.
GetCpu(c) ==
  IF Preemption
  THEN preempt' = [preempt EXCEPT ![c] = IF @ < PreemptCountCap THEN @ + 1 ELSE @]
  ELSE UNCHANGED preempt

Accessible(a, write) ==
  LET t == Translate(a) IN
  /\ t.ok
  /\ IF write THEN mem[t.va] = "rw" ELSE mem[t.va] \in {"zero", "rw", "ro"}

Init ==
  /\ pc = [k \in Kontexts |-> "user"]
  /\ calls = [k \in Kontexts |-> 0]
  /\ ret = [k \in Kontexts |-> "0"]
  /\ running = [c \in Cpus |-> NoKontext]
  /\ irq_on = [c \in Cpus |-> TRUE]
  /\ preempt = [c \in Cpus |-> 0]
  /\ domain = [c \in Cpus |-> "host"]
  /\ current_kontext = [c \in Cpus |-> NoKontext]
  /\ kx_ga = [c \in Cpus |-> NoKontext]
  /\ hw = [c \in Cpus |-> NativeHw(NoKontext, c)]
  /\ live = [c \in Cpus |-> [rip |-> 0, iopl |-> 0, if |-> FALSE]]
  /\ knative = [k \in Kontexts |->
                 [cr3 |-> <<>>, fs_base |-> <<>>, gs_base |-> <<>>, lstar |-> <<>>]]
  /\ \E f \in [Kontexts -> InitFlags], e \in [Kontexts -> DOMAIN Program] :
       /\ \A k \in Kontexts : e[k] \in Entry[k]
       /\ ga = [k \in Kontexts |->
              [regs |-> [rip |-> e[k], rdx |-> 0,
                         iopl |-> f[k].iopl, if |-> f[k].if],
               trap |-> [rip |-> 0, iopl |-> 0, if |-> FALSE,
                         user |-> FALSE, write |-> FALSE],
               cr2 |-> 0, intr_no |-> 0, native_sp0 |-> <<>>]]
  /\ run = [k \in Kontexts |-> [exit |-> "unknown", port |-> 0]]
  /\ mem = InitMem
-----------------------------------------------------------------------------
(***************************************************************************)
(* The monitor and the scheduler.                                          *)
(***************************************************************************)

\* The monitor thread of kontext k enters the run call on CPU c
\* (kkm_kontext_switch_kernel is entered from the run ioctl).
Call(k, c) ==
  /\ pc[k] = "user"
  /\ calls[k] < MaxCalls
  /\ running[c] = NoKontext
  /\ c \in Affinity[k]
  /\ pc' = [pc EXCEPT ![k] = "begin"]
  /\ calls' = [calls EXCEPT ![k] = @ + 1]
  /\ running' = [running EXCEPT ![c] = k]
  /\ SwitchIn(k, c)
  /\ UNCHANGED <<ret, irq_on, preempt, domain, current_kontext, kx_ga, live,
                 knative, ga, run, mem>>

\* Involuntary preemption of a thread in preemptible kernel code.
Preempt(c) ==
  /\ Preemption
  /\ running[c] # NoKontext
  /\ pc[running[c]] \in {"begin", "mapped"}
  /\ irq_on[c]
  /\ preempt[c] = 0
  /\ running' = [running EXCEPT ![c] = NoKontext]
  /\ UNCHANGED <<pc, calls, ret, irq_on, preempt, domain, current_kontext,
                 kx_ga, hw, live, knative, ga, run, mem>>

\* A preempted thread is scheduled again, on any CPU its affinity allows.
Resume(k, c) ==
  /\ pc[k] \in {"begin", "mapped"}
  /\ ~OnCpu(k)
  /\ running[c] = NoKontext
  /\ c \in Affinity[k]
  /\ running' = [running EXCEPT ![c] = k]
  /\ SwitchIn(k, c)
  /\ UNCHANGED <<pc, calls, ret, irq_on, preempt, domain, current_kontext,
                 kx_ga, live, knative, ga, run, mem>>

-----------------------------------------------------------------------------
(***************************************************************************)
(* kkm_kontext_switch_kernel, host side.                                   *)
(***************************************************************************)

\* Mutant: the kx window mapped only on a CPU where none is mapped yet.
SetGuestAreaOnce(k) ==
  LET c == CpuOf(k) IN
  /\ OnCpu(k)
  /\ pc[k] = "begin"
  /\ kx_ga' = IF kx_ga[c] = NoKontext THEN [kx_ga EXCEPT ![c] = k] ELSE kx_ga
  /\ pc' = [pc EXCEPT ![k] = "mapped"]
  /\ UNCHANGED <<calls, ret, running, irq_on, preempt, domain,
                 current_kontext, hw, live, knative, ga, run, mem>>

\* begin: .. kkm_mmu_set_guest_area: map k's guest area in this CPU's kx
\* window, with interrupts and preemption still enabled.
SetGuestArea(k) ==
  LET c == CpuOf(k) IN
  /\ OnCpu(k)
  /\ pc[k] = "begin"
  /\ kx_ga' = [kx_ga EXCEPT ![c] = k]
  /\ pc' = [pc EXCEPT ![k] = "mapped"]
  /\ UNCHANGED <<calls, ret, running, irq_on, preempt, domain,
                 current_kontext, hw, live, knative, ga, run, mem>>

\* Mutant: cr3 read after the switch to the guest kernel address space
\* instead of before.
SaveNativeLate(c) ==
  [cr3 |-> <<"guest_kernel">>, fs_base |-> hw[c].fs_base,
   gs_base |-> hw[c].gs_base, lstar |-> hw[c].lstar]

\* per_cpu(current_kontext, cpu) = kkm_kontext
RegisterCurrent(c, k) == current_kontext' = [current_kontext EXCEPT ![c] = k]

\* __read_cr3, savesegment/rdmsrl of the FS and GS bases, rdmsrl LSTAR
SaveNative(c) ==
  [cr3 |-> hw[c].cr3, fs_base |-> hw[c].fs_base,
   gs_base |-> hw[c].gs_base, lstar |-> hw[c].lstar]

\* kkm_idt_get_desc .. kkm_switch_to_gk_asm: interrupts off, get_cpu,
\* register k as current, save the native cr3, segment bases and LSTAR in
\* the kontext, load the guest kernel cr3, reset the vector and switch to
\* the guest kernel on the guest area stack.
EnterGuestKernel(k) ==
  LET c == CpuOf(k) IN
  /\ OnCpu(k)
  /\ pc[k] = "mapped"
  /\ irq_on' = [irq_on EXCEPT ![c] = FALSE]
  /\ GetCpu(c)
  /\ RegisterCurrent(c, k)
  /\ knative' = [knative EXCEPT ![k] = SaveNative(c)]
  /\ hw' = [hw EXCEPT ![c].cr3 = <<"guest_kernel">>]
  /\ ga' = [ga EXCEPT ![k].intr_no = -1]
  /\ domain' = [domain EXCEPT ![c] = "guest_kernel"]
  /\ pc' = [pc EXCEPT ![k] = "in_guest"]
  /\ UNCHANGED <<calls, ret, running, kx_ga, live, run, mem>>

-----------------------------------------------------------------------------
(***************************************************************************)
(* Guest side: kkm_guest_kernel_start_payload, the payload, and            *)
(* kkm_switch_to_host_kernel.  Each runs on the CPU with interrupts off.   *)
(***************************************************************************)

\* Mutant: IF left as the monitor set it (the TODO line deleted).
SanitizeFlagsKeepIf(regs) == [regs EXCEPT !.iopl = 0]

\* flags are from userland: IF cleared (the TODO forcing it off), IOPL
\* cleared; the resume flag RF is not modelled
SanitizeFlags(regs) == [regs EXCEPT !.if = FALSE, !.iopl = 0]

\* kkm_guest_kernel_start_payload: the guest area is re-derived from the
\* kx window; zero the data segments and load the payload's FS base, set
\* the kx SYSCALL target, clear IF and IOPL in the saved flags, save the
\* native TSS sp0 in the area and point sp0 at the area in the window, load
\* the guest IDT and enter the payload (kkm_switch_to_gp_asm loads the
\* payload cr3 and the area's registers).
StartPayload(c) ==
  LET g == kx_ga[c]
      regs == SanitizeFlags(ga[g].regs)
  IN
  /\ domain[c] = "guest_kernel"
  /\ g \in Kontexts
  /\ GetCpu(c)
  /\ ga' = [ga EXCEPT ![g].regs = regs, ![g].native_sp0 = hw[c].sp0]
  /\ hw' = [hw EXCEPT ![c].fs_base = <<"guest_fs", g>>,
                      ![c].lstar = <<"kx_syscall">>,
                      ![c].sp0 = <<"kx", c>>,
                      ![c].idt = <<"guest_idt">>,
                      ![c].cr3 = <<"guest_payload">>]
  /\ live' = [live EXCEPT ![c] = [rip |-> regs.rip, iopl |-> regs.iopl,
                                  if |-> regs.if]]
  /\ domain' = [domain EXCEPT ![c] = "guest_payload"]
  /\ UNCHANGED <<pc, calls, ret, running, irq_on, current_kontext, kx_ga,
                 knative, run, mem>>

\* A trap while the payload runs on CPU c: the CPU pushes the frame on the
\* sp0 stack, i.e. into the guest area mapped in the kx window, and the
\* entry stub stores the vector and the general registers there too.
Trap(c, vec, user, write, cr2) ==
  LET g == kx_ga[c] IN
  /\ ga' = [ga EXCEPT ![g].trap = [rip |-> live[c].rip, iopl |-> live[c].iopl,
                                    if |-> live[c].if, user |-> user,
                                    write |-> write],
                      ![g].cr2 = IF vec = X86_TRAP_PF THEN cr2 ELSE @,
                      ![g].intr_no = vec,
                      ![g].regs.rdx = Program[live[c].rip].rdx]
  /\ domain' = [domain EXCEPT ![c] = "trapped"]
  /\ UNCHANGED live

\* The exception the CPU raises for instruction ins at CPL 3 under IOPL
\* iopl, or 0 when it completes (no vector 0 arises here).
PortOps == {"out", "in"}

Exception(ins, iopl) ==
  CASE ins.op \in PortOps -> IF iopl < 3 THEN X86_TRAP_GP ELSE 0
    [] ins.op = "hlt" -> X86_TRAP_GP
    [] ins.op = "ud" -> X86_TRAP_UD
    [] ins.op \in {"load", "store"} ->
         IF Accessible(ins.va, ins.op = "store") THEN 0 ELSE X86_TRAP_PF
    [] OTHER -> 0

\* The payload executes the instruction at its rip: it completes (port
\* I/O under IOPL 3 reaches the host port) or it raises its exception.  A host interrupt may arrive first: a maskable
\* one only with IF set, an NMI whatever IF says.
HostEvents(c) ==
  (IF live[c].if THEN {HOST_TIMER_VECTOR} ELSE {})
  \cup (IF HostNmi THEN {X86_TRAP_NMI} ELSE {})

GuestStep(c) ==
  LET ins == Program[live[c].rip]
      vec == Exception(ins, live[c].iopl)
  IN
  /\ domain[c] = "guest_payload"
  /\ \E irq \in HostEvents(c) \cup {0} :
       IF irq # 0 THEN Trap(c, irq, FALSE, FALSE, 0)
       ELSE IF vec = 0
       THEN /\ live' = [live EXCEPT ![c].rip = @ + 1]
            /\ UNCHANGED <<ga, domain>>
       ELSE Trap(c, vec, vec = X86_TRAP_PF, ins.op = "store", ins.va)
  /\ UNCHANGED <<pc, calls, ret, running, irq_on, preempt, current_kontext,
                 kx_ga, hw, knative, run, mem>>

\* Mutant: only rflags taken from the trap info, rip left stale.
AdjustFromTrapFlagsOnly(regs, trap) ==
  [regs EXCEPT !.iopl = trap.iopl, !.if = trap.if]

\* adjust registers from trap info: rip and rflags
AdjustFromTrap(regs, trap) ==
  [regs EXCEPT !.rip = trap.rip, !.iopl = trap.iopl, !.if = trap.if]

\* kkm_switch_to_host_kernel: find the current kontext of this CPU, copy
\* rip and rflags from its trap info, restore sp0 from its guest area, the
\* native IDT, LSTAR, segment bases and cr3 from the kontext, and return on
\* its native kernel stack into kkm_kontext_switch_kernel.
SwitchToHostKernel(c) ==
  LET k == current_kontext[c] IN
  /\ domain[c] = "trapped"
  /\ GetCpu(c)
  /\ ga' = [ga EXCEPT ![k].regs = AdjustFromTrap(@, ga[k].trap)]
  /\ hw' = [hw EXCEPT ![c] =
             [cr3 |-> knative[k].cr3, fs_base |-> knative[k].fs_base,
              gs_base |-> knative[k].gs_base, lstar |-> knative[k].lstar,
              sp0 |-> ga[k].native_sp0, idt |-> <<"native_idt">>]]
  /\ domain' = [domain EXCEPT ![c] = "host"]
  /\ pc' = [pc EXCEPT ![k] = "returned"]
  /\ UNCHANGED <<calls, ret, running, irq_on, current_kontext, kx_ga, live,
                 knative, run, mem>>

-----------------------------------------------------------------------------
(***************************************************************************)
(* Fault processing, back in kkm_kontext_switch_kernel on the host.        *)
(* An emulator's outcome is the return value with the guest area, exit     *)
(* record and monitor pages it leaves.                                     *)
(***************************************************************************)

Outcome(r, area, rec, pages) ==
  [ret |-> r, ga |-> area, run |-> rec, mem |-> pages]

\* Mutants: the port not truncated to 16 bits; rip not advanced.
OutPortUnmasked(rdx) == rdx
OutLengthZero == 0

\* kkm_run->io.port = ga->regs.rdx & 0xFFFF
OutPort(rdx) == rdx % 65536

\* ga->regs.rip += 1: out %eax,%dx is one byte
KKM_OUT_INSN_LENGTH == 1

\* kkm_process_general_protection: translate the faulting rip, fetch the
\* opcode byte; for KKM_OUT_OPCODE stage an out exit with port rdx & 0xFFFF
\* and step rip over the one-byte instruction, otherwise leave it as is.
kkm_process_general_protection(area, rec) ==
  LET t == Translate(area.trap.rip) IN
  IF ~t.ok \/ area.trap.rip \notin DOMAIN Program
  THEN Outcome("-EFAULT", area, rec, mem)
  ELSE IF Opcode[Program[area.trap.rip].op] = KKM_OUT_OPCODE
  THEN Outcome("0", [area EXCEPT !.regs.rip = @ + KKM_OUT_INSN_LENGTH],
               [exit |-> "io", port |-> OutPort(area.regs.rdx)], mem)
  ELSE Outcome("0", area, rec, mem)

\* kkm_process_page_fault: translate cr2; for a user-mode fault read one
\* byte of the monitor page (faulting it in) and, for a write fault, write
\* it back (breaking copy-on-write); any failed access is -EFAULT.
\* Mutant: the X86_PF_WRITE test never true (wrong bit tested).
IsWriteFaultNever(area) == FALSE

\* (error_code & X86_PF_WRITE) == X86_PF_WRITE
IsWriteFault(area) == area.trap.write

TouchRead(s) == IF s = "absent" THEN "zero" ELSE s
TouchWrite(s) == IF s \in {"absent", "zero"} THEN "rw" ELSE s

\* copy_from_user / copy_to_user of one byte.  In atomic context (a
\* non-zero preemption count, so faulthandler_disabled()) the host fault
\* handler does not fault a page in or break copy-on-write: the copy fails
\* where it would have needed to.
CopyFromUserOk(s, atomic) == s # "unmapped" /\ ~(atomic /\ s = "absent")
CopyToUserOk(s, atomic) == s # "ro" /\ ~(atomic /\ s \in {"absent", "zero"})

kkm_process_page_fault(area, rec, atomic) ==
  LET t == Translate(area.cr2)
      p == t.va
      afterRead == [mem EXCEPT ![p] = TouchRead(@)]
  IN
  IF ~t.ok THEN Outcome("-EFAULT", area, rec, mem)
  ELSE IF ~area.trap.user THEN Outcome("0", area, rec, mem)
  ELSE IF ~CopyFromUserOk(mem[p], atomic) THEN Outcome("-EFAULT", area, rec, mem)
  ELSE IF ~IsWriteFault(area)
  THEN Outcome(KKM_KONTEXT_FAULT_PROCESS_DONE, area, rec, afterRead)
  ELSE IF ~CopyToUserOk(afterRead[p], atomic)
  THEN Outcome("-EFAULT", area, rec, afterRead)
  ELSE Outcome(KKM_KONTEXT_FAULT_PROCESS_DONE, area, rec,
               [afterRead EXCEPT ![p] = TouchWrite(@)])

\* kkm_process_intr: reset the exit reason and dispatch on the vector.
kkm_process_intr(k, atomic) ==
  LET area == ga[k]
      rec == [run[k] EXCEPT !.exit = "unknown"]
  IN
  CASE area.intr_no = X86_TRAP_GP -> kkm_process_general_protection(area, rec)
    [] area.intr_no = X86_TRAP_PF -> kkm_process_page_fault(area, rec, atomic)
    [] OTHER -> Outcome("-EOPNOTSUPP", area, rec, mem)

\* ret_val == KKM_KONTEXT_FAULT_PROCESS_DONE: goto begin
RestartGuest(r) == r = KKM_KONTEXT_FAULT_PROCESS_DONE

\* After kkm_switch_to_gk_asm returns: enable interrupts, process the trap,
\* and either restart at begin (fault processed) or return to the monitor.
ProcessIntr(k) ==
  LET c == CpuOf(k)
      o == kkm_process_intr(k, Preemption /\ preempt[c] > 0)
      again == RestartGuest(o.ret)
  IN
  /\ OnCpu(k)
  /\ pc[k] = "returned"
  /\ irq_on' = [irq_on EXCEPT ![c] = TRUE]
  /\ ga' = [ga EXCEPT ![k] = o.ga]
  /\ run' = [run EXCEPT ![k] = o.run]
  /\ mem' = o.mem
  /\ ret' = [ret EXCEPT ![k] = o.ret]
  /\ pc' = [pc EXCEPT ![k] = IF again THEN "begin" ELSE "user"]
  /\ running' = IF again THEN running ELSE [running EXCEPT ![c] = NoKontext]
  /\ UNCHANGED <<calls, preempt, domain, current_kontext, kx_ga, hw, live,
                 knative>>

-----------------------------------------------------------------------------
\* The monitor has made all its calls and every thread is back in it.
Finished == \A k \in Kontexts : pc[k] = "user" /\ calls[k] = MaxCalls

\* The steps of the monitor threads, the kkm code and the payloads.
KkmNext ==
  \/ \E k \in Kontexts, c \in Cpus : Call(k, c)
  \/ \E k \in Kontexts : SetGuestArea(k) \/ EnterGuestKernel(k) \/ ProcessIntr(k)
  \/ \E c \in Cpus : StartPayload(c) \/ GuestStep(c) \/ SwitchToHostKernel(c)
  \/ Finished /\ UNCHANGED vars

\* The scheduler of a preemptible kernel takes a thread off its CPU and
\* puts it back; without Preemption neither step is ever enabled.
Scheduler ==
  \/ \E c \in Cpus : Preempt(c)
  \/ \E k \in Kontexts, c \in Cpus : Resume(k, c)

Next == KkmNext \/ Scheduler

Spec == Init /\ [][Next]_vars

\* A thread that keeps getting the CPU makes progress in its kernel code,
\* and the payload keeps executing (nothing interrupts it with IF clear).
\* The monitor is never obliged to call.  Without preemption a thread in
\* the call keeps its CPU, so each of its steps stays enabled until it is
\* taken: weak fairness is enough.
Fairness ==
  /\ \A k \in Kontexts :
       WF_vars(SetGuestArea(k) \/ EnterGuestKernel(k) \/ ProcessIntr(k))
  /\ \A c \in Cpus :
       WF_vars(StartPayload(c) \/ GuestStep(c) \/ SwitchToHostKernel(c))

\* The run call on a kernel without involuntary preemption (Preemption
\* FALSE), the scheduling the spec's design assumes: a thread in the call
\* keeps its CPU, so Scheduler steps never happen and are left out.
FairSpec == Init /\ [][KkmNext]_vars /\ Fairness

-----------------------------------------------------------------------------
(***************************************************************************)
(* Refinement mapping to KkmDomain.  A thread in the call is "host" until  *)
(* it enters the guest kernel, "guest" until kkm_switch_to_host_kernel     *)
(* returns to it, then "exited" until kkm_process_intr decides.  A CPU     *)
(* outside the host domain runs the guest of its current_kontext.  The     *)
(* guest's rip is the CPU's live rip while its payload runs, the trap      *)
(* frame's once it trapped, and the guest area's otherwise.                *)
(***************************************************************************)
DomMode ==
  [k \in Kontexts |->
     CASE pc[k] = "user" -> "user"
       [] pc[k] = "in_guest" -> "guest"
       [] pc[k] = "returned" -> "exited"
       [] OTHER -> "host"]

DomGuestOn ==
  [c \in Cpus |-> IF domain[c] = "host" THEN NoKontext ELSE current_kontext[c]]

DomRip ==
  [k \in Kontexts |->
     LET on == {c \in Cpus : current_kontext[c] = k /\
                             domain[c] \in {"guest_payload", "trapped"}}
     IN IF on = {} THEN ga[k].regs.rip
        ELSE LET c == CHOOSE x \in on : TRUE IN
             IF domain[c] = "guest_payload" THEN live[c].rip ELSE ga[k].trap.rip]

Dom == INSTANCE KkmDomain WITH
  mode <- DomMode, guest_on <- DomGuestOn, vrip <- DomRip, exit_rec <- run

-----------------------------------------------------------------------------
TypeOK ==
  /\ pc \in [Kontexts -> PCs]
  /\ calls \in [Kontexts -> 0..MaxCalls]
  /\ ret \in [Kontexts -> RetVals]
  /\ running \in [Cpus -> Kontexts \cup {NoKontext}]
  /\ irq_on \in [Cpus -> BOOLEAN]
  /\ preempt \in [Cpus -> 0..PreemptCountCap]
  /\ domain \in [Cpus -> Domains]
  /\ current_kontext \in [Cpus -> Kontexts \cup {NoKontext}]
  /\ kx_ga \in [Cpus -> Kontexts \cup {NoKontext}]
  /\ mem \in [DOMAIN InitMem -> PageStates]
  /\ run \in [Kontexts -> [exit : {"unknown", "io"}, port : 0..65535]]

(***************************************************************************)
(* The guest area a CPU runs the guest on is the current kontext's own.    *)
(* While a CPU is outside the host domain, the area mapped in its kx       *)
(* window (which kkm_guest_kernel_start_payload re-derives and the trap    *)
(* frame is pushed into) belongs to the kontext registered as              *)
(* current_kontext (which kkm_switch_to_host_kernel restores from) and     *)
(* that kontext's thread is the one on the CPU.  Spec section 5: the guest *)
(* area is touched only while its kontext is current on its core.          *)
(***************************************************************************)
KxWindowOwned ==
  \A c \in Cpus :
    domain[c] # "host" =>
      /\ kx_ga[c] = current_kontext[c]
      /\ current_kontext[c] = running[c]

(***************************************************************************)
(* Round trip of the native state: whenever one of the monitor threads     *)
(* runs host code inside the run call, its CPU holds exactly what it held  *)
(* before the first entry: the thread's cr3 and FS base, the CPU's own GS  *)
(* base, LSTAR and TSS sp0, and the native IDT (kkm_kontext_switch_kernel  *)
(* saves, kkm_guest_kernel_start_payload and kkm_switch_to_host_kernel     *)
(* save and restore).                                                      *)
(***************************************************************************)
NativeStateRestored ==
  \A c \in Cpus :
    running[c] # NoKontext /\ domain[c] = "host" =>
      hw[c] = NativeHw(running[c], c)

(***************************************************************************)
(* An I/O exit the monitor reads describes the guest's own out             *)
(* instruction: the kontext resumes one byte past an out %eax,%dx and the  *)
(* reported port is the low 16 bits of rdx at that instruction             *)
(* (kkm_process_general_protection, over the trap path that carries rip    *)
(* and rdx into the guest area).                                           *)
(***************************************************************************)
IoExitFaithful ==
  \A k \in Kontexts :
    pc[k] = "user" /\ run[k].exit = "io" =>
      LET at == ga[k].regs.rip - 1 IN
      /\ at \in DOMAIN Program
      /\ Program[at].op = "out"
      /\ run[k].port = Program[at].rdx % 65536

(***************************************************************************)
(* Every run call returns to the monitor: the restart loop through         *)
(* goto begin (page faults resolved by touching the monitor page) ends.    *)
(***************************************************************************)
CallReturns == \A k \in Kontexts : pc[k] # "user" ~> pc[k] = "user"

(***************************************************************************)
(* The run call does what KkmDomain promises: the guest of a kontext runs  *)
(* only on a CPU no other guest holds, its instructions move only its own  *)
(* rip, it stops and resumes exactly where it trapped (the rip carried     *)
(* from the CPU through the trap frame and guest area and back), and a     *)
(* call ends with an I/O exit one past an out instruction or with the      *)
(* guest unmoved (the GP emulator for any other opcode, the error paths).  *)
(***************************************************************************)
ImplementsDomain == Dom!Spec

(***************************************************************************)
(* get_cpu is balanced: a CPU no monitor thread occupies has preemption    *)
(* enabled again, as the kernel requires when a thread returns to user     *)
(* space from the run call.                                                *)
(***************************************************************************)
PreemptBalanced ==
  \A c \in Cpus : running[c] = NoKontext => preempt[c] = 0
(***************************************************************************)
(* The page-fault emulator's touch resolves what the host fault handler    *)
(* can resolve (spec 4.5 and 6(e), and the scenario of a user read fault   *)
(* at a valid address returning guest-resumable): a run call that ends     *)
(* with -EFAULT on a user-mode page fault does so only because cr2 has no  *)
(* monitor address, the monitor page is not mapped, or a write hit a       *)
(* read-only monitor page; never for a page that merely was not yet        *)
(* faulted in or is still shared copy-on-write.                            *)
(***************************************************************************)
PageFaultEfaultJustified ==
  \A k \in Kontexts :
    LET area == ga[k]
        t == Translate(area.cr2)
    IN
    pc[k] = "user" /\ ret[k] = "-EFAULT" /\ area.intr_no = X86_TRAP_PF
      /\ area.trap.user
      => \/ ~t.ok
         \/ mem[t.va] = "unmapped"
         \/ area.trap.write /\ mem[t.va] = "ro"

(***************************************************************************)
(* Only the guest's own faults end a run call as unsupported: when         *)
(* kkm_process_intr's default case returns -EOPNOTSUPP to the monitor, the *)
(* vector in the guest area is the exception the instruction at the        *)
(* trapped rip raises (spec 4.3 and 7(c): the vector "is not virtualized", *)
(* fatal for the session).  An interrupt that belongs to the host, routed  *)
(* through the kx IDT while the payload runs, must not end up there.       *)
(***************************************************************************)
GuestCausedUnsupported ==
  \A k \in Kontexts :
    pc[k] = "user" /\ ret[k] = "-EOPNOTSUPP" =>
      ga[k].intr_no = Exception(Program[ga[k].trap.rip], ga[k].trap.iopl)
=============================================================================
