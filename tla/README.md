# TLA+ models of kkm

kkm is a kernel module that runs a guest payload on a physical CPU.
It uses no hardware virtualisation. Instead it switches the CPU between
three domains: the host kernel, a guest kernel address space, and the
guest payload at CPL 3. Every trap taken by the payload comes back to the
host, where an emulator handles it. This directory models that engine
with TLA+ and checks it with TLC.

## The system (inventory)

| Part | Source | State it changes | Operations |
|---|---|---|---|
| Address translator | `kkm_kontext.c` 518-592 | none (pure) | `kkm_guest_va_to_monitor_va` tries three ranges: the low guest window, the high mirror and the VDSO slot (41) |
| Domain-switch engine | `kkm_kontext.c` 98-352 | per-cpu `current_kontext`; the per-cpu kx window (the mapping of one guest area); the CPU's cr3, FS/GS base, LSTAR, TSS sp0 and IDT; the kontext's saved native state; the guest area (registers, trap info, vector, saved sp0); the IRQ flag; the preempt count | `kkm_kontext_switch_kernel` (host side, loops on `goto begin`), `kkm_guest_kernel_start_payload` (guest kernel side), `kkm_switch_to_host_kernel` (trap return) |
| Fault dispatcher and emulators | `kkm_kontext.c` 393-516 | `kkm_run` exit record; guest `rip`; monitor pages (copy_from_user / copy_to_user fault them in) | `kkm_process_intr` dispatches GP to `kkm_process_general_protection` (emulates the one-byte `out %eax,%dx` as an I/O exit) and PF to `kkm_process_page_fault` (touches the monitor page, returns DONE to restart) |
| Kontext lifecycle | `kkm_kontext.c` 36-96 | the two-page guest area | `kkm_kontext_init`, `kkm_kontext_cleanup` |
| Kontainer lifecycle | `kkm_kontainer.c` | guest kernel and payload page-table pages, the kontainer IDT page | `kkm_kontainer_init` (three allocations, cleanup on failure), `kkm_kontainer_cleanup` |
| kx IDT and relocation | `kkm_idt.c` | the global `kkm_idt`: IDT, text and kx-global pages; native and guest IDT descriptors; the copied entry code | `kkm_idt_init`, `kkm_idt_descr_init` (size checks, allocation, gate fill, code copy, three RIP-relative to GS-absolute patches), `kkm_idt_cleanup`, `kkm_idt_get_desc`, set/get id |
| Debug registers | `kkm_kontext.c` 354-391 | none (bodies are `#if 0`) | save / restore |
| Assembly trampolines | not under `src/` | stacks, registers, cr3 | `kkm_switch_to_gk_asm`, `kkm_switch_to_gp_asm`, trap entry stubs, `kkm_switch_to_hk_asm` |

How the parts interact. A monitor thread makes the run call on some CPU.
`kkm_kontext_switch_kernel` first maps the kontext's guest area into that
CPU's kx window. It then disables interrupts and calls `get_cpu`. It
records the kontext as `current_kontext`, saves the native cr3, segment
bases and LSTAR, and switches to the guest kernel.
`kkm_guest_kernel_start_payload` does not use its argument: it reads the
guest area back from the kx window. It clears IF and IOPL in the payload
flags, saves the native TSS sp0 into the guest area, and points sp0 into
the window. Then it loads the guest IDT and enters the payload. A trap
pushes its frame into the window. `kkm_switch_to_host_kernel` then looks
up the kontext in `current_kontext` and restores everything from it.
Back in the run call, the emulators use the translator to touch monitor
memory.

Where the behaviour gets hard:
- several CPUs with thread migration between calls;
- involuntary preemption in the window before interrupts are disabled;
- state re-derived from per-cpu globals instead of passed along;
- a restart loop (`goto begin`) that must end;
- partial failure in copy_from_user/copy_to_user;
- partial allocation failure in the init functions;
- 16-bit and 32-bit truncations in the emulators and the relocation code.

`PROJECT.json` lists the hazards one by one, each at its source line.

## Modules

- `KkmTranslate` models the translator. The layout macros are kept with
  their real values, counted in units of `MIB` bytes: every constant is a
  MiB multiple, so the real 47-bit layout fits TLC's integers exactly.
  `kkm_guest_va_to_monitor_va` is an operator, one `CASE` arm per range,
  in the code's order. Each action `Translate(a)` is one call by an
  emulator. `MCKkmTranslate` supplies the addresses on and next to every
  range boundary, and VDSO slots both used and unused.
- `KkmKontext` models the engine, the dispatcher and the emulators on a
  set of CPUs, with one monitor thread per kontext. It INSTANCEs
  `KkmTranslate` for the translator.

  | Action | Code |
  |---|---|
  | `SetGuestArea` | `begin:` through `kkm_mmu_set_guest_area` |
  | `EnterGuestKernel` | `kkm_idt_get_desc` through `kkm_switch_to_gk_asm`: IRQ off, `get_cpu`, `current_kontext`, saved native state, guest kernel cr3, `kkm_intr_no = -1` |
  | `StartPayload` | `kkm_guest_kernel_start_payload` |
  | `GuestStep` | one payload instruction: it completes, or raises its exception, or takes a host interrupt if IF is set, or an NMI if the constant `HostNmi` holds |
  | `Trap` | the entry stub; spec-modelled, since the asm is not under `src/` |
  | `SwitchToHostKernel` | `kkm_switch_to_host_kernel` |
  | `ProcessIntr` | the code after the switch returns: IRQ on, `kkm_process_intr`, then `goto begin` or return. The page-fault emulator's one-byte `copy_from_user`/`copy_to_user` run in atomic context when the kernel has preempt counts and the count is raised; then they cannot fault a page in or break copy-on-write |
  | `Call` | the monitor's run ioctl |
  | `Preempt`, `Resume` (`Scheduler`) | the scheduler of a preemptible kernel; only `Spec` has them, `FairSpec` is the non-preemptible kernel the spec's design assumes |

  Register contents are tagged values that name whose value they are,
  e.g. `<<"percpu", c>>`. This is enough to tell one CPU's GS base from
  another's. The guest payload is a small program whose instructions are
  load, store, out, in, hlt and ud. Monitor pages are abstracted to
  a mapping state: absent, zero, rw, ro or unmapped.
- `KkmLifecycle` covers page ownership across init and cleanup for three
  objects:
  - the kx IDT: `kkm_idt_descr_init`'s two code-size checks and its
    allocation, and `kkm_idt_cleanup`;
  - one kontainer: `kkm_kontainer_init`'s three allocations, each of which
    may fail, with the cleanup on the error path, and
    `kkm_kontainer_cleanup`;
  - each kontext: `kkm_kontext_init` and `kkm_kontext_cleanup`.

  Pages are the integers 1..NPages. The allocator is not under `src/`, so
  it is modelled from the spec: it takes the lowest free block, or fails
  at will. `free_page` returns one page and `kkm_mm_free_pages(va, n)`
  returns n pages. Freeing NULL (`kkm_idt_cleanup` after a failed init)
  is assumed to free nothing. Each init or cleanup function is one step:
  nothing else touches the object while it runs. Two ghost variables
  help state the properties: `owner` records which object each page was
  last allocated to, and `dbl_free` records a page freed while already
  free. The owner of kontainer and kontext cleanup (the module's release
  paths) is not under `src/`. The model therefore lets each cleanup run
  once after a successful or a failed init, in any order with the other
  objects.
- `MCKkmLifecycle` instantiates the IDT area (4 pages), a kontainer, and
  two kontexts with 2-page guest areas. The pool has exactly the 11 pages
  they need, so every allocation can succeed.
- `KkmReloc` models the relocation step of `kkm_idt_descr_init`. The
  three patch blocks (lines 231-285) are one operator, `Patch`, applied
  to a table of the three sites as the code spells them: the matched
  bytes, where the offset is read, the instruction length and the
  replacement bytes. Widths are scaled: a 12-bit "u64" and an 8-bit
  "u32", the latter stored little-endian in four cells. Opcode, ModRM
  and SIB bytes keep their real values. The reference is a small x86
  decoder, with a ModRM RIP-relative form and a SIB absolute form. It
  gives the GS offset an instruction addresses at the address where it
  executes.
- `KkmDomain` is the abstract specification of the run call. It has no
  registers, page tables, guest areas or trap frames. Each kontext is in
  one of four modes: monitor code (`user`), host kernel inside the call
  (`host`), `guest`, or `exited` from the guest. Each CPU runs at most one
  guest. The guest has an instruction pointer `vrip`, and the monitor
  reads an exit record. The actions are `Call`, `Enter` (take a free
  CPU), `Execute` (complete a non-port instruction), `Exit`, `Resolve`
  (resume the guest) and `Return`. `Return` either stages an I/O exit
  one past an `out` or leaves the guest unmoved.
- `KkmKontext` defines the refinement mapping and instantiates
  `Dom == INSTANCE KkmDomain WITH ...`:
  - the mode comes from the thread's `pc`;
  - a CPU outside the host domain runs the guest of its
    `current_kontext`;
  - the guest's rip is the CPU's live rip while the payload runs, the
    trap frame's once it trapped, and the guest area's otherwise;
  - the exit record is `run`.

  `ImplementsDomain == Dom!Spec` is checked as a property.
- `KkmIdt` models what `kkm_idt_init` and `kkm_idt_descr_init` write:
  - the 256 interrupt gates, as `FillGates` over
    `intr_function_pointers` after `ReplaceNonStandard`;
  - the native and guest IDT descriptors;
  - the redirect pointer in kx global;
  - the per-cpu `last_id` table.

  Its actions are `KkmIdtInit` (with `kkm_idt_descr_init`),
  `KkmIdtCleanup` and `kkm_idt_set_id`. The getters are operators.
  Addresses are scaled to 16 bits, split 4/4/8 the way the code splits
  64 bits 16/16/32. The layout of the entry code is in assembly that is
  not under `src/`, so it is modelled from the spec:
  - stub i is at `kkm_intr_entry_0 + i * stub`;
  - the eight distinguished handlers follow the stubs;
  - `kkm_intr_fill` ends the code.

  The reference `GateTarget`/`OwnHandler`/`KxCopy` puts a gate's fields
  back together. It compares the result with the kx copy of the
  vector's own handler.
- `MCKkmIdt` has two layouts: 4-byte stubs, which fit the 2048 bytes
  copied, and 8-byte stubs, which overflow them and make init fail.
  Each layout can be linked at two kernel addresses. The run goes
  through init, failure, cleanup, re-init and `kkm_idt_set_id` on two
  CPUs. Each layout also places the three syscall-stub labels after the
  distinguished handlers (before `kkm_intr_fill`).
- `KkmIdtKx` composes `KkmIdt` with `KkmReloc`
  (`R == INSTANCE KkmReloc`). The labels are `kkm_intr_entry_0 +
  labels[i]` in kernel text (line 230). Their copies execute at
  `KKM_IDT_CODE_START_VA + labels[i]`, the address `relocated_address`
  names in the kx window (lines 237-239). `KxIdtInit` relocates the copy
  only when `kkm_idt_descr_init` gets past its checks and allocation.
  `KxIdtCleanup` frees the copy, so re-init copies and patches the
  kernel text afresh. `MCKkmIdtKx` links the `MCKkmIdt` layouts high in
  the 16-bit space (at 60000 and 61000), as the x86-64 kernel image is,
  with 12-bit displacements {0, 1500, 2047, 2048, 4095}. Those lie on
  both sides of the sign boundary and at its edges, so some GS offsets
  wrap to near 0 (addressable) and some do not.
- `MCKkmKontext` instantiates two CPUs and two kontexts of one guest.
  - k1 runs: a store to an absent page, an `out` with `rdx = 66552`
    (above 0xFFFF), a load through the high mirror, then hlt.
  - k2 runs: a load through the high mirror, a store to a read-only page,
    an `out`, a load from an address no range translates, then ud.
    k1 starts at its first instruction; k2 may start at its first
    instruction, at the `out` or at the ud (`MCEntry`), because an error exit leaves the guest where it
    stopped and the next call resumes there. Every fault branch is
    reached.
  - The monitor may hand in IF and IOPL 3.
  - Each kontext makes at most 2 calls.
  - `MCInitMemWarm` has k1's data page already written by the monitor,
    so only the read-only page faults.

## Runs

| Run | Config | Checks | Result |
|---|---|---|---|
| translate | `MCKkmTranslate.cfg` | `TypeOK`, `TranslationInsideGuestMemory` | pass, 156 states |
| kontext | `MCKkmKontext.cfg` (no preemption, threads migrate) | `TypeOK`, `KxWindowOwned`, `NativeStateRestored`, `IoExitFaithful`, `GuestCausedUnsupported`, `CallReturns`, `ImplementsDomain` | pass, 10198 states |
| kontext_window_race | `MCKkmKontextRace.cfg` (preemption, two kontexts on one core) | `KxWindowOwned` | violation |
| kontext_preempt_leak | `MCKkmKontextLeak.cfg` | `PreemptBalanced` | violation |
| lifecycle | `MCKkmLifecycle.cfg` | `NoDoubleFree`, `FailedInitRolledBack`, `ModulePagesReleased` | pass, 4551 states |
| lifecycle_kontext_leak | `MCKkmLifecycleLeak.cfg` | `KontextPagesReleased` | violation |
| kontext_pf_atomic | `MCKkmKontextPfAtomic.cfg` (preemption, pinned) | `PageFaultEfaultJustified` | violation |
| kontext_nmi | `MCKkmKontextNmi.cfg` (host NMIs, pinned, warm data page) | `GuestCausedUnsupported` | violation |
| idt | `MCKkmIdtKx.cfg` | `TypeOK`, `GatesReachHandlers`, `RelocationPreservesAccess` | pass, 18000 states |
| idt_error_code | `MCKkmIdtErrorCode.cfg` | `ErrorCodeFramesHandled` | violation |

What the properties say:
- `KxWindowOwned`: on a CPU outside the host domain, the kx window, `current_kontext` and the thread on the CPU all name the same kontext.
- `NativeStateRestored`: whenever a monitor thread runs host code inside the call, its CPU's registers equal that thread's native ones.
- `IoExitFaithful`: an I/O exit the monitor reads points one byte past an `out`, and its port is that instruction's `rdx mod 2^16`.
- `GuestCausedUnsupported`: a run call ends with -EOPNOTSUPP only when
  the vector in the guest area is the exception that the instruction at
  the trapped rip raises. The mutant that keeps the monitor's IF lets a
  host timer interrupt end a call this way.
- `CallReturns` (liveness): every run call returns.
- `ImplementsDomain` (refinement): the engine implements `KkmDomain`.
  - Guests hold CPUs exclusively.
  - A guest's own instructions move only its own rip.
  - It resumes exactly where it trapped, after a rip that travels from
    the CPU through the trap frame and the guest area and back.
  - A call ends either with an I/O exit one past an `out`, or with the
    guest unmoved. The latter covers a GP on any other opcode, which
    the spec (section 4.4) leaves unresolved, and the error paths.

  The mutant that skips copying rip from the trap info breaks it, and
  so does the one that keeps the monitor's IOPL: the payload's `out`
  then completes against a host port, which no `KkmDomain` step allows
  (`Execute` completes only non-port instructions). So
  does the kx window race: the refinement fails in
  `MCKkmKontextRace.cfg` too, because a guest's rip jumps to the other
  kontext's.
- `GatesReachHandlers`: after a successful init, every gate is a present
  interrupt gate. Its reassembled offset is the kx copy of the vector's
  own handler, and lies inside the copied interrupt code.
- `ErrorCodeFramesHandled`: every vector whose exception pushes an error
  code has a distinguished handler.
- `PreemptBalanced`: a CPU with no monitor thread on it has preemption enabled.
- `PageFaultEfaultJustified`: a run call ends with -EFAULT on a user
  page fault only if cr2 has no monitor address, the monitor page is
  unmapped, or a write hit a read-only page. It never does so for a
  page that is merely not faulted in yet or still copy-on-write (spec
  4.5, 6(e), and its scenario of a read fault at a valid address).
- `NoDoubleFree`: no page is freed twice, even when the kontainer is
  cleaned up both by init's error path and by its owner, or the IDT is
  cleaned up after a failed init.
- `FailedInitRolledBack`: an object whose init failed holds no page
  (spec section 6 (a)).
- `ModulePagesReleased`: no page last given to the IDT or the kontainer
  is ever lost, i.e. left neither free nor referred to.
- `KontextPagesReleased`: the same for the kontexts' guest areas.
- `RelocationPreservesAccess`: each relocated stub instruction is the
  same operation, on the same GS offset, as the original at its own
  address. This holds whenever that offset fits a sign-extended disp32,
  as per-cpu offsets do. Without the patch the property fails, and it
  also fails when rip is taken at the displacement instead of at the
  instruction end.

Findings (1-3 and 5 code bugs, 4 and 6 gaps in the spec; details in `PROJECT.json`):
1. **kx window race.** `kkm_mmu_set_guest_area` (line 116) runs before
   interrupts and preemption are disabled. TLC's trace:
   - k1 maps its area and is preempted;
   - k2 runs on the same core and maps its own area;
   - k2 is preempted, and k1 resumes and enters the guest;
   - the payload now runs on k2's guest area, while the trap path
     restores from k1.
2. **Preemption leak.** `get_cpu` is called on three paths and `put_cpu`
   is never called.
3. **Guest-area page leak.** `kkm_kontext_cleanup` (line 92) frees the
   two-page guest area with `free_page`, which frees one page. TLC's
   trace: one kontext is initialised and torn down, and its second page
   is lost.
4. **Error-code vectors without a distinguished handler.** The code
   gives a distinguished handler, with the extra prologue for an
   error-code frame, to exactly the eight vectors the spec lists. The
   CPU also pushes an error code for #CP (21) and #VC (29), and both
   gates point at generic stubs. The assembly is not under `src/`, so
   this follows the spec's description of the stubs.
5. **Page-fault touch in atomic context.** `kkm_process_page_fault`
   (lines 495 and 503) touches the monitor page so that the host fault
   handler resolves the fault. It runs after `get_cpu` with no
   `put_cpu`, so with preempt counts `in_atomic()` holds, and
   `faulthandler_disabled()` makes the copy fail instead. TLC's trace:
   on k1's very first call, its store to a not-yet-present page ends
   the call with -EFAULT. Without preempt counts (`Preemption = FALSE`,
   the `kontext` run) the same fault is resolved and the guest resumes.
6. **Host NMIs end guest sessions.** Clearing IF does not mask an NMI.
   The kx IDT routes vector 2 to the engine like any other vector, and
   `kkm_process_intr`'s default case (line 419) returns -EOPNOTSUPP.
   TLC's trace: an NMI arrives while k1's payload runs, and k1's call
   ends as an unsupported trap. No host NMI handler runs for it. The
   spec funnels every interrupt into the engine, and treats an
   unsupported vector as the guest's fatal fault. It does not say what
   becomes of interrupts that belong to the host, such as the perf
   counters or the NMI watchdog.

Every property of a passing run has a mutant in `PROJECT.json`. The mutant
replaces a mapped definition with a plausible bug, e.g. a dropped IOPL
clear, the port left unmasked, rip not advanced, cr3 saved after the
switch, `current_kontext` not set, the write-fault bit never tested, or any
non-zero result restarting the guest.
TLC finds each mutant's property violated.

## Bounds, fairness

- **Why two CPUs and two kontexts.** This is the smallest setting in
  which a thread can migrate, a window can be remapped by another
  kontext, and a CPU can restore another CPU's state.
- **Why two calls per kontext.** The second call starts from state that
  the first one left behind.
- **Programs.** The two programs cover every branch of both emulators:
  translation failure, supervisor fault excluded, unmapped page, read
  fault, write fault on absent/zero/ro pages, the out opcode, and a
  non-out GP.
- **Preemption count.** The count saturates at `PreemptCountCap = 3`.
  Since nothing decrements it, this keeps "zero or not" exact.
- **Fairness for monitor threads.** The passing runs use `FairSpec`, a
  kernel without involuntary preemption, as the spec's design assumes
  (one kontext pinned per core during a run, non-preemptible
  transitions). A thread in the call then keeps its CPU, so its next
  kernel step stays enabled until taken, and weak fairness is enough.
  Preemption (`Preempt`, `Resume`) appears only in the violation runs,
  where it is the behaviour of a preemptible kernel that the code is
  exposed to. With one kontext per core it changes nothing but the
  preempt count, and with two kontexts on a core or a thread migrating
  within a call it breaks the window (finding 1).
- **Fairness for payloads.** The payload's steps are weakly fair per
  CPU, because nothing can interrupt the payload with IF clear.
- **IDT bounds.** The real 256 vectors are kept, at a 16-bit address
  width. Two layouts, one that fits and one that overflows, exercise
  both outcomes of the overflow check. Two link addresses make the
  relocation from `intr_function_pointers[0]` matter.
- **No fairness for the monitor.** It is never obliged to make a call.

## Not modelled

- The content of registers and memory beyond who owns them.
- Segment selectors, cr4, TSS sp1/sp2, RF, the redzone, the SYSCALL path
  (`kkm_syscall_entry_asm`), the data written for an I/O exit (`rax`).
- Debug registers (compiled out).
- The gate fill of the kontainer's own IDT page (`kkm_kontainer_init`
  lines 68-83). Every gate goes to `kkm_trap_entry`, and no code in
  these sources loads that page: the guest loads the kx IDT.
- A native IDT size other than 0xfff. x86-64 Linux always reports
  0xfff, so the model's platform does too.
- NMIs outside the payload, and machine checks. An NMI in the
  guest-kernel domain would run the native handler, with the guest
  kernel's cr3 on the guest area's stack; those mappings are not in
  these sources. `HostNmi` is off in every passing run, so
  `CallReturns` and `GuestCausedUnsupported` are stated for a host
  without NMIs.
- A payload that never traps. `kkm_guest_kernel_start_payload` clears
  IF (line 244), so such a guest holds its core; the code marks that
  clear as temporary (lines 237 and 243), and no property takes a side
  on it.
- The byte after each relocated instruction. The absolute form is one
  byte longer and overwrites it. The stub's assembly is not under
  `src/`, so whether that byte is padding is left open; see the hazard
  at kkm_idt.c:246.

## Plan for later work

1. Model the redzone check and the RF flag in `StartPayload`, and the
   SYSCALL path, if a property comes to need them.
2. A composed run: lifecycle teardown of a kontext while its thread is
   still inside the run call. The owner of teardown is not under `src/`,
   so this run needs the spec's ordering rules.
3. Compose `KkmIdt` with `KkmKontext`, so that a trap's vector reaches
   the engine through the gate that `kkm_idt_descr_init` wrote.
   The only data the engine takes from the IDT code is the pair of
   descriptors `kkm_idt_get_desc` copies at line 124. The ordering that
   makes them valid (IDT init before any run call, no cleanup during
   one) belongs to module load and unload, which are not under `src/`.
   So the composition would check an assumption rather than the code.
4. If the monitor's memory-region call comes into scope, let a VDSO
   slot change between the three loads of the translator's VDSO branch
   (the spec forbids it during a translation today).
