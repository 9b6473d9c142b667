---------------------------- MODULE MCKkmKontext ----------------------------
(* Two CPUs, two kontexts of one kontainer (vCPUs of one guest), each with *)
(* a short guest program that page-faults on shared memory, does an out   *)
(* hypercall, and ends in an instruction that leaves the run call.         *)
EXTENDS KkmKontext, TLC

CONSTANTS c1, c2, k1, k2

MCCpus == {c1, c2}
MCKontexts == {k1, k2}
MCMIB == 1
MCMaxCalls == 2

\* the VDSO slot is not registered
MCVdsoSlot == [used |-> FALSE, memory_size |-> 0, userspace_addr |-> 0]

\* guest data addresses: a page of low guest memory, the same page through
\* the high mirror, a page the monitor mapped read-only, and an address no
\* range translates
DataLow == 100
DataHigh == Tr!KKM_GUEST_VA_OFFSET + 100
DataRO == 200
DataNone == 1

Ins(op, va, rdx) == [op |-> op, va |-> va, rdx |-> rdx]

\* kontext k1 from rip 2, kontext k2 from rip 10 on (low guest memory)
MCProgram ==
  (2 :> Ins("store", DataLow, 0) @@ 3 :> Ins("out", 0, 66552)
   @@ 4 :> Ins("load", DataHigh, 0) @@ 5 :> Ins("hlt", 0, 0))
  @@ (10 :> Ins("load", DataHigh, 0) @@ 11 :> Ins("store", DataRO, 0)
      @@ 12 :> Ins("out", 0, 1016) @@ 13 :> Ins("load", DataNone, 0)
      @@ 14 :> Ins("ud", 0, 0))

\* the monitor may start k2 at its first instruction, at the out, or at the
\* ud: a call that ends in an error leaves the guest where it stopped, so
\* each later instruction is reached only from an entry of its own
MCEntry == (k1 :> {2}) @@ (k2 :> {10, 12, 14})

\* the monitor may hand in IF and IOPL set
MCInitFlags == [iopl : {0, 3}, if : BOOLEAN]

MCInitMem ==
  (Tr!KKM_KM_USER_MEM_BASE + DataLow :> "absent")
  @@ (Tr!KKM_KM_USER_MEM_BASE + DataRO :> "ro")

\* the monitor has already written the data page (it loads the guest image
\* before the first run call), so only the read-only page can fault
MCInitMemWarm ==
  (Tr!KKM_KM_USER_MEM_BASE + DataLow :> "rw")
  @@ (Tr!KKM_KM_USER_MEM_BASE + DataRO :> "ro")

\* threads may run on either CPU
MCAffinity == [k \in MCKontexts |-> MCCpus]

\* each kontext pinned to a core of its own
MCAffinityPinned == (k1 :> {c1}) @@ (k2 :> {c2})

\* both kontexts pinned to the same core
MCAffinityShared == [k \in MCKontexts |-> {c1}]
=============================================================================
