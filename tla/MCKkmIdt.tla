------------------------------ MODULE MCKkmIdt ------------------------------
(* Two CPUs; 16-bit addresses.  The entry code is one of two layouts: 256 *)
(* generic stubs of 4 bytes followed by the eight distinguished handlers   *)
(* of 16 bytes and kkm_intr_fill, which fits the 2048 bytes copied; or     *)
(* stubs of 8 bytes, which overflows it.  Each may be linked at one of two *)
(* kernel addresses.                                                       *)
EXTENDS KkmIdt

CONSTANTS c1, c2

MCCpus == {c1, c2}

Special(stub) ==
  LET order == <<8, 10, 11, 12, 13, 14, 17, 30>> IN
  [n \in {order[j] : j \in 1..8} |->
     256 * stub + 16 * (CHOOSE j \in 1..8 : order[j] = n) - 16]

\* the three syscall-stub labels follow the distinguished handlers
MCLayout(entry0, stub) ==
  [entry0 |-> entry0, stub |-> stub, special |-> Special(stub),
   labels |-> <<256 * stub + 128, 256 * stub + 144, 256 * stub + 160>>,
   fill |-> 256 * stub + 8 * 16 + 64, entry_code |-> 200]

MCLayouts == {MCLayout(e, s) : e \in {8192, 40960}, s \in {4, 8}}
=============================================================================
