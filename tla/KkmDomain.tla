------------------------------ MODULE KkmDomain ------------------------------
(***************************************************************************)
(* What the run call promises the monitor, with no CPU registers, page     *)
(* tables, guest areas or trap frames in sight.  Each kontext is a virtual *)
(* CPU whose guest runs a program; its monitor thread calls into the       *)
(* kernel, the guest runs on some physical CPU that no other guest holds,  *)
(* and leaves it when something needs emulation.  The emulator either      *)
(* resolves the cause and lets the guest run again, or completes the call: *)
(* an out instruction becomes an I/O exit past the instruction, anything   *)
(* else returns with the guest where it stopped.  The guest's own          *)
(* instructions only move its instruction pointer along the program; port  *)
(* I/O never completes inside the guest.                                   *)
(*                                                                         *)
(* KkmKontext implements this specification under the mapping it defines   *)
(* (ImplementsDomain).                                                     *)
(***************************************************************************)
EXTENDS Integers

CONSTANTS
  Cpus,       \* physical CPUs
  Kontexts,   \* virtual CPUs
  NoKontext,  \* model value: no guest
  Program     \* guest code: address -> [op, va, rdx]

VARIABLES
  mode,       \* mode[k]: monitor "user" code, "host" kernel in the call,
              \* "guest" running, or "exited" from the guest to the host
  guest_on,   \* guest_on[c]: the kontext whose guest CPU c executes
  vrip,       \* vrip[k]: the guest's instruction pointer
  exit_rec    \* exit_rec[k]: the exit record the monitor reads

vars == <<mode, guest_on, vrip, exit_rec>>

PortOps == {"out", "in"}

Init ==
  /\ mode = [k \in Kontexts |-> "user"]
  /\ guest_on = [c \in Cpus |-> NoKontext]
  /\ vrip \in [Kontexts -> DOMAIN Program]
  /\ exit_rec = [k \in Kontexts |-> [exit |-> "unknown", port |-> 0]]

Call(k) ==
  /\ mode[k] = "user"
  /\ mode' = [mode EXCEPT ![k] = "host"]
  /\ UNCHANGED <<guest_on, vrip, exit_rec>>

\* The guest takes a CPU no guest holds.
Enter(k, c) ==
  /\ mode[k] = "host"
  /\ guest_on[c] = NoKontext
  /\ mode' = [mode EXCEPT ![k] = "guest"]
  /\ guest_on' = [guest_on EXCEPT ![c] = k]
  /\ UNCHANGED <<vrip, exit_rec>>

\* The guest completes an instruction other than port I/O.
Execute(k) ==
  /\ mode[k] = "guest"
  /\ vrip[k] \in DOMAIN Program
  /\ Program[vrip[k]].op \notin PortOps
  /\ vrip' = [vrip EXCEPT ![k] = IF Program[@].op = "spin" THEN @ ELSE @ + 1]
  /\ UNCHANGED <<mode, guest_on, exit_rec>>

\* The guest leaves its CPU where it stopped.
Exit(k, c) ==
  /\ guest_on[c] = k
  /\ mode[k] = "guest"
  /\ mode' = [mode EXCEPT ![k] = "exited"]
  /\ guest_on' = [guest_on EXCEPT ![c] = NoKontext]
  /\ UNCHANGED <<vrip, exit_rec>>

\* The cause is resolved and the guest will run again.
Resolve(k) ==
  /\ mode[k] = "exited"
  /\ mode' = [mode EXCEPT ![k] = "host"]
  /\ exit_rec' = [exit_rec EXCEPT ![k].exit = "unknown"]
  /\ UNCHANGED <<guest_on, vrip>>

\* The call completes: an I/O exit past an out instruction, reporting the
\* low 16 bits of its port operand, or no exit with the guest unmoved.
Return(k) ==
  /\ mode[k] = "exited"
  /\ mode' = [mode EXCEPT ![k] = "user"]
  /\ \/ /\ vrip[k] \in DOMAIN Program
        /\ Program[vrip[k]].op = "out"
        /\ vrip' = [vrip EXCEPT ![k] = @ + 1]
        /\ exit_rec' = [exit_rec EXCEPT ![k] =
                         [exit |-> "io", port |-> Program[vrip[k]].rdx % 65536]]
     \/ /\ exit_rec' = [exit_rec EXCEPT ![k].exit = "unknown"]
        /\ UNCHANGED vrip
  /\ UNCHANGED guest_on

Next ==
  \E k \in Kontexts :
    \/ Call(k) \/ Execute(k) \/ Resolve(k) \/ Return(k)
    \/ \E c \in Cpus : Enter(k, c) \/ Exit(k, c)

Spec == Init /\ [][Next]_vars
=============================================================================
