------------------------------ MODULE KkmReloc ------------------------------
(***************************************************************************)
(* The relocation step of kkm_idt_descr_init (kkm_idt.c): after the        *)
(* interrupt and syscall entry code is copied to the kx text page, three   *)
(* GS-relative, RIP-relative instructions of the syscall stub are          *)
(* rewritten into GS-relative absolute form, because the copy executes at  *)
(* another address than the one their displacement is relative to.        *)
(*                                                                         *)
(* Widths are scaled: an address ("uint64_t") has AddrBits bits, a         *)
(* displacement ("uint32_t") DispBits bits, stored little-endian in four   *)
(* byte cells of DispBits \div 4 bits each.  Opcode, ModRM and SIB bytes   *)
(* keep their real values.  The truncation, sign extension and carry       *)
(* behaviour of the code's arithmetic is the same at every width.          *)
(***************************************************************************)
EXTENDS Integers, Sequences

CONSTANTS
  AddrBits,    \* width of an address (64 in the build)
  DispBits,    \* width of a displacement (32 in the build)
  InsnAddrs,   \* where the linker may place a labelled instruction
  Disps,       \* displacements the assembler may emit
  KxExecAddrs  \* addresses at which the copied instruction may execute

ASSUME DispBits % 4 = 0 /\ DispBits < AddrBits

ADDR_MOD == 2 ^ AddrBits
DISP_MOD == 2 ^ DispBits
CELL_MOD == 2 ^ (DispBits \div 4)   \* one byte of a displacement

\* instruction bytes at offsets 0..MaxLen-1 (the longest rewritten form)
MaxLen == 9
Offsets == 0..(MaxLen - 1)

\* the byte that follows a labelled instruction in the stub
FOLLOWING_BYTE == 144

(***************************************************************************)
(* The three patch sites, as the code spells them: the bytes compared at   *)
(* insn_addr, where the 32-bit offset is read, the instruction length that *)
(* gives rip_value, the replacement bytes and where the new offset is      *)
(* stored.                                                                 *)
(***************************************************************************)
Sites == 1..3
Site ==
  [i \in Sites |->
    CASE i = 1 ->  \* mov %rsp,%gs:<offset>(%rip)
           [match |-> <<101, 72, 137, 37>>, dispAt |-> 4, len |-> 8,
            repl |-> <<101, 72, 137, 36, 37>>, newDispAt |-> 5]
      [] i = 2 ->  \* mov %gs:<offset>(%rip),%rsp
           [match |-> <<101, 72, 139, 37>>, dispAt |-> 4, len |-> 8,
            repl |-> <<101, 72, 139, 36, 37>>, newDispAt |-> 5]
      [] i = 3 ->  \* push %gs:<offset>(%rip)
           [match |-> <<101, 255, 53>>, dispAt |-> 3, len |-> 7,
            repl |-> <<101, 255, 52, 37>>, newDispAt |-> 4]]

\* *(uint32_t *)(m + i), and the store of v there
ReadU32(m, i) ==
  m[i] + m[i + 1] * CELL_MOD + m[i + 2] * CELL_MOD ^ 2 + m[i + 3] * CELL_MOD ^ 3
WriteU32(m, i, v) ==
  [o \in Offsets |->
     IF o \in i..(i + 3) THEN (v \div (CELL_MOD ^ (o - i))) % CELL_MOD ELSE m[o]]

\* The instruction as assembled at a site, with displacement d, followed
\* by the next instruction's first byte.
Assembled(i, d) ==
  LET s == Site[i]
      bytes == [o \in Offsets |->
                  IF o < Len(s.match) THEN s.match[o + 1] ELSE FOLLOWING_BYTE]
  IN WriteU32(bytes, s.dispAt, d)

VARIABLES
  text,   \* text[i]: the bytes at kkm_syscall_label_i in kernel text
  insn,   \* insn[i]: the address of kkm_syscall_label_i
  kx,     \* kx[i]: the bytes of the copy of label i in idt_text_page0
  exec,   \* exec[i]: the address the copy of label i executes at
  done    \* the relocation step has run

vars == <<text, insn, kx, exec, done>>

\* The copied code is byte-for-byte the kernel text (memcpy, line 201).
Init ==
  /\ \E d \in [Sites -> Disps] : text = [i \in Sites |-> Assembled(i, d[i])]
  /\ insn \in [Sites -> InsnAddrs]
  /\ exec \in [Sites -> KxExecAddrs]
  /\ kx = text
  /\ done = FALSE

\* Mutant: rip taken at the start of the displacement, not the instruction end.
RipValueAtDisp(addr, s) == addr + s.dispAt

\* rip_value = (uint64_t)(insn_addr + 8), resp. + 7 for the push
RipValue(addr, s) == addr + s.len

\* The bytes at insn_addr match the pattern.
Matches(m, s) == \A j \in 1..Len(s.match) : m[j - 1] = s.match[j]

\* One patch block: if the kernel-text instruction matches, compute the
\* GS-relative offset in 64 bits, write the absolute form into the copy and
\* store the offset truncated to 32 bits after it; otherwise leave the copy.
Patch(i) ==
  LET s == Site[i]
      offset == ReadU32(text[i], s.dispAt)
      gs_relative_offset == (RipValue(insn[i], s) + offset) % ADDR_MOD
      head == [o \in Offsets |->
                 IF o < Len(s.repl) THEN s.repl[o + 1] ELSE kx[i][o]]
  IN IF Matches(text[i], s)
     THEN WriteU32(head, s.newDispAt, gs_relative_offset % DISP_MOD)
     ELSE kx[i]

\* The relocation code of kkm_idt_descr_init: the three blocks in turn.
Relocate ==
  /\ ~done
  /\ kx' = [i \in Sites |-> Patch(i)]
  /\ done' = TRUE
  /\ UNCHANGED <<text, insn, exec>>

Next == Relocate \/ (done /\ UNCHANGED vars)

Spec == Init /\ [][Next]_vars

-----------------------------------------------------------------------------
(***************************************************************************)
(* Reference: the x86-64 decoding of a GS-prefixed instruction with an     *)
(* optional REX.W, one opcode byte and a ModRM memory operand with mod 00: *)
(* rm 101 is RIP-relative disp32, rm 100 with SIB base 101 and index 100   *)
(* is absolute disp32.  The GS offset it addresses when executed at addr.  *)
(***************************************************************************)
Sext(v) == IF v >= DISP_MOD \div 2 THEN v - DISP_MOD ELSE v

OpAt(m) == IF m[1] = 72 THEN 2 ELSE 1
ModRM(m) == m[OpAt(m) + 1]
IsRipRel(m) == ModRM(m) % 8 = 5
IsAbs(m) ==
  /\ ModRM(m) % 8 = 4
  /\ m[OpAt(m) + 2] % 8 = 5
  /\ (m[OpAt(m) + 2] \div 8) % 8 = 4

GsOffset(m, addr) ==
  IF IsRipRel(m)
  THEN (addr + OpAt(m) + 6 + Sext(ReadU32(m, OpAt(m) + 2))) % ADDR_MOD
  ELSE (Sext(ReadU32(m, OpAt(m) + 3)) + ADDR_MOD) % ADDR_MOD

\* the instruction's operation: prefix, REX, opcode and ModRM reg field
Operation(m) ==
  <<m[0], OpAt(m) = 2, m[OpAt(m)], (ModRM(m) \div 8) % 8>>

\* a GS offset an absolute disp32 can address (sign-extended)
Addressable(g) == g < DISP_MOD \div 2 \/ g >= ADDR_MOD - DISP_MOD \div 2

(***************************************************************************)
(* The relocated syscall stub does what the original did: after the        *)
(* relocation step, each copied instruction is the same operation on the   *)
(* same GS offset as the kernel-text instruction at its own address,       *)
(* wherever the copy executes, whenever that offset is addressable by an   *)
(* absolute disp32 (as every per-cpu variable is).                         *)
(***************************************************************************)
RelocationPreservesAccess ==
  done =>
    \A i \in Sites :
      LET g == GsOffset(text[i], insn[i]) IN
      Addressable(g) =>
        /\ IsRipRel(kx[i]) \/ IsAbs(kx[i])
        /\ Operation(kx[i]) = Operation(text[i])
        /\ GsOffset(kx[i], exec[i]) = g
=============================================================================
