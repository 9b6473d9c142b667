----------------------------- MODULE MCKkmIdtKx -----------------------------
(* The layouts of MCKkmIdt linked high in the 16-bit space, as the x86-64  *)
(* kernel image is, so that the syscall stub's 12-bit displacements reach *)
(* per-cpu offsets near 0 by wrapping around; displacements on both sides *)
(* of the sign boundary and at its edges.                                  *)
EXTENDS MCKkmIdt, KkmIdtKx

MCKxLayouts == {MCLayout(e, s) : e \in {60000, 61000}, s \in {4, 8}}
MCDisps == {0, 1500, 2047, 2048, 4095}
=============================================================================
