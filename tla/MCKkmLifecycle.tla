--------------------------- MODULE MCKkmLifecycle ---------------------------
(* The kx IDT, one kontainer and two kontexts, with exactly the pages they *)
(* need, so that every allocation may succeed or fail.                     *)
EXTENDS KkmLifecycle

CONSTANTS k1, k2

MCKontexts == {k1, k2}
MCGuestAreaPages == 2
MCIdtAllocationPages == 4
MCNPages == MCIdtAllocationPages + 3 + 2 * MCGuestAreaPages
=============================================================================
