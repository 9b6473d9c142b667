---------------------------- MODULE KkmLifecycle ----------------------------
(***************************************************************************)
(* Allocation and release of the pages kkm owns: the global kx IDT area    *)
(* (kkm_idt_init / kkm_idt_descr_init / kkm_idt_cleanup in kkm_idt.c), a   *)
(* kontainer's page-table and IDT pages (kkm_kontainer_init / _cleanup)    *)
(* and each kontext's guest area (kkm_kontext_init / _cleanup).            *)
(*                                                                         *)
(* Physical pages are the integers 1..NPages; 0 is NULL.  An allocation of *)
(* n pages takes the lowest free block of n contiguous pages, or fails.    *)
(* free_page(va) returns the one page at va; kkm_mm_free_pages(va, n)      *)
(* returns the n pages from va.  Each init and cleanup function runs to    *)
(* completion in one step: they are called from the module's load, ioctl   *)
(* and release paths and share nothing with each other.                    *)
(***************************************************************************)
EXTENDS Integers, FiniteSetsExt

CONSTANTS
  Kontexts,             \* kontexts the monitor creates
  NPages,               \* bound: physical pages available
  KKM_GUEST_AREA_PAGES, \* pages of a guest area (two: kx window pages 0, 1)
  KKM_IDT_ALLOCATION_PAGES \* idt, idt text 0, idt text 1, kx global

Pages == 1..NPages
NULL == 0
Statuses == {"none", "init", "failed", "gone"}

VARIABLES
  free,       \* pages the page allocator holds
  idt_va,     \* kkm_idt.idt_entry.idt.va
  kkm,        \* the kontainer's guest_kernel, guest_payload and idt pages
  guest_area, \* guest_area[k]: kkm_kontext->guest_area
  status,     \* status[o]: where object o is in its init/cleanup life
  owner,      \* ghost: owner[p], the object page p was last allocated to
  dbl_free    \* ghost: a page was freed while already free

vars == <<free, idt_va, kkm, guest_area, status, owner, dbl_free>>

Objects == {"idt", "kontainer"} \cup Kontexts

Block(va, n) == IF va = NULL THEN {} ELSE va..(va + n - 1)

(***************************************************************************)
(* The page allocator (kkm_mm_allocate_page(s), not in these sources): the *)
(* lowest free block of n pages, NULL when there is none.                  *)
(***************************************************************************)
LowestFreeBlock(fr, n) ==
  LET fits == {b \in Pages : b + n - 1 <= NPages /\ Block(b, n) \subseteq fr}
  IN IF fits = {} THEN NULL ELSE Min(fits)

\* Releasing a set of pages: the allocator's free list grows; a page that
\* is already free is a double free.
Release(fr, ps) == [free |-> fr \cup ps, dbl |-> ps \cap fr # {}]

\* ghost bookkeeping: pages ps are now allocated to object o
GiveTo(ps, o) == [p \in Pages |-> IF p \in ps THEN o ELSE owner[p]]

Init ==
  /\ free = Pages
  /\ idt_va = NULL
  /\ kkm = [guest_kernel |-> NULL, guest_payload |-> NULL, idt |-> NULL]
  /\ guest_area = [k \in Kontexts |-> NULL]
  /\ status = [o \in Objects |-> "none"]
  /\ owner = [p \in Pages |-> "none"]
  /\ dbl_free = FALSE

-----------------------------------------------------------------------------
(***************************************************************************)
(* kx IDT (kkm_idt.c).                                                     *)
(***************************************************************************)

\* kkm_idt_init: memset kkm_idt, then kkm_idt_descr_init: the two kx code
\* size checks (fixed by the build, either may fail with -EINVAL), then
\* allocate KKM_IDT_ALLOCATION_PAGES pages, which may fail.  Nothing after
\* the allocation fails; no error path frees anything.
IdtInit ==
  /\ status["idt"] = "none"
  /\ \E codeFits \in BOOLEAN, allocOk \in BOOLEAN :
       LET va == IF codeFits /\ allocOk
                 THEN LowestFreeBlock(free, KKM_IDT_ALLOCATION_PAGES) ELSE NULL
           ps == Block(va, KKM_IDT_ALLOCATION_PAGES)
       IN /\ idt_va' = va
          /\ free' = free \ ps
          /\ owner' = GiveTo(ps, "idt")
          /\ status' = [status EXCEPT !["idt"] = IF va = NULL THEN "failed" ELSE "init"]
  /\ UNCHANGED <<kkm, guest_area, dbl_free>>

\* Mutant: only the first page of the IDT area returned.
IdtFreeFirstPage(va) == Block(va, 1)

\* kkm_mm_free_pages(idt_entry->idt.va, KKM_IDT_ALLOCATION_PAGES), with a
\* NULL va (init failed) freeing nothing
IdtFreed(va) == Block(va, KKM_IDT_ALLOCATION_PAGES)

\* kkm_idt_cleanup: called whether or not init succeeded.
IdtCleanup ==
  /\ status["idt"] \in {"init", "failed"}
  /\ LET r == Release(free, IdtFreed(idt_va)) IN
       /\ free' = r.free
       /\ dbl_free' = (dbl_free \/ r.dbl)
  /\ idt_va' = NULL
  /\ status' = [status EXCEPT !["idt"] = "gone"]
  /\ UNCHANGED <<kkm, guest_area, owner>>

-----------------------------------------------------------------------------
(***************************************************************************)
(* Kontainer (kkm_kontainer.c).                                            *)
(***************************************************************************)

\* Mutant: the pointers are not reset to NULL after free_page.
KontainerReleaseKeep(kk, fr) ==
  LET r == Release(fr, {kk.guest_kernel, kk.guest_payload, kk.idt} \ {NULL})
  IN [kkm |-> kk, free |-> r.free, dbl |-> r.dbl]

\* kkm_kontainer_cleanup: free_page each page that is set, and reset it.
KontainerRelease(kk, fr) ==
  LET r == Release(fr, {kk.guest_kernel, kk.guest_payload, kk.idt} \ {NULL})
  IN [kkm |-> [f \in DOMAIN kk |-> NULL], free |-> r.free, dbl |-> r.dbl]

\* Mutant: the error path returns without calling kkm_kontainer_cleanup.
KontainerUnwindNone(kk, fr) == [kkm |-> kk, free |-> fr, dbl |-> FALSE]

\* error: if (ret_val != 0) kkm_kontainer_cleanup(kkm)
KontainerUnwind(kk, fr) == KontainerRelease(kk, fr)

\* kkm_kontainer_init: three single-page allocations in order (guest
\* kernel page table, guest payload page table, IDT); the first to fail
\* ends the sequence and the error path runs the cleanup.  ok is the
\* number that succeed (an allocation with no free page fails).
KontainerInit ==
  /\ status["kontainer"] = "none"
  /\ \E ok \in 0..3 :
       LET p1 == LowestFreeBlock(free, 1)
           p2 == LowestFreeBlock(free \ {p1}, 1)
           p3 == LowestFreeBlock(free \ {p1, p2}, 1)
           kk == [guest_kernel |-> IF ok >= 1 THEN p1 ELSE NULL,
                  guest_payload |-> IF ok >= 2 THEN p2 ELSE NULL,
                  idt |-> IF ok >= 3 THEN p3 ELSE NULL]
           ps == {kk.guest_kernel, kk.guest_payload, kk.idt} \ {NULL}
           u == KontainerUnwind(kk, free \ ps)
       IN /\ \A i \in 1..ok : <<p1, p2, p3>>[i] # NULL
          /\ owner' = GiveTo(ps, "kontainer")
          /\ IF ok = 3
             THEN /\ kkm' = kk
                  /\ free' = free \ ps
                  /\ status' = [status EXCEPT !["kontainer"] = "init"]
                  /\ UNCHANGED dbl_free
             ELSE /\ kkm' = u.kkm
                  /\ free' = u.free
                  /\ dbl_free' = (dbl_free \/ u.dbl)
                  /\ status' = [status EXCEPT !["kontainer"] = "failed"]
  /\ UNCHANGED <<idt_va, guest_area>>

\* The kontainer is released once, after a successful or a failed init.
KontainerCleanup ==
  /\ status["kontainer"] \in {"init", "failed"}
  /\ LET r == KontainerRelease(kkm, free) IN
       /\ kkm' = r.kkm
       /\ free' = r.free
       /\ dbl_free' = (dbl_free \/ r.dbl)
  /\ status' = [status EXCEPT !["kontainer"] = "gone"]
  /\ UNCHANGED <<idt_va, guest_area, owner>>

-----------------------------------------------------------------------------
(***************************************************************************)
(* Kontext (kkm_kontext.c).                                                *)
(***************************************************************************)

\* kkm_kontext_cleanup: if the area is set, free_page(guest_area), which
\* returns the one page at that address, and reset the pointers.
KontextFreed(va) == Block(va, 1)

\* kkm_kontext_init: allocate KKM_GUEST_AREA_PAGES pages; on failure the
\* error path calls kkm_kontext_cleanup, which finds nothing set.
KontextInit(k) ==
  /\ status[k] = "none"
  /\ \E allocOk \in BOOLEAN :
       LET va == IF allocOk THEN LowestFreeBlock(free, KKM_GUEST_AREA_PAGES)
                 ELSE NULL
           ps == Block(va, KKM_GUEST_AREA_PAGES)
       IN /\ guest_area' = [guest_area EXCEPT ![k] = va]
          /\ free' = free \ ps
          /\ owner' = GiveTo(ps, k)
          /\ status' = [status EXCEPT ![k] = IF va = NULL THEN "failed" ELSE "init"]
  /\ UNCHANGED <<idt_va, kkm, dbl_free>>

\* Teardown of a kontext after a successful or a failed init.
KontextCleanup(k) ==
  /\ status[k] \in {"init", "failed"}
  /\ LET r == Release(free, KontextFreed(guest_area[k])) IN
       /\ free' = r.free
       /\ dbl_free' = (dbl_free \/ r.dbl)
  /\ guest_area' = [guest_area EXCEPT ![k] = NULL]
  /\ status' = [status EXCEPT ![k] = "gone"]
  /\ UNCHANGED <<idt_va, kkm, owner>>

-----------------------------------------------------------------------------
\* Everything has been created and released again.
Finished == \A o \in Objects : status[o] = "gone"

Next ==
  \/ IdtInit \/ IdtCleanup
  \/ KontainerInit \/ KontainerCleanup
  \/ \E k \in Kontexts : KontextInit(k) \/ KontextCleanup(k)
  \/ Finished /\ UNCHANGED vars

Spec == Init /\ [][Next]_vars

-----------------------------------------------------------------------------
TypeOK ==
  /\ free \subseteq Pages
  /\ idt_va \in Pages \cup {NULL}
  /\ kkm \in [{"guest_kernel", "guest_payload", "idt"} -> Pages \cup {NULL}]
  /\ guest_area \in [Kontexts -> Pages \cup {NULL}]
  /\ status \in [Objects -> Statuses]
  /\ owner \in [Pages -> Objects \cup {"none"}]
  /\ dbl_free \in BOOLEAN

\* the pages some pointer of kkm still refers to
Held ==
  Block(idt_va, KKM_IDT_ALLOCATION_PAGES)
  \cup ({kkm.guest_kernel, kkm.guest_payload, kkm.idt} \ {NULL})
  \cup UNION {Block(guest_area[k], KKM_GUEST_AREA_PAGES) : k \in Kontexts}

\* pages neither free nor referred to: lost until reboot
Lost == Pages \ (free \cup Held)

(***************************************************************************)
(* No page is freed twice: kkm_kontainer_cleanup may run twice on the same *)
(* kontainer (from init's error path and from its owner), and              *)
(* kkm_idt_cleanup runs even when init failed, so each cleanup must free   *)
(* only what is still set and reset what it freed.                         *)
(***************************************************************************)
NoDoubleFree == ~dbl_free

(***************************************************************************)
(* Spec section 6 (a): a failed init rolls back every partial allocation.  *)
(* An object whose init failed holds no page.                              *)
(***************************************************************************)
FailedInitRolledBack ==
  /\ status["kontainer"] = "failed" =>
       {kkm.guest_kernel, kkm.guest_payload, kkm.idt} = {NULL}
  /\ status["idt"] = "failed" => idt_va = NULL
  /\ \A k \in Kontexts : status[k] = "failed" => guest_area[k] = NULL

(***************************************************************************)
(* The IDT and kontainer pages are never lost: through any sequence of     *)
(* inits, failures and cleanups, every page last given to one of them is   *)
(* free again or still referred to by a pointer a later cleanup frees.     *)
(***************************************************************************)
ModulePagesReleased == \A p \in Lost : owner[p] \notin {"idt", "kontainer"}

(***************************************************************************)
(* A kontext's guest area is never lost (spec section 2: the region is     *)
(* freed on session teardown): kkm_kontext_cleanup gives back every page   *)
(* kkm_kontext_init allocated.                                             *)
(***************************************************************************)
KontextPagesReleased == \A p \in Lost : owner[p] \notin Kontexts
=============================================================================
