----------------------------- MODULE PageTable -----------------------------
(***************************************************************************)
(* hw01/pt.c and the physical memory of hw01/os.c: multi-level page tables *)
(* kept in page frames.  A page table entry is one machine word: the       *)
(* number of a frame shifted left, plus the valid bit.  The code has 5     *)
(* levels of 9 bits, a shift of 12 and words of 64 bits.                   *)
(***************************************************************************)
EXTENDS Integers, FiniteSetsExt

CONSTANTS LEVELS, BITS, SHIFT, WORD,
          NPAGES,  \* page frames
          PPN      \* the physical page numbers that are mapped

NO_MAPPING == 2^WORD - 1
INDEX == 0 .. 2^BITS - 1
VPN   == 0 .. 2^(BITS * LEVELS) - 1
Nil   == -1

ASSUME PageTableAssumption ==
    /\ {LEVELS, BITS, SHIFT, WORD, NPAGES} \subseteq Nat \ {0}
    /\ PPN \subseteq 0 .. 2^(WORD - SHIFT) - 1 /\ NPAGES <= 2^(WORD - SHIFT)
    /\ NO_MAPPING \notin PPN

\* Laws of the powers of two, which the provers do not know.
ASSUME PowerAssumption ==
    /\ 2^0 = 1 /\ {2^(SHIFT - 1), 2^(WORD - SHIFT), 2^BITS} \subseteq Nat \ {0}
    /\ 2^SHIFT = 2 * 2^(SHIFT - 1) /\ 2^WORD = 2^SHIFT * 2^(WORD - SHIFT)
    /\ \A l \in 0 .. LEVELS : 2^(l * BITS) \in Nat \ {0}
    /\ \A l \in 1 .. LEVELS : 2^(l * BITS) = 2^BITS * 2^((l - 1) * BITS)

VARIABLES
    nalloc,  \* frames handed out so far
    pages,   \* their contents
    roots,   \* frames that a caller allocated to be the root of a page table
    exited   \* errx() has ended the process
vars == <<nalloc, pages, roots, exited>>

\* Mutant: shifted one bit too far.
pteFar(ppn) == (ppn * 2^(SHIFT + 1) + 1) % 2^WORD

\* A word that refers to a frame, and what is read back from it.
pte(ppn)   == (ppn * 2^SHIFT + 1) % 2^WORD
frame(w)   == w \div 2^SHIFT
valid(w)   == w % 2 = 1

\* Mutant: the same bits of vpn at every level.
indexLow(vpn, level) == vpn % 2^BITS

index(vpn, level) == (vpn \div 2^((LEVELS - level) * BITS)) % 2^BITS

\* The walk both functions start with: the frame of the table of each level, Nil
\* below an entry that is not valid.
walk(pt, vpn) ==
    LET table[l \in 1 .. LEVELS] ==
            IF l = 1 THEN pt
            ELSE LET up == table[l - 1]
                     w  == IF up = Nil THEN 0 ELSE pages[up][index(vpn, l - 1)]
                 IN  IF valid(w) THEN frame(w) ELSE Nil
    IN  table

page_table_query(pt, vpn) ==
    LET t == walk(pt, vpn)[LEVELS]
        w == IF t = Nil THEN 0 ELSE pages[t][index(vpn, LEVELS)]
    IN  IF valid(w) THEN frame(w) ELSE NO_MAPPING

Init == nalloc = 0 /\ pages = <<>> /\ roots = {} /\ exited = FALSE

\* alloc_page_frame(): frames are numbered in the order they are asked for, and a
\* new one is full of zeros.
Zeros == [i \in INDEX |-> 0]
Contents(p) == IF p < nalloc THEN pages[p] ELSE Zeros

NewTable ==
    /\ ~exited /\ nalloc < NPAGES
    /\ nalloc' = nalloc + 1
    /\ pages' = [p \in 0 .. nalloc |-> Contents(p)]
    /\ roots' = roots \cup {nalloc}
    /\ UNCHANGED exited

\* page_table_update() with ppn = NO_MAPPING; there may be nothing to destroy.
Destroy(pt, vpn) ==
    /\ ~exited
    /\ page_table_query(pt, vpn) # NO_MAPPING
    /\ pages' = [pages EXCEPT ![walk(pt, vpn)[LEVELS]][index(vpn, LEVELS)] = 0]
    /\ UNCHANGED <<nalloc, roots, exited>>

\* The level of the last table on the walk, and the tables of the path once the
\* missing ones have been allocated.
LastLevel(pt, vpn) == Max({l \in 1 .. LEVELS : walk(pt, vpn)[l] # Nil})

\* Mutant: one new frame for all missing levels.
PathShared(pt, vpn) ==
    LET last == LastLevel(pt, vpn)
    IN  [l \in 1 .. LEVELS |-> IF l <= last THEN walk(pt, vpn)[l] ELSE nalloc]

Path(pt, vpn) ==
    LET last == LastLevel(pt, vpn)
    IN  [l \in 1 .. LEVELS |-> IF l <= last THEN walk(pt, vpn)[l] ELSE nalloc + (l - last - 1)]

Missing(pt, vpn) == LEVELS - LastLevel(pt, vpn)

\* page_table_update() that creates or replaces a mapping.
Create(pt, vpn, ppn) ==
    /\ ~exited /\ nalloc + Missing(pt, vpn) <= NPAGES
    /\ LET path == Path(pt, vpn)
           Entry(l) == IF l = LEVELS THEN pte(ppn) ELSE pte(path[l + 1])
       IN  /\ nalloc' = nalloc + Missing(pt, vpn)
           /\ pages' = [p \in 0 .. nalloc' - 1 |-> [i \in INDEX |->
                  IF \E l \in LastLevel(pt, vpn) .. LEVELS : p = path[l] /\ i = index(vpn, l)
                  THEN Entry(CHOOSE l \in LastLevel(pt, vpn) .. LEVELS :
                                 p = path[l] /\ i = index(vpn, l))
                  ELSE Contents(p)[i]]]
    /\ UNCHANGED <<roots, exited>>

page_table_update(pt, vpn) ==
    Destroy(pt, vpn) \/ \E ppn \in PPN : Create(pt, vpn, ppn)

\* alloc_page_frame() ends the process, for a new root or in the middle of an
\* update: no frame is left, or mmap() fails.
AllocFails ==
    /\ ~exited /\ exited' = TRUE
    /\ UNCHANGED <<nalloc, pages, roots>>

Next == NewTable \/ AllocFails \/ \E pt \in roots, vpn \in VPN : page_table_update(pt, vpn)

Spec == Init /\ [][Next]_vars

-----------------------------------------------------------------------------
\* The tables behave as independent maps: an update changes what the query of
\* its own page in its own table returns, and of no other (lines 6-66).
Maps == [t \in 0 .. NPAGES - 1 |->
            IF t \in roots THEN [v \in VPN |-> page_table_query(t, v)] ELSE <<>>]
Abstract == INSTANCE PageMap WITH map <- Maps, Table <- 0 .. NPAGES - 1,
                                  Unmapped <- NO_MAPPING
PageMapSpec == Abstract!Spec

\* Every table on a walk is a frame that has been allocated, so phys_to_virt()
\* never returns NULL and a leaf entry is never taken for a table, whatever
\* physical page numbers are mapped (lines 12, 34, 50).
WalksStayInMemory ==
    \A pt \in roots, v \in VPN, l \in 1 .. LEVELS : walk(pt, v)[l] \in {Nil} \cup 0 .. nalloc - 1

\* Two walks share a table only where they share the prefix of the virtual page
\* number that leads to it: no frame is used as two tables.
TablesAreTrees ==
    LET w == [p \in roots |-> [v \in VPN |-> walk(p, v)]]
    IN  \A p, q \in roots, u, v \in VPN, l, k \in 1 .. LEVELS :
            w[p][u][l] # Nil /\ w[p][u][l] = w[q][v][k] =>
                /\ p = q /\ l = k
                /\ \A j \in 1 .. l - 1 : index(u, j) = index(v, j)
=============================================================================
