----------------------------------- MODULE Heap ----------------------------------
(***************************************************************************)
(* user/umalloc.c: malloc, free and morecore on a ring of free blocks in the *)
(* order of their addresses, which are counted in headers.  A block begins   *)
(* with its header; base is a block of none, below all others.  Memory that  *)
(* no header of a block is in holds what the program likes, and 0 here.       *)
(* Requests are below the 2^31 bytes that sbrk, which takes an int, can give.  *)
(***************************************************************************)
EXTENDS Integers, FiniteSets, FiniteSetsExt

CONSTANTS Requests,        \* what malloc is called with, in bytes
          HeaderSize,
          MinUnits,        \* the least morecore asks for
          Base, Start, MaxBrk   \* base; where the heap begins, and where sbrk fails

VARIABLES ptr, size,       \* headers
          freep,           \* or 0
          brk,             \* the end of memory
          obtained,        \* by morecore
          held,            \* the blocks the program has
          want, grown      \* the units malloc looks for, or 0; whether it asked for more

heapVars == <<ptr, size, freep, brk, obtained, held, want, grown>>

Addr == Base..MaxBrk
Units(nbytes) == (nbytes + HeaderSize - 1) \div HeaderSize + 1

Init == /\ ptr = [a \in Addr |-> 0] /\ size = [a \in Addr |-> 0]
        /\ freep = 0 /\ brk = Start /\ obtained = {} /\ held = {}
        /\ want = 0 /\ grown = FALSE

\* The k-th block of the ring after freep.
Nth[k \in 0..Cardinality(Addr)] == IF k = 0 THEN freep ELSE ptr[Nth[k - 1]]
\* The first place in the ring, from k on, of a block such that P; it is taken after
\* less than a round, or never.
Places(k, P(_)) == {n \in k..Cardinality(Addr) : P(Nth[n])}

-------------------------------------------------------------------------------
(* free *)

\* bp comes after p in the ring.
After(bp, p) == \/ p < bp /\ bp < ptr[p]
                \/ p >= ptr[p] /\ (p < bp \/ bp < ptr[p])
Before(bp) == Nth[Min(Places(0, LAMBDA p : After(bp, p)))]

\* bp, which is in front of p's successor, becomes p's successor, or part of p.
JoinLower(x, p, bp) ==
  IF p + x.size[p] # bp THEN [x EXCEPT !.ptr[p] = bp]
  ELSE [x EXCEPT !.size[p] = @ + x.size[bp], !.ptr[p] = x.ptr[bp],
                 !.size[bp] = 0, !.ptr[bp] = 0]
JoinUpper(x, p, bp) ==
  LET q == x.ptr[p]
  IN IF bp + x.size[bp] # q THEN [x EXCEPT !.ptr[bp] = q]
     ELSE [x EXCEPT !.size[bp] = @ + x.size[q], !.ptr[bp] = x.ptr[q],
                    !.size[q] = 0, !.ptr[q] = 0]
\* the block of n units at bp
GiveBack(bp, n) ==
  \E p \in {Before(bp)} :
    \E x \in {JoinLower(JoinUpper([ptr |-> ptr, size |-> [size EXCEPT ![bp] = n]], p, bp), p, bp)} :
      ptr' = x.ptr /\ size' = x.size /\ freep' = p
Free(bp) == /\ want = 0 /\ bp \in held
            /\ GiveBack(bp, size[bp])
            /\ held' = held \ {bp}
            /\ UNCHANGED <<brk, obtained, want, grown>>

-------------------------------------------------------------------------------
(* malloc *)

Call(nbytes) == /\ want = 0
                /\ want' = Units(nbytes) /\ grown' = FALSE
                /\ freep' = IF freep = 0 THEN Base ELSE freep
                /\ ptr' = IF freep = 0 THEN [ptr EXCEPT ![Base] = Base] ELSE ptr
                /\ UNCHANGED <<size, brk, obtained, held>>

\* One round, which ends at freep.
Round == Min(Places(1, LAMBDA p : p = freep))
Fits == {k \in 1..Round : size[Nth[k]] >= want}

\* Mutant: a block that fits exactly is cut as well.
Cut_Always(p, prevp) == size' = [size EXCEPT ![p] = @ - want, ![p + size[p] - want] = want]
                        /\ UNCHANGED ptr
\* All of p, or its upper part.
Cut(p, prevp) ==
  IF size[p] = want THEN ptr' = [ptr EXCEPT ![prevp] = ptr[p], ![p] = 0] /\ UNCHANGED size
  ELSE size' = [size EXCEPT ![p] = @ - want, ![p + size[p] - want] = want] /\ UNCHANGED ptr
Take == /\ want > 0 /\ Fits # {}
        /\ LET k == Min(Fits)
               p == Nth[k]
           IN /\ Cut(p, Nth[k - 1])
              /\ held' = held \cup {p + size[p] - want}
              /\ freep' = Nth[k - 1]
        /\ want' = 0 /\ UNCHANGED <<brk, obtained, grown>>

\* morecore, when no block fits
Asked == Max({want, MinUnits})
MoreCore == /\ want > 0 /\ Fits = {}
            /\ IF brk + Asked <= MaxBrk
               THEN /\ GiveBack(brk, Asked)
                    /\ brk' = brk + Asked
                    /\ obtained' = obtained \cup brk..(brk + Asked - 1)
                    /\ grown' = TRUE /\ UNCHANGED want
               ELSE want' = 0 /\ UNCHANGED <<ptr, size, freep, brk, obtained, grown>>
            /\ UNCHANGED held

\* The program itself calls sbrk.
Sbrk == /\ want = 0 /\ brk < MaxBrk /\ brk' = brk + 1
        /\ UNCHANGED <<ptr, size, freep, obtained, held, want, grown>>

Next == \/ \E n \in Requests : Call(n)
        \/ \E bp \in held : Free(bp)
        \/ Take \/ MoreCore \/ Sbrk
Spec == Init /\ [][Next]_heapVars

-------------------------------------------------------------------------------
(* Blocks that are free and blocks the program has make up what sbrk gave, each *)
(* unit once; free ones are in order and never touch; free finds its place; and  *)
(* malloc asks for memory once at most.                                          *)

Ring == {Nth[k] : k \in 0..Round}
Block(a) == a..(a + size[a] - 1)
Tiled == /\ UNION {Block(a) : a \in Ring \cup held} = obtained
         /\ FoldSet(LAMBDA a, n : n + size[a], 0, Ring) + FoldSet(LAMBDA a, n : n + size[a], 0, held)
              = Cardinality(obtained)
Apart == \A a \in Ring \ {Base} : size[a] > 0 /\ ~ \E b \in Ring : a + size[a] = b
InOrder == \A a \in Ring : ptr[a] = IF \A b \in Ring : b <= a THEN Base
                                    ELSE Min({b \in Ring : b > a})
FreeEnds == \A bp \in held : Places(0, LAMBDA p : After(bp, p)) # {}
AsksOnce == want > 0 /\ grown => Fits # {}
HeapInv == freep # 0 => /\ Places(1, LAMBDA p : p = freep) # {} /\ Base \in Ring
                        /\ Tiled /\ Apart /\ InOrder /\ FreeEnds /\ AsksOnce
===============================================================================
