---------------------------------- MODULE Memory ----------------------------------
(***************************************************************************)
(* kernel/kalloc.c, kernel/vm.c, kernel/exec.c and the parts of kernel/proc.c *)
(* that build and drop address spaces: pages of physical memory, three-level  *)
(* page tables, and the calls that grow, copy, replace, free and cross them.  *)
(* A process builds its own tables and kmem.lock serialises the free list, so *)
(* a call is one step; what other CPUs do to it is to take pages: of those    *)
(* that are free, a call gets any number, "room", before kalloc returns 0.    *)
(***************************************************************************)
EXTENDS Integers, Sequences, FiniteSets, SequencesExt, FiniteSetsExt, Functions

CONSTANTS Task, First,       \* slots of the process table; the one of init
          NPAGES,            \* pages of RAM between end and PHYSTOP
          PGSIZE, FAN,       \* bytes in a page; entries in a page-table page
          Image,             \* programs: sequences of segments
          Args, USERSTACK, MAXARG,
          Delta,             \* what sbrk is called with
          MaxCalls           \* bounds the calls, and stores, of a behaviour

VARIABLES free,              \* kmem.freelist
          data,              \* what the bytes of each page hold
          task,              \* per slot: state, size, trapframe, page table
          kbuf,              \* bytes on their way through the kernel
          broken,            \* a panic, or a page freed twice
          calls

memVars == <<free, data, task, kbuf, broken, calls>>

Page == 1..NPAGES
Trampoline == 0                        \* the page of kernel text it is on
MAXPAGE == FAN * FAN * FAN             \* MAXVA, in pages
TRAMPOLINE == MAXPAGE - 1
TRAPFRAME == MAXPAGE - 2
Offset == 0..(PGSIZE - 1)
Byte == {"junk", "zero", "text", "args", "user"}
Full(b) == [i \in Offset |-> b]

PageOf(a) == a \div PGSIZE
RoundUp(n) == (n + PGSIZE - 1) \div PGSIZE               \* PGROUNDUP, in pages
Bad(u) == [u EXCEPT !.ok = FALSE]
Pages(lo, hi) == [i \in 1..(hi - lo) |-> lo + i - 1]     \* from lo up to, not with, hi

\* The pages of lower tables, by the part of the address that selects them.
NoTable == [root |-> 0, lower |-> << >>, leaf |-> << >>]
TableKeys(v) == << <<1, v \div (FAN * FAN)>>, <<0, v \div FAN>> >>
Tables(pt) == (Range(pt.lower) \cup {pt.root}) \ {0}
UserPages(pt) == {v \in DOMAIN pt.leaf : v \notin {TRAMPOLINE, TRAPFRAME}}

-------------------------------------------------------------------------------
(* The allocator and the page tables, on the state u of one call: the page   *)
(* table it builds, what it left free, and whether all it asked for was done. *)

Then(u, F(_)) == IF u.ok THEN F(u) ELSE u
Else(u, F(_)) == IF u.ok THEN u ELSE F(u)
ForEach(u, seq, F(_, _)) == FoldLeft(LAMBDA x, k : IF x.ok THEN F(x, k) ELSE x, u, seq)

Kalloc(u) == IF u.room = 0 \/ u.free = {} THEN Bad(u)
             ELSE LET pg == Min(u.free)
                  IN [u EXCEPT !.free = @ \ {pg}, !.room = @ - 1, !.page = pg,
                               !.data[pg] = Full("junk")]

Kfree(pg, u) == [u EXCEPT !.broken = @ \/ pg \notin Page \ u.free,
                          !.free = @ \cup ({pg} \cap Page),
                          !.data = [q \in Page |-> IF q = pg THEN Full("junk") ELSE @[q]]]
KfreeAll(u, S) == FoldSet(Kfree, u, S)

\* Adds the lower tables of page v that are missing.
Walk(u, v) == ForEach(u, TableKeys(v), LAMBDA x, k :
                IF k \in DOMAIN x.pt.lower THEN x
                ELSE Then(Kalloc(x), LAMBDA y : [y EXCEPT !.pt.lower = @ @@ (k :> y.page)]))

Mappages(u, v, pa, perm) ==
  Then(Walk(u, v), LAMBDA x :
    [x EXCEPT !.broken = @ \/ v \in DOMAIN x.pt.leaf,
              !.pt.leaf = (v :> [pa |-> pa, perm |-> perm]) @@ @])

Uvmunmap(u, vs, doFree) ==
  LET gone == vs \cap DOMAIN u.pt.leaf
  IN [KfreeAll(u, IF doFree THEN {u.pt.leaf[v].pa : v \in gone} ELSE {})
      EXCEPT !.pt.leaf = Restrict(@, DOMAIN @ \ gone)]

Uvmdealloc(u, old, new) ==      \* new is a uint64: below zero, it is beyond old
  IF new < 0 \/ new >= old THEN u ELSE Uvmunmap(u, RoundUp(new)..(RoundUp(old) - 1), TRUE)

Freewalk(u) == [KfreeAll([u EXCEPT !.broken = @ \/ u.pt.leaf # << >>], Tables(u.pt))
                EXCEPT !.pt = NoTable]

Uvmfree(u, sz) == Freewalk(Uvmunmap(u, 0..(RoundUp(sz) - 1), TRUE))

\* A page for v and its contents, or nothing at all.
\* Mutant: the page is kept when it cannot be mapped.
AddPage_Leak(u, v, bytes, perm) ==
  Then(Kalloc(u), LAMBDA x : Mappages([x EXCEPT !.data[x.page] = bytes], v, x.page, perm))
AddPage(u, v, bytes, perm) ==
  Then(Kalloc(u), LAMBDA x : Else(Mappages([x EXCEPT !.data[x.page] = bytes], v, x.page, perm),
                                  LAMBDA y : Kfree(x.page, y)))

Uvmalloc(u, old, new, perm) ==
  ForEach(u, Pages(RoundUp(old), RoundUp(new)), LAMBDA x, v :
    Else(AddPage(x, v, Full("zero"), perm \cup {"R", "U"}),
         LAMBDA y : Uvmdealloc(y, v * PGSIZE, RoundUp(old) * PGSIZE)))

Uvmcopy(u, old, sz) ==
  ForEach(u, Pages(0, RoundUp(sz)), LAMBDA x, v :
    IF v \notin DOMAIN old.leaf THEN x
    ELSE Else(AddPage(x, v, x.data[old.leaf[v].pa], old.leaf[v].perm),
              LAMBDA y : Uvmunmap(y, 0..(v - 1), TRUE)))

Uvmclear(u, v) == [u EXCEPT !.broken = @ \/ v \notin DOMAIN u.pt.leaf,
                            !.pt.leaf[v].perm = @ \ {"U"}]

ProcPagetable(u, trapframe) ==
  Then(Kalloc(u), LAMBDA a :
    Then(Else(Mappages([a EXCEPT !.pt = [NoTable EXCEPT !.root = a.page]],
                       TRAMPOLINE, Trampoline, {"R", "X"}),
              LAMBDA b : Uvmfree(b, 0)),
         LAMBDA b : Else(Mappages(b, TRAPFRAME, trapframe, {"R", "W"}),
                         LAMBDA c : Uvmfree(Uvmunmap(c, {TRAMPOLINE}, FALSE), 0))))

ProcFreepagetable(u, sz) == Uvmfree(Uvmunmap(u, {TRAMPOLINE, TRAPFRAME}, FALSE), sz)

\* A page that sbrk left for its first use; with the sbrk of this kernel, none is.
Ismapped(pt, v) == v \in DOMAIN pt.leaf
Vmfault(u, sz, v) == IF v * PGSIZE >= sz \/ Ismapped(u.pt, v) THEN Bad(u)
                     ELSE AddPage(u, v, Full("zero"), {"R", "W", "U"})

\* What walkaddr finds for v.
Reaches(pt, v) == v \in DOMAIN pt.leaf /\ "U" \in pt.leaf[v].perm

\* The part of the bytes bs, which belong at a, that is on page v.
Put(u, v, a, bs) ==
  [u EXCEPT !.data[u.pt.leaf[v].pa] =
     [i \in Offset |-> LET k == v * PGSIZE + i - a + 1
                       IN IF k \in DOMAIN bs THEN bs[k] ELSE @[i]]]
PagesOf(a, bs) == IF bs = << >> THEN << >> ELSE Pages(PageOf(a), PageOf(a + Len(bs) - 1) + 1)

\* Copies bs to a, page by page, up to the first page that may not be written.
\* Mutant: pages need not be writable.
Writable_Mapped(pt, v) == Reaches(pt, v)
Writable(pt, v) == Reaches(pt, v) /\ "W" \in pt.leaf[v].perm
Copyout(u, sz, a, bs) ==
  ForEach(u, PagesOf(a, bs), LAMBDA x, v :
    Then(IF Reaches(x.pt, v) THEN x ELSE Vmfault(x, sz, v),
         LAMBDA y : IF Writable(y.pt, v) THEN Put(y, v, a, bs) ELSE Bad(y)))

\* The n bytes at a; and those up to a zero, of at most max.
At(u, a) == u.data[u.pt.leaf[PageOf(a)].pa][a % PGSIZE]
Copyin(u, a, n) == IF \A b \in a..(a + n - 1) : Reaches(u.pt, PageOf(b))
                   THEN [i \in 1..n |-> At(u, a + i - 1)] ELSE << >>
Copyinstr(u, a, max) ==
  LET Ends == {n \in 1..max : /\ \A b \in a..(a + n - 1) : Reaches(u.pt, PageOf(b))
                              /\ At(u, a + n - 1) = "zero"}
  IN IF Ends = {} THEN << >> ELSE Copyin(u, a, Min(Ends))

-------------------------------------------------------------------------------
(* Processes *)

State(t) == task[t].state
Unused == [state |-> "unused", sz |-> 0, tf |-> 0, pt |-> NoTable]

\* The state in which a call starts, with room pages to be had, on the table pt.
Fresh == [free |-> Page, room |-> NPAGES, data |-> [q \in Page |-> Full("junk")],
          pt |-> NoTable, sz |-> 0, tf |-> 0, ok |-> TRUE, broken |-> FALSE, page |-> 0,
          argv |-> {}]
Begin(room, pt) == [Fresh EXCEPT !.free = free, !.room = room, !.data = data, !.pt = pt,
                                 !.broken = broken]
End(u) == free' = u.free /\ data' = u.data /\ broken' = u.broken
Room == 0..Cardinality(free)

\* The new process's trapframe and table, or all of them freed again.
Allocproc(u) ==
  Then(Kalloc(u), LAMBDA x : Else(ProcPagetable([x EXCEPT !.tf = x.page], x.page),
                                  LAMBDA y : Kfree(x.page, y)))

\* userinit makes init, which kexec then gives a program.
Init == \E u \in {Allocproc(Fresh)} :
          /\ free = u.free /\ data = u.data /\ broken = u.broken
          /\ task = [[t \in Task |-> Unused] EXCEPT
                       ![First] = [state |-> "runs", sz |-> 0, tf |-> u.tf, pt |-> u.pt]]
          /\ kbuf = << >> /\ calls = 0

\* A program calls the kernel as long as it has a first page to run from.
Counted == calls < MaxCalls /\ calls' = calls + 1
Calls(t) == State(t) = "runs" /\ Reaches(task[t].pt, 0) /\ Counted

\* When there is no memory for all of it, freeproc drops the child, its sz still 0.
Fork(t, c) ==
  /\ Calls(t) /\ State(c) = "unused"
  /\ \E room \in Room :
       \E u \in {Then(Allocproc(Begin(room, NoTable)), LAMBDA a :
                   Else(Uvmcopy(a, task[t].pt, task[t].sz),
                        LAMBDA x : ProcFreepagetable(Kfree(a.tf, x), 0)))} :
         /\ End(u)
         /\ task' = IF ~u.ok THEN task
                    ELSE [task EXCEPT ![c] = [state |-> "runs", sz |-> task[t].sz,
                                              tf |-> u.tf, pt |-> u.pt]]
  /\ UNCHANGED kbuf

Growproc(u, sz, n) ==
  IF n < 0 THEN Uvmdealloc(u, sz, sz + n)
  ELSE IF sz + n > TRAPFRAME * PGSIZE THEN Bad(u) ELSE Uvmalloc(u, sz, sz + n, {"W"})

Sbrk(t) ==
  /\ Calls(t)
  /\ \E n \in Delta, room \in Room :
       \E u \in {Growproc(Begin(room, task[t].pt), task[t].sz, n)} :
         /\ End(u)
         /\ task' = [task EXCEPT ![t].pt = u.pt,
                                 ![t].sz = IF u.ok /\ @ + n >= 0 THEN @ + n ELSE @]
  /\ UNCHANGED kbuf

\* One segment: its pages, then its bytes from the file.
Flags2perm(s) == {"X"} \cup (IF s.write THEN {"W"} ELSE {})
Loadseg(u, s) == IF s.short THEN Bad(u)
                 ELSE LET bytes == [i \in 1..s.filesz |-> "text"]
                      IN FoldLeft(LAMBDA x, v : Put(x, v, s.vaddr, bytes),
                                  u, PagesOf(s.vaddr, bytes))
Load(u, s) == IF s.memsz < s.filesz \/ s.vaddr % PGSIZE # 0 THEN Bad(u)
              ELSE Then(Uvmalloc(u, u.sz, s.vaddr + s.memsz, Flags2perm(s)),
                        LAMBDA x : Loadseg([x EXCEPT !.sz = Max({@, s.vaddr + s.memsz})], s))

\* The guard page and the stack.
AddStack(u) == LET sz == RoundUp(u.sz) * PGSIZE
                   top == sz + (USERSTACK + 1) * PGSIZE
               IN Then(Uvmalloc([u EXCEPT !.sz = sz], sz, top, {"W"}),
                       LAMBDA x : Uvmclear([x EXCEPT !.sz = top], PageOf(sz)))

\* The argument strings, from the top of the stack down, and the array of them.
PushArgs(u, args) ==
  IF Len(args) > MAXARG THEN Bad(u)
  ELSE FoldLeft(LAMBDA x, n : IF ~x.u.ok \/ x.sp - n < u.sz - USERSTACK * PGSIZE
                              THEN [x EXCEPT !.u = Bad(@)]
                              ELSE [u |-> Copyout(x.u, 0, x.sp - n, [i \in 1..n |-> "args"]),
                                    sp |-> x.sp - n],
                [u |-> u, sp |-> u.sz], Append(args, Len(args) + 1)).u

\* A new table, filled, takes the place of the old one; or is freed.
NewImage(u, tf, image, args) ==
  Then(ProcPagetable(u, tf), LAMBDA p :
    Else(Then(Then(ForEach(p, image, Load), AddStack), LAMBDA x : PushArgs(x, args)),
         LAMBDA x : ProcFreepagetable(x, x.sz)))
Replace(t, u) ==
  IF ~u.ok THEN End(KfreeAll(u, u.argv)) /\ UNCHANGED task
  ELSE /\ End(KfreeAll(ProcFreepagetable([u EXCEPT !.pt = task[t].pt], task[t].sz), u.argv))
       /\ task' = [task EXCEPT ![t].sz = u.sz, ![t].pt = u.pt]

\* sys_exec: a page for each of the n strings it comes to, or one that cannot be read.
FetchArgs(u, n, readable) ==
  LET x == ForEach(u, [i \in 1..n |-> i], LAMBDA y, i :
             Then(Kalloc(y), LAMBDA z : [z EXCEPT !.argv = @ \cup {z.page}]))
  IN IF readable THEN x ELSE Bad(x)
Exec(t) ==
  /\ Calls(t)
  /\ \E image \in Image, args \in Args, room \in Room :
       \E n \in 0..Len(args) : \E readable \in {FALSE, n = Len(args)} :
         \E u \in {Then(FetchArgs(Begin(room, NoTable), n, readable),
                        LAMBDA x : NewImage(x, task[t].tf, image, args))} : Replace(t, u)
  /\ UNCHANGED kbuf
\* the first process's, from forkret, which panics when it fails
Boot == /\ task[First].sz = 0 /\ Counted
        /\ \E image \in Image, args \in Args, room \in Room :
             \E u \in {NewImage(Begin(room, NoTable), task[First].tf, image, args)} :
               u.ok /\ Replace(First, u)
        /\ UNCHANGED kbuf

\* kexit, which init may not call, and kwait's freeproc.
Exit(t) == /\ State(t) = "runs" /\ t # First
           /\ task' = [task EXCEPT ![t].state = "zombie"]
           /\ UNCHANGED <<free, data, kbuf, broken, calls>>

Freeproc(t) ==
  /\ State(t) = "zombie"
  /\ End(ProcFreepagetable(Kfree(task[t].tf, Begin(0, task[t].pt)), task[t].sz))
  /\ task' = [task EXCEPT ![t] = Unused]
  /\ UNCHANGED <<kbuf, calls>>

\* A store by the program, which the page table lets through or turns into a trap.
Store(t, a) ==
  /\ State(t) = "runs" /\ Counted
  /\ \E u \in {Begin(Cardinality(free), task[t].pt)} :
       \E x \in {IF Writable(u.pt, PageOf(a)) THEN u ELSE Vmfault(u, task[t].sz, PageOf(a))} :
         /\ t = First => x.ok
         /\ IF x.ok THEN /\ End(Put(x, PageOf(a), a, <<"user">>))
                         /\ task' = [task EXCEPT ![t].pt = x.pt]
            ELSE /\ task' = [task EXCEPT ![t].state = "zombie"]
                 /\ UNCHANGED <<free, data, broken>>
  /\ UNCHANGED kbuf

Addr == 0..(TRAPFRAME * PGSIZE - 1)

\* write, open and the like: bytes from the process; read and the like: bytes to it.
Send(t) == /\ Calls(t)
           /\ \E a \in Addr, n \in 1..PGSIZE :
                \/ kbuf' = Copyin(Begin(0, task[t].pt), a, n)
                \/ kbuf' = Copyinstr(Begin(0, task[t].pt), a, n)
           /\ UNCHANGED <<free, data, task, broken>>

Receive(t) == /\ Calls(t)
              /\ \E a \in Addr, room \in Room :
                   \E x \in {Copyout(Begin(room, task[t].pt), task[t].sz, a, kbuf)} :
                     End(x) /\ task' = [task EXCEPT ![t].pt = x.pt]
              /\ UNCHANGED kbuf

Next == \/ Boot
        \/ \E t \in Task : \/ \E c \in Task : Fork(t, c)
                           \/ Sbrk(t) \/ Exec(t) \/ Exit(t) \/ Freeproc(t)
                           \/ \E a \in Addr : Store(t, a)
                           \/ Send(t) \/ Receive(t)

Spec == Init /\ [][Next]_memVars

-------------------------------------------------------------------------------
(* Every page is free, or in use once; nothing panicked and no page was freed *)
(* twice.  A process's pages below its size are all there, all but init's      *)
(* guard page are its own to use, and its table holds no other.                *)
Live == {t \in Task : State(t) # "unused"}
UsedBy(t) == {task[t].tf} \cup Tables(task[t].pt)
             \cup {task[t].pt.leaf[v].pa : v \in UserPages(task[t].pt)}
PagesOnce ==
  /\ ~broken
  /\ \A t \in Live : LET pt == task[t].pt
                     IN Cardinality(UsedBy(t)) = 2 + Cardinality(DOMAIN pt.lower)
                                                   + Cardinality(UserPages(pt))
  /\ Cardinality(free) + FoldSet(LAMBDA t, n : n + Cardinality(UsedBy(t)), 0, Live) = NPAGES
  /\ free \cup UNION {UsedBy(t) : t \in Live} = Page
TablesFit ==
  \A t \in Live : LET pt == task[t].pt
                 IN /\ UserPages(pt) = 0..(RoundUp(task[t].sz) - 1)
                    /\ \A v \in DOMAIN pt.leaf : Range(TableKeys(v)) \subseteq DOMAIN pt.lower
                    /\ pt.leaf[TRAMPOLINE] = [pa |-> Trampoline, perm |-> {"R", "X"}]
                    /\ pt.leaf[TRAPFRAME] = [pa |-> task[t].tf, perm |-> {"R", "W"}]
MemInv == PagesOnce /\ TablesFit

\* What each process has, byte by byte.
UserByte(t) == {a \in Addr : Reaches(task[t].pt, PageOf(a))}
UserMem == [t \in Task |-> [a \in UserByte(t) |->
                              [val |-> At(Begin(0, task[t].pt), a),
                               w |-> Writable(task[t].pt, PageOf(a))]]]
\* What a program starts with: its segments, and a stack beyond the guard page.
ImageMem(image, args) ==
  LET Bytes(s) == s.vaddr..(RoundUp(s.vaddr + s.memsz) * PGSIZE - 1)
      stack == PGSIZE + Max({0} \cup UNION {{b + 1 : b \in Bytes(s)} : s \in Range(image)})
      top == stack + USERSTACK * PGSIZE
      used == FoldLeft(+, Len(args) + 1, args)
  IN [a \in stack..(top - 1) |-> [val |-> IF a < top - used THEN "zero" ELSE "args", w |-> TRUE]]
     @@ [a \in UNION {Bytes(s) : s \in Range(image)} |->
           LET s == CHOOSE s \in Range(image) : a \in Bytes(s)
           IN [val |-> IF a < s.vaddr + s.filesz THEN "text" ELSE "zero", w |-> s.write]]
Promise == INSTANCE UserMemory
           WITH mem <- UserMem, Programs <- {ImageMem(i, as) : i \in Image, as \in Args}
ImplementsUserMemory == Promise!Spec
===============================================================================
