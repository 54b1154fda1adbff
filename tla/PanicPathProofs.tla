----------------------------- MODULE PanicPathProofs -----------------------------
(***************************************************************************)
(* Proofs about PanicPath, for any set of CPUs, any calls they make, any      *)
(* LOG_SIZE and any number of calls, interrupts and faults.                   *)
(*                                                                         *)
(* A continuation is annotated, as a program is in a proof outline: between   *)
(* its steps stand points that say what the CPU owes there.  The invariant is *)
(* that an annotation exists whose first point describes the state.           *)
(***************************************************************************)
EXTENDS PanicPath, FiniteSetTheorems, SequenceTheorems, TLAPS

-------------------------------------------------------------------------------
(* Points, and what steps do to them *)

ProcLocks == {ProcLock(d) : d \in CPU}
Messages == {"bug", "crashme", "log_test", "kerneltrap", "sched locks"}
PanicAuthors == CPU \X {"bug", "kerneltrap", "sched locks"}
SaveAuthors == CPU \X Messages
Texts == {Message(a) : a \in PanicAuthors} \cup {Other}
Args == Lock \cup SaveAuthors \cup Texts \cup (SUBSET CPU) \cup {<< >>}
Steps == [op : Ops, arg : Args]

\* At a point the CPU owes n pop_offs and the release of the locks held; base is SIE as
\* it is without a push_off; ph is the place in a printf and stage that in
\* log_save_crash_context, which is called by the author.
Phase == {"out", "lock", "check", "write", "end"}
Point == {s \in [n : Nat, held : SUBSET Lock, base : BOOLEAN, ph : Phase,
                 stage : 0..4, by : Authors] :
            IsFiniteSet(s.held) /\ Cardinality(s.held) <= s.n}

\* A call or an interrupt ends with nothing owed.
Final(s) == /\ s.n = 0 /\ s.held = {} /\ s.base /\ s.ph = "out" /\ s.stage = 0

Taken(s, l) == [s EXCEPT !.n = @ + 1, !.held = @ \cup {l}]
Given(s, l) == [s EXCEPT !.n = @ - 1, !.held = @ \ {l}]
In(s, place) == [s EXCEPT !.ph = place]
Saving(s, k, a) == [s EXCEPT !.stage = k, !.by = a]

\* The steps that only need some locks not to be held.
Needs(x) == CASE x.op \in {"printf", "dump", "flush_begin"} -> {PrLock}
              [] x.op = "flush" -> Lock \ ProcLocks
Stays(x, s) ==
  \/ x.op \in {"log_add", "thr", "copy_regs", "copy_rest", "panicked", "flush_end"}
  \/ x.op \in {"printf", "dump", "flush_begin", "flush"} /\ s.ph = "out" /\ s.held \cap Needs(x) = {}
  \/ x.op = "wakeup" /\ x.arg \subseteq CPU /\ \A d \in x.arg : ProcLock(d) \notin s.held

\* Locks: acquire, its spin, release.
Locks(c, x, s, t) ==
  \/ /\ x.op = "acquire" /\ x.arg \in Lock \ s.held /\ x.arg # PrLock
     /\ t = Taken(s, x.arg)
  \/ /\ x.op = "acquire" /\ x.arg = PrLock /\ PrLock \notin s.held /\ s.ph = "lock"
     /\ t = In(Taken(s, PrLock), "check")
  \/ /\ x.op = "spin" /\ x.arg \in Lock \ s.held /\ x.arg # PrLock
     /\ Cardinality(s.held) < s.n
     /\ t = [s EXCEPT !.held = @ \cup {x.arg}]
  \/ /\ x.op = "spin" /\ x.arg = PrLock /\ PrLock \notin s.held /\ s.ph = "lock"
     /\ Cardinality(s.held) < s.n
     /\ t = [s EXCEPT !.held = @ \cup {PrLock}, !.ph = "check"]
  \/ /\ x.op = "release" /\ x.arg \in s.held /\ x.arg # PrLock
     /\ t = Given(s, x.arg)
  \/ x.op = "sched" /\ s.held = {ProcLock(c)} /\ t = s

\* printf; once somebody panics it leaves its lock alone.
Prints(p, x, s, t) ==
  \/ x.op = "putc" /\ s.ph = "check" /\ t = In(s, "write")
  \/ x.op = "putc_write" /\ s.ph = "write" /\ t = In(s, "end")
  \/ /\ x.op = "printf_end" /\ s.ph = "end"
     /\ \/ PrLock \in s.held /\ t = In(Given(s, PrLock), "out")
        \/ p /\ PrLock \notin s.held /\ t = In(s, "out")

\* log_save_crash_context, field by field
Saves(x, s, t) ==
  \/ /\ x.op = "save_clear" /\ x.arg \in SaveAuthors
     /\ t = [s EXCEPT !.stage = 1, !.by = x.arg]
  \/ /\ x.op = "save_regs" /\ s.stage = 1 /\ x.arg = s.by
     /\ t = [s EXCEPT !.stage = 2]
  \/ /\ x.op = "save_ticks" /\ s.stage = 2 /\ x.arg = s.by
     /\ t = [s EXCEPT !.stage = 3]
  \/ /\ x.op = "save_proc" /\ s.stage = 3 /\ x.arg = s.by
     /\ s.ph = "out" /\ s.held \subseteq ProcLocks
     /\ t = [s EXCEPT !.stage = 4]
  \/ /\ x.op = "save_magic" /\ s.stage = 4 /\ x.arg = s.by
     /\ t = [s EXCEPT !.stage = 0]

\* sret turns interrupts on; panic leaves the printf it may have interrupted; what comes
\* after "hang" is never run.
Leaves(p, x, s, t) ==
  \/ /\ x.op = "sret" /\ s.n = 0
     /\ \/ s.ph # "write" /\ t = [s EXCEPT !.base = TRUE]
        \/ p /\ \E b \in BOOLEAN : t = [s EXCEPT !.base = b]
  \/ /\ x.op = "panicking" /\ x.arg \in PanicAuthors /\ s.held \subseteq ProcLocks
     /\ t = In(s, "out")
  \/ x.op = "hang"

\* What step x of CPU c takes point s to; p says whether somebody has panicked.
Effect(p, c, x, s, t) ==
  /\ x \in Steps /\ s \in Point /\ t \in Point
  /\ \/ Stays(x, s) /\ t = s
     \/ Locks(c, x, s, t) \/ Prints(p, x, s, t) \/ Saves(x, s, t) \/ Leaves(p, x, s, t)

\* The steps of q lead from point s to point t.
Annotates(p, c, q, s, t, f) ==
  /\ f[0] = s /\ f[Len(q)] = t
  /\ \A i \in 1..Len(q) : Effect(p, c, q[i], f[i - 1], f[i])
Leads(p, c, q, s, t) ==
  /\ q \in Seq(Steps) /\ s \in Point /\ t \in Point
  /\ \E f \in [0..Len(q) -> Point] : Annotates(p, c, q, s, t, f)

-------------------------------------------------------------------------------
(* Outlines are put together and taken apart *)

\* Nothing to do leads from a point to itself.
LEMMA LeadsNothing ==
  ASSUME NEW p, NEW c, NEW s \in Point
  PROVE  Leads(p, c, << >>, s, s)
<1> DEFINE f == [i \in 0..0 |-> s]
<1>1. f \in [0..Len(<< >>) -> Point] /\ Annotates(p, c, << >>, s, s, f)
  BY DEF Annotates
<1> QED  BY <1>1 DEF Leads

\* And nowhere else.
LEMMA LeadsNowhere ==
  ASSUME NEW p, NEW c, NEW s, NEW t, Leads(p, c, << >>, s, t)
  PROVE  s = t
  BY DEF Leads, Annotates

\* A function of one step leads where its step leads.
LEMMA LeadsStep ==
  ASSUME NEW p, NEW c, NEW op, NEW arg, NEW s, NEW t, Effect(p, c, [op |-> op, arg |-> arg], s, t)
  PROVE  Leads(p, c, Step(op, arg), s, t)
<1> DEFINE x == [op |-> op, arg |-> arg]
           f == [i \in 0..1 |-> IF i = 0 THEN s ELSE t]
<1>1. x \in Steps /\ s \in Point /\ t \in Point
  BY DEF Effect
<1>2. <<x>> \in Seq(Steps) /\ Len(<<x>>) = 1 /\ <<x>>[1] = x
  BY <1>1
<1>3. f \in [0..1 -> Point] /\ Annotates(p, c, <<x>>, s, t, f)
  BY <1>1, <1>2 DEF Annotates
<1> HIDE DEF x, f
<1>4. Leads(p, c, <<x>>, s, t)
  BY <1>1, <1>2, <1>3 DEF Leads
<1> QED  BY <1>4 DEF Step, x

\* Outlines of code that follows other code are put together at the point between.
LEMMA LeadsOn ==
  ASSUME NEW p, NEW c, NEW q, NEW r, NEW s, NEW t, NEW u,
         Leads(p, c, q, s, t), Leads(p, c, r, t, u)
  PROVE  Leads(p, c, q \o r, s, u)
<1>1. PICK g \in [0..Len(q) -> Point] : Annotates(p, c, q, s, t, g)
  BY DEF Leads
<1>2. PICK h \in [0..Len(r) -> Point] : Annotates(p, c, r, t, u, h)
  BY DEF Leads
<1> DEFINE m == Len(q)
           k == Len(r)
           f == [i \in 0..(m + k) |-> IF i <= m THEN g[i] ELSE h[i - m]]
<1>3. /\ m \in Nat /\ k \in Nat /\ q \o r \in Seq(Steps) /\ Len(q \o r) = m + k
      /\ \A i \in 1..(m + k) : (q \o r)[i] = IF i <= m THEN q[i] ELSE r[i - m]
  BY ConcatProperties, LenProperties DEF Leads
<1> HIDE DEF m, k
<1>4. f \in [0..(m + k) -> Point]
  BY <1>1, <1>2, <1>3 DEF m, k
<1>5. f[0] = s /\ f[m + k] = u
  <2>1. CASE k = 0
    BY <1>1, <1>2, <1>3, <2>1 DEF Annotates, m, k
  <2>2. CASE k # 0
    BY <1>1, <1>2, <1>3, <2>2 DEF Annotates, m, k
  <2> QED  BY <2>1, <2>2
<1>6. ASSUME NEW i \in 1..(m + k)
      PROVE  Effect(p, c, (q \o r)[i], f[i - 1], f[i])
  <2>1. CASE i <= m
    <3>1. f[i] = g[i] /\ f[i - 1] = g[i - 1] /\ i \in 1..m
      BY <1>3, <2>1
    <3> QED  BY <1>1, <1>3, <2>1, <3>1 DEF Annotates, m
  <2>2. CASE i > m
    <3>1. i - m \in 1..k /\ f[i] = h[i - m] /\ (i - m) - 1 = (i - 1) - m
      BY <1>3, <2>2
    <3>2. f[i - 1] = h[(i - m) - 1]
      <4>1. CASE i - 1 = m
        <5>1. f[i - 1] = g[m] /\ (i - m) - 1 = 0
          BY <1>3, <4>1
        <5> QED  BY <1>1, <1>2, <5>1 DEF Annotates, m
      <4>2. CASE i - 1 > m
        BY <1>3, <2>2, <3>1, <4>2
      <4> QED  BY <1>3, <2>2, <4>1, <4>2
    <3>3. Effect(p, c, r[i - m], h[(i - m) - 1], h[i - m])
      BY <1>2, <3>1 DEF Annotates, k
    <3>4. (q \o r)[i] = r[i - m]
      BY <1>3, <2>2
    <3> QED  BY <3>1, <3>2, <3>3, <3>4
  <2> QED  BY <1>3, <2>1, <2>2
<1> HIDE DEF f
<1>7. Annotates(p, c, q \o r, s, u, f)
  BY <1>3, <1>5, <1>6 DEF Annotates
<1> QED  BY <1>3, <1>4, <1>7 DEF Leads

\* An outline is taken apart after its first step, as a CPU does that runs it.
LEMMA LeadsApart ==
  ASSUME NEW p, NEW c, NEW q, NEW s, NEW t, Leads(p, c, q, s, t), q # << >>
  PROVE  \E u \in Point : Effect(p, c, Head(q), s, u) /\ Leads(p, c, Tail(q), u, t)
<1>1. PICK g \in [0..Len(q) -> Point] : Annotates(p, c, q, s, t, g)
  BY DEF Leads
<1> DEFINE k == Len(q) - 1
           f == [i \in 0..k |-> g[i + 1]]
           u == g[1]
<1>2. /\ q \in Seq(Steps) /\ Len(q) \in Nat \ {0} /\ Head(q) = q[1]
      /\ Tail(q) \in Seq(Steps) /\ Len(Tail(q)) = k
      /\ \A i \in 1..k : Tail(q)[i] = q[i + 1]
  BY HeadTailProperties, EmptySeq, LenProperties DEF Leads
<1>3. u \in Point /\ Effect(p, c, Head(q), s, u)
  BY <1>1, <1>2 DEF Annotates
<1>4. f \in [0..Len(Tail(q)) -> Point]
  BY <1>2
<1>5. f[0] = u /\ f[k] = t
  BY <1>1, <1>2 DEF Annotates
<1>6. ASSUME NEW i \in 1..k
      PROVE  Effect(p, c, Tail(q)[i], f[i - 1], f[i])
  <2>1. Effect(p, c, q[i + 1], g[(i + 1) - 1], g[i + 1])
    BY <1>1, <1>2 DEF Annotates
  <2>2. f[i - 1] = g[(i + 1) - 1] /\ f[i] = g[i + 1] /\ Tail(q)[i] = q[i + 1]
    BY <1>2
  <2> QED  BY <2>1, <2>2
<1> HIDE DEF f, u, k
<1>7. Annotates(p, c, Tail(q), u, t, f)
  BY <1>2, <1>5, <1>6 DEF Annotates
<1>8. t \in Point
  BY DEF Leads
<1>9. Leads(p, c, Tail(q), u, t)
  BY <1>2, <1>3, <1>4, <1>7, <1>8 DEF Leads
<1> QED  BY <1>3, <1>9

\* A panic somewhere invalidates no outline: what steps may do without one, they may still do.
LEMMA LeadsStill ==
  ASSUME NEW p, NEW r, NEW c, NEW q, NEW s, NEW t, Leads(p, c, q, s, t), p => r
  PROVE  Leads(r, c, q, s, t)
<1>1. ASSUME NEW x, NEW y, NEW z, Effect(p, c, x, y, z)
      PROVE  Effect(r, c, x, y, z)
  BY <1>1 DEF Effect, Prints, Leaves
<1>2. \A f : Annotates(p, c, q, s, t, f) => Annotates(r, c, q, s, t, f)
  BY <1>1 DEF Annotates
<1> QED  BY <1>2 DEF Leads

-------------------------------------------------------------------------------
(* Points of the functions *)

\* The locks are different locks.
LEMMA LocksDiffer ==
  /\ LogLock # PrLock /\ TicksLock # PrLock /\ TxLock # PrLock /\ LogLock # TicksLock
  /\ {LogLock, TicksLock, PrLock, TxLock} \subseteq Lock /\ ProcLocks \subseteq Lock
  /\ {LogLock, TicksLock, PrLock, TxLock} \cap ProcLocks = {}
  /\ Lock \ ProcLocks = {LogLock, TicksLock, PrLock, TxLock}
  /\ \A c, d \in CPU : ProcLock(c) = ProcLock(d) => c = d
<1>1. \A x, y : <<x, y>>[1] = x /\ <<x, y>>[2] = y /\ Len(<<x, y>>) = 2
  OBVIOUS
<1>2. \A x : <<x>>[1] = x /\ Len(<<x>>) = 1
  OBVIOUS
<1>3. /\ LogLock # PrLock /\ TicksLock # PrLock /\ TxLock # PrLock /\ LogLock # TicksLock
      /\ \A c : LogLock # ProcLock(c) /\ TicksLock # ProcLock(c) /\ PrLock # ProcLock(c)
                /\ TxLock # ProcLock(c)
  BY <1>1, <1>2 DEF LogLock, PrLock, TicksLock, TxLock, ProcLock
<1>4. \A c, d \in CPU : ProcLock(c) = ProcLock(d) => c = d
  BY <1>1 DEF ProcLock
<1> QED  BY <1>3, <1>4 DEF Lock, ProcLocks

\* A lock that is taken and given back leaves the point as it was.
LEMMA PointTaken ==
  ASSUME NEW s \in Point, NEW l \in Lock \ s.held
  PROVE  Taken(s, l) \in Point /\ Given(Taken(s, l), l) = s
<1>1. IsFiniteSet(s.held \cup {l}) /\ Cardinality(s.held \cup {l}) = Cardinality(s.held) + 1
  BY FS_AddElement DEF Point
<1>2. Cardinality(s.held) \in Nat
  BY FS_CardinalityType DEF Point
<1> DEFINE t == Taken(s, l)
           R == [n : Nat, held : SUBSET Lock, base : BOOLEAN, ph : Phase,
                 stage : 0..4, by : Authors]
<1>3. s \in R /\ Cardinality(s.held) <= s.n
  BY DEF Point
<1>4. t \in R /\ t.held = s.held \cup {l} /\ t.n = s.n + 1
  <2>1. s.held \cup {l} \in SUBSET Lock /\ s.n + 1 \in Nat
    BY <1>3
  <2> QED  BY <1>3, <2>1 DEF Taken
<1>5. t.n - 1 = s.n /\ t.held \ {l} = s.held
  BY <1>3, <1>4
<1>6. Given(t, l) = s
  BY <1>3, <1>4, <1>5 DEF Given, Taken
<1>7. t \in Point
  BY <1>1, <1>2, <1>3, <1>4 DEF Point
<1> QED  BY <1>6, <1>7

\* Whoever holds a lock owes a pop_off.
LEMMA PointGiven ==
  ASSUME NEW s \in Point, NEW l \in s.held
  PROVE  Given(s, l) \in Point /\ s.n > 0
<1>1. IsFiniteSet(s.held \ {l}) /\ Cardinality(s.held \ {l}) = Cardinality(s.held) - 1
  BY FS_RemoveElement DEF Point
<1>2. Cardinality(s.held) \in Nat /\ Cardinality(s.held \ {l}) \in Nat
  BY <1>1, FS_CardinalityType DEF Point
<1> DEFINE t == Given(s, l)
           R == [n : Nat, held : SUBSET Lock, base : BOOLEAN, ph : Phase,
                 stage : 0..4, by : Authors]
<1>3. s \in R /\ Cardinality(s.held) <= s.n
  BY DEF Point
<1>4. s.n > 0
  BY <1>1, <1>2, <1>3
<1>5. t \in R /\ t.held = s.held \ {l} /\ t.n = s.n - 1
  <2>1. s.held \ {l} \in SUBSET Lock /\ s.n - 1 \in Nat
    BY <1>3, <1>4
  <2> QED  BY <1>3, <2>1 DEF Given
<1>6. t \in Point
  BY <1>1, <1>2, <1>3, <1>5 DEF Point
<1> QED  BY <1>4, <1>6

\* A function of one step that changes nothing the point tells.
LEMMA StaysLeads ==
  ASSUME NEW p, NEW c, NEW op \in Ops, NEW arg \in Args, NEW s \in Point,
         Stays([op |-> op, arg |-> arg], s)
  PROVE  Leads(p, c, Step(op, arg), s, s)
<1>1. Effect(p, c, [op |-> op, arg |-> arg], s, s)
  BY DEF Effect, Steps
<1> QED  BY <1>1, LeadsStep

\* A critical section leaves the point as it was, if its body does.
LEMMA LockedLeads ==
  ASSUME NEW p, NEW c, NEW l \in Lock \ {PrLock}, NEW s \in Point, l \notin s.held,
         NEW body, Leads(p, c, body, Taken(s, l), Taken(s, l))
  PROVE  Leads(p, c, Locked(l, body), s, s)
<1> DEFINE u == Taken(s, l)
<1>1. u \in Point /\ Given(u, l) = s /\ l \in u.held
  BY PointTaken DEF Taken, Point
<1>2. Effect(p, c, [op |-> "acquire", arg |-> l], s, u)
  BY <1>1 DEF Effect, Steps, Ops, Args, Locks
<1>3. Effect(p, c, [op |-> "release", arg |-> l], u, s)
  BY <1>1 DEF Effect, Steps, Ops, Args, Locks
<1> HIDE DEF u
<1>4. Leads(p, c, Step("acquire", l), s, u) /\ Leads(p, c, Step("release", l), u, s)
  BY <1>2, <1>3, LeadsStep
<1>5. Leads(p, c, Step("acquire", l) \o body, s, u)
  BY <1>4, LeadsOn DEF u
<1> QED  BY <1>4, <1>5, LeadsOn DEF Locked

\* Points differ in what printf, the save and the interrupts say, freely.
LEMMA PointMoved ==
  ASSUME NEW s \in Point
  PROVE  /\ \A place \in Phase : In(s, place) \in Point
         /\ \A b \in BOOLEAN : [s EXCEPT !.base = b] \in Point
         /\ \A k \in 0..4 : [s EXCEPT !.stage = k] \in Point
         /\ \A k \in 0..4, a \in Authors : Saving(s, k, a) \in Point
         /\ \A a \in Authors : Saving(s, 0, a) \in Point
<1> DEFINE R == [n : Nat, held : SUBSET Lock, base : BOOLEAN, ph : Phase,
                 stage : 0..4, by : Authors]
<1>1. s \in R /\ IsFiniteSet(s.held) /\ Cardinality(s.held) <= s.n
  BY DEF Point
<1>2. ASSUME NEW t \in R, t.n = s.n, t.held = s.held
      PROVE  t \in Point
  BY <1>1, <1>2 DEF Point
<1> USE <1>1, <1>2
<1>3. \A place \in Phase : In(s, place) \in Point
  BY DEF In
<1>4. \A b \in BOOLEAN : [s EXCEPT !.base = b] \in Point
  OBVIOUS
<1>5. \A k \in 0..4 : [s EXCEPT !.stage = k] \in Point
  OBVIOUS
<1>6. \A k \in 0..4, a \in Authors : Saving(s, k, a) \in Point
  BY DEF Saving
<1>7. ASSUME NEW a \in Authors
      PROVE  Saving(s, 0, a) \in Point
  <2>1. \A k \in {0} : k \in 0..4
    OBVIOUS
  <2>2. \A k \in {0} : Saving(s, k, a) \in Point
    BY <1>6, <2>1
  <2> QED  BY <2>2
<1> QED  BY <1>3, <1>4, <1>5, <1>6, <1>7

\* Authors of panics are authors of contexts, and Nobody is neither.
LEMMA AuthorsAre ==
  /\ PanicAuthors \subseteq SaveAuthors /\ SaveAuthors \subseteq Authors
  /\ Nobody \in Authors \ SaveAuthors
  /\ \A c \in CPU, msg \in {"bug", "kerneltrap", "sched locks"} : Author(c, msg) \in PanicAuthors
  /\ \A c \in CPU, msg \in Messages : Author(c, msg) \in SaveAuthors
<1>1. Nobody \notin SaveAuthors
  BY CPUAssumption DEF Nobody, SaveAuthors
<1> QED  BY <1>1 DEF PanicAuthors, SaveAuthors, Authors, Nobody, Author, Messages

-------------------------------------------------------------------------------
(* The functions, in the outline *)

\* log_save_crash_context gives tickslock back and leaves no save open.
LEMMA SaveLeads ==
  ASSUME NEW p, NEW c, NEW a \in SaveAuthors, NEW s \in Point, s.ph = "out",
         s.held \subseteq ProcLocks
  PROVE  Leads(p, c, SaveContext(a), s, Saving(s, 0, a))
<1> DEFINE S(k) == Saving(s, k, a)
<1>1. \A k \in 0..4 : /\ S(k) \in Point /\ S(k).stage = k /\ S(k).by = a
                      /\ S(k).held = s.held /\ S(k).ph = "out"
  BY AuthorsAre, PointMoved DEF Point, Saving
<1>2. \A j, k \in 0..4 : [S(j) EXCEPT !.stage = k] = S(k)
  BY DEF Point, Saving
<1>3. [s EXCEPT !.stage = 1, !.by = a] = S(1)
  BY DEF Saving
<1> HIDE DEF S
<1>4. Effect(p, c, [op |-> "save_clear", arg |-> a], s, S(1))
  BY <1>1, <1>3 DEF Effect, Steps, Ops, Args, Saves
<1>5. /\ Effect(p, c, [op |-> "save_regs", arg |-> a], S(1), S(2))
      /\ Effect(p, c, [op |-> "save_ticks", arg |-> a], S(2), S(3))
      /\ Effect(p, c, [op |-> "save_proc", arg |-> a], S(3), S(4))
      /\ Effect(p, c, [op |-> "save_magic", arg |-> a], S(4), S(0))
  BY <1>1, <1>2 DEF Effect, Steps, Ops, Args, Saves
<1>6. /\ Leads(p, c, Step("save_clear", a), s, S(1))
      /\ Leads(p, c, Step("save_regs", a), S(1), S(2))
      /\ Leads(p, c, Step("save_proc", a), S(3), S(4))
      /\ Leads(p, c, Step("save_magic", a), S(4), S(0))
  BY <1>4, <1>5, LeadsStep
<1>7. Leads(p, c, Locked(TicksLock, Step("save_ticks", a)), S(2), S(3))
  <2> DEFINE u == Taken(S(2), TicksLock)
             v == Taken(S(3), TicksLock)
  <2>1. TicksLock \in Lock \ {PrLock} /\ TicksLock \notin s.held
    BY LocksDiffer
  <2>2. /\ u \in Point /\ Given(u, TicksLock) = S(2) /\ v \in Point /\ Given(v, TicksLock) = S(3)
    BY <1>1, <2>1, PointTaken
  <2>3. u.stage = 2 /\ u.by = a /\ [u EXCEPT !.stage = 3] = v /\ TicksLock \in v.held
    BY <1>1 DEF Taken, Point, S, Saving
  <2>4. Effect(p, c, [op |-> "acquire", arg |-> TicksLock], S(2), u)
    BY <1>1, <2>1, <2>2 DEF Effect, Steps, Ops, Args, Locks
  <2> HIDE DEF u, v
  <2>5. Effect(p, c, [op |-> "save_ticks", arg |-> a], u, v)
    BY <2>2, <2>3 DEF Effect, Steps, Ops, Args, Saves
  <2>6. Effect(p, c, [op |-> "release", arg |-> TicksLock], v, S(3))
    BY <1>1, <2>1, <2>2, <2>3 DEF Effect, Steps, Ops, Args, Locks
  <2> QED  BY <2>4, <2>5, <2>6, LeadsStep, LeadsOn DEF Locked
<1>8. Leads(p, c, SaveContext(a), s, S(0))
  BY <1>6, <1>7, LeadsOn DEF SaveContext
<1> QED  BY <1>8 DEF S

\* A call of printf (printf.c:70-144) without pr.lock held.
LEMMA PrintfLeads ==
  ASSUME NEW p, NEW c, NEW text \in Texts, NEW s \in Point, s.ph = "out", PrLock \notin s.held
  PROVE  Leads(p, c, Printf(text), s, s)
<1>1. "printf" \in Ops /\ text \in Args
  BY DEF Ops, Args
<1>2. Stays([op |-> "printf", arg |-> text], s)
  BY DEF Stays, Needs
<1> QED  BY <1>1, <1>2, StaysLeads DEF Printf

\* log_dump_crash_context, which prints.
LEMMA DumpLeads ==
  ASSUME NEW p, NEW c, NEW s \in Point, s.ph = "out", PrLock \notin s.held
  PROVE  Leads(p, c, DumpContext, s, s)
<1>1. "dump" \in Ops /\ << >> \in Args
  BY DEF Ops, Args
<1>2. Stays([op |-> "dump", arg |-> << >>], s)
  BY DEF Stays, Needs
<1> QED  BY <1>1, <1>2, StaysLeads DEF DumpContext

\* log_flush, which takes logbuf.lock and prints.
LEMMA FlushLeads ==
  ASSUME NEW p, NEW c, NEW s \in Point, s.ph = "out", s.held \subseteq ProcLocks
  PROVE  Leads(p, c, LogFlush, s, s)
<1>1. "flush" \in Ops /\ << >> \in Args
  BY DEF Ops, Args
<1>2. Stays([op |-> "flush", arg |-> << >>], s)
  BY DEF Stays, Needs
<1> QED  BY <1>1, <1>2, StaysLeads DEF LogFlush

\* panic (printf.c:147-158) may be called with p->lock held, and leads anywhere: it does not return.
LEMMA PanicLeads ==
  ASSUME NEW p, NEW c \in CPU, NEW msg \in {"bug", "kerneltrap", "sched locks"},
         NEW s \in Point, NEW t \in Point, s.held \subseteq ProcLocks
  PROVE  Leads(p, c, Panic(c, msg), s, t)
<1> DEFINE a == Author(c, msg)
           u == In(s, "out")
           v == Saving(u, 0, a)
<1>1. a \in PanicAuthors /\ a \in SaveAuthors /\ a \in Authors
  BY AuthorsAre
<1>2. u \in Point /\ u.ph = "out" /\ u.held = s.held
  <2>1. u \in Point
    BY PointMoved DEF Phase
  <2> QED  BY <2>1 DEF In, Point
<1> HIDE DEF u
<1>3. v \in Point /\ v.ph = "out" /\ v.held = s.held
  <2>1. v \in Point
    BY <1>1, <1>2, PointMoved
  <2> QED  BY <1>2, <2>1 DEF Saving, Point
<1>4. Effect(p, c, [op |-> "panicking", arg |-> a], s, u)
  BY <1>1, <1>2 DEF Effect, Steps, Ops, Args, Leaves, u
<1>5. Leads(p, c, Step("panicking", a), s, u)
  BY <1>4, LeadsStep
<1>6. Leads(p, c, SaveContext(a), u, v)
  BY <1>1, <1>2, SaveLeads
<1> HIDE DEF v
<1>7. PrLock \notin v.held
  BY <1>3, LocksDiffer
<1>8. Leads(p, c, LogFlush, v, v)
  BY <1>3, FlushLeads
<1>9. Message(a) \in Texts
  BY <1>1 DEF Texts
<1>10. Leads(p, c, Printf(Message(a)), v, v) /\ Leads(p, c, DumpContext, v, v)
  BY <1>3, <1>7, <1>9, PrintfLeads, DumpLeads
<1>11. "panicked" \in Ops /\ "hang" \in Ops /\ << >> \in Args
  BY DEF Ops, Args
<1>12. Leads(p, c, Step("panicked", << >>), v, v)
  BY <1>3, <1>11, StaysLeads DEF Stays
<1>13. Effect(p, c, [op |-> "hang", arg |-> << >>], v, t)
  BY <1>3, <1>11 DEF Effect, Steps, Leaves
<1>14. Leads(p, c, Step("hang", << >>), v, t)
  BY <1>13, LeadsStep
<1> HIDE DEF a
<1>15. Leads(p, c, Step("panicking", a) \o SaveContext(a) \o LogFlush \o Printf(Message(a)), s, v)
  BY <1>5, <1>6, <1>8, <1>10, LeadsOn
<1>16. Leads(p, c, Step("panicking", a) \o SaveContext(a) \o LogFlush \o Printf(Message(a))
                     \o DumpContext \o Step("panicked", << >>) \o Step("hang", << >>), s, t)
  BY <1>10, <1>12, <1>14, <1>15, LeadsOn
<1> QED  BY <1>16 DEF Panic, a

\* wakeup, from any place in its loop.
LEMMA WakeupLeads ==
  ASSUME NEW p, NEW c, NEW S \in SUBSET CPU, NEW s \in Point,
         \A d \in S : ProcLock(d) \notin s.held
  PROVE  Leads(p, c, WakeupOthers(S), s, s)
<1>1. CASE S = {}
  BY <1>1, LeadsNothing DEF WakeupOthers
<1>2. CASE S # {}
  <2>1. "wakeup" \in Ops /\ S \in Args
    BY DEF Ops, Args
  <2>2. Stays([op |-> "wakeup", arg |-> S], s)
    BY DEF Stays
  <2> QED  BY <1>2, <2>1, <2>2, StaysLeads DEF WakeupOthers
<1> QED  BY <1>1, <1>2

\* clockintr, with no lock held.
LEMMA ClockIntrLeads ==
  ASSUME NEW p, NEW c \in CPU, NEW s \in Point, s.held = {}
  PROVE  Leads(p, c, ClockIntr(c), s, s)
<1>1. CASE c = Boot
  <2> DEFINE u == Taken(s, TicksLock)
  <2>1. TicksLock \in Lock \ {PrLock} /\ \A d \in CPU : ProcLock(d) # TicksLock
    BY LocksDiffer DEF ProcLocks
  <2>2. u \in Point /\ u.held = {TicksLock}
    <3>1. u \in Point
      BY <2>1, PointTaken
    <3> QED  BY <3>1 DEF Taken, Point
  <2> HIDE DEF u
  <2>3. Leads(p, c, WakeupOthers(CPU \ {c}), u, u)
    BY <2>1, <2>2, WakeupLeads
  <2> QED  BY <1>1, <2>1, <2>3, LockedLeads DEF ClockIntr, u
<1>2. CASE c # Boot
  BY <1>2, LeadsNothing DEF ClockIntr
<1> QED  BY <1>1, <1>2

\* yield, with no lock held, leaves sched with that of its process alone.
LEMMA YieldLeads ==
  ASSUME NEW p, NEW c \in CPU, NEW s \in Point, s.held = {}
  PROVE  Leads(p, c, Yield(c), s, s)
<1> DEFINE l == ProcLock(c)
           u == Taken(s, l)
<1>1. l \in Lock \ {PrLock}
  BY LocksDiffer DEF ProcLocks
<1>2. u \in Point /\ u.held = {ProcLock(c)}
  <2>1. u \in Point
    BY <1>1, PointTaken
  <2> QED  BY <2>1 DEF Taken, Point
<1> HIDE DEF u
<1>3. Effect(p, c, [op |-> "sched", arg |-> << >>], u, u)
  BY <1>2 DEF Effect, Steps, Ops, Args, Locks
<1>4. Leads(p, c, Step("sched", << >>), u, u)
  BY <1>3, LeadsStep
<1> QED  BY <1>1, <1>4, LockedLeads DEF Yield, u

\* sys_logtest returns with nothing owed.
LEMMA LogTestLeads ==
  ASSUME NEW p, NEW c \in CPU, NEW s \in Point, Final(s)
  PROVE  \E t \in Point : Final(t) /\ Leads(p, c, LogTest(c), s, t)
<1> DEFINE a == Author(c, "log_test")
           u == Taken(s, LogLock)
           t == Saving(s, 0, a)
<1>1. a \in SaveAuthors /\ a \in Authors
  BY AuthorsAre DEF Messages
<1>2. s.ph = "out" /\ s.held = {} /\ s.held \subseteq ProcLocks
  BY DEF Final
<1>3. t \in Point /\ t.ph = "out" /\ t.held = {} /\ Final(t)
  <2>1. t \in Point
    BY <1>1, PointMoved
  <2> QED  BY <1>2, <2>1 DEF Saving, Point, Final
<1>4. LogLock \in Lock \ {PrLock} /\ u \in Point
  BY <1>2, LocksDiffer, PointTaken
<1> HIDE DEF u, t
<1>5. "log_add" \in Ops /\ << >> \in Args /\ Other \in Texts
  BY DEF Ops, Args, Texts
<1>6. Leads(p, c, Step("log_add", << >>), u, u)
  BY <1>4, <1>5, StaysLeads DEF Stays
<1>7. Leads(p, c, Locked(LogLock, Step("log_add", << >>)), s, s)
  BY <1>2, <1>4, <1>6, LockedLeads DEF u
<1>8. Leads(p, c, LogFlush, s, s)
  BY <1>2, FlushLeads
<1>9. Leads(p, c, SaveContext(a), s, t)
  BY <1>1, <1>2, SaveLeads DEF t
<1>10. Leads(p, c, Printf(Other), t, t)
  BY <1>3, <1>5, PrintfLeads
<1> HIDE DEF a
<1>11. Leads(p, c, Locked(LogLock, Step("log_add", << >>)) \o LogFlush \o SaveContext(a)
                     \o Printf(Other), s, t)
  BY <1>7, <1>8, <1>9, <1>10, LeadsOn
<1> QED  BY <1>3, <1>11 DEF LogTest, a

\* sys_crashme returns with nothing owed.
LEMMA CrashmeLeads ==
  ASSUME NEW p, NEW c \in CPU, NEW s \in Point, Final(s)
  PROVE  \E t \in Point : Final(t) /\ Leads(p, c, Crashme(c), s, t)
<1> DEFINE a == Author(c, "crashme")
           t == Saving(s, 0, a)
<1>1. a \in SaveAuthors /\ a \in Authors /\ Other \in Texts
  BY AuthorsAre DEF Messages, Texts
<1>2. s.ph = "out" /\ s.held = {} /\ s.held \subseteq ProcLocks
  BY DEF Final
<1>3. t \in Point /\ t.ph = "out" /\ t.held = {} /\ Final(t)
  <2>1. t \in Point
    BY <1>1, PointMoved
  <2> QED  BY <1>2, <2>1 DEF Saving, Point, Final
<1>4. Leads(p, c, Printf(Other), s, s)
  BY <1>1, <1>2, PrintfLeads
<1>5. Leads(p, c, SaveContext(a), s, t)
  BY <1>1, <1>2, SaveLeads
<1> HIDE DEF t
<1>6. Leads(p, c, LogFlush, t, t) /\ Leads(p, c, DumpContext, t, t)
  BY <1>3, FlushLeads, DumpLeads
<1> HIDE DEF a
<1>7. Leads(p, c, Printf(Other) \o SaveContext(a) \o LogFlush \o DumpContext, s, t)
  BY <1>4, <1>5, <1>6, LeadsOn
<1> QED  BY <1>3, <1>7 DEF Crashme, a

\* So does each call a process makes, and a panic does not return.
LEMMA BodyLeads ==
  ASSUME NEW p, NEW c \in CPU, NEW call \in Work[c], NEW s \in Point, Final(s)
  PROVE  \E t \in Point : Final(t) /\ Leads(p, c, Body(c, call), s, t)
<1>1. s.held = {} /\ s.held \subseteq ProcLocks
  BY DEF Final
<1>2. call \in {"logtest", "crashme", "dumppanic", "write", "bug"}
  BY WorkAssumption
<1>3. CASE call = "logtest"
  BY <1>3, LogTestLeads DEF Body
<1>4. CASE call = "crashme"
  BY <1>4, CrashmeLeads DEF Body
<1>5. CASE call = "dumppanic"
  <2>1. "copy_regs" \in Ops /\ "copy_rest" \in Ops /\ << >> \in Args
    BY DEF Ops, Args
  <2>2. Leads(p, c, Step("copy_regs", << >>), s, s) /\ Leads(p, c, Step("copy_rest", << >>), s, s)
    BY <2>1, StaysLeads DEF Stays
  <2>3. Leads(p, c, DumpPanic, s, s)
    BY <2>2, LeadsOn DEF DumpPanic
  <2> QED  BY <1>5, <2>3 DEF Body
<1>6. CASE call = "write"
  <2> DEFINE u == Taken(s, TxLock)
  <2>1. TxLock \in Lock \ {PrLock} /\ u \in Point
    BY <1>1, LocksDiffer, PointTaken
  <2> HIDE DEF u
  <2>2. "thr" \in Ops /\ << >> \in Args
    BY DEF Ops, Args
  <2>3. Leads(p, c, Step("thr", << >>), u, u)
    BY <2>1, <2>2, StaysLeads DEF Stays
  <2>4. Leads(p, c, UartWrite, s, s)
    BY <1>1, <2>1, <2>3, LockedLeads DEF UartWrite, u
  <2> QED  BY <1>6, <2>4 DEF Body
<1>7. CASE call = "bug"
  BY <1>1, <1>7, PanicLeads DEF Body
<1> QED  BY <1>2, <1>3, <1>4, <1>5, <1>6, <1>7

-------------------------------------------------------------------------------
(* The invariant *)

\* What is left of c's continuation leads from s to an end with nothing owed.
Outline(c, s) == \E t : Final(t) /\ Leads(panicking, c, code[c], s, t)

\* noff and SIE; a panic of another CPU makes printf and uartputc_sync skip a pop_off
\* they owe, never do one they do not.
Interrupts(c, s) ==
  /\ s.n <= noff[c]
  /\ s.n > 0 => ~intr[c]
  /\ ~panicking => /\ noff[c] = IF s.ph = "write" THEN s.n + 1 ELSE s.n
                   /\ intr[c] <=> noff[c] = 0 /\ s.base
                   /\ noff[c] > 0 => (intena[c] <=> s.base)

\* A lock that is not owed any more is pr's, given up by a printf a panic overtook.
Spinlocks(c, s) ==
  \A l \in Lock : /\ l \in s.held => holder[l] = c
                  /\ holder[l] = c /\ l \notin s.held => l = PrLock /\ panicking /\ s.ph # "lock"

Characters(c, s) ==
  late[c] <= 1 /\ (late[c] = 1 => panicked /\ s.ph # "write")

\* Without an overlap, what the saver has written is still there.
Saver(c, s) ==
  /\ c \in savers <=> s.stage # 0
  /\ ~overlap /\ c \in savers => /\ ~ctx.magic /\ s.by \in SaveAuthors
                                 /\ s.stage >= 2 => ctx.regs = s.by
                                 /\ s.stage >= 3 => ctx.ticks = s.by
                                 /\ s.stage >= 4 => ctx.msg = s.by

Data(c, s) == Interrupts(c, s) /\ Spinlocks(c, s) /\ Characters(c, s) /\ Saver(c, s)

SavesApart ==
  /\ ~overlap => \A c, d \in savers : c = d
  /\ ~overlap /\ savers = {} /\ ctx.magic =>
       ctx.regs = ctx.ticks /\ ctx.ticks = ctx.msg /\ ctx.msg # Nobody

Codes == code \in [CPU -> Seq(Steps)]

Types ==
  /\ holder \in [Lock -> CPU \cup {NoCPU}]
  /\ noff \in [CPU -> Nat] /\ intena \in [CPU -> BOOLEAN] /\ intr \in [CPU -> BOOLEAN]
  /\ panicking \in BOOLEAN /\ panicked \in BOOLEAN
  /\ count \in 0..LOG_SIZE /\ flushing \in BOOLEAN
  /\ ctx \in [regs : Authors, ticks : Authors, msg : Authors, magic : BOOLEAN]
  /\ copy \in [CPU -> [regs : Authors, msg : Authors, magic : BOOLEAN]]
  /\ calls \in [CPU -> 0..MaxCalls] /\ timers \in [CPU -> 0..MaxTimer]
  /\ faults \in 0..MaxFaults
  /\ panics \in Seq(PanicAuthors) /\ late \in [CPU -> Nat]
  /\ savers \subseteq CPU /\ overlap \in BOOLEAN

IInv == /\ Codes /\ Types /\ SavesApart
        /\ \A c \in CPU : \E s \in Point : Outline(c, s) /\ Data(c, s)

\* a step of another CPU, as d sees it
Aside(d) ==
  /\ noff'[d] = noff[d] /\ intena'[d] = intena[d] /\ intr'[d] = intr[d] /\ late'[d] = late[d]
  /\ \A l \in Lock : holder'[l] = d <=> holder[l] = d
  /\ panicking => panicking'
  /\ panicked => panicked'
  /\ overlap => overlap'
  /\ d \in savers' <=> d \in savers
  /\ d \in savers /\ ~overlap' => ctx' = ctx

Monotone == (panicking => panicking') /\ (panicked => panicked') /\ (overlap => overlap')

\* a step that leaves locks, interrupts, panics and saves alone
Quiet == UNCHANGED <<holder, cpuVars, panicking, panicked, saveVars, late>>

-------------------------------------------------------------------------------
(* A step of one CPU *)

\* What a CPU relies on is left alone by the others.
LEMMA OthersKeep ==
  ASSUME NEW d, NEW s, Data(d, s), Aside(d)
  PROVE  Data(d, s)'
<1>1. Interrupts(d, s)'
  BY DEF Data, Aside, Interrupts
<1>2. Spinlocks(d, s)'
  BY DEF Data, Aside, Spinlocks
<1>3. Characters(d, s)'
  BY DEF Data, Aside, Characters
<1>4. Saver(d, s)'
  BY DEF Data, Aside, Saver
<1> QED  BY <1>1, <1>2, <1>3, <1>4 DEF Data

\* A step of c keeps the invariant if it leads c to a point and leaves the others alone.
LEMMA StepKeeps ==
  ASSUME IInv, NEW c \in CPU, NEW q, code' = [code EXCEPT ![c] = q],
         NEW s \in Point, Outline(c, s)', Data(c, s)', Types', SavesApart',
         \A d \in CPU \ {c} : Aside(d), panicking => panicking'
  PROVE  IInv'
<1>1. Codes /\ code'[c] = q /\ \A d \in CPU \ {c} : code'[d] = code[d]
  BY DEF IInv, Codes
<1>2. q \in Seq(Steps)
  BY <1>1 DEF Outline, Leads
<1>3. Codes'
  BY <1>1, <1>2 DEF Codes
<1>4. ASSUME NEW d \in CPU
      PROVE  \E v \in Point : Outline(d, v)' /\ Data(d, v)'
  <2>1. CASE d = c
    BY <2>1
  <2>2. CASE d # c
    <3>1. PICK v \in Point : Outline(d, v) /\ Data(d, v)
      BY DEF IInv
    <3>2. Data(d, v)'
      BY <2>2, <3>1, OthersKeep
    <3>3. PICK t : Final(t) /\ Leads(panicking, d, code[d], v, t)
      BY <3>1 DEF Outline
    <3>4. Leads(panicking', d, code'[d], v, t)
      BY <1>1, <2>2, <3>3, LeadsStill
    <3>5. Outline(d, v)'
      BY <3>3, <3>4 DEF Outline
    <3> QED  BY <3>2, <3>5
  <2> QED  BY <2>1, <2>2
<1> QED  BY <1>3, <1>4 DEF IInv

\* The same for a step that changes nothing shared.
LEMMA QuietKeeps ==
  ASSUME IInv, NEW c \in CPU, NEW q, code' = [code EXCEPT ![c] = q],
         NEW s \in Point, Outline(c, s)', Data(c, s)', Types', Quiet
  PROVE  IInv'
<1>1. SavesApart' /\ (panicking => panicking') /\ \A d \in CPU \ {c} : Aside(d)
  BY DEF IInv, SavesApart, Quiet, cpuVars, saveVars, Aside
<1> QED  BY <1>1, StepKeeps

\* Such a step keeps all but the outline.
LEMMA QuietData ==
  ASSUME NEW c, NEW s, Data(c, s), Quiet
  PROVE  Data(c, s)'
  BY DEF Data, Interrupts, Spinlocks, Characters, Saver, Quiet, cpuVars, saveVars

\* A step of c goes on at the next point, or runs a function that leads there.
LEMMA Continue ==
  ASSUME Codes, NEW c \in CPU, NEW s \in Point, Outline(c, s), code[c] # << >>
  PROVE  \E u \in Point :
           /\ Effect(panicking, c, Head(code[c]), s, u)
           /\ \A v, body : Run(c, body) /\ (panicking => panicking')
                             /\ Leads(panicking', c, body, v, u) => Outline(c, v)'
           /\ Skip(c) /\ (panicking => panicking') => Outline(c, u)'
<1>1. PICK t : Final(t) /\ Leads(panicking, c, code[c], s, t)
  BY DEF Outline
<1>2. PICK u \in Point : /\ Effect(panicking, c, Head(code[c]), s, u)
                         /\ Leads(panicking, c, Tail(code[c]), u, t)
  BY <1>1, LeadsApart
<1>3. ASSUME NEW v, NEW body, Run(c, body), panicking => panicking',
             Leads(panicking', c, body, v, u)
      PROVE  Outline(c, v)'
  <2>1. Leads(panicking', c, Tail(code[c]), u, t)
    BY <1>2, <1>3, LeadsStill
  <2>2. Leads(panicking', c, body \o Tail(code[c]), v, t)
    BY <1>3, <2>1, LeadsOn
  <2>3. code'[c] = body \o Tail(code[c])
    BY <1>3 DEF Run, Codes
  <2> QED  BY <1>1, <2>2, <2>3 DEF Outline
<1>4. Skip(c) /\ (panicking => panicking') => Outline(c, u)'
  <2>1. Leads(panicking', c, << >>, u, u)
    BY LeadsNothing
  <2> QED  BY <1>3, <2>1 DEF Skip
<1> QED  BY <1>2, <1>3, <1>4

\* There is an end.
LEMMA SomeEnd == \E t \in Point : Final(t)
<1> DEFINE End(k) == [n |-> k, held |-> {}, base |-> TRUE, ph |-> "out", stage |-> k, by |-> Nobody]
<1>1. IsFiniteSet({}) /\ Cardinality({}) = 0
  BY FS_EmptySet
<1>2. \A k \in {0} : k \in Nat /\ k \in 0..4 /\ k >= 0
  OBVIOUS
<1>3. \A k \in {0} : End(k) \in Point
  BY <1>1, <1>2, AuthorsAre DEF Point, Phase
<1>4. \A k \in {0} : Final(End(k))
  BY DEF Final
<1> QED  BY <1>3, <1>4

\* A CPU that panics has an outline again, whatever it did.
LEMMA NeverReturns ==
  ASSUME Codes, NEW c \in CPU, NEW msg \in {"bug", "kerneltrap", "sched locks"},
         NEW s \in Point, s.held \subseteq ProcLocks, Never(c, Panic(c, msg))
  PROVE  Outline(c, s)'
<1>1. PICK t \in Point : Final(t)
  BY SomeEnd
<1>2. Leads(panicking', c, Panic(c, msg), s, t)
  BY PanicLeads
<1>3. code'[c] = Panic(c, msg)
  BY DEF Never, Codes
<1> QED  BY <1>1, <1>2, <1>3 DEF Outline

\* A step that changes nothing the point tells, and may run a function.
LEMMA StayingKeeps ==
  ASSUME IInv, NEW c \in CPU, NEW body, Run(c, body), code[c] # << >>,
         Head(code[c]).op \in {"log_add", "thr", "copy_regs", "copy_rest", "flush_end", "flush",
                               "flush_begin", "dump", "wakeup"},
         Quiet, Types',
         \A s \in Point : Stays(Head(code[c]), s) => Leads(panicking, c, body, s, s)
  PROVE  IInv'
<1>1. Codes
  BY DEF IInv
<1>2. PICK s \in Point : Outline(c, s) /\ Data(c, s)
  BY DEF IInv
<1>3. panicking' = panicking
  BY DEF Quiet
<1>4. PICK u \in Point :
        /\ Effect(panicking, c, Head(code[c]), s, u)
        /\ \A v, b : Run(c, b) /\ (panicking => panicking')
                       /\ Leads(panicking', c, b, v, u) => Outline(c, v)'
  BY <1>1, <1>2, Continue
<1>5. Stays(Head(code[c]), s) /\ u = s
  BY <1>4 DEF Effect, Locks, Prints, Saves, Leaves
<1>6. Leads(panicking', c, body, s, s)
  BY <1>3, <1>5
<1>7. Outline(c, s)'
  BY <1>3, <1>4, <1>5, <1>6
<1>8. Data(c, s)'
  BY <1>2, QuietData
<1>9. code' = [code EXCEPT ![c] = body \o Tail(code[c])]
  BY <1>1 DEF Run, Codes
<1> QED  BY <1>7, <1>8, <1>9, QuietKeeps

\* The same without a function.
LEMMA SkippingKeeps ==
  ASSUME IInv, NEW c \in CPU, Skip(c), code[c] # << >>,
         Head(code[c]).op \in {"log_add", "thr", "copy_regs", "copy_rest", "flush_end"},
         Quiet, Types'
  PROVE  IInv'
<1>1. \A s \in Point : Leads(panicking, c, << >>, s, s)
  BY LeadsNothing
<1> QED  BY <1>1, StayingKeeps DEF Skip

\* log_add.
LEMMA LogAddStep ==
  ASSUME IInv, NEW c \in CPU, LogAdd(c)
  PROVE  IInv'
<1>1. Types'
  BY BoundAssumption DEF IInv, Types, LogAdd, cpuVars, saveVars, bounds, history
<1>2. Quiet
  BY DEF LogAdd, Quiet, cpuVars, saveVars, history
<1> QED  BY <1>1, <1>2, SkippingKeeps DEF LogAdd, At

\* uartwrite's WriteReg.
LEMMA ThrStep ==
  ASSUME IInv, NEW c \in CPU, Thr(c)
  PROVE  IInv'
<1>1. Types'
  BY DEF IInv, Types, Thr, cpuVars, logVars, saveVars, bounds, history
<1>2. Quiet
  BY DEF Thr, Quiet, cpuVars, saveVars, history
<1> QED  BY <1>1, <1>2, SkippingKeeps DEF Thr, At

\* The first part of a copyout.
LEMMA CopyRegsStep ==
  ASSUME IInv, NEW c \in CPU, CopyRegs(c)
  PROVE  IInv'
<1>1. copy' \in [CPU -> [regs : Authors, msg : Authors, magic : BOOLEAN]]
  BY AuthorsAre DEF IInv, Types, CopyRegs
<1>2. Types'
  BY <1>1 DEF IInv, Types, CopyRegs, cpuVars, logVars, saveVars, bounds, history
<1>3. Quiet
  BY DEF CopyRegs, Quiet, cpuVars, saveVars, history
<1> QED  BY <1>2, <1>3, SkippingKeeps DEF CopyRegs, At

\* The second.
LEMMA CopyRestStep ==
  ASSUME IInv, NEW c \in CPU, CopyRest(c)
  PROVE  IInv'
<1>1. copy' \in [CPU -> [regs : Authors, msg : Authors, magic : BOOLEAN]]
  BY DEF IInv, Types, CopyRest
<1>2. Types'
  BY <1>1 DEF IInv, Types, CopyRest, cpuVars, logVars, saveVars, bounds, history
<1>3. Quiet
  BY DEF CopyRest, Quiet, cpuVars, saveVars, history
<1> QED  BY <1>2, <1>3, SkippingKeeps DEF CopyRest, At

\* The end of log_flush.
LEMMA FlushEndStep ==
  ASSUME IInv, NEW c \in CPU, FlushEnd(c)
  PROVE  IInv'
<1>1. Types'
  BY DEF IInv, Types, FlushEnd, cpuVars, saveVars, bounds, history
<1>2. Quiet
  BY DEF FlushEnd, Quiet, cpuVars, saveVars, history
<1> QED  BY <1>1, <1>2, SkippingKeeps DEF FlushEnd, At

\* log_flush up to its lock.
LEMMA FlushCallStep ==
  ASSUME IInv, NEW c \in CPU, FlushCall(c)
  PROVE  IInv'
<1> DEFINE x == Head(code[c])
<1>1. Types'
  BY DEF IInv, Types, FlushCall, cpuVars, logVars, saveVars, bounds, history
<1>2. Quiet
  BY DEF FlushCall, Quiet, cpuVars, saveVars, history
<1>3. ASSUME NEW s \in Point, Stays(x, s)
      PROVE  Leads(panicking, c, IF flushing THEN << >>
                                 ELSE Locked(LogLock, Step("flush_begin", << >>)), s, s)
  <2>1. s.ph = "out" /\ LogLock \notin s.held /\ PrLock \notin s.held
    BY <1>3, LocksDiffer DEF Stays, Needs, FlushCall, At
  <2> DEFINE u == Taken(s, LogLock)
  <2>2. u \in Point
    BY <2>1, LocksDiffer, PointTaken
  <2>3. u.ph = "out" /\ PrLock \notin u.held
    BY <2>1, <2>2, LocksDiffer DEF Taken, Point
  <2> HIDE DEF u
  <2>4. Stays([op |-> "flush_begin", arg |-> << >>], u)
    BY <2>3 DEF Stays, Needs
  <2>5. "flush_begin" \in Ops /\ << >> \in Args
    BY DEF Ops, Args
  <2>6. Leads(panicking, c, Step("flush_begin", << >>), u, u)
    BY <2>2, <2>4, <2>5, StaysLeads
  <2>7. Leads(panicking, c, Locked(LogLock, Step("flush_begin", << >>)), s, s)
    BY <2>1, <2>6, LocksDiffer, LockedLeads DEF u
  <2>8. Leads(panicking, c, << >>, s, s)
    BY LeadsNothing
  <2> QED  BY <2>7, <2>8
<1>4. Run(c, IF flushing THEN << >> ELSE Locked(LogLock, Step("flush_begin", << >>)))
  BY DEF FlushCall
<1> QED  BY <1>1, <1>2, <1>3, <1>4, StayingKeeps DEF FlushCall, At

\* Any number of printfs in a row.
LEMMA PrintfsLead ==
  ASSUME NEW p, NEW c, NEW N \in Nat, NEW s \in Point, s.ph = "out", PrLock \notin s.held
  PROVE  Leads(p, c, [i \in 1..N |-> [op |-> "printf", arg |-> Other]], s, s)
<1> DEFINE x == [op |-> "printf", arg |-> Other]
           q == [i \in 1..N |-> x]
           f == [i \in 0..N |-> s]
<1>1. x \in Steps /\ Effect(p, c, x, s, s)
  BY DEF Steps, Ops, Args, Texts, Effect, Stays, Needs
<1> HIDE DEF x
<1>2. q \in Seq(Steps) /\ Len(q) = N /\ \A i \in 1..N : q[i] = x
  BY <1>1
<1>3. f \in [0..N -> Point] /\ f[0] = s /\ f[N] = s
  OBVIOUS
<1>4. \A i \in 1..N : f[i - 1] = s /\ f[i] = s
  OBVIOUS
<1> HIDE DEF q, f
<1>5. Annotates(p, c, q, s, s, f)
  BY <1>1, <1>2, <1>3, <1>4 DEF Annotates
<1>6. Leads(p, c, q, s, s)
  BY <1>2, <1>3, <1>5 DEF Leads
<1> QED  BY <1>6 DEF q, x

\* log_flush prints each entry, with its lock held.
LEMMA FlushBeginStep ==
  ASSUME IInv, NEW c \in CPU, FlushBegin(c)
  PROVE  IInv'
<1> DEFINE N == IF count = 0 THEN 1 ELSE count
           q == [i \in 1..N |-> [op |-> "printf", arg |-> Other]]
<1>1. Types'
  BY DEF IInv, Types, FlushBegin, cpuVars, saveVars, bounds, history
<1>2. Quiet
  BY DEF FlushBegin, Quiet, cpuVars, saveVars, history
<1>3. N \in Nat
  BY BoundAssumption DEF IInv, Types
<1>4. Run(c, q \o Step("flush_end", << >>))
  BY DEF FlushBegin
<1> HIDE DEF N
<1>5. ASSUME NEW s \in Point, Stays(Head(code[c]), s)
      PROVE  Leads(panicking, c, q \o Step("flush_end", << >>), s, s)
  <2>1. s.ph = "out" /\ PrLock \notin s.held
    BY <1>5 DEF Stays, Needs, FlushBegin, At
  <2>2. Leads(panicking, c, q, s, s)
    BY <1>3, <2>1, PrintfsLead
  <2>3. "flush_end" \in Ops /\ << >> \in Args
    BY DEF Ops, Args
  <2>4. Leads(panicking, c, Step("flush_end", << >>), s, s)
    BY <2>3, StaysLeads DEF Stays
  <2> HIDE DEF q
  <2> QED  BY <2>2, <2>4, LeadsOn
<1> HIDE DEF q
<1> QED  BY <1>1, <1>2, <1>4, <1>5, StayingKeeps DEF FlushBegin, At

\* log_dump_crash_context.
LEMMA DumpStep ==
  ASSUME IInv, NEW c \in CPU, Dump(c)
  PROVE  IInv'
<1>1. Types'
  BY DEF IInv, Types, Dump, cpuVars, logVars, saveVars, bounds, history
<1>2. Quiet
  BY DEF Dump, Quiet, cpuVars, saveVars, history
<1>3. ASSUME NEW s \in Point, Stays(Head(code[c]), s)
      PROVE  Leads(panicking, c, Printf(Other), s, s)
  <2>1. s.ph = "out" /\ PrLock \notin s.held
    BY <1>3 DEF Stays, Needs, Dump, At
  <2>2. Other \in Texts
    BY DEF Texts
  <2> QED  BY <2>1, <2>2, PrintfLeads
<1> QED  BY <1>1, <1>2, <1>3, StayingKeeps DEF Dump, At

\* wakeup's next process.
LEMMA WakeupStep ==
  ASSUME IInv, NEW c \in CPU, Wakeup(c)
  PROVE  IInv'
<1> DEFINE S == Arg(c)
<1>1. Types'
  BY DEF IInv, Types, Wakeup, cpuVars, logVars, saveVars, bounds, history
<1>2. Quiet
  BY DEF Wakeup, Quiet, cpuVars, saveVars, history
<1>3. PICK d \in S : Run(c, Locked(ProcLock(d), << >>) \o WakeupOthers(S \ {d}))
  BY DEF Wakeup
<1> DEFINE body == Locked(ProcLock(d), << >>) \o WakeupOthers(S \ {d})
<1>4. ASSUME NEW s \in Point, Stays(Head(code[c]), s)
      PROVE  Leads(panicking, c, body, s, s)
  <2>1. S \subseteq CPU /\ \A e \in S : ProcLock(e) \notin s.held
    BY <1>4 DEF Stays, Wakeup, At, Arg
  <2>2. ProcLock(d) \in Lock \ {PrLock}
    BY <2>1, LocksDiffer DEF ProcLocks
  <2>3. Taken(s, ProcLock(d)) \in Point
    BY <2>1, <2>2, PointTaken
  <2>4. Leads(panicking, c, << >>, Taken(s, ProcLock(d)), Taken(s, ProcLock(d)))
    BY <2>3, LeadsNothing
  <2>5. Leads(panicking, c, Locked(ProcLock(d), << >>), s, s)
    BY <2>1, <2>2, <2>4, LockedLeads
  <2>6. Leads(panicking, c, WakeupOthers(S \ {d}), s, s)
    BY <2>1, WakeupLeads
  <2> QED  BY <2>5, <2>6, LeadsOn
<1> HIDE DEF body
<1>5. Run(c, body)
  BY <1>3 DEF body
<1> QED  BY <1>1, <1>2, <1>4, <1>5, StayingKeeps DEF Wakeup, At

-------------------------------------------------------------------------------
(* The locks *)

\* The point a CPU is at, the one its next step leads to, and how it goes on.
LEMMA Here ==
  ASSUME IInv, NEW c \in CPU, code[c] # << >>
  PROVE  \E s, u \in Point :
           /\ Data(c, s)
           /\ Effect(panicking, c, Head(code[c]), s, u)
           /\ \A v, body : Run(c, body) /\ (panicking => panicking')
                             /\ Leads(panicking', c, body, v, u) => Outline(c, v)'
           /\ Skip(c) /\ (panicking => panicking') => Outline(c, u)'
<1>1. PICK s \in Point : Outline(c, s) /\ Data(c, s)
  BY DEF IInv
<1>2. Codes
  BY DEF IInv
<1> QED  BY <1>1, <1>2, Continue

\* acquire never finds the lock held by its own CPU (NoLockPanic).
LEMMA AcquireCallStep ==
  ASSUME IInv, NEW c \in CPU, AcquireCall(c)
  PROVE  IInv'
<1> DEFINE l == Arg(c)
<1>1. code[c] # << >> /\ Head(code[c]).op = "acquire" /\ Head(code[c]).arg = l
  BY DEF AcquireCall, At, Arg
<1>2. PICK s, u \in Point :
        /\ Data(c, s)
        /\ Effect(panicking, c, Head(code[c]), s, u)
        /\ \A v, body : Run(c, body) /\ (panicking => panicking')
                          /\ Leads(panicking', c, body, v, u) => Outline(c, v)'
        /\ Skip(c) /\ (panicking => panicking') => Outline(c, u)'
  BY <1>1, Here
<1> HIDE DEF l
<1>3. /\ l \in Lock \ s.held /\ (l = PrLock => s.ph = "lock")
      /\ \/ l # PrLock /\ u = Taken(s, l)
         \/ l = PrLock /\ u = In(Taken(s, PrLock), "check")
  BY <1>1, <1>2, LocksDiffer DEF Effect, Stays, Locks, Prints, Saves, Leaves
<1>4. holder[l] # c
  BY <1>2, <1>3 DEF Data, Spinlocks
<1>5. Types /\ Codes /\ panicking' = panicking
  BY DEF IInv, AcquireCall
<1>6. PushOff(c)
  BY DEF AcquireCall
<1>7. noff'[c] = noff[c] + 1 /\ ~intr'[c] /\ intena'[c] = (IF noff[c] = 0 THEN intr[c] ELSE intena[c])
  BY <1>5, <1>6 DEF PushOff, Types
<1>8. \A d \in CPU \ {c} : noff'[d] = noff[d] /\ intena'[d] = intena[d] /\ intr'[d] = intr[d]
  BY <1>5, <1>6 DEF PushOff, Types
<1>9. noff' \in [CPU -> Nat] /\ intena' \in [CPU -> BOOLEAN] /\ intr' \in [CPU -> BOOLEAN]
  BY <1>5, <1>6 DEF PushOff, Types
<1>10. UNCHANGED <<panicking, panicked, logVars, saveVars, copy, bounds, history>>
  BY DEF AcquireCall
<1>11. SavesApart'
  BY <1>10 DEF IInv, SavesApart, saveVars
<1>12. s.n \in Nat /\ s.base \in BOOLEAN
  BY DEF Point
<1>13. /\ \A l2 \in Lock : l2 \in s.held => holder[l2] = c
       /\ \A l2 \in Lock : holder[l2] = c /\ l2 \notin s.held =>
                             l2 = PrLock /\ panicking /\ s.ph # "lock"
  BY <1>2 DEF Data, Spinlocks
<1>14. CASE holder[l] = NoCPU
  <2>1. Skip(c) /\ holder' = [holder EXCEPT ![l] = c]
    BY <1>4, <1>14 DEF AcquireCall, l
  <2>2. Outline(c, u)'
    BY <1>2, <1>5, <2>1
  <2>3. /\ u.n = s.n + 1 /\ u.held = s.held \cup {l} /\ u.base = s.base /\ u.stage = s.stage
        /\ u.by = s.by /\ u.ph = IF l = PrLock THEN "check" ELSE s.ph
    BY <1>3 DEF Taken, In, Point
  <2>4. Interrupts(c, u)'
    BY <1>2, <1>3, <1>5, <1>7, <1>9, <1>12, <2>3 DEF Data, Interrupts, Types
  <2>5. Spinlocks(c, u)'
    BY <1>3, <1>5, <1>13, <2>1, <2>3 DEF Spinlocks, Types
  <2>6. Characters(c, u)'
    BY <1>2, <1>3, <1>10, <2>3 DEF Data, Characters, history
  <2>7. Saver(c, u)'
    BY <1>2, <1>10, <2>3 DEF Data, Saver, saveVars
  <2>8. Types'
    BY <1>5, <1>9, <1>10, <2>1 DEF Types, logVars, saveVars, bounds, history
  <2>9. \A d \in CPU \ {c} : Aside(d)
    BY <1>5, <1>8, <1>10, <1>14, <2>1, CPUAssumption DEF Aside, Types, saveVars, history
  <2>10. code' = [code EXCEPT ![c] = << >> \o Tail(code[c])]
    BY <1>5, <2>1 DEF Skip, Run, Codes
  <2> QED  BY <1>5, <1>11, <2>2, <2>4, <2>5, <2>6, <2>7, <2>8, <2>9, <2>10, StepKeeps DEF Data
<1>15. CASE holder[l] # NoCPU
  <2> DEFINE v == [s EXCEPT !.n = s.n + 1]
  <2>1. Run(c, Step("spin", l)) /\ holder' = holder
    BY <1>4, <1>15 DEF AcquireCall, l
  <2>2. v \in Point /\ Cardinality(v.held) < v.n
    <3>1. Cardinality(s.held) \in Nat /\ Cardinality(s.held) <= s.n /\ s.n + 1 \in Nat
      BY FS_CardinalityType DEF Point
    <3> QED  BY <3>1 DEF Point
  <2>3. /\ v.n = s.n + 1 /\ v.held = s.held /\ v.base = s.base /\ v.stage = s.stage
        /\ v.by = s.by /\ v.ph = s.ph
    BY DEF Point
  <2>4. /\ l # PrLock => u = [v EXCEPT !.held = @ \cup {l}]
        /\ l = PrLock => u = [v EXCEPT !.held = @ \cup {PrLock}, !.ph = "check"]
    BY <1>3 DEF Taken, In, Point
  <2> HIDE DEF v
  <2>5. Effect(panicking, c, [op |-> "spin", arg |-> l], v, u)
    BY <1>3, <2>2, <2>3, <2>4 DEF Effect, Steps, Ops, Args, Locks
  <2>6. Leads(panicking', c, Step("spin", l), v, u)
    BY <1>5, <2>5, LeadsStep
  <2>7. Outline(c, v)'
    BY <1>2, <1>5, <2>1, <2>6
  <2>8. Interrupts(c, v)'
    BY <1>2, <1>5, <1>7, <1>9, <1>12, <2>3 DEF Data, Interrupts, Types
  <2>9. Spinlocks(c, v)'
    BY <1>5, <1>13, <2>1, <2>3 DEF Spinlocks
  <2>10. Characters(c, v)'
    BY <1>2, <1>10, <2>3 DEF Data, Characters, history
  <2>11. Saver(c, v)'
    BY <1>2, <1>10, <2>3 DEF Data, Saver, saveVars
  <2>12. Types'
    BY <1>5, <1>9, <1>10, <2>1 DEF Types, logVars, saveVars, bounds, history
  <2>13. \A d \in CPU \ {c} : Aside(d)
    BY <1>8, <1>10, <2>1 DEF Aside, saveVars, history
  <2>14. code' = [code EXCEPT ![c] = Step("spin", l) \o Tail(code[c])]
    BY <1>5, <2>1 DEF Run, Codes
  <2> QED  BY <1>5, <1>11, <2>2, <2>7, <2>8, <2>9, <2>10, <2>11, <2>12, <2>13, <2>14, StepKeeps
            DEF Data
<1> QED  BY <1>14, <1>15

\* The end of the spin.
LEMMA AcquireSpinStep ==
  ASSUME IInv, NEW c \in CPU, AcquireSpin(c)
  PROVE  IInv'
<1> DEFINE l == Arg(c)
<1>1. code[c] # << >> /\ Head(code[c]).op = "spin" /\ Head(code[c]).arg = l
  BY DEF AcquireSpin, At, Arg
<1>2. PICK s, u \in Point :
        /\ Data(c, s)
        /\ Effect(panicking, c, Head(code[c]), s, u)
        /\ Skip(c) /\ (panicking => panicking') => Outline(c, u)'
  BY <1>1, Here
<1>3. Skip(c) /\ holder[l] = NoCPU /\ holder' = [holder EXCEPT ![l] = c]
  BY DEF AcquireSpin
<1> HIDE DEF l
<1>4. /\ l \in Lock \ s.held /\ (l = PrLock => s.ph = "lock")
      /\ \/ l # PrLock /\ u = [s EXCEPT !.held = @ \cup {l}]
         \/ l = PrLock /\ u = [s EXCEPT !.held = @ \cup {PrLock}, !.ph = "check"]
  BY <1>1, <1>2, LocksDiffer DEF Effect, Stays, Locks, Prints, Saves, Leaves
<1>5. /\ u.n = s.n /\ u.held = s.held \cup {l} /\ u.base = s.base /\ u.stage = s.stage
      /\ u.by = s.by /\ u.ph = IF l = PrLock THEN "check" ELSE s.ph
  BY <1>4 DEF Point
<1>6. UNCHANGED <<cpuVars, panicking, panicked, logVars, saveVars, copy, bounds, history>>
  BY DEF AcquireSpin
<1>7. Types /\ Codes
  BY DEF IInv
<1>8. Outline(c, u)'
  BY <1>2, <1>3, <1>6
<1>9. Interrupts(c, u)'
  BY <1>2, <1>4, <1>5, <1>6 DEF Data, Interrupts, cpuVars
<1>10. Spinlocks(c, u)'
  BY <1>2, <1>3, <1>4, <1>5, <1>6, <1>7 DEF Data, Spinlocks, Types
<1>11. Characters(c, u)'
  BY <1>2, <1>5, <1>6 DEF Data, Characters, history
<1>12. Saver(c, u)'
  BY <1>2, <1>5, <1>6 DEF Data, Saver, saveVars
<1>13. Types' /\ SavesApart'
  BY <1>3, <1>6, <1>7 DEF IInv, Types, SavesApart, cpuVars, logVars, saveVars, bounds, history
<1>14. \A d \in CPU \ {c} : Aside(d)
  BY <1>3, <1>6, <1>7, CPUAssumption DEF Aside, Types, cpuVars, saveVars, history
<1>15. code' = [code EXCEPT ![c] = << >> \o Tail(code[c])]
  BY <1>3, <1>7 DEF Skip, Run, Codes
<1> QED  BY <1>6, <1>8, <1>9, <1>10, <1>11, <1>12, <1>13, <1>14, <1>15, StepKeeps DEF Data

\* release finds the lock held and a pop_off owed, with interrupts off (NoLockPanic).
LEMMA ReleaseKeeps ==
  ASSUME IInv, NEW c \in CPU, NEW s \in Point, NEW u \in Point, NEW l \in s.held,
         ReleaseLock(c, l, << >>), Data(c, s),
         \/ l # PrLock /\ u = Given(s, l)
         \/ s.ph = "end" /\ u = In(Given(s, l), "out"),
         Skip(c) => Outline(c, u)',
         UNCHANGED <<panicking, panicked, logVars, saveVars, copy, bounds, history>>
  PROVE  IInv'
<1>1. /\ u.n = s.n - 1 /\ u.held = s.held \ {l} /\ u.base = s.base /\ u.stage = s.stage
      /\ u.by = s.by /\ u.ph \in {s.ph, "out"} /\ (u.ph = "write" <=> s.ph = "write")
      /\ (u.ph = "lock" => s.ph = "lock" /\ l # PrLock)
  BY DEF Given, In, Point
<1>2. s.n \in Nat /\ s.n > 0 /\ l \in Lock /\ s.base \in BOOLEAN
  BY PointGiven DEF Point
<1>3. Types /\ Codes
  BY DEF IInv
<1>4. holder[l] = c /\ noff[c] >= 1 /\ ~intr[c]
  BY <1>2, <1>3 DEF Data, Spinlocks, Interrupts, Types
<1>5. Skip(c) /\ PopOff(c) /\ holder' = [holder EXCEPT ![l] = NoCPU]
  BY <1>3, <1>4 DEF ReleaseLock, BadPop, Skip, Types
<1>6. /\ noff'[c] = noff[c] - 1 /\ intena' = intena /\ (intr'[c] <=> noff[c] = 1 /\ intena[c])
      /\ \A d \in CPU \ {c} : noff'[d] = noff[d] /\ intr'[d] = intr[d]
  BY <1>3, <1>5 DEF PopOff, Types
<1>7. noff' \in [CPU -> Nat] /\ intr' \in [CPU -> BOOLEAN]
  BY <1>3, <1>4, <1>5 DEF PopOff, Types
<1>8. Interrupts(c, u)'
  BY <1>1, <1>2, <1>3, <1>6, <1>7 DEF Data, Interrupts, Types
<1>9. Spinlocks(c, u)'
  BY <1>1, <1>3, <1>5, CPUAssumption DEF Data, Spinlocks, Types
<1>10. Characters(c, u)'
  BY <1>1 DEF Data, Characters, history
<1>11. Saver(c, u)'
  BY <1>1 DEF Data, Saver, saveVars
<1>12. Types' /\ SavesApart'
  BY <1>3, <1>5, <1>6, <1>7 DEF IInv, Types, SavesApart, logVars, saveVars, bounds, history
<1>13. \A d \in CPU \ {c} : Aside(d)
  BY <1>2, <1>3, <1>4, <1>5, <1>6, CPUAssumption DEF Aside, Types, saveVars, history
<1>14. code' = [code EXCEPT ![c] = << >> \o Tail(code[c])]
  BY <1>3, <1>5 DEF Skip, Run, Codes
<1> QED  BY <1>5, <1>8, <1>9, <1>10, <1>11, <1>12, <1>13, <1>14, StepKeeps DEF Data

\* release.
LEMMA ReleaseStep ==
  ASSUME IInv, NEW c \in CPU, Release(c)
  PROVE  IInv'
<1> DEFINE l == Arg(c)
<1>1. code[c] # << >> /\ Head(code[c]).op = "release" /\ Head(code[c]).arg = l
  BY DEF Release, At, Arg
<1>2. PICK s, u \in Point :
        /\ Data(c, s)
        /\ Effect(panicking, c, Head(code[c]), s, u)
        /\ Skip(c) /\ (panicking => panicking') => Outline(c, u)'
  BY <1>1, Here
<1>3. ReleaseLock(c, l, << >>)
      /\ UNCHANGED <<panicking, panicked, logVars, saveVars, copy, bounds, history>>
  BY DEF Release
<1> HIDE DEF l
<1>4. l \in s.held /\ l # PrLock /\ u = Given(s, l)
  BY <1>1, <1>2 DEF Effect, Stays, Locks, Prints, Saves, Leaves
<1> QED  BY <1>2, <1>3, <1>4, ReleaseKeeps

-------------------------------------------------------------------------------
(* printf and panic *)

\* printf takes pr.lock, or, once somebody panics, does not.
LEMMA PrintfCallStep ==
  ASSUME IInv, NEW c \in CPU, PrintfCall(c)
  PROVE  IInv'
<1> DEFINE text == Arg(c)
           tail == Step("putc", text) \o Step("putc_write", text) \o Step("printf_end", << >>)
           body == IF panicking THEN tail ELSE Step("acquire", PrLock) \o tail
<1>1. code[c] # << >> /\ Head(code[c]).op = "printf" /\ Head(code[c]).arg = text
  BY DEF PrintfCall, At, Arg
<1>2. PICK s, u \in Point :
        /\ Data(c, s)
        /\ Effect(panicking, c, Head(code[c]), s, u)
        /\ \A v, b : Run(c, b) /\ (panicking => panicking')
                       /\ Leads(panicking', c, b, v, u) => Outline(c, v)'
  BY <1>1, Here
<1>3. s.ph = "out" /\ PrLock \notin s.held /\ u = s /\ text \in Args
  BY <1>1, <1>2 DEF Effect, Stays, Needs, Locks, Prints, Saves, Leaves, Steps
<1>4. Run(c, body) /\ Quiet /\ Types'
  BY DEF IInv, PrintfCall, Quiet, Types, cpuVars, logVars, saveVars, bounds, history
<1>5. Codes /\ panicking' = panicking
  BY <1>4 DEF IInv, Quiet
<1> HIDE DEF text
<1>6. "acquire" \in Ops /\ "putc" \in Ops /\ "putc_write" \in Ops /\ "printf_end" \in Ops
      /\ << >> \in Args /\ PrLock \in Args /\ PrLock \in Lock
  BY LocksDiffer DEF Ops, Args
<1>7. ASSUME NEW r \in Point, r.ph = "check",
             \/ PrLock \in r.held /\ In(Given(r, PrLock), "out") = s
             \/ panicking /\ PrLock \notin r.held /\ In(r, "out") = s
      PROVE  Leads(panicking, c, tail, r, s)
  <2> DEFINE w == In(r, "write")
             e == In(r, "end")
  <2>1. w \in Point /\ e \in Point
    BY PointMoved DEF Phase
  <2>2. /\ w.ph = "write" /\ e.ph = "end" /\ e.held = r.held /\ e = In(w, "end")
        /\ In(Given(e, PrLock), "out") = In(Given(r, PrLock), "out")
        /\ In(e, "out") = In(r, "out")
    BY <2>1 DEF In, Given, Point
  <2> HIDE DEF e
  <2>3. Effect(panicking, c, [op |-> "putc", arg |-> text], r, w)
    BY <1>3, <1>6, <1>7, <2>1 DEF Effect, Steps, Prints
  <2> HIDE DEF w
  <2>4. Effect(panicking, c, [op |-> "putc_write", arg |-> text], w, e)
    BY <1>3, <1>6, <2>1, <2>2 DEF Effect, Steps, Prints
  <2>5. Effect(panicking, c, [op |-> "printf_end", arg |-> << >>], e, s)
    BY <1>6, <1>7, <2>1, <2>2 DEF Effect, Steps, Prints
  <2> QED  BY <2>3, <2>4, <2>5, LeadsStep, LeadsOn
<1>8. CASE panicking
  <2> DEFINE v == In(s, "check")
  <2>1. v \in Point
    BY PointMoved DEF Phase
  <2>2. v.ph = "check" /\ v.held = s.held /\ v.n = s.n /\ v.base = s.base /\ v.stage = s.stage
        /\ v.by = s.by /\ In(v, "out") = s
    BY <1>3, <2>1 DEF In, Point
  <2> HIDE DEF v
  <2>3. Leads(panicking, c, tail, v, s)
    BY <1>3, <1>7, <1>8, <2>1, <2>2
  <2> HIDE DEF tail
  <2>4. Outline(c, v)'
    BY <1>2, <1>3, <1>4, <1>5, <1>8, <2>3
  <2>5. Data(c, v)'
    BY <1>2, <1>3, <1>4, <1>8, <2>2
       DEF Data, Interrupts, Spinlocks, Characters, Saver, Quiet, cpuVars, saveVars
  <2>6. code' = [code EXCEPT ![c] = body \o Tail(code[c])]
    BY <1>4, <1>5 DEF Run, Codes
  <2> QED  BY <1>4, <2>1, <2>4, <2>5, <2>6, QuietKeeps
<1>9. CASE ~panicking
  <2> DEFINE v == In(s, "lock")
             w == In(Taken(v, PrLock), "check")
  <2>1. v \in Point
    BY PointMoved DEF Phase
  <2>2. v.ph = "lock" /\ v.held = s.held /\ v.n = s.n /\ v.base = s.base /\ v.stage = s.stage
        /\ v.by = s.by
    BY <1>3, <2>1 DEF In, Point
  <2>3. w \in Point
    BY <1>3, <1>6, <2>1, <2>2, PointTaken, PointMoved DEF Phase
  <2>4. w.ph = "check" /\ PrLock \in w.held /\ In(Given(w, PrLock), "out") = s
    <3>1. (s.held \cup {PrLock}) \ {PrLock} = s.held /\ (s.n + 1) - 1 = s.n
      BY <1>3 DEF Point
    <3>2. /\ w.ph = "check" /\ w.held = s.held \cup {PrLock} /\ w.n = s.n + 1
          /\ w.base = s.base /\ w.stage = s.stage /\ w.by = s.by
      BY <2>1 DEF In, Taken, Point
    <3>3. In(Given(w, PrLock), "out") = s
      BY <1>3, <2>3, <3>1, <3>2 DEF In, Given, Point
    <3> QED  BY <3>2, <3>3
  <2> HIDE DEF v
  <2>5. Effect(panicking, c, [op |-> "acquire", arg |-> PrLock], v, w)
    BY <1>3, <1>6, <2>1, <2>2, <2>3 DEF Effect, Steps, Locks
  <2> HIDE DEF w
  <2>6. Leads(panicking, c, tail, w, s)
    BY <1>7, <2>3, <2>4
  <2> HIDE DEF tail
  <2>7. Leads(panicking, c, Step("acquire", PrLock) \o tail, v, s)
    BY <2>5, <2>6, LeadsStep, LeadsOn
  <2>8. Outline(c, v)'
    BY <1>2, <1>3, <1>4, <1>5, <1>9, <2>7
  <2>9. Data(c, v)'
    BY <1>2, <1>3, <1>4, <1>9, <2>2
       DEF Data, Interrupts, Spinlocks, Characters, Saver, Quiet, cpuVars, saveVars
  <2>10. code' = [code EXCEPT ![c] = body \o Tail(code[c])]
    BY <1>4, <1>5 DEF Run, Codes
  <2> QED  BY <1>4, <2>1, <2>8, <2>9, <2>10, QuietKeeps
<1> QED  BY <1>8, <1>9

\* printf gives pr.lock back, or, when a panic has come in between, leaves it held for good.
LEMMA PrintfEndStep ==
  ASSUME IInv, NEW c \in CPU, PrintfEnd(c)
  PROVE  IInv'
<1>1. code[c] # << >> /\ Head(code[c]).op = "printf_end"
  BY DEF PrintfEnd, At
<1>2. PICK s, u \in Point :
        /\ Data(c, s)
        /\ Effect(panicking, c, Head(code[c]), s, u)
        /\ Skip(c) /\ (panicking => panicking') => Outline(c, u)'
  BY <1>1, Here
<1>3. /\ s.ph = "end"
      /\ \/ PrLock \in s.held /\ u = In(Given(s, PrLock), "out")
         \/ panicking /\ PrLock \notin s.held /\ u = In(s, "out")
  BY <1>1, <1>2 DEF Effect, Stays, Locks, Prints, Saves, Leaves
<1>4. UNCHANGED <<panicking, panicked, logVars, saveVars, copy, bounds, history>>
  BY DEF PrintfEnd
<1>5. Codes /\ panicking' = panicking
  BY <1>4 DEF IInv
<1>6. CASE ~panicking
  <2>1. ReleaseLock(c, PrLock, << >>)
    BY <1>6 DEF PrintfEnd
  <2>2. PrLock \in s.held /\ u = In(Given(s, PrLock), "out")
    BY <1>3, <1>6
  <2> QED  BY <1>2, <1>3, <1>4, <1>5, <2>1, <2>2, ReleaseKeeps
<1>7. CASE panicking
  <2>1. Skip(c) /\ Quiet /\ Types'
    BY <1>7 DEF IInv, PrintfEnd, Quiet, Types, cpuVars, logVars, saveVars, bounds, history
  <2>2. Outline(c, u)'
    BY <1>2, <1>5, <2>1
  <2>3. /\ u.n <= s.n /\ u.held = s.held \ {PrLock} /\ u.stage = s.stage
        /\ u.by = s.by /\ u.ph = "out" /\ (u.n > 0 => s.n > 0)
    <3>1. CASE PrLock \in s.held /\ u = In(Given(s, PrLock), "out")
      <4>1. s.n \in Nat /\ s.n > 0
        BY <3>1, PointGiven DEF Point
      <4> QED  BY <3>1, <4>1 DEF Given, In, Point
    <3>2. CASE PrLock \notin s.held /\ u = In(s, "out")
      <4>1. s.held \ {PrLock} = s.held /\ s.n \in Nat
        BY <3>2 DEF Point
      <4> QED  BY <3>2, <4>1 DEF In, Point
    <3> QED  BY <1>3, <3>1, <3>2
  <2>4. u.n \in Nat /\ s.n \in Nat /\ noff[c] \in Nat
    BY DEF Point, IInv, Types
  <2>5. Interrupts(c, u)'
    BY <1>2, <1>7, <2>1, <2>3, <2>4 DEF Data, Interrupts, Quiet, cpuVars
  <2>6. Spinlocks(c, u)'
    BY <1>2, <1>7, <2>1, <2>3 DEF Data, Spinlocks, Quiet
  <2>7. Characters(c, u)'
    BY <1>2, <2>1, <2>3 DEF Data, Characters, Quiet
  <2>8. Saver(c, u)'
    BY <1>2, <2>1, <2>3 DEF Data, Saver, Quiet, saveVars
  <2>9. code' = [code EXCEPT ![c] = << >> \o Tail(code[c])]
    BY <1>5, <2>1 DEF Skip, Run, Codes
  <2> QED  BY <2>1, <2>2, <2>5, <2>6, <2>7, <2>8, <2>9, QuietKeeps DEF Data
<1> QED  BY <1>6, <1>7

\* What comes after an endless loop is never run.
LEMMA HangLeads ==
  ASSUME NEW p, NEW c, NEW s \in Point, NEW t \in Point
  PROVE  Leads(p, c, Step("hang", << >>), s, t)
<1>1. Effect(p, c, [op |-> "hang", arg |-> << >>], s, t)
  BY DEF Effect, Steps, Ops, Args, Leaves
<1> QED  BY <1>1, LeadsStep

\* uartputc_sync up to its check of panicked.
LEMMA PutcCallStep ==
  ASSUME IInv, NEW c \in CPU, PutcCall(c)
  PROVE  IInv'
<1>1. code[c] # << >> /\ Head(code[c]).op = "putc"
  BY DEF PutcCall, At
<1>2. PICK s, u \in Point :
        /\ Data(c, s)
        /\ Effect(panicking, c, Head(code[c]), s, u)
        /\ Skip(c) /\ (panicking => panicking') => Outline(c, u)'
  BY <1>1, Here
<1>3. s.ph = "check" /\ u = In(s, "write")
  BY <1>1, <1>2 DEF Effect, Stays, Locks, Prints, Saves, Leaves
<1>4. UNCHANGED <<holder, panicking, panicked, logVars, saveVars, copy, bounds, history>>
  BY DEF PutcCall
<1>5. Types /\ Codes /\ SavesApart' /\ panicking' = panicking
  BY <1>4 DEF IInv, SavesApart, saveVars
<1>6. /\ noff'[c] = (IF panicking THEN noff[c] ELSE noff[c] + 1)
      /\ panicking => intr'[c] = intr[c] /\ intena'[c] = intena[c]
      /\ ~panicking => ~intr'[c] /\ intena'[c] = (IF noff[c] = 0 THEN intr[c] ELSE intena[c])
  BY <1>5 DEF PutcCall, PushOff, Types, cpuVars
<1>7. \A d \in CPU \ {c} : noff'[d] = noff[d] /\ intena'[d] = intena[d] /\ intr'[d] = intr[d]
  BY <1>5 DEF PutcCall, PushOff, Types, cpuVars
<1>8. noff' \in [CPU -> Nat] /\ intena' \in [CPU -> BOOLEAN] /\ intr' \in [CPU -> BOOLEAN]
  <2>1. CASE panicking
    BY <1>5, <2>1 DEF PutcCall, Types, cpuVars
  <2>2. CASE ~panicking
    <3>1. PushOff(c)
      BY <2>2 DEF PutcCall
    <3> QED  BY <1>5, <3>1 DEF PushOff, Types
  <2> QED  BY <2>1, <2>2
<1>9. Types'
  BY <1>4, <1>5, <1>8 DEF Types, logVars, saveVars, bounds, history
<1>10. \A d \in CPU \ {c} : Aside(d)
  BY <1>4, <1>7 DEF Aside, saveVars, history
<1>11. s.n \in Nat /\ s.base \in BOOLEAN
  BY DEF Point
<1>12. CASE ~panicked
  <2>1. Skip(c)
    BY <1>12 DEF PutcCall
  <2>2. Outline(c, u)'
    BY <1>2, <1>5, <2>1
  <2>3. u.ph = "write" /\ u.held = s.held /\ u.n = s.n /\ u.base = s.base /\ u.stage = s.stage
        /\ u.by = s.by
    BY <1>3 DEF In, Point
  <2>4. Interrupts(c, u)'
    BY <1>2, <1>3, <1>5, <1>6, <1>8, <1>11, <2>3 DEF Data, Interrupts, Types
  <2>5. Spinlocks(c, u)'
    BY <1>2, <1>3, <1>4, <2>3 DEF Data, Spinlocks
  <2>6. Characters(c, u)'
    BY <1>2, <1>4, <1>12, <2>3 DEF Data, Characters, history
  <2>7. Saver(c, u)'
    BY <1>2, <1>4, <2>3 DEF Data, Saver, saveVars
  <2>8. code' = [code EXCEPT ![c] = << >> \o Tail(code[c])]
    BY <1>5, <2>1 DEF Skip, Run, Codes
  <2> QED  BY <1>5, <1>9, <1>10, <2>2, <2>4, <2>5, <2>6, <2>7, <2>8, StepKeeps DEF Data
<1>13. CASE panicked
  <2>1. PICK k \in Nat : k = IF panicking THEN s.n ELSE s.n + 1
    BY <1>11
  <2>2. PICK r : r = [s EXCEPT !.n = k]
    OBVIOUS
  <2>3. r \in Point
    <3>1. Cardinality(s.held) \in Nat /\ Cardinality(s.held) <= k
      BY <1>11, <2>1, FS_CardinalityType DEF Point
    <3> QED  BY <2>2, <3>1 DEF Point
  <2>4. r.ph = "check" /\ r.held = s.held /\ r.n = k /\ r.base = s.base /\ r.stage = s.stage
        /\ r.by = s.by
    BY <1>3, <2>2 DEF Point
  <2>5. PICK t \in Point : Final(t)
    BY SomeEnd
  <2>6. code' = [code EXCEPT ![c] = Step("hang", << >>)]
    BY <1>13 DEF PutcCall, Never
  <2>7. Leads(panicking', c, Step("hang", << >>), r, t)
    BY <2>3, HangLeads
  <2>8. Outline(c, r)'
    BY <1>5, <2>5, <2>6, <2>7 DEF Outline, Codes
  <2>9. Interrupts(c, r)'
    BY <1>2, <1>3, <1>5, <1>6, <1>8, <1>11, <2>1, <2>4 DEF Data, Interrupts, Types
  <2>10. Spinlocks(c, r)'
    BY <1>2, <1>3, <1>4, <2>4 DEF Data, Spinlocks
  <2>11. Characters(c, r)'
    BY <1>2, <1>4, <1>13, <2>4 DEF Data, Characters, history
  <2>12. Saver(c, r)'
    BY <1>2, <1>4, <2>4 DEF Data, Saver, saveVars
  <2> QED  BY <1>5, <1>9, <1>10, <2>3, <2>6, <2>8, <2>9, <2>10, <2>11, <2>12, StepKeeps DEF Data
<1> QED  BY <1>12, <1>13

\* The character: at most one per CPU after panicked = 1 (FrozenConsole).
LEMMA PutcWriteStep ==
  ASSUME IInv, NEW c \in CPU, PutcWrite(c)
  PROVE  IInv'
<1>1. code[c] # << >> /\ Head(code[c]).op = "putc_write"
  BY DEF PutcWrite, At
<1>2. PICK s, u \in Point :
        /\ Data(c, s)
        /\ Effect(panicking, c, Head(code[c]), s, u)
        /\ Skip(c) /\ (panicking => panicking') => Outline(c, u)'
  BY <1>1, Here
<1>3. s.ph = "write" /\ u = In(s, "end")
  BY <1>1, <1>2 DEF Effect, Stays, Locks, Prints, Saves, Leaves
<1>4. UNCHANGED <<holder, panicking, panicked, logVars, saveVars, copy, bounds, panics>>
  BY DEF PutcWrite
<1>5. Types /\ Codes /\ SavesApart' /\ panicking' = panicking
  BY <1>4 DEF IInv, SavesApart, saveVars
<1>6. s.n \in Nat /\ s.base \in BOOLEAN
  BY DEF Point
<1>7. ~panicking => ~BadPop(c) /\ noff[c] >= 1
  BY <1>2, <1>3, <1>5, <1>6 DEF BadPop, Data, Interrupts, Types
<1>8. Skip(c) /\ (IF panicking THEN UNCHANGED cpuVars ELSE PopOff(c))
  BY <1>7 DEF PutcWrite
<1>9. /\ noff'[c] = (IF panicking THEN noff[c] ELSE noff[c] - 1) /\ intena' = intena
      /\ panicking => intr'[c] = intr[c]
      /\ ~panicking => (intr'[c] <=> noff[c] = 1 /\ intena[c])
  BY <1>5, <1>8 DEF PopOff, Types, cpuVars
<1>10. \A d \in CPU \ {c} : noff'[d] = noff[d] /\ intr'[d] = intr[d]
  BY <1>5, <1>8 DEF PopOff, Types, cpuVars
<1>11. noff' \in [CPU -> Nat] /\ intr' \in [CPU -> BOOLEAN]
  <2>1. CASE panicking
    BY <1>5, <1>8, <2>1 DEF Types, cpuVars
  <2>2. CASE ~panicking
    <3>1. PopOff(c) /\ noff[c] - 1 \in Nat
      BY <1>5, <1>7, <1>8, <2>2 DEF Types
    <3> QED  BY <1>5, <3>1 DEF PopOff, Types
  <2> QED  BY <2>1, <2>2
<1>12. late[c] = 0
  BY <1>2, <1>3, <1>5 DEF Data, Characters, Types
<1>13. /\ late'[c] \in {0, 1} /\ (late'[c] = 1 => panicked) /\ late' \in [CPU -> Nat]
       /\ \A d \in CPU \ {c} : late'[d] = late[d]
  BY <1>5, <1>12 DEF PutcWrite, Types
<1>14. Types'
  BY <1>4, <1>5, <1>9, <1>11, <1>13 DEF Types, logVars, saveVars, bounds
<1>15. \A d \in CPU \ {c} : Aside(d)
  BY <1>4, <1>9, <1>10, <1>13 DEF Aside, saveVars
<1>16. Outline(c, u)'
  BY <1>2, <1>5, <1>8
<1>17. u.ph = "end" /\ u.held = s.held /\ u.n = s.n /\ u.base = s.base /\ u.stage = s.stage
       /\ u.by = s.by
  BY <1>3 DEF In, Point
<1>18. Interrupts(c, u)'
  BY <1>2, <1>3, <1>5, <1>6, <1>9, <1>11, <1>17 DEF Data, Interrupts, Types
<1>19. Spinlocks(c, u)'
  BY <1>2, <1>3, <1>4, <1>17 DEF Data, Spinlocks
<1>20. Characters(c, u)'
  BY <1>4, <1>13, <1>17 DEF Characters
<1>21. Saver(c, u)'
  BY <1>2, <1>4, <1>17 DEF Data, Saver, saveVars
<1>22. code' = [code EXCEPT ![c] = << >> \o Tail(code[c])]
  BY <1>5, <1>8 DEF Skip, Run, Codes
<1> QED  BY <1>5, <1>14, <1>15, <1>16, <1>18, <1>19, <1>20, <1>21, <1>22, StepKeeps DEF Data

\* panic's first step.
LEMMA SetPanickingStep ==
  ASSUME IInv, NEW c \in CPU, SetPanicking(c)
  PROVE  IInv'
<1>1. code[c] # << >> /\ Head(code[c]).op = "panicking" /\ Head(code[c]).arg = Arg(c)
  BY DEF SetPanicking, At, Arg
<1>2. PICK s, u \in Point :
        /\ Data(c, s)
        /\ Effect(panicking, c, Head(code[c]), s, u)
        /\ Skip(c) /\ (panicking => panicking') => Outline(c, u)'
  BY <1>1, Here
<1>3. Arg(c) \in PanicAuthors /\ u = In(s, "out")
  BY <1>1, <1>2 DEF Effect, Stays, Locks, Prints, Saves, Leaves
<1>4. Skip(c) /\ panicking' /\ panics' = Append(panics, Arg(c))
      /\ UNCHANGED <<holder, cpuVars, panicked, logVars, saveVars, copy, bounds, printed, late>>
  BY DEF SetPanicking
<1>5. Types /\ Codes
  BY DEF IInv
<1>6. panics' \in Seq(PanicAuthors) /\ panicking' \in BOOLEAN
  BY <1>3, <1>4, <1>5, AppendProperties DEF Types, SetPanicking
<1>7. Types' /\ SavesApart'
  BY <1>4, <1>5, <1>6 DEF IInv, SavesApart, Types, cpuVars, logVars, saveVars, bounds
<1>8. \A d \in CPU \ {c} : Aside(d)
  BY <1>4 DEF Aside, cpuVars, saveVars
<1>9. u.ph = "out" /\ u.held = s.held /\ u.n = s.n /\ u.base = s.base /\ u.stage = s.stage
      /\ u.by = s.by
  BY <1>3 DEF In, Point
<1>10. Outline(c, u)'
  BY <1>2, <1>4
<1>11. Interrupts(c, u)'
  BY <1>2, <1>4, <1>9 DEF Data, Interrupts, cpuVars
<1>12. Spinlocks(c, u)'
  BY <1>2, <1>4, <1>9 DEF Data, Spinlocks
<1>13. Characters(c, u)'
  BY <1>2, <1>4, <1>9 DEF Data, Characters
<1>14. Saver(c, u)'
  BY <1>2, <1>4, <1>9 DEF Data, Saver, saveVars
<1>15. code' = [code EXCEPT ![c] = << >> \o Tail(code[c])]
  BY <1>4, <1>5 DEF Skip, Run, Codes
<1> QED  BY <1>4, <1>7, <1>8, <1>10, <1>11, <1>12, <1>13, <1>14, <1>15, StepKeeps DEF Data

\* panic's last but one.
LEMMA SetPanickedStep ==
  ASSUME IInv, NEW c \in CPU, SetPanicked(c)
  PROVE  IInv'
<1>1. code[c] # << >> /\ Head(code[c]).op = "panicked"
  BY DEF SetPanicked, At
<1>2. PICK s, u \in Point :
        /\ Data(c, s)
        /\ Effect(panicking, c, Head(code[c]), s, u)
        /\ Skip(c) /\ (panicking => panicking') => Outline(c, u)'
  BY <1>1, Here
<1>3. u = s
  BY <1>1, <1>2 DEF Effect, Stays, Locks, Prints, Saves, Leaves
<1>4. Skip(c) /\ panicked' = TRUE
      /\ UNCHANGED <<holder, cpuVars, panicking, logVars, saveVars, copy, bounds, history>>
  BY DEF SetPanicked
<1>5. Types /\ Codes
  BY DEF IInv
<1>6. Types' /\ SavesApart'
  BY <1>4, <1>5 DEF IInv, SavesApart, Types, cpuVars, logVars, saveVars, bounds, history
<1>7. \A d \in CPU \ {c} : Aside(d)
  BY <1>4 DEF Aside, cpuVars, saveVars, history
<1>8. Outline(c, s)'
  BY <1>2, <1>3, <1>4
<1>9. Data(c, s)'
  BY <1>2, <1>4 DEF Data, Interrupts, Spinlocks, Characters, Saver, cpuVars, saveVars, history
<1>10. code' = [code EXCEPT ![c] = << >> \o Tail(code[c])]
  BY <1>4, <1>5 DEF Skip, Run, Codes
<1> QED  BY <1>4, <1>6, <1>7, <1>8, <1>9, <1>10, StepKeeps

-------------------------------------------------------------------------------
(* The saved context *)

\* The memset, which may overlap another save.
LEMMA SaveClearStep ==
  ASSUME IInv, NEW c \in CPU, SaveClear(c)
  PROVE  IInv'
<1> DEFINE a == Arg(c)
<1>1. code[c] # << >> /\ Head(code[c]).op = "save_clear" /\ Head(code[c]).arg = a
  BY DEF SaveClear, At, Arg
<1>2. PICK s, u \in Point :
        /\ Data(c, s)
        /\ Effect(panicking, c, Head(code[c]), s, u)
        /\ Skip(c) /\ (panicking => panicking') => Outline(c, u)'
  BY <1>1, Here
<1> HIDE DEF a
<1>3. a \in SaveAuthors /\ u = [s EXCEPT !.stage = 1, !.by = a]
  BY <1>1, <1>2 DEF Effect, Stays, Locks, Prints, Saves, Leaves
<1>4. /\ ctx' = [regs |-> Nobody, ticks |-> Nobody, msg |-> Nobody, magic |-> FALSE]
      /\ overlap' = (overlap \/ savers # {})
      /\ savers' = savers \cup {c}
      /\ Skip(c)
      /\ UNCHANGED <<holder, cpuVars, panicking, panicked, logVars, copy, bounds, history>>
  BY DEF SaveClear
<1>5. Types /\ Codes
  BY DEF IInv
<1>6. Types'
  BY <1>4, <1>5, AuthorsAre DEF Types, cpuVars, logVars, bounds, history
<1>7. SavesApart'
  BY <1>4 DEF SavesApart
<1>8. \A d \in CPU \ {c} : Aside(d)
  BY <1>4 DEF Aside, cpuVars, history
<1>9. u.ph = s.ph /\ u.held = s.held /\ u.n = s.n /\ u.base = s.base /\ u.stage = 1 /\ u.by = a
  BY <1>3 DEF Point
<1>10. Outline(c, u)'
  BY <1>2, <1>4
<1>11. Interrupts(c, u)'
  BY <1>2, <1>4, <1>9 DEF Data, Interrupts, cpuVars
<1>12. Spinlocks(c, u)'
  BY <1>2, <1>4, <1>9 DEF Data, Spinlocks
<1>13. Characters(c, u)'
  BY <1>2, <1>4, <1>9 DEF Data, Characters, history
<1>14. Saver(c, u)'
  BY <1>3, <1>4, <1>9 DEF Saver
<1>15. code' = [code EXCEPT ![c] = << >> \o Tail(code[c])]
  BY <1>4, <1>5 DEF Skip, Run, Codes
<1> QED  BY <1>4, <1>6, <1>7, <1>8, <1>10, <1>11, <1>12, <1>13, <1>14, <1>15, StepKeeps DEF Data

\* A step inside a save: without an overlap, there is no other.
LEMMA SaveKeeps ==
  ASSUME IInv, NEW c \in CPU, NEW u \in Point, NEW k, code' = [code EXCEPT ![c] = k],
         c \in savers, Outline(c, u)', Interrupts(c, u)', Spinlocks(c, u)', Characters(c, u)',
         Saver(c, u)', Types',
         savers' = savers \/ (savers' = savers \ {c} /\ (~overlap =>
            ctx'.regs = ctx'.ticks /\ ctx'.ticks = ctx'.msg /\ ctx'.msg # Nobody)),
         \A d \in CPU \ {c} : noff'[d] = noff[d] /\ intena'[d] = intena[d] /\ intr'[d] = intr[d],
         UNCHANGED <<holder, panicking, panicked, overlap, late>>
  PROVE  IInv'
<1>1. ~overlap => savers = {c}
  BY DEF IInv, SavesApart
<1>2. SavesApart'
  BY <1>1 DEF IInv, SavesApart
<1>3. \A d \in CPU \ {c} : Aside(d)
  BY <1>1 DEF Aside
<1> QED  BY <1>2, <1>3, StepKeeps DEF Data

\* Registers and CSRs.
LEMMA SaveRegsStep ==
  ASSUME IInv, NEW c \in CPU, SaveRegs(c)
  PROVE  IInv'
<1>1. code[c] # << >> /\ Head(code[c]).op = "save_regs" /\ Head(code[c]).arg = Arg(c)
  BY DEF SaveRegs, SaveField, At, Arg
<1>2. PICK s, u \in Point :
        /\ Data(c, s)
        /\ Effect(panicking, c, Head(code[c]), s, u)
        /\ Skip(c) /\ (panicking => panicking') => Outline(c, u)'
  BY <1>1, Here
<1>3. s.stage = 1 /\ Arg(c) = s.by /\ u = [s EXCEPT !.stage = 2]
  BY <1>1, <1>2 DEF Effect, Stays, Locks, Prints, Saves, Leaves
<1>4. /\ ctx' = [ctx EXCEPT !.regs = s.by] /\ Skip(c)
      /\ UNCHANGED <<holder, cpuVars, panicking, panicked, logVars, savers, overlap, copy,
                     bounds, history>>
  BY <1>3 DEF SaveRegs, SaveField
<1>5. Types /\ Codes /\ s.by \in Authors /\ c \in savers
  BY <1>2, <1>3 DEF IInv, Point, Data, Saver
<1>6. ctx'.regs = s.by /\ ctx'.magic = ctx.magic
      /\ ctx' \in [regs : Authors, ticks : Authors, msg : Authors, magic : BOOLEAN]
  BY <1>4, <1>5 DEF Types
<1>7. Types'
  BY <1>4, <1>5, <1>6 DEF Types, cpuVars, logVars, bounds, history
<1>8. u.ph = s.ph /\ u.held = s.held /\ u.n = s.n /\ u.base = s.base /\ u.stage = 2 /\ u.by = s.by
  BY <1>3 DEF Point
<1>9. Outline(c, u)'
  BY <1>2, <1>4
<1>10. Interrupts(c, u)'
  BY <1>2, <1>4, <1>8 DEF Data, Interrupts, cpuVars
<1>11. Spinlocks(c, u)'
  BY <1>2, <1>4, <1>8 DEF Data, Spinlocks
<1>12. Characters(c, u)'
  BY <1>2, <1>4, <1>8 DEF Data, Characters, history
<1>13. Saver(c, u)'
  BY <1>2, <1>3, <1>4, <1>6, <1>8 DEF Data, Saver
<1>14. code' = [code EXCEPT ![c] = << >> \o Tail(code[c])]
  BY <1>4, <1>5 DEF Skip, Run, Codes
<1>15. \A d \in CPU \ {c} : noff'[d] = noff[d] /\ intena'[d] = intena[d] /\ intr'[d] = intr[d]
  BY <1>4 DEF cpuVars
<1> QED  BY <1>4, <1>5, <1>7, <1>9, <1>10, <1>11, <1>12, <1>13, <1>14, <1>15, SaveKeeps
          DEF history

\* The clock.
LEMMA SaveTicksStep ==
  ASSUME IInv, NEW c \in CPU, SaveTicks(c)
  PROVE  IInv'
<1>1. code[c] # << >> /\ Head(code[c]).op = "save_ticks" /\ Head(code[c]).arg = Arg(c)
  BY DEF SaveTicks, SaveField, At, Arg
<1>2. PICK s, u \in Point :
        /\ Data(c, s)
        /\ Effect(panicking, c, Head(code[c]), s, u)
        /\ Skip(c) /\ (panicking => panicking') => Outline(c, u)'
  BY <1>1, Here
<1>3. s.stage = 2 /\ Arg(c) = s.by /\ u = [s EXCEPT !.stage = 3]
  BY <1>1, <1>2 DEF Effect, Stays, Locks, Prints, Saves, Leaves
<1>4. /\ ctx' = [ctx EXCEPT !.ticks = s.by] /\ Skip(c)
      /\ UNCHANGED <<holder, cpuVars, panicking, panicked, logVars, savers, overlap, copy,
                     bounds, history>>
  BY <1>3 DEF SaveTicks, SaveField
<1>5. Types /\ Codes /\ s.by \in Authors /\ c \in savers
  BY <1>2, <1>3 DEF IInv, Point, Data, Saver
<1>6. ctx'.ticks = s.by /\ ctx'.regs = ctx.regs /\ ctx'.magic = ctx.magic
      /\ ctx' \in [regs : Authors, ticks : Authors, msg : Authors, magic : BOOLEAN]
  BY <1>4, <1>5 DEF Types
<1>7. Types'
  BY <1>4, <1>5, <1>6 DEF Types, cpuVars, logVars, bounds, history
<1>8. u.ph = s.ph /\ u.held = s.held /\ u.n = s.n /\ u.base = s.base /\ u.stage = 3 /\ u.by = s.by
  BY <1>3 DEF Point
<1>9. Outline(c, u)'
  BY <1>2, <1>4
<1>10. Interrupts(c, u)'
  BY <1>2, <1>4, <1>8 DEF Data, Interrupts, cpuVars
<1>11. Spinlocks(c, u)'
  BY <1>2, <1>4, <1>8 DEF Data, Spinlocks
<1>12. Characters(c, u)'
  BY <1>2, <1>4, <1>8 DEF Data, Characters, history
<1>13. Saver(c, u)'
  BY <1>2, <1>3, <1>4, <1>6, <1>8 DEF Data, Saver
<1>14. code' = [code EXCEPT ![c] = << >> \o Tail(code[c])]
  BY <1>4, <1>5 DEF Skip, Run, Codes
<1>15. \A d \in CPU \ {c} : noff'[d] = noff[d] /\ intena'[d] = intena[d] /\ intr'[d] = intr[d]
  BY <1>4 DEF cpuVars
<1> QED  BY <1>4, <1>5, <1>7, <1>9, <1>10, <1>11, <1>12, <1>13, <1>14, <1>15, SaveKeeps
          DEF history

\* Process and message; the walk of the frames may fault, and kerneltrap panics.
LEMMA SaveProcStep ==
  ASSUME IInv, NEW c \in CPU, SaveProc(c)
  PROVE  IInv'
<1>1. code[c] # << >> /\ Head(code[c]).op = "save_proc" /\ Head(code[c]).arg = Arg(c)
  BY DEF SaveProc, At, Arg
<1>2. PICK s, u \in Point :
        /\ Data(c, s)
        /\ Effect(panicking, c, Head(code[c]), s, u)
        /\ Skip(c) /\ (panicking => panicking') => Outline(c, u)'
  BY <1>1, Here
<1>3. /\ s.stage = 3 /\ Arg(c) = s.by /\ u = [s EXCEPT !.stage = 4]
      /\ s.ph = "out" /\ s.held \subseteq ProcLocks
  BY <1>1, <1>2 DEF Effect, Stays, Locks, Prints, Saves, Leaves
<1>4. /\ ctx' = [ctx EXCEPT !.msg = s.by]
      /\ UNCHANGED <<holder, panicking, panicked, logVars, savers, overlap, copy, calls, timers,
                     history>>
  BY <1>3 DEF SaveProc
<1>5. Types /\ Codes /\ s.by \in Authors /\ c \in savers
  BY <1>2, <1>3 DEF IInv, Point, Data, Saver
<1>6. ctx'.msg = s.by /\ ctx'.regs = ctx.regs /\ ctx'.ticks = ctx.ticks /\ ctx'.magic = ctx.magic
      /\ ctx' \in [regs : Authors, ticks : Authors, msg : Authors, magic : BOOLEAN]
  BY <1>4, <1>5 DEF Types
<1>7. CASE Skip(c) /\ UNCHANGED <<cpuVars, faults>>
  <2>1. Types'
    BY <1>4, <1>5, <1>6, <1>7 DEF Types, cpuVars, logVars, history
  <2>2. u.ph = s.ph /\ u.held = s.held /\ u.n = s.n /\ u.base = s.base /\ u.stage = 4
        /\ u.by = s.by
    BY <1>3 DEF Point
  <2>3. Outline(c, u)'
    BY <1>2, <1>4, <1>7
  <2>4. Interrupts(c, u)'
    BY <1>2, <1>4, <1>7, <2>2 DEF Data, Interrupts, cpuVars
  <2>5. Spinlocks(c, u)'
    BY <1>2, <1>4, <2>2 DEF Data, Spinlocks
  <2>6. Characters(c, u)'
    BY <1>2, <1>4, <2>2 DEF Data, Characters, history
  <2>7. Saver(c, u)'
    BY <1>2, <1>3, <1>4, <1>6, <2>2 DEF Data, Saver
  <2>8. code' = [code EXCEPT ![c] = << >> \o Tail(code[c])]
    BY <1>5, <1>7 DEF Skip, Run, Codes
  <2>9. \A d \in CPU \ {c} : noff'[d] = noff[d] /\ intena'[d] = intena[d] /\ intr'[d] = intr[d]
    BY <1>7 DEF cpuVars
  <2> QED  BY <1>4, <1>5, <2>1, <2>3, <2>4, <2>5, <2>6, <2>7, <2>8, <2>9, SaveKeeps DEF history
<1>8. CASE /\ faults < MaxFaults /\ faults' = faults + 1
           /\ intr' = [intr EXCEPT ![c] = FALSE]
           /\ Never(c, Printf(Other) \o Panic(c, "kerneltrap"))
           /\ UNCHANGED <<noff, intena>>
  <2>1. faults' \in 0..MaxFaults
    BY <1>5, <1>8, BoundAssumption DEF Types
  <2>2. Types'
    BY <1>4, <1>5, <1>6, <1>8, <2>1 DEF Types, logVars, history
  <2>3. PICK b \in BOOLEAN : b = IF s.n = 0 THEN FALSE ELSE s.base
    BY DEF Point
  <2>4. PICK v \in Point : v = [s EXCEPT !.base = b]
    BY PointMoved
  <2>5. v.ph = "out" /\ v.held = s.held /\ v.n = s.n /\ v.base = b /\ v.stage = 3 /\ v.by = s.by
    BY <1>3, <2>4 DEF Point
  <2>6. PICK t \in Point : Final(t)
    BY SomeEnd
  <2>7. Leads(panicking', c, Printf(Other), v, v)
    <3>1. PrLock \notin v.held /\ Other \in Texts
      BY <1>3, <2>5, LocksDiffer DEF Texts
    <3> QED  BY <2>5, <3>1, PrintfLeads
  <2>8. Leads(panicking', c, Panic(c, "kerneltrap"), v, t)
    BY <1>3, <2>5, PanicLeads
  <2>9. Leads(panicking', c, Printf(Other) \o Panic(c, "kerneltrap"), v, t)
    BY <2>7, <2>8, LeadsOn
  <2>10. code' = [code EXCEPT ![c] = Printf(Other) \o Panic(c, "kerneltrap")]
    BY <1>8 DEF Never
  <2>11. Outline(c, v)'
    BY <1>5, <2>6, <2>9, <2>10 DEF Outline, Codes
  <2>12. s.n \in Nat /\ s.base \in BOOLEAN
    BY DEF Point
  <2>13. Interrupts(c, v)'
    BY <1>2, <1>3, <1>4, <1>5, <1>8, <2>3, <2>5, <2>12 DEF Data, Interrupts, Types
  <2>14. Spinlocks(c, v)'
    BY <1>2, <1>3, <1>4, <2>5 DEF Data, Spinlocks
  <2>15. Characters(c, v)'
    BY <1>2, <1>4, <2>5 DEF Data, Characters, history
  <2>16. Saver(c, v)'
    BY <1>2, <1>3, <1>4, <1>6, <2>5 DEF Data, Saver
  <2>17. \A d \in CPU \ {c} : noff'[d] = noff[d] /\ intena'[d] = intena[d] /\ intr'[d] = intr[d]
    BY <1>5, <1>8 DEF Types
  <2> QED  BY <1>4, <1>5, <2>2, <2>10, <2>11, <2>13, <2>14, <2>15, <2>16, <2>17, SaveKeeps
            DEF history
<1> QED  BY <1>7, <1>8 DEF SaveProc

\* The magic number, when all fields are of one author (MagicPublishes).
LEMMA SaveMagicStep ==
  ASSUME IInv, NEW c \in CPU, SaveMagic(c)
  PROVE  IInv'
<1>1. code[c] # << >> /\ Head(code[c]).op = "save_magic"
  BY DEF SaveMagic, At
<1>2. PICK s, u \in Point :
        /\ Data(c, s)
        /\ Effect(panicking, c, Head(code[c]), s, u)
        /\ Skip(c) /\ (panicking => panicking') => Outline(c, u)'
  BY <1>1, Here
<1>3. s.stage = 4 /\ u = [s EXCEPT !.stage = 0]
  BY <1>1, <1>2 DEF Effect, Stays, Locks, Prints, Saves, Leaves
<1>4. /\ ctx' = [ctx EXCEPT !.magic = TRUE] /\ savers' = savers \ {c} /\ Skip(c)
      /\ UNCHANGED <<holder, cpuVars, panicking, panicked, logVars, overlap, copy, bounds, history>>
  BY DEF SaveMagic
<1>5. Types /\ Codes /\ c \in savers
  BY <1>2, <1>3 DEF IInv, Data, Saver
<1>6. ctx'.msg = ctx.msg /\ ctx'.regs = ctx.regs /\ ctx'.ticks = ctx.ticks
      /\ ctx' \in [regs : Authors, ticks : Authors, msg : Authors, magic : BOOLEAN]
  BY <1>4, <1>5 DEF Types
<1>7. Types'
  BY <1>4, <1>5, <1>6 DEF Types, cpuVars, logVars, bounds, history
<1>8. ~overlap => ctx'.regs = ctx'.ticks /\ ctx'.ticks = ctx'.msg /\ ctx'.msg # Nobody
  <2>1. s.stage >= 2 /\ s.stage >= 3 /\ s.stage >= 4
    BY <1>3
  <2>2. ~overlap => ctx.regs = s.by /\ ctx.ticks = s.by /\ ctx.msg = s.by /\ s.by \in SaveAuthors
    BY <1>2, <1>5, <2>1 DEF Data, Saver
  <2>3. Nobody \notin SaveAuthors
    BY AuthorsAre
  <2> QED  BY <1>6, <2>2, <2>3
<1>9. u.ph = s.ph /\ u.held = s.held /\ u.n = s.n /\ u.base = s.base /\ u.stage = 0
  BY <1>3 DEF Point
<1>10. Outline(c, u)'
  BY <1>2, <1>4
<1>11. Interrupts(c, u)'
  BY <1>2, <1>4, <1>9 DEF Data, Interrupts, cpuVars
<1>12. Spinlocks(c, u)'
  BY <1>2, <1>4, <1>9 DEF Data, Spinlocks
<1>13. Characters(c, u)'
  BY <1>2, <1>4, <1>9 DEF Data, Characters, history
<1>14. Saver(c, u)'
  BY <1>4, <1>9 DEF Saver
<1>15. code' = [code EXCEPT ![c] = << >> \o Tail(code[c])]
  BY <1>4, <1>5 DEF Skip, Run, Codes
<1>16. \A d \in CPU \ {c} : noff'[d] = noff[d] /\ intena'[d] = intena[d] /\ intr'[d] = intr[d]
  BY <1>4 DEF cpuVars
<1> QED  BY <1>4, <1>5, <1>7, <1>8, <1>10, <1>11, <1>12, <1>13, <1>14, <1>15, <1>16, SaveKeeps
          DEF history

-------------------------------------------------------------------------------
(* Calls, interrupts and the scheduler *)

\* The return from an interrupt.
LEMMA SretStep ==
  ASSUME IInv, NEW c \in CPU, Sret(c)
  PROVE  IInv'
<1>1. code[c] # << >> /\ Head(code[c]).op = "sret"
  BY DEF Sret, At
<1>2. PICK s, u \in Point :
        /\ Data(c, s)
        /\ Effect(panicking, c, Head(code[c]), s, u)
        /\ Skip(c) /\ (panicking => panicking') => Outline(c, u)'
  BY <1>1, Here
<1>3. /\ s.n = 0
      /\ \/ s.ph # "write" /\ u = [s EXCEPT !.base = TRUE]
         \/ panicking /\ \E b \in BOOLEAN : u = [s EXCEPT !.base = b]
  BY <1>1, <1>2 DEF Effect, Stays, Locks, Prints, Saves, Leaves
<1>4. /\ u.n = s.n /\ u.held = s.held /\ u.ph = s.ph /\ u.stage = s.stage /\ u.by = s.by
      /\ ~panicking => s.ph # "write" /\ u.base
  BY <1>3 DEF Point
<1>5. /\ intr' = [intr EXCEPT ![c] = TRUE] /\ Skip(c)
      /\ UNCHANGED <<holder, noff, intena, panicking, panicked, logVars, saveVars, copy, bounds,
                     history>>
  BY DEF Sret
<1>6. Types /\ Codes
  BY DEF IInv
<1>7. Types' /\ SavesApart'
  BY <1>5, <1>6 DEF IInv, SavesApart, Types, logVars, saveVars, bounds, history
<1>8. \A d \in CPU \ {c} : Aside(d)
  BY <1>5, <1>6 DEF Aside, Types, saveVars, history
<1>9. Outline(c, u)'
  BY <1>2, <1>5
<1>10. Interrupts(c, u)'
  BY <1>2, <1>3, <1>4, <1>5, <1>6 DEF Data, Interrupts, Types
<1>11. Spinlocks(c, u)'
  BY <1>2, <1>4, <1>5 DEF Data, Spinlocks
<1>12. Characters(c, u)'
  BY <1>2, <1>4, <1>5 DEF Data, Characters, history
<1>13. Saver(c, u)'
  BY <1>2, <1>4, <1>5 DEF Data, Saver, saveVars
<1>14. code' = [code EXCEPT ![c] = << >> \o Tail(code[c])]
  BY <1>5, <1>6 DEF Skip, Run, Codes
<1> QED  BY <1>5, <1>7, <1>8, <1>9, <1>10, <1>11, <1>12, <1>13, <1>14, StepKeeps DEF Data

\* sched, which panics when a panic elsewhere has left noff too high.
LEMMA SchedStep ==
  ASSUME IInv, NEW c \in CPU, Sched(c)
  PROVE  IInv'
<1>1. code[c] # << >> /\ Head(code[c]).op = "sched"
  BY DEF Sched, At
<1>2. PICK s, u \in Point :
        /\ Data(c, s)
        /\ Effect(panicking, c, Head(code[c]), s, u)
        /\ Skip(c) /\ (panicking => panicking') => Outline(c, u)'
  BY <1>1, Here
<1>3. s.held = {ProcLock(c)} /\ u = s
  BY <1>1, <1>2 DEF Effect, Stays, Locks, Prints, Saves, Leaves
<1>4. Quiet /\ Types'
  BY DEF IInv, Sched, Quiet, Types, cpuVars, logVars, saveVars, bounds, history
<1>5. Codes /\ panicking' = panicking /\ Data(c, s)'
  BY <1>2, <1>4, QuietData DEF IInv, Quiet
<1>6. CASE noff[c] = 1
  <2>1. Skip(c)
    BY <1>6 DEF Sched
  <2>2. Outline(c, s)'
    BY <1>2, <1>3, <1>5, <2>1
  <2>3. code' = [code EXCEPT ![c] = << >> \o Tail(code[c])]
    BY <1>5, <2>1 DEF Skip, Run, Codes
  <2> QED  BY <1>4, <1>5, <2>2, <2>3, QuietKeeps
<1>7. CASE noff[c] # 1
  <2>1. Never(c, Panic(c, "sched locks"))
    BY <1>7 DEF Sched
  <2>2. s.held \subseteq ProcLocks
    BY <1>3 DEF ProcLocks
  <2>3. Outline(c, s)'
    BY <1>5, <2>1, <2>2, NeverReturns
  <2>4. code' = [code EXCEPT ![c] = Panic(c, "sched locks")]
    BY <2>1 DEF Never
  <2> QED  BY <1>4, <1>5, <2>3, <2>4, QuietKeeps
<1> QED  BY <1>6, <1>7

\* Where the continuation is empty, nothing is owed.
LEMMA AtEnd ==
  ASSUME NEW c, NEW s, Outline(c, s), code[c] = << >>
  PROVE  Final(s)
  BY LeadsNowhere DEF Outline

\* A system call.
LEMMA CallStep ==
  ASSUME IInv, NEW c \in CPU, Call(c)
  PROVE  IInv'
<1>1. PICK s \in Point : Outline(c, s) /\ Data(c, s)
  BY DEF IInv
<1>2. Final(s)
  BY <1>1, AtEnd DEF Call
<1>3. PICK call \in Work[c] : code' = [code EXCEPT ![c] = Body(c, call)]
  BY DEF Call
<1>4. /\ calls[c] < MaxCalls /\ calls' = [calls EXCEPT ![c] = @ + 1]
      /\ (faults' = faults \/ (faults < MaxFaults /\ faults' = faults + 1))
      /\ intr' = [intr EXCEPT ![c] = TRUE]
      /\ UNCHANGED <<holder, noff, intena, panicking, panicked, logVars, saveVars, copy, timers,
                     history>>
  BY DEF Call
<1>5. Types /\ Codes
  BY DEF IInv
<1>6. calls' \in [CPU -> 0..MaxCalls] /\ faults' \in 0..MaxFaults
  BY <1>4, <1>5, BoundAssumption DEF Types
<1>7. Types' /\ SavesApart'
  BY <1>4, <1>5, <1>6 DEF IInv, SavesApart, Types, logVars, saveVars, history
<1>8. \A d \in CPU \ {c} : Aside(d)
  BY <1>4, <1>5 DEF Aside, Types, saveVars, history
<1>9. PICK t \in Point : Final(t) /\ Leads(panicking', c, Body(c, call), s, t)
  BY <1>2, BodyLeads
<1>10. Outline(c, s)'
  BY <1>3, <1>5, <1>9 DEF Outline, Codes
<1>11. Interrupts(c, s)'
  BY <1>1, <1>2, <1>4, <1>5 DEF Data, Interrupts, Final, Types
<1>12. Spinlocks(c, s)'
  BY <1>1, <1>4 DEF Data, Spinlocks
<1>13. Characters(c, s)'
  BY <1>1, <1>4 DEF Data, Characters, history
<1>14. Saver(c, s)'
  BY <1>1, <1>4 DEF Data, Saver, saveVars
<1> QED  BY <1>3, <1>4, <1>7, <1>8, <1>10, <1>11, <1>12, <1>13, <1>14, StepKeeps DEF Data

\* A timer interrupt comes only where nothing is owed.
LEMMA TimerIntrStep ==
  ASSUME IInv, NEW c \in CPU, TimerIntr(c)
  PROVE  IInv'
<1>1. PICK s \in Point : Outline(c, s) /\ Data(c, s)
  BY DEF IInv
<1>2. /\ code[c] = << >> \/ intr[c]
      /\ timers[c] < MaxTimer /\ timers' = [timers EXCEPT ![c] = @ + 1]
      /\ intr' = [intr EXCEPT ![c] = FALSE]
      /\ UNCHANGED <<holder, noff, intena, panicking, panicked, logVars, saveVars, copy, calls,
                     faults, history>>
  BY DEF TimerIntr
<1>3. Types /\ Codes
  BY DEF IInv
<1>4. s.n \in Nat /\ s.base \in BOOLEAN /\ s.held \subseteq Lock
  BY DEF Point
<1>5. s.n = 0 /\ (~panicking => s.base /\ s.ph # "write")
  <2>1. CASE code[c] = << >>
    <3>1. Final(s)
      BY <1>1, <2>1, AtEnd
    <3> QED  BY <3>1 DEF Final
  <2>2. CASE intr[c]
    BY <1>1, <1>4, <2>2 DEF Data, Interrupts
  <2> QED  BY <1>2, <2>1, <2>2
<1>6. s.held = {}
  <2>1. IsFiniteSet(s.held) /\ Cardinality(s.held) \in Nat /\ Cardinality(s.held) <= s.n
    BY FS_CardinalityType DEF Point
  <2> QED  BY <1>5, <2>1, FS_EmptySet
<1> DEFINE v == [s EXCEPT !.base = FALSE]
<1>7. v \in Point /\ v.base = FALSE /\ v.n = s.n /\ v.held = s.held /\ v.ph = s.ph
      /\ v.stage = s.stage /\ v.by = s.by
  <2>1. v \in Point
    BY PointMoved
  <2> QED  BY <2>1 DEF Point
<1>8. s = [v EXCEPT !.base = s.base] /\ (s.base => s = [v EXCEPT !.base = TRUE])
  BY DEF Point
<1> HIDE DEF v
<1>9. Effect(panicking, c, [op |-> "sret", arg |-> << >>], v, s)
  BY <1>4, <1>5, <1>7, <1>8 DEF Effect, Steps, Ops, Args, Leaves
<1>10. /\ Leads(panicking, c, Step("sret", << >>), v, s)
       /\ Leads(panicking, c, ClockIntr(c), v, v)
       /\ Leads(panicking, c, Yield(c), v, v)
  BY <1>6, <1>7, <1>9, LeadsStep, ClockIntrLeads, YieldLeads
<1> DEFINE body == ClockIntr(c) \o Yield(c) \o Step("sret", << >>)
<1>11. Leads(panicking, c, body, v, s)
  BY <1>10, LeadsOn
<1>12. PICK t : Final(t) /\ Leads(panicking, c, code[c], s, t)
  BY <1>1 DEF Outline
<1>13. code' = [code EXCEPT ![c] = body \o code[c]]
  BY <1>3 DEF TimerIntr, Codes
<1> HIDE DEF body
<1>14. Leads(panicking, c, body \o code[c], v, t)
  BY <1>11, <1>12, LeadsOn
<1>15. Outline(c, v)'
  BY <1>2, <1>3, <1>12, <1>13, <1>14 DEF Outline, Codes
<1>16. timers' \in [CPU -> 0..MaxTimer]
  BY <1>2, <1>3, BoundAssumption DEF Types
<1>17. Types' /\ SavesApart'
  BY <1>2, <1>3, <1>16 DEF IInv, SavesApart, Types, logVars, saveVars, history
<1>18. \A d \in CPU \ {c} : Aside(d)
  BY <1>2, <1>3 DEF Aside, Types, saveVars, history
<1>19. Interrupts(c, v)'
  BY <1>1, <1>2, <1>3, <1>5, <1>7 DEF Data, Interrupts, Types
<1>20. Spinlocks(c, v)'
  BY <1>1, <1>2, <1>7 DEF Data, Spinlocks
<1>21. Characters(c, v)'
  BY <1>1, <1>2, <1>7 DEF Data, Characters, history
<1>22. Saver(c, v)'
  BY <1>1, <1>2, <1>7 DEF Data, Saver, saveVars
<1> QED  BY <1>2, <1>7, <1>13, <1>15, <1>17, <1>18, <1>19, <1>20, <1>21, <1>22, StepKeeps DEF Data

-------------------------------------------------------------------------------
(* The theorems *)

\* All CPUs start in user mode.
LEMMA InitIInv == Init => IInv
<1> SUFFICES ASSUME Init PROVE IInv
  OBVIOUS
<1>1. Codes
  BY DEF Init, Codes
<1>2. Types
  <2>1. /\ ctx \in [regs : Authors, ticks : Authors, msg : Authors, magic : BOOLEAN]
        /\ copy \in [CPU -> [regs : Authors, msg : Authors, magic : BOOLEAN]]
    BY AuthorsAre DEF Init
  <2>2. calls \in [CPU -> 0..MaxCalls] /\ timers \in [CPU -> 0..MaxTimer]
        /\ faults \in 0..MaxFaults /\ count \in 0..LOG_SIZE
    BY BoundAssumption DEF Init
  <2>3. panics \in Seq(PanicAuthors) /\ late \in [CPU -> Nat] /\ noff \in [CPU -> Nat]
    BY DEF Init
  <2> QED  BY <2>1, <2>2, <2>3 DEF Init, Types
<1>3. SavesApart
  BY DEF Init, SavesApart
<1>4. PICK s \in Point : Final(s)
  BY SomeEnd
<1>5. ASSUME NEW c \in CPU
      PROVE  Outline(c, s) /\ Data(c, s)
  <2>1. Outline(c, s)
    <3>1. Leads(panicking, c, << >>, s, s)
      BY LeadsNothing
    <3> QED  BY <1>4, <3>1 DEF Init, Outline
  <2>2. Interrupts(c, s)
    BY <1>4 DEF Init, Interrupts, Final
  <2>3. Spinlocks(c, s)
    BY <1>4, CPUAssumption DEF Init, Spinlocks, Final
  <2>4. Characters(c, s)
    BY <1>4 DEF Init, Characters
  <2>5. Saver(c, s)
    BY <1>4 DEF Init, Saver, Final
  <2> QED  BY <2>1, <2>2, <2>3, <2>4, <2>5 DEF Data
<1> QED  BY <1>1, <1>2, <1>3, <1>5 DEF IInv

\* Each step of kernel code keeps the invariant.
LEMMA AdvanceStep ==
  ASSUME IInv, NEW c \in CPU, Advance(c)
  PROVE  IInv'
<1>1. CASE AcquireCall(c) \/ AcquireSpin(c) \/ Release(c)
  BY <1>1, AcquireCallStep, AcquireSpinStep, ReleaseStep
<1>2. CASE PrintfCall(c) \/ PrintfEnd(c) \/ PutcCall(c) \/ PutcWrite(c)
  BY <1>2, PrintfCallStep, PrintfEndStep, PutcCallStep, PutcWriteStep
<1>3. CASE SetPanicking(c) \/ SetPanicked(c)
  BY <1>3, SetPanickingStep, SetPanickedStep
<1>4. CASE LogAdd(c) \/ FlushCall(c) \/ FlushBegin(c) \/ FlushEnd(c)
  BY <1>4, LogAddStep, FlushCallStep, FlushBeginStep, FlushEndStep
<1>5. CASE SaveClear(c) \/ SaveRegs(c) \/ SaveTicks(c) \/ SaveProc(c) \/ SaveMagic(c)
  BY <1>5, SaveClearStep, SaveRegsStep, SaveTicksStep, SaveProcStep, SaveMagicStep
<1>6. CASE Dump(c) \/ CopyRegs(c) \/ CopyRest(c)
  BY <1>6, DumpStep, CopyRegsStep, CopyRestStep
<1>7. CASE Wakeup(c) \/ Sret(c) \/ Sched(c) \/ Thr(c)
  BY <1>7, WakeupStep, SretStep, SchedStep, ThrStep
<1> QED  BY <1>1, <1>2, <1>3, <1>4, <1>5, <1>6, <1>7 DEF Advance

\* So does each step.
LEMMA NextIInv == IInv /\ [Next]_vars => IInv'
<1> SUFFICES ASSUME IInv, [Next]_vars PROVE IInv'
  OBVIOUS
<1>1. CASE Next
  BY <1>1, CallStep, TimerIntrStep, AdvanceStep DEF Next
<1>2. CASE UNCHANGED vars
  <2>1. Codes' /\ Types' /\ SavesApart'
    BY <1>2 DEF IInv, Codes, Types, SavesApart, vars, cpuVars, logVars, saveVars, bounds, history
  <2>2. Quiet /\ code' = code
    BY <1>2 DEF vars, cpuVars, logVars, saveVars, bounds, history, Quiet
  <2>3. ASSUME NEW c \in CPU
        PROVE  \E s \in Point : Outline(c, s)' /\ Data(c, s)'
    <3>1. PICK s \in Point : Outline(c, s) /\ Data(c, s)
      BY DEF IInv
    <3>2. Outline(c, s)'
      BY <2>2, <3>1 DEF Outline, Quiet
    <3>3. Data(c, s)'
      BY <2>2, <3>1, QuietData
    <3> QED  BY <3>2, <3>3
  <2> QED  BY <2>1, <2>3 DEF IInv
<1> QED  BY <1>1, <1>2

\* The annotated outlines of all CPUs describe every reachable state.
THEOREM Safety == Spec => []IInv
  BY InitIInv, NextIInv, PTL DEF Spec

\* Types.
LEMMA IInvTypeOK == IInv => TypeOK
<1> SUFFICES ASSUME IInv PROVE TypeOK
  OBVIOUS
<1>1. Codes /\ Types
  BY DEF IInv
<1>2. \A c \in CPU : \A i \in 1..Len(code[c]) : code[c][i].op \in Ops
  <2>1. \A c \in CPU : \A i \in 1..Len(code[c]) : code[c][i] \in Steps
    BY <1>1 DEF Codes
  <2> QED  BY <2>1 DEF Steps
<1>3. panics \in Seq(Authors)
  <2>1. PanicAuthors \subseteq Authors
    BY AuthorsAre
  <2> QED  BY <1>1, <2>1 DEF Types
<1> QED  BY <1>1, <1>2, <1>3 DEF Types, TypeOK

\* A CPU in user mode owes nothing (Balanced).
LEMMA IInvBalanced == IInv => Balanced
<1> SUFFICES ASSUME IInv, ~panicking, NEW c \in CPU, code[c] = << >>
             PROVE  noff[c] = 0 /\ intr[c] /\ \A l \in Lock : holder[l] # c
  BY DEF Balanced
<1>1. PICK s \in Point : Outline(c, s) /\ Data(c, s)
  BY DEF IInv
<1>2. Final(s)
  BY <1>1, AtEnd
<1> QED  BY <1>1, <1>2 DEF Final, Data, Interrupts, Spinlocks

\* A valid magic number means that nobody is in the middle of a save (MagicPublishes).
LEMMA IInvMagic == IInv => MagicPublishes
<1> SUFFICES ASSUME IInv, ctx.magic, ~overlap
             PROVE  ctx.regs = ctx.ticks /\ ctx.ticks = ctx.msg /\ ctx.msg # Nobody
  BY DEF MagicPublishes
<1>1. ASSUME NEW c \in savers
      PROVE  FALSE
  <2>1. c \in CPU
    BY DEF IInv, Types
  <2>2. PICK s \in Point : Data(c, s)
    BY <2>1 DEF IInv
  <2> QED  BY <2>2 DEF Data, Saver
<1>2. savers = {}
  BY <1>1
<1> QED  BY <1>2 DEF IInv, SavesApart

\* Only bugs, faults and sched panic (NoLockPanic).
LEMMA IInvNoLockPanic == IInv => NoLockPanic
<1> SUFFICES ASSUME IInv, NEW i \in 1..Len(panics)
             PROVE  panics[i][2] \notin {"acquire", "release", "pop_off"}
  BY DEF NoLockPanic
<1>1. panics[i] \in PanicAuthors
  BY DEF IInv, Types
<1>2. panics[i][2] \in {"bug", "kerneltrap", "sched locks"}
  BY <1>1 DEF PanicAuthors
<1> QED  BY <1>2

\* No CPU writes two characters after panicked = 1 (FrozenConsole).
LEMMA IInvFrozen == IInv => FrozenConsole
<1> SUFFICES ASSUME IInv, NEW c \in CPU PROVE late[c] <= 1
  BY DEF FrozenConsole
<1>1. PICK s \in Point : Data(c, s)
  BY DEF IInv
<1> QED  BY <1>1 DEF Data, Characters

\* PathInv: on any number of CPUs, acquire, release and pop_off pair up through printf,
\* log_flush, log_save_crash_context, interrupts and panics; nothing but a bug, a fault or sched panics;
\* a magic number vouches for one whole context; the console freezes within a character per CPU.
THEOREM PathSafety == Spec => []PathInv
<1>1. IInv => PathInv
  BY IInvTypeOK, IInvBalanced, IInvMagic, IInvNoLockPanic, IInvFrozen DEF PathInv
<1> QED  BY <1>1, Safety, PTL
===============================================================================
