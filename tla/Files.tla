---------------------------------- MODULE Files ----------------------------------
(***************************************************************************)
(* The data of files: mkfs/mkfs.c makes the disk, and kernel/fs.c (balloc,    *)
(* bmap, itrunc, readi, writei) and kernel/file.c (fileread, filewrite) work  *)
(* on it, a block at a time, each process under the lock of its inode.  A byte *)
(* and an entry of an indirect block take the same room, a directory entry    *)
(* one byte.                                                                  *)
(***************************************************************************)
EXTENDS Integers, SequencesExt, FiniteSetsExt

CONSTANTS Proc, File, Of(_),      \* open files, and their inodes
          Images,                 \* the files that mkfs is given: their contents
          NB,                     \* data blocks
          NDIRECT, BSIZE, MAXOPBLOCKS,
          Sizes, MaxCalls

VARIABLES fs,                     \* used: the bitmap; data: the blocks; ip and dip: inodes,
                                  \* in memory and on disk
          off, lock, op, logged,  \* per open file, inode, process, transaction
          got, panicked, calls

fileVars == <<fs, off, lock, op, logged, got, panicked, calls>>

Block == 1..NB
NINDIRECT == BSIZE
MAXFILE == NDIRECT + NINDIRECT
Offset == 0..(BSIZE - 1)
Zero == [k \in Offset |-> 0]
Inode == 1..(1 + Max({Len(m) : m \in Images}))    \* 1 is the root directory
NoProc == 0
Unknown == -1                     \* a byte of a buffer that was changed, but not logged
NoInode == [size |-> 0, addrs |-> [k \in 0..NDIRECT |-> 0]]
MaxOf(a, b) == Max({a, b})

-------------------------------------------------------------------------------
(* mkfs: blocks are handed out in order, and the bitmap is written at the end. *)

Given(m, slot) == IF slot # 0 THEN m ELSE [m EXCEPT !.used = @ \cup {Cardinality(@) + 1}]
Pointer(m, slot) == IF slot # 0 THEN slot ELSE Cardinality(m.used) + 1

\* One byte at the end of inode i.
DirectByte(m, i, n, b) ==
  [Given(m, m.ip[i].addrs[n]) EXCEPT !.ip[i].addrs[n] = Pointer(m, @), !.ip[i].size = @ + 1,
     !.data[Pointer(m, m.ip[i].addrs[n])][m.ip[i].size % BSIZE] = b]
Indirected(m, i) == [Given(m, m.ip[i].addrs[NDIRECT]) EXCEPT !.ip[i].addrs[NDIRECT] = Pointer(m, @)]
IndirectByte(m, i, n, b) ==
  LET a == m.ip[i].addrs[NDIRECT]
      x == Pointer(m, m.data[a][n])
  IN [Given(m, m.data[a][n]) EXCEPT !.data[a][n] = x, !.ip[i].size = @ + 1,
        !.data[x][m.ip[i].size % BSIZE] = b]
AppendByte(m, i, b) == LET n == m.ip[i].size \div BSIZE
                       IN IF n < NDIRECT THEN DirectByte(m, i, n, b)
                          ELSE IndirectByte(Indirected(m, i), i, n - NDIRECT, b)
Iappend(m, i, bytes) == FoldLeft(LAMBDA x, b : AppendByte(x, i, b), m, bytes)

\* The size of the root directory is rounded up, by a block when it is whole.
RootSize(n) == (n \div BSIZE + 1) * BSIZE
Saved(m) == [m EXCEPT !.dip = m.ip]
Mkfs(files) ==
  LET empty == [used |-> {}, data |-> [b \in Block |-> Zero], ip |-> [i \in Inode |-> NoInode],
                dip |-> [i \in Inode |-> NoInode]]
      full == FoldLeft(LAMBDA m, n : Iappend(Iappend(m, 1, <<n + 1>>), n + 1, files[n]),
                       Iappend(empty, 1, <<1, 1>>), [n \in 1..Len(files) |-> n])
  IN Saved([full EXCEPT !.ip[1].size = RootSize(@)])

-------------------------------------------------------------------------------
(* Blocks.  u is fs with the block a function returns, and what it has logged. *)

Begin == fs @@ [addr |-> 0, log |-> {}]
End(u) == fs' = [used |-> u.used, data |-> u.data, ip |-> u.ip, dip |-> u.dip]
LogWrite(u, b) == [u EXCEPT !.log = @ \cup {<<"data", b>>}]

Balloc(u) ==
  IF Block \ u.used = {} THEN [u EXCEPT !.addr = 0]
  ELSE LET b == Min(Block \ u.used)
       IN [u EXCEPT !.used = @ \cup {b}, !.data[b] = Zero, !.addr = b,
                    !.log = @ \cup {<<"bitmap", 0>>, <<"data", b>>}]
Bfree(u, b) == [u EXCEPT !.used = @ \ {b}, !.log = @ \cup {<<"bitmap", 0>>}]

\* the block of a slot of inode i, or of an entry of its indirect block, made if need be
Slot(u, i, k) ==
  IF u.ip[i].addrs[k] # 0 THEN [u EXCEPT !.addr = u.ip[i].addrs[k]]
  ELSE LET v == Balloc(u) IN [v EXCEPT !.ip[i].addrs[k] = v.addr]
Hooked(u, a, n) == IF u.addr = 0 THEN u ELSE LogWrite([u EXCEPT !.data[a][n] = u.addr], a)
Entry(u, n) == IF u.addr = 0 THEN u
               ELSE IF u.data[u.addr][n] # 0 THEN [u EXCEPT !.addr = u.data[u.addr][n]]
               ELSE Hooked(Balloc(u), u.addr, n)
Bmap(u, i, bn) == IF bn < NDIRECT THEN Slot(u, i, bn) ELSE Entry(Slot(u, i, NDIRECT), bn - NDIRECT)

-------------------------------------------------------------------------------
(* Calls.  op holds what is left of p's: its place, the open file and the     *)
(* inode, bytes to write, the chunk or the bytes to read, and how far it is.   *)

Idle == [at |-> "user", f |-> 0, i |-> 0, left |-> 0, chunk |-> 0, tot |-> 0, seen |-> << >>]
At(p, at) == op[p].at = at /\ panicked = "no"
Call(p, i, o) == /\ At(p, "user") /\ calls < MaxCalls /\ calls' = calls + 1
                 /\ op' = [op EXCEPT ![p] = [o EXCEPT !.i = i]]
Hold(p, i) == lock[i] = NoProc /\ lock' = [lock EXCEPT ![i] = p]
Release(p) == lock' = [lock EXCEPT ![op[p].i] = NoProc]
Moves(p) == off' = [off EXCEPT ![op[p].f] = @ + op[p].tot]
Pos(p) == off[op[p].f] + op[p].tot
Piece(p) == Min({op[p].chunk - op[p].tot, BSIZE - (Pos(p) % BSIZE)})
BlockOf(i, n) == IF n < NDIRECT THEN fs.ip[i].addrs[n]
                 ELSE IF fs.ip[i].addrs[NDIRECT] = 0 THEN 0
                 ELSE fs.data[fs.ip[i].addrs[NDIRECT]][n - NDIRECT]
Bytes(i) == [k \in 1..fs.ip[i].size |-> LET b == BlockOf(i, (k - 1) \div BSIZE)
                                        IN IF b = 0 THEN 0 ELSE fs.data[b][(k - 1) % BSIZE]]

Init == /\ fs \in {Mkfs(m) : m \in Images}
        /\ off = [f \in File |-> 0] /\ lock = [i \in Inode |-> NoProc]
        /\ op = [p \in Proc |-> Idle] /\ logged = [p \in Proc |-> {}]
        /\ got = [p \in Proc |-> << >>] /\ panicked = "no" /\ calls = 0

InTransaction(p) == op[p].at \in {"write", "stop", "trunc"}
\* log_write, for p, when someone is in a transaction
Log(p, u) == IF u.log = {} \/ \E q \in Proc : InTransaction(q)
             THEN logged' = [logged EXCEPT ![p] = @ \cup u.log] /\ UNCHANGED panicked
             ELSE panicked' = "log_write outside of trans" /\ UNCHANGED logged

\* fileread, and readi: no transaction
ReadCall(p, f, n) ==
  /\ Hold(p, Of(f))
  /\ LET left == fs.ip[Of(f)].size - off[f]
     IN Call(p, Of(f), [Idle EXCEPT !.at = "read", !.f = f,
                          !.chunk = IF left < 0 THEN 0 ELSE Min({n, left})])
  /\ UNCHANGED <<fs, off, logged, got, panicked>>
ReadBlock(p) ==
  /\ At(p, "read") /\ op[p].tot < op[p].chunk
  /\ \E u \in {Bmap(Begin, op[p].i, Pos(p) \div BSIZE)} :
       /\ End(u) /\ Log(p, u)
       /\ IF u.addr = 0 THEN op' = [op EXCEPT ![p].chunk = op[p].tot] /\ UNCHANGED lock
          ELSE \/ /\ op' = [op EXCEPT ![p].tot = @ + Piece(p),
                              ![p].seen = @ \o [k \in 1..Piece(p) |-> u.data[u.addr][(Pos(p) % BSIZE) + k - 1]]]
                  /\ UNCHANGED lock
               \/ op' = [op EXCEPT ![p] = Idle] /\ Release(p)        \* either_copyout fails
  /\ UNCHANGED <<off, got, calls>>
ReadEnd(p) == /\ At(p, "read") /\ op[p].tot = op[p].chunk
              /\ Moves(p) /\ Release(p)
              /\ got' = [got EXCEPT ![p] = op[p].seen] /\ op' = [op EXCEPT ![p] = Idle]
              /\ UNCHANGED <<fs, logged, panicked, calls>>
Filestat(p, f) == /\ lock[Of(f)] = NoProc /\ Call(p, 0, Idle)
                  /\ got' = [got EXCEPT ![p] = <<fs.ip[Of(f)].size>>]
                  /\ UNCHANGED <<fs, off, lock, logged, panicked>>

\* filewrite: a transaction for every chunk, and writei
MaxChunk == ((MAXOPBLOCKS - 1 - 1 - 2) \div 2) * BSIZE
WriteCall(p, f, n) == /\ Call(p, Of(f), [Idle EXCEPT !.at = "chunk", !.f = f, !.left = n])
                      /\ UNCHANGED <<fs, off, lock, logged, got, panicked>>
\* Mutant: a file may have bytes beyond its size.
Refused_Past(p, n) == Pos(p) + n > MAXFILE * BSIZE
Refused(p, n) == Pos(p) > fs.ip[op[p].i].size \/ Pos(p) + n > MAXFILE * BSIZE
Chunk(p) == /\ At(p, "chunk") /\ lock[op[p].i] = NoProc
            /\ LET n == Min({op[p].left, MaxChunk})
               IN IF Refused(p, n) THEN op' = [op EXCEPT ![p] = Idle] /\ UNCHANGED lock
                  ELSE /\ op' = [op EXCEPT ![p].at = "write", ![p].chunk = n,
                                           ![p].seen = Bytes(op[p].i)]
                       /\ Hold(p, op[p].i)
            /\ UNCHANGED <<fs, off, logged, got, panicked, calls>>
Filled(u, b, o, n, v) == [u EXCEPT !.data[b] = [k \in Offset |-> IF k \in o..(o + n - 1) THEN v ELSE @[k]]]
WriteBlock(p) ==
  /\ At(p, "write") /\ op[p].tot < op[p].chunk
  /\ \E u \in {Bmap(Begin, op[p].i, Pos(p) \div BSIZE)} :
       LET o == Pos(p) % BSIZE
       IN IF u.addr = 0 THEN End(u) /\ Log(p, u) /\ op' = [op EXCEPT ![p].at = "stop"]
          ELSE \/ \E w \in {LogWrite(Filled(u, u.addr, o, Piece(p), p), u.addr)} :
                    End(w) /\ Log(p, w) /\ op' = [op EXCEPT ![p].tot = @ + Piece(p)]
               \/ \E n \in 0..(Piece(p) - 1) :                        \* either_copyin fails
                    /\ End(Filled(u, u.addr, o, n, Unknown)) /\ Log(p, u)
                    /\ op' = [op EXCEPT ![p].at = "stop"]
  /\ UNCHANGED <<off, lock, got, calls>>
\* iupdate, iunlock, end_op, and the next chunk
Iupdate(p, u) == [u EXCEPT !.dip[op[p].i] = u.ip[op[p].i]]
WriteEnd(p) ==
  /\ At(p, "stop") \/ (At(p, "write") /\ op[p].tot = op[p].chunk)
  /\ End(Iupdate(p, [Begin EXCEPT !.ip[op[p].i].size = MaxOf(@, Pos(p))]))
  /\ Moves(p) /\ Release(p)
  /\ op' = [op EXCEPT ![p] = IF At(p, "stop") \/ op[p].left = op[p].tot THEN Idle
                             ELSE [Idle EXCEPT !.at = "chunk", !.f = op[p].f, !.i = op[p].i,
                                               !.left = op[p].left - op[p].tot]]
  /\ logged' = [logged EXCEPT ![p] = {}]
  /\ UNCHANGED <<got, panicked, calls>>

\* open with O_TRUNC: itrunc
TruncCall(p, i) == /\ Hold(p, i) /\ Call(p, i, [Idle EXCEPT !.at = "trunc", !.seen = Bytes(i)])
                   /\ UNCHANGED <<fs, off, logged, got, panicked>>
Direct(i) == {k \in 0..(NDIRECT - 1) : fs.ip[i].addrs[k] # 0}
\* Mutant: an entry is left out.
Entries_Short(p) == {n \in op[p].tot..(NINDIRECT - 2) : fs.data[fs.ip[op[p].i].addrs[NDIRECT]][n] # 0}
Entries(p) == {n \in op[p].tot..(NINDIRECT - 1) : fs.data[fs.ip[op[p].i].addrs[NDIRECT]][n] # 0}
Frees(p, b, u) == /\ End(Bfree(u, b))
                  /\ IF b \in fs.used THEN Log(p, Bfree(u, b))
                     ELSE panicked' = "freeing free block" /\ UNCHANGED logged
TruncBlock(p) ==
  /\ At(p, "trunc")
  /\ LET i == op[p].i
         a == fs.ip[i].addrs[NDIRECT]
     IN IF Direct(i) # {}
        THEN \E k \in {Min(Direct(i))} :
               Frees(p, fs.ip[i].addrs[k], [Begin EXCEPT !.ip[i].addrs[k] = 0]) /\ UNCHANGED op
        ELSE /\ a # 0
             /\ IF Entries(p) # {}
                THEN /\ Frees(p, fs.data[a][Min(Entries(p))], Begin)
                     /\ op' = [op EXCEPT ![p].tot = Min(Entries(p)) + 1]
                ELSE /\ Frees(p, a, [Begin EXCEPT !.ip[i].addrs[NDIRECT] = 0])
                     /\ op' = [op EXCEPT ![p].tot = 0]
  /\ UNCHANGED <<off, lock, got, calls>>
TruncEnd(p) == /\ At(p, "trunc") /\ \A k \in 0..NDIRECT : fs.ip[op[p].i].addrs[k] = 0
               /\ End(Iupdate(p, [Begin EXCEPT !.ip[op[p].i].size = 0]))
               /\ Release(p) /\ op' = [op EXCEPT ![p] = Idle]
               /\ logged' = [logged EXCEPT ![p] = {}]
               /\ UNCHANGED <<off, got, panicked, calls>>

Next == \E p \in Proc :
          \/ \E f \in File, n \in Sizes : ReadCall(p, f, n) \/ (Of(f) # 1 /\ WriteCall(p, f, n))
          \/ \E f \in File : Filestat(p, f) \/ (Of(f) # 1 /\ TruncCall(p, Of(f)))
          \/ ReadBlock(p) \/ ReadEnd(p)
          \/ Chunk(p) \/ WriteBlock(p) \/ WriteEnd(p)
          \/ TruncBlock(p) \/ TruncEnd(p)
Spec == Init /\ [][Next]_fileVars

-------------------------------------------------------------------------------
(* Properties *)

\* The root directory was made to end in a block that it does not have: mkfs rounded
\* up a size that was whole.
Holed == \A k \in Offset : Bytes(1)[fs.ip[1].size - k] = 0

\* A block that is in use is in one place of one inode, and no other block is in any:
\* none is lost when a call fails or the disk is full.
Freed(i, n) == \E p \in Proc : At(p, "trunc") /\ op[p].i = i /\ n < op[p].tot
Places(i) == {<<i, k>> : k \in {k \in 0..NDIRECT : fs.ip[i].addrs[k] # 0}}
             \cup (IF fs.ip[i].addrs[NDIRECT] = 0 THEN {}
                   ELSE {<<i, NDIRECT + 1 + n>> : n \in {n \in 0..(NINDIRECT - 1) :
                           fs.data[fs.ip[i].addrs[NDIRECT]][n] # 0 /\ ~Freed(i, n)}})
InPlace(x) == IF x[2] <= NDIRECT THEN fs.ip[x[1]].addrs[x[2]]
              ELSE fs.data[fs.ip[x[1]].addrs[NDIRECT]][x[2] - NDIRECT - 1]
AllPlaces == UNION {Places(i) : i \in Inode}
BlocksOnce == /\ {InPlace(x) : x \in AllPlaces} = fs.used
              /\ Cardinality(AllPlaces) = Cardinality(fs.used)

\* A transaction fits in the log; an inode that nobody has locked is on disk as it is
\* in memory, and has a block for every byte of its size.
LogFits == \A p \in Proc : Cardinality(logged[p] \cup {<<"inode", 0>>}) <= MAXOPBLOCKS
InodesSaved == \A i \in Inode : lock[i] = NoProc /\ ~(i = 1 /\ Holed) =>
                 /\ fs.dip[i] = fs.ip[i]
                 /\ \A n \in 0..((fs.ip[i].size + BSIZE - 1) \div BSIZE - 1) : BlockOf(i, n) # 0

\* Nothing panics, unless it reads the root directory's last block and that is missing.
FilesInv == BlocksOnce /\ LogFits /\ InodesSaved /\ (panicked # "no" => Holed)

\* Reads and writes of shared and of separate open files are as FileStore promises.
Written(i) == {p \in Proc : op[p].i = i /\ InTransaction(p)}
Content(i) == IF Written(i) = {} THEN Bytes(i) ELSE op[CHOOSE p \in Written(i) : TRUE].seen
Promise == INSTANCE FileStore WITH file <- [i \in Inode |-> Content(i)], Byte <- 0..NB,
                               MaxLen <- MAXFILE * BSIZE
ImplementsFiles == Promise!Spec
===============================================================================
