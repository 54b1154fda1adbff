--------------------------------- MODULE Inodes ---------------------------------
(***************************************************************************)
(* kernel/fs.c and sysfile.c: directories, link counts, and the table of     *)
(* inodes with its references and sleep locks, under the system calls of     *)
(* several processes and crashes.  A step is a critical section of           *)
(* itable.lock or what is done between an ilock and the next lock.  A call   *)
(* is a transaction; that overlapping calls become durable together is what  *)
(* FSLog is about, and is one step here.                                     *)
(***************************************************************************)
EXTENDS Integers, Sequences, FiniteSets, SequencesExt

CONSTANTS Proc, NoProc,
          MaxOps,          \* calls in one transaction: what the log has room for
          NINODES,         \* sb.ninodes; the table has an entry for each inode
          Name,            \* of directory entries, besides ".."
          Calls            \* the calls that processes make, [op, path, new]; paths are absolute

NoInum == 0
ROOT == 1
Inum == 1..(NINODES - 1)

ASSUME SizeAssumption == NINODES \in Nat /\ NINODES > 2
ASSUME OpsAssumption == MaxOps \in Nat \ {0}
ASSUME ProcAssumption == NoProc \notin Proc
Path == {s \in Seq(Name \cup {".."}) : s # << >> /\ Last(s) \in Name}
ASSUME CallsAssumption ==
  \A c \in Calls : /\ c.op \in {"open", "create", "mkdir", "unlink", "link"}
                   /\ c.path \in Path /\ c.new \in Path

VARIABLES
  dinode, disk,         \* the inodes, as the buffer cache and the disk have them
  ref, cached, slock,   \* itable: references, in-memory copies, sleep locks
  act,                  \* per process: the call, where it is, its dp, ip and path
  puts, freeing,        \* per process: references it is about to drop; how far iput is
  ops,                  \* calls begun since the last commit
  fd,                   \* per process: its open file (NOFILE is 1)
  scan,                 \* how far ireclaim is after a boot; 0 when it is done
  panic,
  strayed,              \* history: a removed directory was used as a directory
  revived               \* history: inodes allocated again before iput had dropped them

itable == <<ref, cached, slock>>
history == <<strayed, revived>>
vars == <<dinode, disk, itable, act, puts, freeing, ops, fd, scan, panic, history>>

NoEntries == [n \in Name |-> NoInum]
Free == [type |-> "free", nlink |-> 0, ent |-> NoEntries, up |-> NoInum]
Invalid == [type |-> "invalid", nlink |-> 0]       \* ip->valid is 0
Idle == [op |-> "none", at |-> "user", dp |-> NoInum, ip |-> NoInum,
         path |-> << >>, new |-> << >>]

\* mkfs and iinit
Init == /\ disk = [i \in Inum |->
             IF i = ROOT THEN [type |-> "dir", nlink |-> 1, ent |-> NoEntries, up |-> ROOT]
             ELSE Free]
        /\ dinode = disk
        /\ ref = [i \in Inum |-> 0] /\ cached = [i \in Inum |-> Invalid]
        /\ slock = [i \in Inum |-> NoProc]
        /\ act = [p \in Proc |-> Idle] /\ puts = [p \in Proc |-> << >>]
        /\ freeing = [p \in Proc |-> "no"] /\ fd = [p \in Proc |-> NoInum]
        /\ ops = 0 /\ scan = 0 /\ panic = FALSE /\ strayed = FALSE /\ revived = {}

-------------------------------------------------------------------------------
(* The table of inodes *)

Running(p) == scan = 0 /\ ~panic /\ puts[p] = << >>
At(p, at) == Running(p) /\ act[p].at = at
Go(p, at, d, i, path) ==
  act' = [act EXCEPT ![p] = [@ EXCEPT !.at = at, !.dp = d, !.ip = i, !.path = path]]
End(p) == act' = [act EXCEPT ![p] = [Idle EXCEPT !.at = "end"]]

Iget(i) == ref' = [ref EXCEPT ![i] = @ + 1]
Iput(p, s) == puts' = [puts EXCEPT ![p] = s]

\* ilock: wait for the sleep lock, read the inode if the copy is not valid
Loaded(i) == IF cached[i] = Invalid
             THEN [type |-> dinode[i].type, nlink |-> dinode[i].nlink] ELSE cached[i]
CanLock(i) == slock[i] = NoProc /\ Loaded(i).type # "free"
Load(i) == cached' = [cached EXCEPT ![i] = Loaded(i)]
Hold(p, i) == slock' = [slock EXCEPT ![i] = p]
Unlock(i) == slock' = [slock EXCEPT ![i] = NoProc]

Links(i, n) == [Loaded(i) EXCEPT !.nlink = @ + n]
\* iupdate
Iupdate(i, c) == dinode' = [dinode EXCEPT ![i].type = c.type, ![i].nlink = c.nlink]

IsDir(i) == Loaded(i).type = "dir"
Lookup(d, n) == IF n = ".." THEN dinode[d].up ELSE dinode[d].ent[n]

-------------------------------------------------------------------------------
(* iput *)

Unused(i) == ref[i] = 1 /\ cached[i] # Invalid /\ cached[i].nlink = 0

Putting(p, how) == ~panic /\ puts[p] # << >> /\ freeing[p] = how
Dropped(p, i) == /\ ref' = [ref EXCEPT ![i] = @ - 1]
                 /\ puts' = [puts EXCEPT ![p] = Tail(@)]

\* the last reference but not the last link, or not the last reference.
\* (iget clears valid when it recycles an entry; here it is cleared with ref.)
PutDrop(p) == LET i == Head(puts[p]) IN
  /\ Putting(p, "no") /\ ~Unused(i)
  /\ Dropped(p, i)
  /\ cached' = [cached EXCEPT ![i] = IF ref[i] = 1 THEN Invalid ELSE @]
  /\ UNCHANGED <<dinode, slock, act, freeing, fd>>

PutLock(p) == LET i == Head(puts[p]) IN
  /\ Putting(p, "no") /\ Unused(i) /\ slock[i] = NoProc
  /\ Hold(p, i)
  /\ freeing' = [freeing EXCEPT ![p] = "locked"]
  /\ UNCHANGED <<dinode, ref, cached, act, puts, fd>>

\* itrunc, type = 0, iupdate
PutFree(p) == LET i == Head(puts[p]) IN
  /\ Putting(p, "locked")
  /\ dinode' = [dinode EXCEPT ![i] = Free]
  /\ cached' = [cached EXCEPT ![i].type = "free"]
  /\ freeing' = [freeing EXCEPT ![p] = "freed"]
  /\ UNCHANGED <<ref, slock, act, puts, fd>>

\* Mutant: valid is left set.
PutUnlock_Valid(p) == LET i == Head(puts[p]) IN
  /\ Putting(p, "freed")
  /\ Unlock(i)
  /\ freeing' = [freeing EXCEPT ![p] = "unlocked"]
  /\ UNCHANGED <<dinode, cached, ref, act, puts, fd>>

PutUnlock(p) == LET i == Head(puts[p]) IN
  /\ Putting(p, "freed")
  /\ cached' = [cached EXCEPT ![i] = Invalid]
  /\ Unlock(i)
  /\ freeing' = [freeing EXCEPT ![p] = "unlocked"]
  /\ UNCHANGED <<dinode, ref, act, puts, fd>>

PutFreed(p) == LET i == Head(puts[p]) IN
  /\ Putting(p, "unlocked")
  /\ Dropped(p, i)
  /\ freeing' = [freeing EXCEPT ![p] = "no"]
  /\ UNCHANGED <<dinode, cached, slock, act, fd>>

\* acquiresleep with itable.lock held may not sleep
PutPanics(p) == LET i == Head(puts[p]) IN
  Putting(p, "no") /\ Unused(i) /\ slock[i] # NoProc

-------------------------------------------------------------------------------
(* namex: one name at a time, with one lock at a time *)

WantsParent(op) == op \in {"create", "mkdir", "unlink", "link to"}
After(op) == CASE op = "open" -> "open" [] op \in {"create", "mkdir"} -> "create"
               [] op = "unlink" -> "unlink" [] op = "link" -> "link"
               [] op = "link to" -> "dirlink"

\* Bound: no call begins after a removed directory was used (see LinksExact);
\* the calls that had begun go on.
BeginOp == ops < MaxOps /\ ~strayed /\ ops' = ops + 1

\* namei or nameiparent, as the first thing in the transaction
Start(p) ==
  /\ At(p, "user") /\ BeginOp
  /\ \E c \in Calls :
       act' = [act EXCEPT ![p] = [Idle EXCEPT !.op = c.op, !.at = "walk", !.dp = ROOT,
                 !.path = c.path, !.new = IF c.op = "link" THEN c.new ELSE << >>]]
  /\ Iget(ROOT)
  /\ UNCHANGED <<dinode, cached, slock, puts, freeing, fd>>

WalkParent(p) == LET a == act[p] IN
  /\ At(p, "walk") /\ WantsParent(a.op) /\ Len(a.path) = 1
  /\ CanLock(a.dp) /\ IsDir(a.dp)
  /\ Load(a.dp)
  /\ Go(p, After(a.op), a.dp, a.ip, a.path)
  /\ UNCHANGED <<dinode, ref, slock, puts, freeing, fd>>

WalkNext(p) == LET a == act[p] next == Lookup(a.dp, Head(a.path)) IN
  /\ At(p, "walk") /\ ~(WantsParent(a.op) /\ Len(a.path) = 1)
  /\ CanLock(a.dp) /\ IsDir(a.dp) /\ next # NoInum
  /\ Load(a.dp)
  /\ Iget(next)
  /\ Iput(p, <<a.dp>>)
  /\ IF Len(a.path) > 1 THEN Go(p, "walk", next, a.ip, Tail(a.path))
     ELSE Go(p, After(a.op), NoInum, next, << >>)
  /\ UNCHANGED <<dinode, slock, freeing, fd>>

WalkFail(p) == LET a == act[p] IN
  /\ At(p, "walk") /\ CanLock(a.dp)
  /\ \/ ~IsDir(a.dp)
     \/ ~(WantsParent(a.op) /\ Len(a.path) = 1) /\ Lookup(a.dp, Head(a.path)) = NoInum
  /\ Load(a.dp)
  /\ Iput(p, <<a.dp>>)
  /\ IF a.op = "link to" THEN Go(p, "unlink old", NoInum, a.ip, << >>) ELSE End(p)
  /\ UNCHANGED <<dinode, ref, slock, freeing, fd>>

-------------------------------------------------------------------------------
(* sys_open, close, and create for sys_open with O_CREATE and sys_mkdir *)

\* filealloc and fdalloc; the file takes over the reference
Opens(p, i) == IF fd[p] = NoInum THEN fd' = [fd EXCEPT ![p] = i] /\ UNCHANGED puts
               ELSE Iput(p, <<i>>) /\ UNCHANGED fd

Open(p) == LET i == act[p].ip IN
  /\ At(p, "open") /\ CanLock(i)
  /\ Load(i)
  /\ Opens(p, i)
  /\ End(p)
  /\ UNCHANGED <<dinode, ref, slock, freeing>>

\* what create has made is still locked
Opened(p) == LET i == act[p].ip IN
  /\ At(p, "opened")
  /\ Opens(p, i)
  /\ Unlock(i)
  /\ End(p)
  /\ UNCHANGED <<dinode, ref, cached, freeing>>

\* the last fileclose of a file
Close(p) == /\ At(p, "user") /\ fd[p] # NoInum /\ BeginOp
            /\ Iput(p, <<fd[p]>>)
            /\ fd' = [fd EXCEPT ![p] = NoInum]
            /\ End(p)
            /\ UNCHANGED <<dinode, itable, freeing>>

CreateLook(p) == LET d == act[p].dp i == Lookup(d, Head(act[p].path)) IN
  /\ At(p, "create") /\ CanLock(d) /\ IsDir(d)
  /\ Load(d)
  /\ \/ /\ i # NoInum
        /\ Iget(i) /\ Iput(p, <<d>>)
        /\ Go(p, "exists", NoInum, i, << >>)
        /\ UNCHANGED slock
     \/ /\ i = NoInum
        /\ Hold(p, d)
        /\ Go(p, "ialloc", d, NoInum, act[p].path)
        /\ UNCHANGED <<ref, puts>>
  /\ UNCHANGED <<dinode, freeing, fd>>

CreateExists(p) == LET i == act[p].ip IN
  /\ At(p, "exists") /\ CanLock(i)
  /\ Load(i)
  /\ IF act[p].op = "create" /\ ~IsDir(i) THEN Opens(p, i) ELSE Iput(p, <<i>>) /\ UNCHANGED fd
  /\ End(p)
  /\ UNCHANGED <<dinode, ref, slock, freeing>>

\* the first free inode
Ialloc(p) == LET d == act[p].dp free == {i \in Inum : dinode[i].type = "free"} IN
  /\ At(p, "ialloc")
  /\ \/ \E i \in free : (\A j \in free : i <= j) /\
          /\ dinode' = [dinode EXCEPT ![i] =
                          [Free EXCEPT !.type = IF act[p].op = "mkdir" THEN "dir" ELSE "file"]]
          /\ Iget(i)
          /\ Go(p, "init", d, i, act[p].path)
          /\ UNCHANGED <<slock, puts>>
     \/ /\ free = {}
        /\ Unlock(d) /\ Iput(p, <<d>>)
        /\ End(p)
        /\ UNCHANGED <<dinode, ref>>
  /\ UNCHANGED <<cached, freeing, fd>>

\* nlink = 1, the entries "." and "..", and the entry in dp
CreateInit(p) == LET d == act[p].dp  i == act[p].ip  n == Head(act[p].path)
                     up == IF IsDir(i) THEN 1 ELSE 0 IN
  /\ At(p, "init") /\ CanLock(i)
  /\ cached' = [cached EXCEPT ![i] = Links(i, 1), ![d] = Links(d, up)]
  /\ dinode' = [dinode EXCEPT ![i].nlink = Links(i, 1).nlink, ![i].up = IF IsDir(i) THEN d ELSE NoInum,
                              ![d].ent[n] = i, ![d].nlink = Links(d, up).nlink]
  /\ slock' = [slock EXCEPT ![d] = NoProc, ![i] = p]
  /\ Iput(p, <<d>>)
  /\ Go(p, IF act[p].op = "mkdir" THEN "made" ELSE "opened", NoInum, i, << >>)
  /\ UNCHANGED <<ref, freeing, fd>>

\* the disk is full: nlink = 0 again, and iput frees the inode
CreateFail(p) == LET d == act[p].dp i == act[p].ip IN
  /\ At(p, "init") /\ CanLock(i)
  /\ Load(i)
  /\ Iput(p, <<i>>)
  /\ Go(p, "unlock dp", d, NoInum, << >>)
  /\ UNCHANGED <<dinode, ref, slock, freeing, fd>>

Made(p) == LET i == act[p].ip IN
  /\ At(p, "made")
  /\ Unlock(i) /\ Iput(p, <<i>>)
  /\ End(p)
  /\ UNCHANGED <<dinode, ref, cached, freeing, fd>>

\* iunlockput(dp) on the way out
UnlockDp(p) == LET d == act[p].dp IN
  /\ At(p, "unlock dp")
  /\ Unlock(d) /\ Iput(p, <<d>>)
  /\ IF act[p].op = "link to" THEN Go(p, "unlink old", NoInum, act[p].ip, << >>) ELSE End(p)
  /\ UNCHANGED <<dinode, ref, cached, freeing, fd>>

-------------------------------------------------------------------------------
(* sys_unlink *)

UnlinkLook(p) == LET d == act[p].dp i == Lookup(d, Head(act[p].path)) IN
  /\ At(p, "unlink") /\ CanLock(d) /\ IsDir(d)
  /\ Load(d)
  /\ \/ /\ i # NoInum
        /\ Hold(p, d) /\ Iget(i)
        /\ Go(p, "unlink ip", d, i, act[p].path)
        /\ UNCHANGED puts
     \/ /\ i = NoInum
        /\ Iput(p, <<d>>)
        /\ End(p)
        /\ UNCHANGED <<ref, slock>>
  /\ UNCHANGED <<dinode, freeing, fd>>

Empty(i) == dinode[i].ent = NoEntries

\* a directory that is not empty stays
UnlinkRefuse(p) == LET i == act[p].ip IN
  /\ At(p, "unlink ip") /\ CanLock(i) /\ Loaded(i).nlink > 0
  /\ IsDir(i) /\ ~Empty(i)
  /\ Load(i)
  /\ Iput(p, <<i>>)
  /\ Go(p, "unlock dp", act[p].dp, NoInum, << >>)
  /\ UNCHANGED <<dinode, ref, slock, freeing, fd>>

\* clear the entry; dp loses the ".." of a directory
UnlinkEntry(p) == LET d == act[p].dp  i == act[p].ip  n == Head(act[p].path)
                      up == IF IsDir(i) THEN 1 ELSE 0 IN
  /\ At(p, "unlink ip") /\ CanLock(i) /\ Loaded(i).nlink > 0
  /\ ~(IsDir(i) /\ ~Empty(i))
  /\ cached' = [cached EXCEPT ![i] = Loaded(i), ![d] = Links(d, -up)]
  /\ dinode' = [dinode EXCEPT ![d].ent[n] = NoInum, ![d].nlink = Links(d, -up).nlink]
  /\ slock' = [slock EXCEPT ![d] = NoProc, ![i] = p]
  /\ Iput(p, <<d>>)
  /\ Go(p, "unlink drop", NoInum, i, << >>)
  /\ UNCHANGED <<ref, freeing, fd>>

UnlinkDrop(p) == LET i == act[p].ip IN
  /\ At(p, "unlink drop")
  /\ cached' = [cached EXCEPT ![i] = Links(i, -1)]
  /\ Iupdate(i, Links(i, -1))
  /\ Unlock(i) /\ Iput(p, <<i>>)
  /\ End(p)
  /\ UNCHANGED <<ref, freeing, fd>>

-------------------------------------------------------------------------------
(* sys_link *)

\* nlink is raised before the new entry is made
LinkOld(p) == LET i == act[p].ip IN
  /\ At(p, "link") /\ CanLock(i)
  /\ \/ /\ IsDir(i)
        /\ Load(i)
        /\ Iput(p, <<i>>) /\ End(p)
        /\ UNCHANGED <<dinode, ref>>
     \/ /\ ~IsDir(i)
        /\ cached' = [cached EXCEPT ![i] = Links(i, 1)]
        /\ Iupdate(i, Links(i, 1))
        /\ act' = [act EXCEPT ![p] = [@ EXCEPT !.op = "link to", !.at = "walk", !.dp = ROOT,
                                               !.path = act[p].new, !.new = << >>]]
        /\ Iget(ROOT)
        /\ UNCHANGED puts
  /\ UNCHANGED <<slock, freeing, fd>>

LinkNew(p) == LET d == act[p].dp i == act[p].ip n == Head(act[p].path) IN
  /\ At(p, "dirlink") /\ CanLock(d) /\ IsDir(d) /\ Lookup(d, n) = NoInum
  /\ Load(d)
  /\ \/ /\ dinode' = [dinode EXCEPT ![d].ent[n] = i]
        /\ Iput(p, <<d, i>>)
        /\ End(p)
     \/ /\ Iput(p, <<d>>)                    \* the disk is full
        /\ Go(p, "unlink old", NoInum, i, << >>)
        /\ UNCHANGED dinode
  /\ UNCHANGED <<ref, slock, freeing, fd>>

LinkExists(p) == LET d == act[p].dp j == Lookup(d, Head(act[p].path)) IN
  /\ At(p, "dirlink") /\ CanLock(d) /\ IsDir(d) /\ j # NoInum
  /\ Load(d) /\ Hold(p, d)
  /\ Iget(j) /\ Iput(p, <<j>>)
  /\ Go(p, "unlock dp", d, act[p].ip, << >>)
  /\ UNCHANGED <<dinode, freeing, fd>>

\* Mutant: the count stays.
LinkUndo_Keep(p) == LET i == act[p].ip IN
  /\ At(p, "unlink old") /\ CanLock(i)
  /\ Load(i)
  /\ Iput(p, <<i>>)
  /\ End(p)
  /\ UNCHANGED <<dinode, ref, slock, freeing, fd>>

\* bad:
LinkUndo(p) == LET i == act[p].ip IN
  /\ At(p, "unlink old") /\ CanLock(i)
  /\ cached' = [cached EXCEPT ![i] = Links(i, -1)]
  /\ Iupdate(i, Links(i, -1))
  /\ Iput(p, <<i>>)
  /\ End(p)
  /\ UNCHANGED <<ref, slock, freeing, fd>>

-------------------------------------------------------------------------------
(* Transactions, panics, crashes *)

\* the last call that ends commits them all
EndOp(p) == /\ At(p, "end")
            /\ act' = [act EXCEPT ![p] = Idle]
            /\ IF \A q \in Proc \ {p} : act[q].at = "user"
               THEN disk' = dinode /\ ops' = 0 ELSE UNCHANGED <<disk, ops>>
            /\ UNCHANGED <<dinode, itable, puts, freeing, fd, scan, panic>>

\* the inode that the next step of p locks
Wants(p) == LET a == act[p] IN
  CASE puts[p] # << >> -> NoInum
    [] a.at \in {"walk", "create", "unlink", "dirlink"} -> a.dp
    [] a.at \in {"open", "exists", "init", "unlink ip", "link", "unlink old"} -> a.ip
    [] OTHER -> NoInum

Panics(p) == \/ PutPanics(p)
             \/ /\ Wants(p) # NoInum /\ slock[Wants(p)] = NoProc
                /\ \/ Loaded(Wants(p)).type = "free"
                   \/ act[p].at = "unlink ip" /\ Loaded(act[p].ip).nlink < 1
                   \/ act[p].at \in {"create", "unlink", "dirlink"} /\ ~IsDir(act[p].dp)

Panic(p) == /\ ~panic /\ Panics(p)
            /\ panic' = TRUE
            /\ UNCHANGED <<dinode, disk, itable, act, puts, freeing, ops, fd, scan>>

Crash == /\ ref' = [i \in Inum |-> 0] /\ cached' = [i \in Inum |-> Invalid]
         /\ slock' = [i \in Inum |-> NoProc]
         /\ act' = [p \in Proc |-> Idle] /\ puts' = [p \in Proc |-> << >>]
         /\ freeing' = [p \in Proc |-> "no"] /\ fd' = [p \in Proc |-> NoInum]
         /\ dinode' = disk
         /\ ops' = 0 /\ scan' = ROOT /\ panic' = FALSE
         /\ revived' = {}
         /\ UNCHANGED <<disk, strayed>>

\* ireclaim: one inode, in a transaction of its own
Reclaim == /\ scan # 0
           /\ disk' = [disk EXCEPT ![scan] = IF @.type # "free" /\ @.nlink = 0 THEN Free ELSE @]
           /\ dinode' = disk'
           /\ scan' = (scan + 1) % NINODES
           /\ UNCHANGED <<itable, act, puts, freeing, ops, fd, panic>>

Put(p) == PutDrop(p) \/ PutLock(p) \/ PutFree(p) \/ PutUnlock(p) \/ PutFreed(p)
Walk(p) == WalkParent(p) \/ WalkNext(p) \/ WalkFail(p)
Creating(p) == CreateLook(p) \/ CreateExists(p) \/ Ialloc(p) \/ CreateInit(p) \/ CreateFail(p) \/ Made(p)
Unlinking(p) == UnlinkLook(p) \/ UnlinkRefuse(p) \/ UnlinkEntry(p) \/ UnlinkDrop(p)
Linking(p) == LinkOld(p) \/ LinkNew(p) \/ LinkExists(p) \/ LinkUndo(p)

Step(p) == /\ \/ Start(p) \/ Close(p)
              \/ /\ UNCHANGED ops
                 /\ \/ Put(p) \/ Walk(p) \/ Open(p) \/ Opened(p) \/ UnlockDp(p)
                    \/ Creating(p) \/ Unlinking(p) \/ Linking(p)
           /\ UNCHANGED <<disk, scan, panic>>

\* what the properties have to except
Removed(i) == dinode[i].type = "dir" /\ dinode[i].nlink = 0
Strays(p) == LET d == act[p].dp IN
  \/ At(p, "walk") /\ Head(act[p].path) = ".." /\ Removed(d)
  \/ /\ At(p, "init") \/ At(p, "dirlink")
     /\ Removed(d) /\ dinode'[d].ent # dinode[d].ent
Revived(i) == i \in revived \/ (dinode[i].type = "free" /\ ref[i] > 0)
History(p) == /\ strayed' = (strayed \/ Strays(p))
              /\ revived' = {i \in Inum : dinode'[i].type # "free" /\ Revived(i)}

Next == \/ \E p \in Proc : \/ Step(p) /\ History(p)
                           \/ (EndOp(p) \/ Panic(p)) /\ UNCHANGED history
        \/ Crash
        \/ Reclaim /\ UNCHANGED history

Spec == Init /\ [][Next]_vars

-------------------------------------------------------------------------------
(* Properties *)

Type == {"free", "file", "dir"}
TypeOK ==
  /\ dinode \in [Inum -> [type : Type, nlink : Nat, ent : [Name -> Inum \cup {NoInum}],
                          up : Inum \cup {NoInum}]]
  /\ ref \in [Inum -> Nat] /\ slock \in [Inum -> Proc \cup {NoProc}]
  /\ cached \in [Inum -> [type : Type, nlink : Nat] \cup {Invalid}]
  /\ \A p \in Proc : puts[p] \in Seq(Inum) /\ freeing[p] \in {"no", "locked", "freed", "unlocked"}
  /\ ops \in 0..MaxOps
  /\ fd \in [Proc -> Inum \cup {NoInum}] /\ scan \in 0..(NINODES - 1)
  /\ panic \in BOOLEAN /\ strayed \in BOOLEAN /\ revived \subseteq Inum

\* A reference is counted for each dp or ip of a call, each reference about
\* to be dropped and each open file.
RefExact == \A i \in Inum :
  ref[i] = Cardinality({x \in Proc \X {"dp", "ip"} : act[x[1]][x[2]] = i})
           + Cardinality({x \in Proc \X {1, 2} : x[2] \in DOMAIN puts[x[1]] /\ puts[x[1]][x[2]] = i})
           + Cardinality({p \in Proc : fd[p] = i})

\* A valid copy agrees with the inode, until iput has freed that: the inode
\* may then have another life already.
Coherent == \A i \in Inum :
  IF \E p \in Proc : freeing[p] = "freed" /\ Head(puts[p]) = i THEN cached[i].type = "free"
  ELSE cached[i] # Invalid =>
         cached[i].type = dinode[i].type /\ cached[i].nlink = dinode[i].nlink

\* What a process refers to is allocated, unless its own iput is freeing it.
HeldAlive == \A p \in Proc : freeing[p] \notin {"freed", "unlocked"} =>
  \A i \in {act[p].dp, act[p].ip, fd[p]} \cup ToSet(puts[p]) :
    i # NoInum => dinode[i].type # "free"

Blocked(p) == Wants(p) # NoInum /\ slock[Wants(p)] # NoProc

\* Processes that wait for sleep locks of inodes never all wait for each
\* other: unlink and create lock a second inode while they hold dp
\* (sysfile.c:213, 270), namex lets go of each before it locks the next, and
\* whoever returns has unlocked what it locked.
NotStuck == (\E p \in Proc : Blocked(p)) => \E p \in Proc : act[p] # Idle /\ ~Blocked(p)

Entries(d, i) == {x \in Inum \X Name : d[x[1]].ent[x[2]] = i}
Subdirs(d, i) == {j \in Inum \ {ROOT} : d[j].type = "dir" /\ d[j].nlink > 0 /\ d[j].up = i}

\* On disk, and so after any crash, the link count of every inode is the
\* number of entries that name it and of directories whose ".." it is, counting
\* the root as its own; and what has links is allocated. create, link and
\* unlink change the two in different steps and on different inodes, and link
\* raises the count before it knows that it can make the entry (sysfile.c:145).
\* Excepted is what follows when a call works in a directory that another one
\* has removed after namex had let go of it (sysfile.c:151, 254): the entry is
\* made where nobody finds it, and its inode keeps its link for good.
LinksExact == ~strayed => \A i \in Inum :
  /\ disk[i].nlink = Cardinality(Entries(disk, i)) + Cardinality(Subdirs(disk, i))
                     + (IF i = ROOT THEN 1 ELSE 0)
  /\ disk[i].nlink > 0 => disk[i].type # "free"

\* When no call is under way and ireclaim is done, an inode with no link is
\* free, or open: whichever of unlink, close and a failed create let go of it
\* last has freed it, and after a crash ireclaim has found it (fs.c:374).
\* Excepted are inodes that ialloc took between the moment iput freed them and
\* the moment it dropped its own reference (fs.c:356-361), which made the
\* new user's reference look like one of two.
NoOrphans == scan = 0 /\ ~strayed /\ (\A p \in Proc : act[p] = Idle) =>
  \A i \in Inum : dinode[i].type # "free" /\ dinode[i].nlink = 0 =>
    i \in revived \/ \E p \in Proc : fd[p] = i

\* The table and the processes agree: references are counted exactly, copies are
\* current, and somebody can always go on.  Unless a removed directory was used, no
\* inode is left over, nobody holds on to one that has been freed and no call panics:
\* iput never has to wait for a lock with itable.lock held (fs.c:347), ilock never
\* finds a free inode (fs.c:315), unlink never one without links (sysfile.c:215).
InodeInv == TypeOK /\ RefExact /\ Coherent /\ NotStuck /\ (~strayed => ~panic /\ HeldAlive)
            /\ NoOrphans
===============================================================================
