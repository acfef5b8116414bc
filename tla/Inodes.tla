-------------------------------- MODULE Inodes --------------------------------
(***************************************************************************)
(* The inode cache and the directories (fs.c) under the system calls that  *)
(* look up, make, link and remove names (sysfile.c): open, close, mkdir,   *)
(* link, unlink and chdir, by several processes.                           *)
(*                                                                         *)
(* A step is what a process does between two locks: a critical section of  *)
(* icache.lock, or what it does to inodes whose sleep-locks it holds, up   *)
(* to releasing one.  Every change of an inode is written through          *)
(* (iupdate) in the same step.  A directory is a function from names to    *)
(* inode numbers; file contents, blocks, descriptors and the log's         *)
(* transactions, which make each call atomic on the disk, are not here.    *)
(* A process has at most one file open.                                    *)
(***************************************************************************)
EXTENDS Integers, Sequences, FiniteSets

CONSTANTS
    Procs,
    Names,          \* names other than "." and ".."
    Inums,          \* inodes on the disk, ...
    ROOTINO,        \* ... the root directory's among them
    Slots,          \* entries of the inode cache: NINODE of them in param.h
    Calls,          \* bound: the calls each process makes; an absolute path has "/" first
    Nobody, None    \* no process; no inode, no entry

Entries == Names \cup {".", ".."}

ASSUME InodesAssumption ==
    /\ IsFiniteSet(Procs) /\ Procs # {} /\ IsFiniteSet(Inums) /\ IsFiniteSet(Names)
    /\ ROOTINO \in Inums /\ Slots # {}
    /\ Names \cap {".", "..", "/"} = {}
    /\ DOMAIN Calls = Procs
    /\ \A p \in Procs : \A c \in Calls[p] :
         /\ c.op \in {"open", "create", "close", "mkdir", "link", "unlink", "chdir"}
         /\ \A path \in {c.path, c.second} :
              /\ path \in Seq(Entries \cup {"/"})
              /\ path # <<>> => Tail(path) \in Seq(Entries)
    /\ Nobody \notin Procs /\ None \notin Inums /\ None \notin Slots

VARIABLES
    dinode,         \* type and nlink of each inode on disk
    dir,            \* the directory in its blocks
    inum, ref, valid, core,     \* struct inode; core is its copy of the dinode
    lock,           \* who has the inode's sleep-lock
    pc, after,      \* where each process is, and where iput() returns to
    has,            \* the inode pointers of each process
    call, rest,     \* what it is doing, and what is left of the path
    marked,         \* the inode that ialloc() has marked for it on the disk
    panicked        \* the message of panic(), after which nothing runs

disk == <<dinode, dir>>
icache == <<inum, ref, valid, core>>
proc == <<pc, after, has, call, rest, marked>>
vars == <<disk, icache, lock, proc, panicked>>

Node(t, n) == [type |-> t, nlink |-> n]
Registers == {"ip", "dp", "old", "giving", "cwd", "file"}
NoEntries == [n \in Entries |-> None]
NoCall == [op |-> "none", path |-> <<>>, second |-> <<>>]

(* The disk as mkfs leaves it, without its files; every process is in "/". *)
Begin(root) ==
    /\ dinode = [i \in Inums |-> IF i = ROOTINO THEN Node("dir", 1) ELSE Node("free", 0)]
    /\ dir = [i \in Inums |-> IF i = ROOTINO
                              THEN [NoEntries EXCEPT !["."] = ROOTINO, ![".."] = ROOTINO]
                              ELSE NoEntries]
    /\ inum = [s \in Slots |-> IF s = root THEN ROOTINO ELSE None]
    /\ ref = [s \in Slots |-> IF s = root THEN Cardinality(Procs) ELSE 0]
    /\ valid = [s \in Slots |-> FALSE]
    /\ core = [s \in Slots |-> Node("free", 0)]
    /\ lock = [s \in Slots |-> Nobody]
    /\ pc = [p \in Procs |-> "user"] /\ after = [p \in Procs |-> "user"]
    /\ has = [p \in Procs |-> [r \in Registers |-> IF r = "cwd" THEN root ELSE None]]
    /\ call = [p \in Procs |-> NoCall] /\ rest = [p \in Procs |-> <<>>]
    /\ marked = [p \in Procs |-> None]
    /\ panicked = "no"

Init == \E s \in Slots : Begin(s)

At(p, place) == pc[p] = place /\ panicked = "no"

Goto(p, place) == pc' = [pc EXCEPT ![p] = place]

(* Back to the user: what is left of the call is of no account.            *)
Return(p) ==
    /\ call' = [call EXCEPT ![p] = NoCall]
    /\ rest' = [rest EXCEPT ![p] = <<>>]

Panic(why) ==
    /\ panicked' = why
    /\ UNCHANGED <<disk, icache, lock, proc>>

-----------------------------------------------------------------------------
(* iget: the entry that inode i is in, or one that nobody uses.            *)
(* Mutant of Cached: an entry not yet read from the disk is passed over.   *)
CachedValid(i) == {s \in Slots : ref[s] > 0 /\ inum[s] = i /\ valid[s]}

Cached(i) == {s \in Slots : ref[s] > 0 /\ inum[s] = i}
Empty == {s \in Slots : ref[s] = 0}

Iget(i, s) ==
    \/ /\ s \in Cached(i)
       /\ ref' = [ref EXCEPT ![s] = @ + 1]
       /\ UNCHANGED <<inum, valid, core>>
    \/ /\ Cached(i) = {} /\ s \in Empty
       /\ inum' = [inum EXCEPT ![s] = i]
       /\ ref' = [ref EXCEPT ![s] = 1]
       /\ valid' = [valid EXCEPT ![s] = FALSE]
       /\ UNCHANGED core

(* The places of a process about to call ilock: the inode it locks, and    *)
(* where it is then.                                                       *)
ToLock ==
    [walk   |-> [inode |-> "ip",  then |-> "look"],
     got    |-> [inode |-> "ip",  then |-> "use"],
     parent |-> [inode |-> "dp",  then |-> "dir"],
     new    |-> [inode |-> "ip",  then |-> "fill"],
     victim |-> [inode |-> "ip",  then |-> "remove"],
     undo   |-> [inode |-> "old", then |-> "undone"]]

Ilock(p) ==
    /\ pc[p] \in DOMAIN ToLock /\ panicked = "no"
    /\ LET s == has[p][ToLock[pc[p]].inode] IN
       /\ lock[s] = Nobody
       /\ IF ~valid[s] /\ dinode[inum[s]].type = "free"
          THEN Panic("ilock: no type")
          ELSE /\ lock' = [lock EXCEPT ![s] = p]
               /\ core' = [core EXCEPT ![s] = IF valid[s] THEN @ ELSE dinode[inum[s]]]
               /\ valid' = [valid EXCEPT ![s] = TRUE]
               /\ Goto(p, ToLock[pc[p]].then)
               /\ UNCHANGED <<disk, inum, ref, after, has, call, rest, marked, panicked>>

(* iupdate: the inode and its dinode get the new type and nlink.           *)
Iupdate(s, node) ==
    /\ core' = [core EXCEPT ![s] = node]
    /\ dinode' = [dinode EXCEPT ![inum[s]] = node]

Relink(s, n) == Iupdate(s, [core[s] EXCEPT !.nlink = @ + n])

Unlock(s) == lock' = [lock EXCEPT ![s] = Nobody]

(* iput of the inode in a register is next, and then place.                *)
Put(p, r, place) ==
    /\ has' = [has EXCEPT ![p]["giving"] = has[p][r], ![p][r] = None]
    /\ after' = [after EXCEPT ![p] = place]
    /\ Goto(p, "put")

Iunlockput(p, r, place) == Unlock(has[p][r]) /\ Put(p, r, place)

-----------------------------------------------------------------------------
(* iput                                                                    *)
Unlinked(s) == valid[s] /\ core[s].nlink = 0

(* Mutant of LastRef: the references are not counted.                      *)
AnyRef(s) == TRUE

LastRef(s) == ref[s] = 1

IputTest(p) ==
    LET s == has[p].giving IN
    /\ At(p, "put") /\ lock[s] = Nobody
    /\ IF Unlinked(s) /\ LastRef(s)
       THEN lock' = [lock EXCEPT ![s] = p] /\ Goto(p, "free")
       ELSE Goto(p, "drop") /\ UNCHANGED lock
    /\ UNCHANGED <<disk, icache, after, has, call, rest, marked, panicked>>

(* itrunc, type = 0 and iupdate: from here on ialloc may take the inode.   *)
IputFree(p) ==
    LET s == has[p].giving IN
    /\ At(p, "free")
    /\ Iupdate(s, Node("free", 0))
    /\ dir' = [dir EXCEPT ![inum[s]] = NoEntries]
    /\ Goto(p, "freed")
    /\ UNCHANGED <<inum, ref, valid, lock, after, has, call, rest, marked, panicked>>

(* Mutant of Invalid: the copy stays.                                      *)
StillValid(s) == UNCHANGED valid

Invalid(s) == valid' = [valid EXCEPT ![s] = FALSE]

IputRelease(p) ==
    LET s == has[p].giving IN
    /\ At(p, "freed")
    /\ Invalid(s)
    /\ Unlock(s)
    /\ Goto(p, "drop")
    /\ UNCHANGED <<disk, inum, ref, core, after, has, call, rest, marked, panicked>>

IputDrop(p) ==
    /\ At(p, "drop")
    /\ ref' = [ref EXCEPT ![has[p].giving] = @ - 1]
    /\ has' = [has EXCEPT ![p]["giving"] = None]
    /\ Goto(p, after[p])
    /\ after' = [after EXCEPT ![p] = "user"]
    /\ IF after[p] = "user" THEN Return(p) ELSE UNCHANGED <<call, rest>>
    /\ UNCHANGED <<disk, inum, valid, core, lock, marked, panicked>>

Iput(p) == IputTest(p) \/ IputFree(p) \/ IputRelease(p) \/ IputDrop(p)

-----------------------------------------------------------------------------
(* The second path of link() is looked up with the first inode in hand.    *)
WantsParent(p) ==
    \/ call[p].op \in {"create", "mkdir", "unlink"}
    \/ call[p].op = "link" /\ has[p].old # None

AtParent(p) == WantsParent(p) /\ Len(rest[p]) = 1

Failed(p) == IF has[p].old # None THEN "undo" ELSE "user"

Absolute(path) == path # <<>> /\ Head(path) = "/"

(* The beginning of namex: "/" or the current directory.                   *)
Namex(p, path, parent) ==
    LET names == IF Absolute(path) THEN Tail(path) ELSE path
    IN \E s \in Slots :
        /\ IF Absolute(path) THEN Iget(ROOTINO, s)
           ELSE s = has[p].cwd /\ ref' = [ref EXCEPT ![s] = @ + 1] /\ UNCHANGED <<inum, valid, core>>
        /\ rest' = [rest EXCEPT ![p] = names]
        /\ IF names = <<>> /\ parent
           THEN /\ has' = [has EXCEPT ![p]["giving"] = s]
                /\ after' = [after EXCEPT ![p] = Failed(p)]
                /\ Goto(p, "put")
           ELSE /\ has' = [has EXCEPT ![p]["ip"] = s]
                /\ Goto(p, IF names = <<>> THEN "got" ELSE "walk")
                /\ UNCHANGED after
        /\ UNCHANGED <<disk, lock, marked, panicked>>

Callable(p, c) == c.op # "close" /\ (c.op \in {"open", "create"} => has[p].file = None)

Call(p, c) ==
    /\ At(p, "user") /\ Callable(p, c)
    /\ call' = [call EXCEPT ![p] = c]
    /\ Namex(p, c.path, c.op \in {"create", "mkdir", "unlink"})

Close(p) ==
    /\ At(p, "user") /\ has[p].file # None
    /\ Put(p, "file", "user")
    /\ UNCHANGED <<disk, icache, lock, call, rest, marked, panicked>>

(* One element of the path, the directory being locked.                    *)
Entry(p, r) == dir[inum[has[p][r]]][Head(rest[p])]

LookStops(p) ==
    /\ At(p, "look")
    /\ IF core[has[p].ip].type # "dir"
       THEN Iunlockput(p, "ip", Failed(p))
       ELSE IF AtParent(p)
       THEN /\ Unlock(has[p].ip)
            /\ has' = [has EXCEPT ![p]["dp"] = has[p].ip, ![p]["ip"] = None]
            /\ Goto(p, "parent")
            /\ UNCHANGED after
       ELSE Entry(p, "ip") = None /\ Iunlockput(p, "ip", Failed(p))
    /\ UNCHANGED <<disk, icache, call, rest, marked, panicked>>

LookFinds(p, s) ==
    /\ At(p, "look") /\ core[has[p].ip].type = "dir"
    /\ ~AtParent(p)
    /\ Entry(p, "ip") # None /\ Iget(Entry(p, "ip"), s)
    /\ has' = [has EXCEPT ![p]["giving"] = has[p].ip, ![p]["ip"] = s]
    /\ Unlock(has[p].ip)
    /\ rest' = [rest EXCEPT ![p] = Tail(@)]
    /\ after' = [after EXCEPT ![p] = IF Len(rest[p]) = 1 THEN "got" ELSE "walk"]
    /\ Goto(p, "put")
    /\ UNCHANGED <<disk, call, marked, panicked>>

-----------------------------------------------------------------------------
(* create, the name being there already, ...                               *)
Makes(p) == call[p].op \in {"create", "mkdir"}

CreateExists(p, s) ==
    /\ At(p, "dir") /\ Makes(p) /\ Entry(p, "dp") # None
    /\ Iget(Entry(p, "dp"), s)
    /\ Unlock(has[p].dp)
    /\ has' = [has EXCEPT ![p]["giving"] = has[p].dp, ![p]["ip"] = s, ![p]["dp"] = None]
    /\ after' = [after EXCEPT ![p] = "got"]
    /\ Goto(p, "put")
    /\ UNCHANGED <<disk, call, rest, marked, panicked>>

FreeInums == {i \in Inums : dinode[i].type = "free"}

Type(p) == IF call[p].op = "mkdir" THEN "dir" ELSE "file"

(* ... and not: ialloc marks the dinode, and the directory stays locked.   *)
(* Which free inode its scan comes upon is left open.                      *)
Mark(p) ==
    /\ At(p, "dir") /\ Makes(p) /\ Entry(p, "dp") = None
    /\ IF FreeInums = {} THEN Panic("ialloc: no inodes")
       ELSE \E i \in FreeInums :
            /\ dinode' = [dinode EXCEPT ![i] = Node(Type(p), 0)]
            /\ marked' = [marked EXCEPT ![p] = i]
            /\ Goto(p, "marked")
            /\ UNCHANGED <<dir, icache, lock, after, has, call, rest, panicked>>

(* Nothing but its type holds the inode until ialloc's iget.               *)
Create(p, s) ==
    /\ At(p, "marked")
    /\ Iget(marked[p], s)
    /\ has' = [has EXCEPT ![p]["ip"] = s]
    /\ marked' = [marked EXCEPT ![p] = None]
    /\ Goto(p, "new")
    /\ UNCHANGED <<disk, lock, after, call, rest, panicked>>

(* nlink is 1, and a directory's ".." counts as a link of its parent.      *)
Named(p, s, d) ==
    /\ core' = [core EXCEPT ![s].nlink = 1, ![d].nlink = @ + (IF Type(p) = "dir" THEN 1 ELSE 0)]
    /\ dinode' = [dinode EXCEPT ![inum[s]] = core'[s], ![inum[d]] = core'[d]]

Dots(p, s, d) ==
    IF Type(p) = "dir"
    THEN [dir EXCEPT ![inum[s]] = [@ EXCEPT !["."] = inum[s], ![".."] = inum[d]]]
    ELSE dir

Fill(p) ==
    LET s == has[p].ip
        d == has[p].dp
    IN  /\ At(p, "fill")
        /\ Named(p, s, d)
        /\ dir' = [Dots(p, s, d) EXCEPT ![inum[d]][Head(rest[p])] = inum[s]]
        /\ Iunlockput(p, "dp", "made")
        /\ UNCHANGED <<inum, ref, valid, call, rest, marked, panicked>>

(* sys_open finds room in the tables of files and descriptors, ...         *)
OpenFile(p) ==
    /\ Unlock(has[p].ip)
    /\ has' = [has EXCEPT ![p]["file"] = has[p].ip, ![p]["ip"] = None]
    /\ Goto(p, "user")
    /\ Return(p)
    /\ UNCHANGED after

(* ... or it does not, and gives the inode back, as other calls do.        *)
GiveUp(p) == Iunlockput(p, "ip", "user") /\ UNCHANGED <<call, rest>>

Made(p) ==
    /\ At(p, "made")
    /\ GiveUp(p) \/ (call[p].op = "create" /\ OpenFile(p))
    /\ UNCHANGED <<disk, icache, marked, panicked>>

-----------------------------------------------------------------------------
(* The inode of the path is found and locked: open, create of what exists, *)
(* mkdir, chdir, and link's first half.                                    *)
(* Mutant of Chdir: the directory left behind is not given back.           *)
ChdirKeepsOld(p) ==
    /\ Unlock(has[p].ip)
    /\ has' = [has EXCEPT ![p]["cwd"] = has[p].ip, ![p]["ip"] = None]
    /\ Goto(p, "user")
    /\ Return(p)
    /\ UNCHANGED after

Chdir(p) ==
    /\ Unlock(has[p].ip)
    /\ has' = [has EXCEPT ![p]["giving"] = has[p].cwd, ![p]["cwd"] = has[p].ip, ![p]["ip"] = None]
    /\ after' = [after EXCEPT ![p] = "user"]
    /\ Goto(p, "put")
    /\ UNCHANGED <<call, rest>>

Use(p) ==
    LET op == call[p].op
        type == core[has[p].ip].type
    IN  /\ At(p, "use") /\ ~(op = "link" /\ type # "dir")
        /\ IF op = "chdir" /\ type = "dir" THEN Chdir(p)
           ELSE \/ GiveUp(p)
                \/ (op = "open" \/ (op = "create" /\ type = "file")) /\ OpenFile(p)
        /\ UNCHANGED <<disk, icache, marked, panicked>>

(* Mutant of OneMoreLink: link() leaves nlink alone.                       *)
LinkUncounted(s) == UNCHANGED <<core, dinode>>

OneMoreLink(s) == Relink(s, 1)

LinkOld(p) ==
    LET s == has[p].ip IN
    /\ At(p, "use") /\ call[p].op = "link" /\ core[s].type # "dir"
    /\ OneMoreLink(s)
    /\ Unlock(s)
    /\ has' = [has EXCEPT ![p]["old"] = s, ![p]["ip"] = None]
    /\ Goto(p, "second")
    /\ UNCHANGED <<dir, inum, ref, valid, after, call, rest, marked, panicked>>

LinkNew(p) ==
    /\ At(p, "second")
    /\ Namex(p, call[p].second, TRUE)
    /\ UNCHANGED call

(* dirlink gives back the inode it finds while the directory is locked.    *)
LinkExists(p, s) ==
    /\ At(p, "dir") /\ call[p].op = "link" /\ Entry(p, "dp") # None
    /\ Iget(Entry(p, "dp"), s)
    /\ has' = [has EXCEPT ![p]["giving"] = s]
    /\ after' = [after EXCEPT ![p] = "exists"]
    /\ Goto(p, "put")
    /\ UNCHANGED <<disk, lock, call, rest, marked, panicked>>

Link(p) ==
    /\ At(p, "dir") /\ call[p].op = "link" /\ Entry(p, "dp") = None
    /\ dir' = [dir EXCEPT ![inum[has[p].dp]][Head(rest[p])] = inum[has[p].old]]
    /\ Iunlockput(p, "dp", "linked")
    /\ UNCHANGED <<dinode, icache, call, rest, marked, panicked>>

LinkEnds(p) ==
    /\ \/ At(p, "exists") /\ Iunlockput(p, "dp", "undo")
       \/ At(p, "linked") /\ Put(p, "old", "user") /\ UNCHANGED lock
    /\ UNCHANGED <<disk, icache, call, rest, marked, panicked>>

LinkUndone(p) ==
    /\ At(p, "undone")
    /\ Relink(has[p].old, -1)
    /\ Iunlockput(p, "old", "user")
    /\ UNCHANGED <<dir, inum, ref, valid, call, rest, marked, panicked>>

-----------------------------------------------------------------------------
(* unlink                                                                  *)
Dot(name) == name \in {".", ".."}

UnlinkRefused(p) ==
    /\ At(p, "dir") /\ call[p].op = "unlink"
    /\ Entry(p, "dp") = None \/ Dot(Head(rest[p]))
    /\ Iunlockput(p, "dp", "user")
    /\ UNCHANGED <<disk, icache, call, rest, marked, panicked>>

UnlinkFinds(p, s) ==
    /\ At(p, "dir") /\ call[p].op = "unlink"
    /\ ~Dot(Head(rest[p])) /\ Entry(p, "dp") # None
    /\ Iget(Entry(p, "dp"), s)
    /\ has' = [has EXCEPT ![p]["ip"] = s]
    /\ Goto(p, "victim")
    /\ UNCHANGED <<disk, lock, after, call, rest, marked, panicked>>

Isdirempty(i) == \A n \in Names : dir[i][n] = None

(* The entry goes; the directory is given back before nlink is lowered.    *)
Remove(p) ==
    LET s == has[p].ip
        d == has[p].dp
    IN  /\ At(p, "remove") /\ core[s].nlink >= 1
        /\ core[s].type = "dir" => Isdirempty(inum[s])
        /\ dir' = [dir EXCEPT ![inum[d]][Head(rest[p])] = None]
        /\ IF core[s].type = "dir" THEN Relink(d, -1) ELSE UNCHANGED <<core, dinode>>
        /\ Iunlockput(p, "dp", "removed")
        /\ UNCHANGED <<inum, ref, valid, call, rest, marked, panicked>>

RemoveFails(p) ==
    LET s == has[p].ip IN
    /\ At(p, "remove")
    /\ IF core[s].nlink < 1 THEN Panic("unlink: nlink < 1")
       ELSE /\ core[s].type = "dir" /\ ~Isdirempty(inum[s])
            /\ Iunlockput(p, "ip", "notempty")
            /\ UNCHANGED <<disk, icache, call, rest, marked, panicked>>

NotEmpty(p) ==
    /\ At(p, "notempty")
    /\ Iunlockput(p, "dp", "user")
    /\ UNCHANGED <<disk, icache, call, rest, marked, panicked>>

Removed(p) ==
    /\ At(p, "removed")
    /\ Relink(has[p].ip, -1)
    /\ Iunlockput(p, "ip", "user")
    /\ UNCHANGED <<dir, inum, ref, valid, call, rest, marked, panicked>>

-----------------------------------------------------------------------------
(* What p may look for in the cache next, and the cache being full.        *)
Wanted(p) ==
    CASE pc[p] = "user" ->
           {ROOTINO : c \in {c \in Calls[p] : Callable(p, c) /\ Absolute(c.path)}}
      [] pc[p] = "second" -> IF Absolute(call[p].second) THEN {ROOTINO} ELSE {}
      [] pc[p] = "look" ->
           IF core[has[p].ip].type = "dir" /\ ~AtParent(p) THEN {Entry(p, "ip")} \ {None} ELSE {}
      [] pc[p] = "dir" ->
           IF call[p].op = "unlink" /\ Dot(Head(rest[p])) THEN {} ELSE {Entry(p, "dp")} \ {None}
      [] pc[p] = "marked" -> {marked[p]}
      [] OTHER -> {}

IgetPanics(p) ==
    /\ panicked = "no"
    /\ Empty = {} /\ \E i \in Wanted(p) : Cached(i) = {}
    /\ Panic("iget: no inodes")

SystemCall(p) == \E c \in Calls[p] : Call(p, c) \/ (c.op = "close" /\ Close(p))

Lookup(p) == LookStops(p) \/ \E s \in Slots : LookFinds(p, s)

Making(p) ==
    \/ Mark(p) \/ Fill(p) \/ Made(p)
    \/ \E s \in Slots : CreateExists(p, s) \/ Create(p, s)

Linking(p) ==
    \/ LinkOld(p) \/ LinkNew(p) \/ Link(p) \/ LinkEnds(p) \/ LinkUndone(p)
    \/ \E s \in Slots : LinkExists(p, s)

Unlinking(p) ==
    \/ UnlinkRefused(p) \/ Remove(p) \/ RemoveFails(p) \/ NotEmpty(p) \/ Removed(p)
    \/ \E s \in Slots : UnlinkFinds(p, s)

Next ==
    \E p \in Procs :
        \/ SystemCall(p) \/ IgetPanics(p) \/ Ilock(p) \/ Iput(p)
        \/ Lookup(p) \/ Use(p) \/ Making(p) \/ Linking(p) \/ Unlinking(p)

Spec == Init /\ [][Next]_vars
-----------------------------------------------------------------------------
Types == {"free", "file", "dir"}
Places == DOMAIN ToLock \cup {ToLock[place].then : place \in DOMAIN ToLock}
          \cup {"user", "put", "free", "freed", "drop", "marked", "made", "second", "exists", "linked",
               "notempty", "removed"}

(* An entry of the cache is counted once for every pointer to it, in a     *)
(* file, as a current directory or on somebody's stack.                    *)
Pointers(s) == {q \in Procs \X Registers : has[q[1]][q[2]] = s}

PointersAgree == \A s \in Slots : ref[s] = Cardinality(Pointers(s))

(* An inode that is in use is in the cache once, so its lock is one lock.  *)
OneEntry == \A s, t \in Slots : ref[s] > 0 /\ ref[t] > 0 /\ inum[s] = inum[t] => s = t

(* A valid copy is what the disk has, though ialloc may take an inode that *)
(* iput() has freed and not yet let go of.                                 *)
CoreAgrees ==
    \A s \in Slots :
        ref[s] > 0 /\ valid[s] =>
            \/ core[s] = dinode[inum[s]]
            \/ \E p \in Procs : pc[p] = "freed" /\ has[p].giving = s

(* No name leads to a free inode: nlink covers the names there are, and    *)
(* the ".." of each directory inside, whatever mkdir(), link() and         *)
(* unlink() are in the middle of.                                          *)
NamesOf(i) == {e \in Inums \X Names : dir[e[1]][e[2]] = i}
Inside(i) == {d \in Inums \ {i} : dir[d][".."] = i /\ NamesOf(d) # {}}

NamesCovered ==
    \A i \in Inums :
        /\ NamesOf(i) # {} => dinode[i].type # "free"
        /\ Cardinality(NamesOf(i)) + Cardinality(Inside(i)) <= dinode[i].nlink

(* An inode is freed only when it has no name and nobody has it open or    *)
(* for a current directory.                                                *)
FreedUnused ==
    [][\A i \in Inums :
          dinode[i].type # "free" /\ dinode'[i].type = "free" =>
              /\ NamesOf(i) = {}
              /\ \A s \in Cached(i), p \in Procs : s \notin {has[p].file, has[p].cwd}]_vars

(* fs.c:118 - an inode that is looked up is allocated: the panic of ilock. *)
AlwaysHasType == panicked # "ilock: no type"

(* fs.c:149 - deadlock is avoided during path name lookup: no processes    *)
(* wait for inode locks that they hold among themselves.                   *)
Waits(p) ==
    IF pc[p] = "put" THEN has[p].giving
    ELSE IF pc[p] \in DOMAIN ToLock THEN has[p][ToLock[pc[p]].inode]
    ELSE None

NoCircularWait ==
    \A D \in SUBSET Procs \ {{}} :
        \E p \in D : Waits(p) = None \/ lock[Waits(p)] \notin D

-----------------------------------------------------------------------------
(* The inductive invariant.  What a process has in hand depends on where   *)
(* it is or, in iput(), on where it will be.                               *)
PutPlaces == {"put", "free", "freed", "drop"}
InIput(p) == pc[p] \in PutPlaces
Place(p) == IF InIput(p) THEN after[p] ELSE pc[p]

(* The registers in use there, and those whose inode is locked.            *)
UsedAt(place, r) ==
    \/ r = "ip" /\ place \in {"walk", "look", "got", "use", "new", "fill", "made",
                              "victim", "remove", "removed"}
    \/ r = "dp" /\ place \in {"parent", "dir", "marked", "new", "fill", "victim", "remove",
                              "notempty", "exists"}
    \/ r = "cwd"

LockedAt(place, r) ==
    \/ r = "ip" /\ place \in {"look", "use", "fill", "made", "remove", "removed"}
    \/ r = "dp" /\ place \in {"dir", "marked", "new", "fill", "victim", "remove", "notempty", "exists"}
    \/ r = "old" /\ place = "undone"

Locks(p, r) ==
    LockedAt(Place(p), r) \/ (r = "giving" /\ pc[p] \in {"free", "freed"})

OnTheWay == {"walk", "look", "parent", "dir"}
LinkPlaces == {"second", "exists", "linked", "undo", "undone"}

RegistersOf(p) ==
    /\ Place(p) \notin PutPlaces
    /\ \A r \in {"ip", "dp", "cwd"} : has[p][r] # None <=> UsedAt(Place(p), r)
    /\ has[p].giving # None <=> InIput(p)
    /\ has[p].old # None => call[p].op = "link" /\ Place(p) \in OnTheWay \cup LinkPlaces
    /\ Place(p) \in LinkPlaces => has[p].old # None
    /\ Place(p) \in {"parent", "dir"} => WantsParent(p)
    /\ has[p].file # None => call[p].op \notin {"open", "create"}
    /\ marked[p] # None <=> Place(p) = "marked"
    /\ Place(p) \in OnTheWay \cup {"marked", "new", "fill", "victim", "remove"} => rest[p] # <<>>

Holds(p, s) == \E r \in Registers : Locks(p, r) /\ has[p][r] = s

LocksAgree ==
    /\ \A s \in Slots, p \in Procs : lock[s] = p <=> Holds(p, s)
    /\ \A p \in Procs : \A r, t \in Registers :
         Locks(p, r) /\ Locks(p, t) /\ has[p][r] = has[p][t] => r = t
    /\ \A s \in Slots : lock[s] # Nobody => valid[s]

AnyCall == {NoCall} \cup UNION {Calls[p] : p \in Procs}

InodeShape ==
    /\ dinode \in [Inums -> [type : Types, nlink : Int]]
    /\ dir \in [Inums -> [Entries -> Inums \cup {None}]]
    /\ inum \in [Slots -> Inums \cup {None}] /\ ref \in [Slots -> Nat]
    /\ valid \in [Slots -> BOOLEAN] /\ core \in [Slots -> [type : Types, nlink : Int]]
    /\ lock \in [Slots -> Procs \cup {Nobody}]
    /\ pc \in [Procs -> Places] /\ after \in [Procs -> Places]
    /\ has \in [Procs -> [Registers -> Slots \cup {None}]]
    /\ rest \in [Procs -> Seq(Entries)]
    /\ call \in [Procs -> AnyCall] /\ marked \in [Procs -> Inums \cup {None}]

CacheAgrees ==
    /\ \A s \in Slots : ref[s] > 0 => inum[s] \in Inums
    /\ \A s \in Slots :
         ref[s] > 0 /\ valid[s] =>
            \/ core[s] = dinode[inum[s]] /\ core[s].type # "free"
            \/ \E p \in Procs : pc[p] = "freed" /\ has[p].giving = s

InodeInv ==
    /\ InodeShape /\ (\A p \in Procs : RegistersOf(p))
    /\ LocksAgree /\ PointersAgree /\ OneEntry /\ CacheAgrees
-----------------------------------------------------------------------------
(* Names and link counts.  They agree only as long as nobody climbs: the   *)
(* ".." of a removed directory that somebody is still in may lead to an    *)
(* inode that is free, or that create() is in the middle of.               *)
NoClimbing ==
    \A p \in Procs : \A c \in Calls[p] :
        \A path \in {c.path, c.second} : \A k \in DOMAIN path : path[k] # ".."

(* What a link count stands for: a name, the ".." of a named directory, a  *)
(* call that has raised it for a name to come or has not yet lowered it    *)
(* for one that is gone, and the root.                                     *)
Inode(p, r) == inum[has[p][r]]

Owes(p, i) ==
    \/ has[p].old # None /\ Inode(p, "old") = i /\ Place(p) # "linked"
    \/ Place(p) = "removed" /\ Inode(p, "ip") = i

Owing(i) == {p \in Procs : Owes(p, i)}

Links(i) ==
    Cardinality(NamesOf(i)) + Cardinality(Inside(i)) + Cardinality(Owing(i))
    + (IF i = ROOTINO THEN 1 ELSE 0)

LinksCounted == \A i \in Inums : Links(i) <= dinode[i].nlink

(* A directory has its own two entries, unless it is still being made, and *)
(* a name only where its ".." leads; nothing else has entries.             *)
Raw(p) == pc[p] \in {"marked", "new", "fill"}
Newborn(p) == IF pc[p] = "marked" THEN marked[p] ELSE Inode(p, "ip")
Going(p) == pc[p] \in {"free", "freed"}

Directories ==
    \A i \in Inums :
        /\ dinode[i].type # "dir" => dir[i] = NoEntries
        /\ dinode[i].type = "free" => dinode[i].nlink = 0
        /\ dinode[i].type = "dir" /\ (\A p \in Procs : Raw(p) => Newborn(p) # i) =>
             dir[i]["."] = i /\ dir[i][".."] # None
        /\ dinode[i].type = "dir" =>
             \A e \in Inums, n \in Names : dir[e][n] = i =>
               dir[i][".."] = e /\ e # i /\ \A m \in Names : dir[e][m] = i => m = n

(* An inode that create() is in the middle of, or iput() is freeing, has   *)
(* no links, and nobody else has it in hand.                               *)
Settled(i) ==
    /\ dinode[i].type # "free"
    /\ \A p \in Procs : Raw(p) => Newborn(p) # i
    /\ \A p \in Procs : Going(p) => Inode(p, "giving") # i

Steady(p, r) ==
    has[p][r] # None /\ ~(r = "ip" /\ Raw(p)) /\ (r = "giving" => pc[p] = "put")

InHand(p) == \A r \in Registers : Steady(p, r) => Settled(Inode(p, r))

Fresh(p) ==
    Raw(p) =>
        /\ dinode[Newborn(p)] = Node(Type(p), 0) /\ dir[Newborn(p)] = NoEntries
        /\ \A q \in Procs \ {p} : Raw(q) => Newborn(q) # Newborn(p)

Leaving(p) ==
    /\ Going(p) => dinode[Inode(p, "giving")].nlink = 0
    /\ pc[p] = "free" => \A q \in Procs : Raw(q) => Newborn(q) # Inode(p, "giving")

(* What a call knows of the directory it has locked and of its inodes.     *)
Knows(p) ==
    /\ \A k \in DOMAIN rest[p] : rest[p][k] # ".."
    /\ Raw(p) \/ Place(p) = "made" => Makes(p)
    /\ Place(p) \in {"victim", "remove", "notempty", "removed"} => call[p].op = "unlink"
    /\ InIput(p) => after[p] \notin {"marked", "new", "fill", "victim", "remove"}
    /\ has[p].dp # None => dinode[Inode(p, "dp")].type = "dir"
    /\ has[p].old # None => dinode[Inode(p, "old")].type = "file"
    /\ Raw(p) => Entry(p, "dp") = None
    /\ pc[p] \in {"victim", "remove"} =>
         Head(rest[p]) \in Names /\ Entry(p, "dp") = Inode(p, "ip")

NamesInv ==
    /\ LinksCounted /\ Directories
    /\ \A p \in Procs : InHand(p) /\ Fresh(p) /\ Leaving(p) /\ Knows(p)
================================================================================
