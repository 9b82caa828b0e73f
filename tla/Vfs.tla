-------------------------------- MODULE Vfs --------------------------------
(***************************************************************************)
(* The directory and file lookup cache of fs/vfs.c over the directories of *)
(* fs/tmpfs.c, as the system calls of fs/syscall.c, fork() and exit use    *)
(* it.  A tmpfs entry is named by its path from the root; a cache entry is *)
(* a slot that is used again once it is freed.                             *)
(***************************************************************************)
EXTENDS Naturals, FiniteSets, Sequences, SequencesExt

CONSTANTS
  Procs,      \* slots for processes
  init_proc,  \* the process that runs at the start
  Slots,      \* memory for cache entries, other than those of the mounts
  root, dev,  \* the entries of the mountpoints "/" and "/dev"
  Requests,   \* system calls with a pathname: [op, abs, comps]
  Fds,        \* descriptors of a process
  MaxDepth,   \* bound: components of a path
  MaxPath,    \* components that fit in the buffer of file_realpath()
  NULL

Entries == Slots \union {root, dev}
DevPath == <<"dev">>

VARIABLES
  nodes,   \* path -> "dir" or "file", for what tmpfs holds
  dirlock, \* paths of the tmpfs directories whose lock was never released
  dflc,    \* entry -> [path, parent, refs], or NULL
  lock,    \* entry -> process whose call holds the lock, or NULL
  fds,     \* process -> descriptor -> entry or NULL
  cwd,     \* process -> [file, pathname], or NULL if it does not exist
  pc, call \* position of a process in its call, and the call's variables

vars == <<nodes, dirlock, dflc, lock, fds, cwd, pc, call>>
procVars == <<fds, cwd>>

NoCall == [op |-> "none", who |-> NULL, cur |-> NULL, rest |-> <<>>, goal |-> <<>>,
           dir |-> FALSE, create |-> FALSE, puts |-> <<>>, seen |-> {}]
NoFds == [d \in Fds |-> NULL]

Parent(e) == dflc[e].parent
Path(e) == dflc[e].path
IsDir(e) == nodes[Path(e)] = "dir"
Chain(e) == {f \in Entries: dflc[f] # NULL /\ IsPrefix(Path(f), Path(e))}

(* What "." and ".." and names mean, from the directory at p on. *)
Step(p, name) ==
  IF name = "." THEN p
  ELSE IF name # ".." THEN Append(p, name)
  ELSE IF p = <<>> THEN p ELSE Front(p)
Resolve(p, comps) == FoldLeft(Step, p, comps)

----------------------------------------------------------------------------
(* References *)

(* dflc_get(): one more reference on each of the entries in E, which takes  *)
(* no lock, and on all that they are below of.                              *)
DflcGet(E) ==
  [f \in Entries |-> IF dflc[f] = NULL THEN NULL
     ELSE [dflc[f] EXCEPT !.refs = @ + Cardinality({h \in DOMAIN E: f \in Chain(E[h])})]]

(* Mutant: the count is looked at before it is decremented. *)
DflcDropLate(e) ==
  IF dflc[e].refs = 0 /\ Parent(e) # NULL
    THEN [dflc EXCEPT ![e] = NULL]
    ELSE [dflc EXCEPT ![e].refs = @ - 1]

(* _dflc_put(): the last reference removes the entry from its parent. *)
DflcDrop(e) ==
  IF dflc[e].refs = 1 /\ Parent(e) # NULL
    THEN [dflc EXCEPT ![e] = NULL]
    ELSE [dflc EXCEPT ![e].refs = @ - 1]

(* The call of t goes on at label with the variables c. *)
Goto(t, label, c) ==
  /\ pc' = [pc EXCEPT ![t] = label]
  /\ call' = [call EXCEPT ![t] = c]

(* Release the entries in s one after the other, then return. *)
PutAll(t, s) == Goto(t, "put", [call[t] EXCEPT !.puts = s, !.cur = NULL, !.rest = <<>>])

(* The open files of process p. *)
FreeFds(p) == {d \in Fds: fds[p][d] = NULL}
Files(p) ==
  LET h == SetToSeq({<<d, fds[p][d]>>: d \in Fds \ FreeFds(p)})
  IN  [i \in DOMAIN h |-> h[i][2]]

(* Mutant: the entry's lock first. *)
DflcPutLockSelf(t) ==
  LET e == Head(call[t].puts)
  IN  /\ pc[t] = "put" /\ call[t].puts # <<>>
      /\ Parent(e) # NULL /\ lock[e] = NULL
      /\ lock' = [lock EXCEPT ![e] = t]
      /\ Goto(t, "put_locked", call[t])
      /\ UNCHANGED <<nodes, dirlock, dflc, procVars>>

(* dflc_put(): the parent's lock first. *)
DflcPutLock(t) ==
  LET e == Head(call[t].puts)
  IN  /\ pc[t] = "put" /\ call[t].puts # <<>>
      /\ Parent(e) # NULL /\ lock[Parent(e)] = NULL
      /\ lock' = [lock EXCEPT ![Parent(e)] = t]
      /\ Goto(t, "put_locked", call[t])
      /\ UNCHANGED <<nodes, dirlock, dflc, procVars>>

(* ... then the entry itself, and on to the parent. *)
DflcPut(t) ==
  LET c == call[t]
      e == Head(c.puts)
  IN  /\ c.puts # <<>> /\ lock[e] = NULL
      /\ dflc' = DflcDrop(e)
      /\ \/ /\ pc[t] = "put_locked"
            /\ lock' = [lock EXCEPT ![Parent(e)] = NULL]
            /\ Goto(t, "put", [c EXCEPT !.puts[1] = Parent(e)])
         \/ /\ pc[t] = "put" /\ Parent(e) = NULL
            /\ Goto(t, "put", [c EXCEPT !.puts = Tail(@)])
            /\ UNCHANGED lock
      /\ UNCHANGED <<nodes, dirlock, procVars>>

(* fork() gives up when the lookup failed: the child's descriptors follow. *)
ForkAbort(t) ==
  LET q == call[t].who
  IN  /\ pc[t] = "put" /\ call[t].puts = <<>> /\ call[t].op = "fork" /\ fds[q] # NoFds
      /\ fds' = [fds EXCEPT ![q] = NoFds]
      /\ PutAll(t, Files(q))
      /\ UNCHANGED <<nodes, dirlock, dflc, lock, cwd>>

Return(t) ==
  /\ pc[t] = "put" /\ call[t].puts = <<>>
  /\ call[t].op = "fork" => fds[call[t].who] = NoFds
  /\ Goto(t, "user", NoCall)
  /\ UNCHANGED <<nodes, dirlock, dflc, lock, procVars>>

----------------------------------------------------------------------------
(* dflc_lookup_at() *)

(* Its start, for a call that finds r on behalf of the process who. *)
Lookup(t, op, who, r, dir, create, d) ==
  LET at == IF r.abs THEN root ELSE cwd[who].file
  IN  /\ dflc' = [f \in Entries |-> IF f \in Chain(at)
                                     THEN [d[f] EXCEPT !.refs = @ + 1] ELSE d[f]]
      /\ Goto(t, "walk",
              [NoCall EXCEPT !.op = op, !.who = who, !.cur = at, !.rest = r.comps,
                             !.goal = Resolve(Path(at), r.comps),
                             !.dir = dir, !.create = create])

IsLast(t) == Len(call[t].rest) = 1
WantDir(t) == ~ IsLast(t) \/ call[t].dir
Create(t) == IsLast(t) /\ call[t].create

(* The next entry e becomes the current one, unless it had to be a           *)
(* directory.  (d is the cache after this step.)                             *)
Advance(t, e, d) ==
  IF WantDir(t) /\ nodes'[d[e].path] # "dir"
    THEN PutAll(t, <<e>>)
    ELSE Goto(t, "walk", [call[t] EXCEPT !.cur = e, !.rest = Tail(@)])

(* "." *)
WalkStay(t) ==
  /\ pc[t] = "walk" /\ call[t].rest # <<>> /\ Head(call[t].rest) = "."
  /\ Goto(t, "walk", [call[t] EXCEPT !.rest = Tail(@)])
  /\ UNCHANGED <<nodes, dirlock, dflc, lock, procVars>>

(* A lock is taken: of the parent for "..", of the current entry otherwise. *)
WalkLock(t) ==
  LET c == call[t]
      up == Head(c.rest) = ".."
      e == IF up THEN Parent(c.cur) ELSE c.cur
  IN  /\ pc[t] = "walk" /\ c.rest # <<>> /\ Head(c.rest) # "."
      /\ IF e = NULL
           THEN /\ Goto(t, "walk", [c EXCEPT !.rest = Tail(@)])
                /\ UNCHANGED lock
           ELSE /\ lock[e] = NULL
                /\ lock' = [lock EXCEPT ![e] = t]
                /\ Goto(t, IF up THEN "up" ELSE "lookup", c)
      /\ UNCHANGED <<nodes, dirlock, dflc, procVars>>

(* "..": the entry is given back, its parents are kept. *)
WalkUp(t) ==
  LET e == call[t].cur
  IN  /\ pc[t] = "up" /\ lock[e] = NULL
      /\ dflc' = DflcDrop(e)
      /\ lock' = [lock EXCEPT ![Parent(e)] = NULL]
      /\ UNCHANGED <<nodes, dirlock, procVars>>
      /\ Advance(t, Parent(e), dflc)

(* dflc_lookup_next(), first half: an entry that is in the cache. *)
Children(e) == {f \in Entries: dflc[f] # NULL /\ Parent(f) = e}

(* Mutant: the cache is not searched. *)
CachedNever(e, name) == {}

(* Mutant: a child is taken whatever its name. *)
CachedAny(e, name) == Children(e)

Cached(e, name) == {f \in Children(e): Path(f) = Append(Path(e), name)}

(* Mutant: the reference is forgotten. *)
LookupCachedNoGet(t) ==
  LET e == call[t].cur
  IN  /\ pc[t] = "lookup"
      /\ UNCHANGED <<nodes, dflc>>
      /\ \E f \in Cached(e, Head(call[t].rest)): Advance(t, f, dflc)
      /\ lock' = [lock EXCEPT ![e] = NULL]
      /\ UNCHANGED <<dirlock, procVars>>

LookupCached(t) ==
  LET e == call[t].cur
  IN  /\ pc[t] = "lookup"
      /\ \E f \in Cached(e, Head(call[t].rest)):
            /\ dflc' = [dflc EXCEPT ![f].refs = @ + 1]
            /\ UNCHANGED nodes
            /\ Advance(t, f, dflc)
      /\ lock' = [lock EXCEPT ![e] = NULL]
      /\ UNCHANGED <<dirlock, procVars>>

(* There is no memory for the name. *)
LookupNoMem(t) ==
  /\ pc[t] = "lookup"
  /\ PutAll(t, <<call[t].cur>>)
  /\ lock' = [lock EXCEPT ![call[t].cur] = NULL]
  /\ UNCHANGED <<nodes, dirlock, dflc, procVars>>

(* find_create_entry() in the directory p: what becomes of name, or          *)
(* "error" if it is missing, in the way, or too deep; /dev creates nothing.  *)
FindCreate(p, name, dir, create) ==
  LET q == Append(p, name)
      kind == IF dir THEN "dir" ELSE "file"
  IN  IF q \in DOMAIN nodes
        THEN IF dir /\ create THEN "error" ELSE nodes[q]
        ELSE IF create /\ p # DevPath /\ Len(q) <= MaxDepth THEN kind ELSE "error"

(* Second half: the file system is asked, for which the lock of its          *)
(* directory has to be free, and a new entry takes the answer.               *)
LookupFs(t) ==
  LET c == call[t]
      e == c.cur
      q == Append(Path(e), Head(c.rest))
      found == FindCreate(Path(e), Head(c.rest), WantDir(t), Create(t))
      free == {f \in Slots: dflc[f] = NULL}
      d(f) == [dflc EXCEPT ![f] = [path |-> q, parent |-> e, refs |-> 1]]
  IN  /\ pc[t] = "lookup"
      /\ Cached(e, Head(c.rest)) = {}
      /\ free = {} \/ Path(e) \notin dirlock
      /\ \/ /\ free # {} /\ found # "error"
            /\ nodes' = [p \in DOMAIN nodes \union {q} |-> IF p = q THEN found ELSE nodes[p]]
            /\ LET f == CHOOSE f \in free: TRUE
               IN  dflc' = d(f) /\ Advance(t, f, d(f))
         \/ /\ free = {} \/ found = "error"
            /\ PutAll(t, <<e>>)
            /\ UNCHANGED <<nodes, dflc>>
      /\ lock' = [lock EXCEPT ![e] = NULL]
      /\ UNCHANGED <<dirlock, procVars>>

----------------------------------------------------------------------------
(* System calls *)

Idle(t) == pc[t] = "user" /\ cwd[t] # NULL

(* open(), creating or not, mkdir(), stat(), which opens and closes, and     *)
(* chdir(), which is process_setcwd(), start with a lookup.                  *)
SysPath(t, r) ==
  /\ Idle(t)
  /\ r.op \in {"open", "create"} => FreeFds(t) # {}
  /\ Lookup(t, r.op, t, r, r.op = "mkdir", r.op \in {"create", "mkdir"}, dflc)
  /\ UNCHANGED <<nodes, dirlock, lock, procVars>>

SysClose(t, d) ==
  /\ Idle(t) /\ fds[t][d] # NULL
  /\ fds' = [fds EXCEPT ![t][d] = NULL]
  /\ Goto(t, "put", [NoCall EXCEPT !.op = "close", !.puts = <<fds[t][d]>>])
  /\ UNCHANGED <<nodes, dirlock, dflc, lock, cwd>>

(* getdents() of the tmpfs: an entry that cannot be copied out leaves the    *)
(* lock of the directory taken.                                              *)
SysGetdents(t, d) ==
  LET e == fds[t][d]
  IN  /\ Idle(t) /\ e # NULL /\ e # dev /\ IsDir(e) /\ Path(e) \notin dirlock
      /\ \E q \in DOMAIN nodes: q # <<>> /\ Front(q) = Path(e)
      /\ dirlock' = dirlock \union {Path(e)}
      /\ UNCHANGED <<nodes, dflc, lock, procVars, pc, call>>

(* fork(): the descriptors are duplicated, and the child enters the          *)
(* directory whose name its parent knows.                                    *)
SysFork(t, q) ==
  /\ Idle(t) /\ cwd[q] = NULL /\ \A u \in Procs: call[u].who # q
  /\ fds' = [fds EXCEPT ![q] = fds[t]]
  /\ Lookup(t, "fork", q, [abs |-> TRUE, comps |-> cwd[t].pathname], FALSE, FALSE,
            DflcGet([d \in Fds \ FreeFds(t) |-> fds[t][d]]))
  /\ UNCHANGED <<nodes, dirlock, lock, cwd>>

(* process_destroy() *)
SysExit(t) ==
  /\ Idle(t) /\ t # init_proc
  /\ fds' = [fds EXCEPT ![t] = NoFds]
  /\ cwd' = [cwd EXCEPT ![t] = NULL]
  /\ Goto(t, "put", [NoCall EXCEPT !.op = "exit", !.who = t,
                                   !.puts = Append(Files(t), cwd[t].file)])
  /\ UNCHANGED <<nodes, dirlock, dflc, lock>>

(* lsof() holds the locks from the root down to where it is, and goes        *)
(* through the children of each directory.                                   *)
Deepest(t) == CHOOSE e \in Entries: lock[e] = t /\ \A f \in Children(e): lock[f] # t

SysLsof(t) ==
  /\ Idle(t) /\ lock[root] = NULL
  /\ lock' = [lock EXCEPT ![root] = t]
  /\ Goto(t, "lsof", [NoCall EXCEPT !.op = "lsof"])
  /\ UNCHANGED <<nodes, dirlock, dflc, procVars>>

LsofDown(t) ==
  /\ pc[t] = "lsof"
  /\ \E f \in Children(Deepest(t)) \ call[t].seen:
        /\ lock[f] = NULL
        /\ lock' = [lock EXCEPT ![f] = t]
        /\ Goto(t, "lsof", [call[t] EXCEPT !.seen = @ \union {f}])
  /\ UNCHANGED <<nodes, dirlock, dflc, procVars>>

LsofUp(t) ==
  LET e == Deepest(t)
  IN  /\ pc[t] = "lsof" /\ Children(e) \subseteq call[t].seen
      /\ lock' = [lock EXCEPT ![e] = NULL]
      /\ IF e = root THEN Goto(t, "user", NoCall)
                      ELSE Goto(t, "lsof", [call[t] EXCEPT !.seen = @ \ Children(e)])
      /\ UNCHANGED <<nodes, dirlock, dflc, procVars>>

(* Mutant: the last component is cut off. *)
RealpathShort(e) == SubSeq(Path(e), 1, Len(Path(e)) - 1)

(* file_realpath() keeps what fits. *)
Realpath(e) == SubSeq(Path(e), 1, IF Len(Path(e)) < MaxPath THEN Len(Path(e)) ELSE MaxPath)

Arrived(t, op) == pc[t] = "walk" /\ call[t].rest = <<>> /\ call[t].op = op

OpenDone(t) ==
  LET e == call[t].cur
  IN  /\ Arrived(t, "open") \/ Arrived(t, "create")
      /\ \/ /\ \E d \in FreeFds(t):
                 /\ \A f \in FreeFds(t): d <= f
                 /\ fds' = [fds EXCEPT ![t][d] = e]
            /\ Goto(t, "user", NoCall)
         \/ /\ call[t].op = "open" /\ ~ IsDir(e)  \* a directory was asked for
            /\ PutAll(t, <<e>>)
            /\ UNCHANGED fds
      /\ UNCHANGED <<nodes, dirlock, dflc, lock, cwd>>

StatDone(t) ==
  /\ Arrived(t, "stat") \/ Arrived(t, "mkdir")
  /\ PutAll(t, <<call[t].cur>>)
  /\ UNCHANGED <<nodes, dirlock, dflc, lock, procVars>>

(* process_setcwd(), for chdir() and for the child of fork(); a fork that    *)
(* fails takes the child's descriptors with it.                              *)
SetcwdDone(t) ==
  LET c == call[t]
      e == c.cur
      old == cwd[c.who]
  IN  /\ Arrived(t, "chdir") \/ Arrived(t, "fork")
      /\ IF IsDir(e)
           THEN /\ cwd' = [cwd EXCEPT ![c.who] = [file |-> e, pathname |-> Realpath(e)]]
                /\ IF old = NULL THEN Goto(t, "user", NoCall) ELSE PutAll(t, <<old.file>>)
           ELSE PutAll(t, <<e>>) /\ UNCHANGED cwd
      /\ UNCHANGED <<nodes, dirlock, dflc, lock, fds>>

----------------------------------------------------------------------------
(* vfs_init() has mounted the root and /dev, each of which keeps a reference *)
(* for good, and init runs in "/".                                           *)
Init ==
  /\ nodes = [p \in {<<>>, DevPath} |-> "dir"]
  /\ dirlock = {}
  /\ dflc = [e \in Entries |->
       CASE e = root -> [path |-> <<>>, parent |-> NULL, refs |-> 3]
         [] e = dev -> [path |-> DevPath, parent |-> root, refs |-> 1]
         [] OTHER -> NULL]
  /\ lock = [e \in Entries |-> NULL]
  /\ fds = [p \in Procs |-> NoFds]
  /\ cwd = [p \in Procs |-> IF p = init_proc THEN [file |-> root, pathname |-> <<>>]
                                              ELSE NULL]
  /\ pc = [p \in Procs |-> "user"]
  /\ call = [p \in Procs |-> NoCall]

Kernel(t) ==
  \/ DflcPutLock(t) \/ DflcPut(t) \/ ForkAbort(t) \/ Return(t)
  \/ WalkStay(t) \/ WalkLock(t) \/ WalkUp(t) \/ LookupCached(t) \/ LookupFs(t)
  \/ LookupNoMem(t)
  \/ OpenDone(t) \/ StatDone(t) \/ SetcwdDone(t)
  \/ LsofDown(t) \/ LsofUp(t)

User(t) ==
  \/ \E r \in Requests: SysPath(t, r)
  \/ \E d \in Fds: SysClose(t, d) \/ SysGetdents(t, d)
  \/ \E q \in Procs: SysFork(t, q)
  \/ SysExit(t)
  \/ SysLsof(t)

Next == \E t \in Procs: Kernel(t) \/ User(t)

Spec == Init /\ [][Next]_vars

----------------------------------------------------------------------------
(* Types; an entry that is in the cache has a reference. *)
TypeOK ==
  /\ \A p \in DOMAIN nodes: nodes[p] \in {"dir", "file"} /\ Len(p) <= MaxDepth
  /\ dirlock \subseteq DOMAIN nodes
  /\ \A e \in Entries: dflc[e] # NULL => /\ dflc[e].path \in DOMAIN nodes
                                        /\ dflc[e].parent \in Entries \union {NULL}
                                        /\ dflc[e].refs \in Nat \ {0}
  /\ lock \in [Entries -> Procs \union {NULL}]
  /\ fds \in [Procs -> [Fds -> Entries \union {NULL}]]
  /\ pc \in [Procs -> {"user", "walk", "lookup", "up", "put", "put_locked", "lsof"}]

(* Who holds a reference on an entry and on all above it: the mounts, open   *)
(* descriptors, working directories, and calls on their way down or up.      *)
Holders ==
  {<<"mount", root, root>>, <<"mount", dev, dev>>}
  \union {<<"fd", x, fds[x[1]][x[2]]>>: x \in {y \in Procs \X Fds: fds[y[1]][y[2]] # NULL}}
  \union {<<"cwd", p, cwd[p].file>>: p \in {q \in Procs: cwd[q] # NULL}}
  \union {<<"cur", p, call[p].cur>>: p \in {q \in Procs: call[q].cur # NULL}}
  \union UNION {{<<"put", <<p, i>>, call[p].puts[i]>>: i \in DOMAIN call[p].puts}: p \in Procs}

(* The counts are exact at every step, whatever calls are in progress: no    *)
(* entry is freed while something refers to it (the BUG_ON() of dflc_put()), *)
(* and none stays in the cache when nothing does.                            *)
RefsExact ==
  /\ \A h \in Holders: dflc[h[3]] # NULL
  /\ \A e \in Entries: dflc[e] # NULL =>
       dflc[e].refs = Cardinality({h \in Holders: e \in Chain(h[3])})

(* The cache is a part of the tree of the file system, without a second      *)
(* entry for a file: two lookups of a name get the same entry.               *)
CacheIsTree ==
  \A e \in Entries: dflc[e] # NULL =>
    /\ e # root => Parent(e) # NULL /\ dflc[Parent(e)] # NULL /\ Path(Parent(e)) = Front(Path(e))
    /\ \A f \in Entries: dflc[f] # NULL /\ Path(f) = Path(e) => f = e
    /\ \A p \in DOMAIN nodes: p # <<>> => nodes[Front(p)] = "dir"

(* A lookup is always on the way to what its pathname meant when it started, *)
(* although entries around it come and go.                                   *)
WalkOnTrack ==
  \A t \in Procs: pc[t] \in {"walk", "lookup", "up"} =>
    Resolve(Path(call[t].cur), call[t].rest) = call[t].goal

(* The name that getcwd() and fork() use is that of the working directory,   *)
(* as long as it fits.                                                       *)
CwdNamed ==
  \A p \in Procs: cwd[p] # NULL =>
    /\ nodes[Path(cwd[p].file)] = "dir"
    /\ Len(Path(cwd[p].file)) <= MaxPath => cwd[p].pathname = Path(cwd[p].file)

(* The locks that t may be spinning on. *)
Wants(t) ==
  LET c == call[t] IN
  CASE pc[t] = "put" /\ c.puts # <<>> ->
         LET e == Head(c.puts) IN {IF Parent(e) = NULL THEN e ELSE Parent(e)}
    [] pc[t] = "put_locked" -> {Head(c.puts)}
    [] pc[t] = "walk" /\ c.rest # <<>> -> {c.cur, Parent(c.cur)} \ {NULL}
    [] pc[t] = "up" -> {c.cur}
    [] pc[t] = "lsof" -> Children(Deepest(t)) \ c.seen
    [] OTHER -> {}

(* Locks are taken from a directory to what is in it, and given back before  *)
(* the call returns: so no calls wait for each other.  (dflc_put(): "we need *)
(* to grab the parent's lock first to prevent deadlocks".)                   *)
LockOrder ==
  \A t \in Procs: \A e \in {f \in Entries: lock[f] = t}:
    /\ pc[t] # "user"
    /\ dflc[e] # NULL
    /\ \A w \in Wants(t): e \in Chain(w) \ {w}

=============================================================================
