------------------------------- MODULE Initrd -------------------------------
(***************************************************************************)
(* The file system of the initial ramdisk (fs/initrd.c): a cpio archive in *)
(* memory, whose headers are parsed again for each operation.  A name is a *)
(* sequence of characters.                                                 *)
(***************************************************************************)
EXTENDS Integers, FiniteSets, SequencesExt

CONSTANTS
  Archives,    \* sequences of [name, dir, body], in the order of find(1), in which no
               \* directory's name begins with the one of a directory beside it
  Bases,       \* addresses at which the loader puts the archive
  Names,       \* names that are opened
  MaxDepth,    \* bound: directories that are open at once
  MaxCount,    \* bound: size of a read()
  PAGE_SIZE

HEADER == 110
Dot == <<".">>
TRAILER == [name |-> <<"T", "R", "A", "I", "L", "E", "R", "!", "!", "!">>,
            dir |-> FALSE, body |-> <<>>]

VARIABLES
  archive,
  base,       \* initrd.pstart
  start,      \* the addresses of the entries
  used,       \* frames that initrd_init() marked
  open,       \* the files from the root to the one that is in use
  blocks,     \* blocks of the heap
  handle,     \* [position, seen, end] of the file in use
  lookup      \* the last initrd_open(): [path, err]

vars == <<archive, base, start, used, open, blocks, handle, lookup>>

Align(a, n) == n * ((a + n - 1) \div n)

(* The archive as cpio(1) writes it: with its trailer, and the addresses *)
Complete(a) == Append(a, TRAILER)
Entries == Complete(archive)
NameLen(e) == Len(e.name) + 1
BodyAt(a, e) == Align(a + HEADER + NameLen(e), 4)
Layout(entries, from) ==
  LET at[i \in DOMAIN entries] ==
        IF i = 1 THEN from
        ELSE LET before == entries[i - 1]
             IN  Align(BodyAt(at[i - 1], before) + Len(before.body), 4)
  IN  at

(* What is in memory *)
HeaderAt(a) == {Entries[i]: i \in {j \in DOMAIN Entries: start[j] = a}}
ByteAt(a) ==
  LET offset(i) == a - BodyAt(start[i], Entries[i]) + 1
      has == {i \in DOMAIN Entries: offset(i) \in DOMAIN Entries[i].body}
  IN  IF has = {} THEN 0 ELSE LET i == CHOOSE j \in has: TRUE IN Entries[i].body[offset(i)]

----------------------------------------------------------------------------
CPIO_ALIGN(len) == 4 * ((len + 1) \div 4) + 2

parse_cpio_header(a) ==
  IF HeaderAt(a) = {} THEN [err |-> "EINVAL"]
  ELSE LET e == CHOOSE x \in HeaderAt(a): TRUE
           body == a + HEADER + CPIO_ALIGN(NameLen(e))
       IN  [err      |-> IF e = TRAILER THEN "ENOENT" ELSE "ok",
            name     |-> e.name,
            dir      |-> e.dir,
            body_len |-> Len(e.body),
            body     |-> body,
            next     |-> Align(body + Len(e.body), 4)]

(* The headers from the one at a, up to one that has an error *)
Headers(a) ==
  LET walk[i \in 1 .. Len(Entries)] ==
        IF i = 1 THEN <<parse_cpio_header(a)>>
        ELSE LET before == walk[i - 1]
             IN  IF Last(before).err # "ok" THEN before
                 ELSE Append(before, parse_cpio_header(Last(before).next))
  IN  walk[Len(Entries)]

(* Mutant: a leading slash stays. *)
RelativeNot(pathname) == IF pathname = <<>> THEN Dot ELSE pathname

(* The name in the archive: no leading slashes, and the root is "." *)
Relative(pathname) ==
  LET n == SelectInSeq(pathname, LAMBDA c: c # "/")
  IN  IF n = 0 THEN Dot ELSE SubSeq(pathname, n, Len(pathname))

(* cpio_find_file(): the first header of that name, or the error at the end *)
cpio_find_file(pathname) ==
  LET headers == Headers(base)
      at == SelectInSeq(headers, LAMBDA h: h.err = "ok" /\ h.name = Relative(pathname))
  IN  IF at = 0 THEN [err |-> Last(headers).err] ELSE headers[at]

(* cpio_size() *)
cpio_size == Align(Last(Headers(base)).body - base, 256)

Frames(from, to) == (from \div PAGE_SIZE) .. (to \div PAGE_SIZE) - 1

(* Mutant: where the archive is in its first page is not counted. *)
ReservedFrames == LET first == PAGE_SIZE * (base \div PAGE_SIZE)
                  IN  Frames(first, first + Align(cpio_size, PAGE_SIZE))

(* initrd_init() *)
Reserved == LET first == PAGE_SIZE * (base \div PAGE_SIZE)
            IN  Frames(first, Align(base + cpio_size, PAGE_SIZE))

get_subdir_level(name) ==
  IF name = Dot THEN 0 ELSE 1 + Cardinality({i \in DOMAIN name: name[i] = "/"})

----------------------------------------------------------------------------
Top == Last(open)
NewHandle == [position |-> 0, seen |-> <<>>, end |-> FALSE]

(* Mutant: the name stays when there is no such file. *)
FreeOutKeep(n) == n

(* The end of _initrd_open(), of which the name is block n *)
FreeOut(n) == n - 1

(* _initrd_open(), with a name that is on the heap *)
InitrdOpen(pathname) ==
  LET hdr == cpio_find_file(pathname)
  IN  \/ /\ hdr.err = "ok"
         /\ open' = Append(open, [pathname |-> pathname, hdr |-> hdr,
                                  level |-> get_subdir_level(hdr.name)])
         /\ blocks' = blocks + 2
         /\ lookup' = [path |-> pathname, err |-> "ok"]
      \/ /\ hdr.err # "ok"
         /\ blocks' = FreeOut(blocks + 1)
         /\ lookup' = [path |-> pathname, err |-> hdr.err]
         /\ UNCHANGED open
      \/ /\ blocks' = FreeOut(blocks + 1)
         /\ lookup' = [path |-> pathname, err |-> "ENOMEM"]
         /\ UNCHANGED open

(* initrd_init() while the kernel boots, and initrd_mount() *)
Mount ==
  /\ open = <<>>
  /\ InitrdOpen(<<>>)
  /\ used' = Reserved
  /\ handle' = NewHandle
  /\ UNCHANGED <<archive, base, start>>

(* initrd_open(), which the VFS calls for a directory only *)
Open(name) ==
  /\ open # <<>> /\ Len(open) < MaxDepth
  /\ Top.hdr.dir
  /\ InitrdOpen(Top.pathname \o <<"/">> \o name)
  /\ handle' = NewHandle
  /\ UNCHANGED <<archive, base, start, used>>

(* initrd_close() *)
Close ==
  /\ Len(open) > 1
  /\ open' = Front(open)
  /\ blocks' = blocks - 2
  /\ handle' = NewHandle
  /\ lookup' = [path |-> <<>>, err |-> "none"]
  /\ UNCHANGED <<archive, base, start, used>>

(* Mutant: a read() goes on behind the end of the file. *)
SizeOpen(count, left) == count

Size(count, left) == IF count < left THEN count ELSE left

(* initrd_read(), of which copy_to_user() copies the first bytes *)
Read(count) ==
  /\ open # <<>> /\ ~ Top.hdr.dir /\ ~ handle.end
  /\ LET sz == Size(count, Top.hdr.body_len - handle.position)
     IN  IF handle.position >= Top.hdr.body_len
         THEN handle' = [handle EXCEPT !.end = TRUE]
         ELSE \E copied \in 0 .. sz:
                handle' = [handle EXCEPT
                  !.position = @ + copied,
                  !.seen = @ \o [i \in 1 .. copied |-> ByteAt(Top.hdr.body + handle.position + i - 1)]]
  /\ UNCHANGED <<archive, base, start, used, open, blocks, lookup>>

(* Mutant: the entries of deeper directories are not counted. *)
PositionSkips(position, skipped) == position + 1

(* The position of an entry is the number of headers since the directory. *)
Position(position, skipped) == position + 1 + skipped

(* initrd_getdents() *)
Getdents ==
  LET hdr == Top.hdr
      (* the headers after the last one that was returned *)
      rest == LET all == Headers(hdr.next)
              IN  SubSeq(all, handle.position + 1, Len(all))
      at == SelectInSeq(rest, LAMBDA h: h.err # "ok" \/ get_subdir_level(h.name) = Top.level + 1)
      prefix == IF Top.level = 0 THEN <<>> ELSE hdr.name
      entry == LET n == SubSeq(rest[at].name, Len(prefix) + 1, Len(rest[at].name))
               IN  IF n[1] = "/" THEN Tail(n) ELSE n
  IN  /\ open # <<>> /\ hdr.dir /\ ~ handle.end
      /\ IF at = 0 \/ rest[at].err # "ok" \/ ~ IsPrefix(prefix, rest[at].name)
         THEN handle' = [handle EXCEPT !.end = TRUE]
         ELSE handle' = [handle EXCEPT !.position = Position(@, at - 1), !.seen = Append(@, entry)]
      /\ UNCHANGED <<archive, base, start, used, open, blocks, lookup>>

Init ==
  /\ archive \in Archives /\ base \in Bases
  /\ start = Layout(Complete(archive), base)
  /\ used = {}
  /\ open = <<>>
  /\ blocks = 0
  /\ handle = NewHandle
  /\ lookup = [path |-> <<>>, err |-> "none"]

Next ==
  \/ Mount \/ Close \/ Getdents
  \/ \E name \in Names: Open(name)
  \/ \E count \in 1 .. MaxCount: Read(count)

Spec == Init /\ [][Next]_vars

----------------------------------------------------------------------------
(* The name of an entry as the path from the root, which begins with "/" *)
Path(e) == IF e.name = Dot THEN <<>> ELSE <<"/">> \o e.name
EntryOf(path) == {e \in ToSet(archive): Path(e) = path}

(* Opening a file finds the entry of that path, for all lengths of names and *)
(* bodies before it, and fails for want of memory or of such an entry only.  *)
OpenedRight ==
  /\ \A i \in DOMAIN open:
       \E e \in EntryOf(open[i].pathname):
         /\ open[i].hdr.name = e.name /\ open[i].hdr.dir = e.dir
         /\ open[i].hdr.body_len = Len(e.body)
  /\ lookup.err \notin {"ok", "none", "ENOMEM"} =>
       lookup.err = "ENOENT" /\ EntryOf(lookup.path) = {}

(* A name that is one component below the one of a directory *)
IsChild(e, dir) ==
  /\ e.name # Dot
  /\ \E s \in Suffixes(e.name):
       s # <<>> /\ "/" \notin ToSet(s) /\ Path(e) = dir.pathname \o <<"/">> \o s
Component(e, dir) == SubSeq(Path(e), Len(dir.pathname) + 2, Len(Path(e)))

(* One getdents() after the other returns each entry of a directory, once    *)
(* and in the order of the archive, and none of other directories.           *)
ListingExact ==
  open # <<>> /\ Top.hdr.dir =>
    LET children == SelectSeq(archive, LAMBDA e: IsChild(e, Top))
        names == [i \in DOMAIN children |-> Component(children[i], Top)]
    IN  IF handle.end THEN handle.seen = names ELSE IsPrefix(handle.seen, names)

(* Whatever the sizes of the reads, they return the body of the file. *)
BodyRead ==
  open # <<>> /\ ~ Top.hdr.dir =>
    \E e \in EntryOf(Top.pathname):
      /\ IsPrefix(handle.seen, e.body)
      /\ handle.end => handle.seen = e.body

(* Every byte of the archive is in a frame that initrd_init() takes from the *)
(* page allocator, wherever in its first page the archive begins.            *)
ArchiveReserved ==
  open # <<>> =>
    LET trailer == start[Len(Entries)]
    IN  \A a \in base .. BodyAt(trailer, TRAILER) - 1: a \div PAGE_SIZE \in used

(* A file that is open has a name and a context on the heap, and there is    *)
(* nothing else.                                                             *)
ContextsExact == blocks = 2 * Len(open)
=============================================================================
