---------------------------- MODULE Directories ----------------------------
(***************************************************************************)
(* Directory streams: opendir, readdir, telldir, _seekdir and closedir     *)
(* (src/core/opendir-fbsd.c, readdir-fbsd.c, telldir-fbsd.c,               *)
(* closedir-fbsd.c), and scandir on top of them (scandir-fbsd.c), over a   *)
(* directory from which others remove entries.  The kernel gives a block   *)
(* of entries at a time and where the block starts; every record is one    *)
(* unit long.  What telldir returns stands for a place between two entries *)
(* of the directory.                                                       *)
(*                                                                         *)
(* And fts (src/core/fts.c): a walk over a file hierarchy, one fts_read    *)
(* per file, that changes the process's directory as it goes down and up,  *)
(* so that fts_accpath of the file just returned can be used as it is.     *)
(* Entries are nodes in linked lists that the walk allocates and frees;    *)
(* descriptors keep the way back.  A system call may fail once.  Paths are *)
(* sequences of names and fit the path buffer.                             *)
(***************************************************************************)
EXTENDS Question, FiniteSets, SequencesExt, FiniteSetsExt

CONSTANTS DirEntries,    \* the directory: for each entry its name, or "wht" for a white-out
          DirBlock,      \* dd_len, in entries
          SizeEstimates, \* st_size / 24, as scandir finds it
          DirIncrement,  \* scandir's inc
          MaxDirOps

VARIABLES dirp,          \* the DIR, and what it owns
          kept,          \* whether the file system keeps removed entries, with d_ino 0
          removed,       \* the entries that were removed
          place,         \* the next entry the caller is to get, if it is still there
          toldAt,        \* for each cookie, the place it stands for
          lastRead,      \* the last readdir: where it started and what it returned
          shifted,       \* the places that are remembered may no longer be right
          dirOps

dirVars == <<dirp, kept, removed, place, toldAt, lastRead, shifted, dirOps>>

Places == 1 .. Len(DirEntries)

EndOfDir == Len(DirEntries) + 1

Hidden(n) == DirEntries[n] = "wht"

\* No stream; fds and blocks are the descriptors and the memory that are not given back.
NoDir == [open |-> FALSE, buf |-> <<>>, loc |-> 0, seek |-> 1, fd |-> 1, locq |-> <<>>, loccnt |-> 0,
          rewind |-> -1, fds |-> 0, blocks |-> 0]

\* A block from the offset of the descriptor on: the entries, and the next offset.
getdirentries(fd, gone, keep) ==
  LET there == {n \in Places : n >= fd /\ (keep \/ n \notin gone)}
      block == SubSeq(SetToSortSeq(there, LAMBDA a, b : a < b), 1, Min({DirBlock, Cardinality(there)}))
  IN  [buf |-> [i \in DOMAIN block |-> [n |-> block[i], zero |-> block[i] \in gone]],
       fd |-> IF block = <<>> THEN EndOfDir ELSE Last(block) + 1]
-----------------------------------------------------------------------------
RECURSIVE ReaddirUnlocked(_, _, _, _)
\* The next entry, 0 for none.  With fails the kernel does not answer.
ReaddirUnlocked(d, gone, keep, fails) ==
  LET e == IF d.loc >= Len(d.buf) THEN [d EXCEPT !.loc = 0] ELSE d
      block == getdirentries(e.fd, gone, keep)
      GivenF(f) ==
        LET x == f.buf[f.loc + 1]
            g == [f EXCEPT !.loc = @ + 1]
        IN  IF f.buf = <<>> THEN [n |-> 0, d |-> f]
            ELSE IF x.zero \/ Hidden(x.n) THEN ReaddirUnlocked(g, gone, keep, fails)
            ELSE [n |-> x.n, d |-> g]
  IN  GivenF(IF e.loc # 0 THEN e
             ELSE IF fails THEN [e EXCEPT !.buf = <<>>]
             ELSE [e EXCEPT !.buf = block.buf, !.seek = e.fd, !.fd = block.fd])

\* The cookie of the place the stream is at; -1 when it is new and there is no memory for it.
Telldir(d, memory) ==
  LET same == {i \in DOMAIN d.locq : d.locq[i].seek = d.seek /\ d.locq[i].loc = d.loc}
      new == [index |-> d.loccnt, seek |-> d.seek, loc |-> d.loc]
  IN  IF same # {} THEN [ret |-> d.locq[Min(same)].index, d |-> d]
      ELSE IF ~memory THEN [ret |-> -1, d |-> d]
      ELSE [ret |-> d.loccnt, d |-> [d EXCEPT !.locq = <<new>> \o @, !.loccnt = @ + 1, !.blocks = @ + 1]]

\* Entries of the block are read up to the offset.
RECURSIVE SkipInBlock(_, _, _, _)
SkipInBlock(d, loc, gone, keep) ==
  IF d.loc >= loc THEN d
  ELSE LET r == ReaddirUnlocked(d, gone, keep, FALSE) IN IF r.n = 0 THEN r.d ELSE SkipInBlock(r.d, loc, gone, keep)

Reposition(d, x, gone, keep) ==
  SkipInBlock([d EXCEPT !.fd = x.seek, !.seek = x.seek, !.loc = 0], x.loc, gone, keep)

Seekdir(d, loc, gone, keep) ==
  LET hits == {i \in DOMAIN d.locq : d.locq[i].index = loc}
      x == d.locq[CHOOSE i \in hits : TRUE]
  IN  IF hits = {} \/ (x.loc = d.loc /\ x.seek = d.seek) THEN d ELSE Reposition(d, x, gone, keep)

\* luck says which of the steps succeed: the flag of the descriptor, the DIR, its buffer and
\* the cookie for rewinding.
Opendir(luck) ==
  LET new == [NoDir EXCEPT !.open = TRUE, !.fds = 1, !.blocks = 2]
      t == Telldir(new, luck.cookie)
  IN  IF luck.open /\ luck.cloexec /\ luck.dir /\ luck.buffer
        THEN [t.d EXCEPT !.rewind = t.ret] ELSE NoDir

\* The buffer and the cookies go, and then the DIR and the descriptor.
Closedir(d) == [NoDir EXCEPT !.blocks = d.blocks - 2 - Len(d.locq), !.fds = d.fds - 1]
-----------------------------------------------------------------------------
NotRead == [from |-> 1, got |-> 0, failed |-> TRUE]

NoStreams ==
  /\ dirp = NoDir /\ removed = {} /\ place = 1 /\ toldAt = <<>>
  /\ lastRead = NotRead /\ shifted = FALSE

DirInit == NoStreams /\ kept \in BOOLEAN /\ dirOps = 0

Counts == dirOps < MaxDirOps /\ dirOps' = dirOps + 1

DoOpendir ==
  /\ ~dirp.open /\ Counts
  /\ \E luck \in {[open |-> n # 1, cloexec |-> n # 2, dir |-> n # 3, buffer |-> n # 4, cookie |-> n # 5] : n \in 1 .. 6} :
       /\ dirp' = Opendir(luck)
       /\ toldAt' = IF dirp'.open /\ luck.cookie THEN (0 :> 1) ELSE <<>>
  /\ place' = 1 /\ shifted' = FALSE /\ lastRead' = NotRead
  /\ UNCHANGED <<kept, removed>>

DoReaddir ==
  /\ dirp.open /\ Counts
  /\ \E fails \in BOOLEAN :
       LET r == ReaddirUnlocked(dirp, removed, kept, fails)
       IN  /\ dirp' = r.d
           /\ lastRead' = [from |-> place, got |-> r.n, failed |-> fails]
           /\ place' = IF r.n = 0 THEN (IF fails THEN place ELSE EndOfDir) ELSE r.n + 1
  /\ UNCHANGED <<kept, removed, toldAt, shifted>>

\* After a failed read the stream says it is at the beginning of its last block.
Misplaced == dirp.buf = <<>> /\ dirp.seek # dirp.fd /\ lastRead.failed

DoTelldir ==
  /\ dirp.open /\ Counts
  /\ \E memory \in BOOLEAN :
       LET t == Telldir(dirp, memory)
       IN  dirp' = t.d /\ toldAt' = IF t.ret = -1 THEN toldAt ELSE (t.ret :> place) @@ toldAt
  /\ shifted' = (shifted \/ Misplaced)
  /\ UNCHANGED <<kept, removed, place, lastRead>>

\* Also what rewinddir does, with the cookie of the beginning.
DoSeekdir ==
  /\ dirp.open /\ Counts
  /\ \E c \in DOMAIN toldAt : dirp' = Seekdir(dirp, c, removed, kept) /\ place' = toldAt[c]
  /\ shifted' = (shifted \/ Misplaced)
  /\ UNCHANGED <<kept, removed, toldAt, lastRead>>

DoClosedir ==
  /\ dirp.open /\ Counts
  /\ dirp' = Closedir(dirp) /\ toldAt' = <<>> /\ place' = 1
  /\ UNCHANGED <<kept, removed, lastRead, shifted>>

\* An entry is removed by someone else.
DirRemove ==
  /\ Counts
  /\ \E n \in Places \ removed :
       /\ removed' = removed \cup {n}
       /\ shifted' = \/ shifted
                     \/ \E i \in DOMAIN dirp.buf : dirp.buf[i].n = n
                     \/ \E i \in DOMAIN dirp.locq : n \in dirp.locq[i].seek .. toldAt[dirp.locq[i].index] - 1
  /\ UNCHANGED <<dirp, kept, place, toldAt, lastRead>>

DirNext == DoOpendir \/ DoReaddir \/ DoTelldir \/ DoSeekdir \/ DoClosedir \/ DirRemove
-----------------------------------------------------------------------------
(* scandir: the entries that are selected, sorted.                         *)

\* One entry more, in an array that grows; dead is the allocation that fails, 0 for none.
ScanAdd(s, n, dead) ==
  LET copy == s.mallocs + 1
      full == Len(s.names) >= s.arraysz
      grow == copy + 1
  IN  IF s.failed THEN s
      ELSE IF copy = dead THEN [s EXCEPT !.failed = TRUE]
      ELSE IF full /\ grow = dead THEN [s EXCEPT !.failed = TRUE]
      ELSE [s EXCEPT !.names = Append(@, n), !.arraysz = IF full THEN @ + DirIncrement ELSE @,
                     !.mallocs = IF full THEN grow ELSE copy, !.held = @ + 1]

RECURSIVE ScanFromDir(_, _, _, _)
ScanFromDir(d, s, selected, dead) ==
  LET r == ReaddirUnlocked(d, {}, FALSE, FALSE)
  IN  IF r.n = 0 \/ s.failed THEN [s |-> s, d |-> Closedir(r.d)]
      ELSE ScanFromDir(r.d, IF DirEntries[r.n] \in selected THEN ScanAdd(s, r.n, dead) ELSE s, selected, dead)

\* Those that rank differently in the alphabet than in the directory.
NameRank(n) == CHOOSE k \in 1 .. 9 : <<"a", "b", "c", "d", "e", "f", "g", "h", "wht">>[k] = DirEntries[n]

\* names are in the order dcomp gives, here that of NameRank; over is a write beyond the array.
scandir(selected, estimate, dead) ==
  LET luck == [open |-> TRUE, cloexec |-> TRUE, dir |-> TRUE, buffer |-> TRUE, cookie |-> TRUE]
      names == IF dead = 1 THEN 0 ELSE 1
      GivenR(r) ==
        [ret |-> IF r.s.failed THEN -1 ELSE Len(r.s.names),
         names |-> IF r.s.failed THEN <<>> ELSE SortSeq(r.s.names, LAMBDA a, b : NameRank(a) < NameRank(b)),
         over |-> Len(r.s.names) > r.s.arraysz,
         left |-> r.d.blocks + r.d.fds + IF r.s.failed THEN r.s.held - Len(r.s.names) - names ELSE 0]
  IN  GivenR(ScanFromDir(Opendir(luck), [names |-> <<>>, arraysz |-> estimate, mallocs |-> 1, held |-> names,
                                         failed |-> dead = 1], selected, dead))

ScandirInit ==
  /\ \E selected \in SUBSET (ToSet(DirEntries) \ {"wht"}), estimate \in SizeEstimates, dead \in 0 .. 5 :
       question = <<"scandir", selected, estimate, dead>>
  /\ Unanswered

ScandirAnswer(q) == scandir(q[2], q[3], q[4])

ScandirCompute == question[1] = "scandir" /\ Ask(ScandirAnswer)
-----------------------------------------------------------------------------
\* What a readdir may pass over.
PassedOver(from, to) == \A n \in from .. to - 1 : Hidden(n) \/ n \in removed

\* A stream gives every entry that is there, once and in order, from where the caller is: from
\* the place a cookie of telldir stands for after a seek to it (telldir-fbsd.c:116), whatever
\* was read in between, in this block or another.  A failed read loses no place for the next.
\* This holds until someone removes an entry of a block before a place that is remembered in
\* it: the place is an offset in the block (137-148), so that a seek then goes one entry too
\* far; or until telldir or _seekdir follows a failed read, which leaves the offset of the last
\* block behind (readdir-fbsd.c:66-77).  Cookies of one place are one cookie, which keeps the list short, and a stream that is closed or could
\* not be opened leaves no descriptor and no memory.  scandir returns the selected entries in
\* order or, without memory, nothing and keeps nothing.
DirSound ==
  /\ ~shifted /\ ~lastRead.failed =>
       LET to == IF lastRead.got = 0 THEN EndOfDir ELSE lastRead.got
       IN  to >= lastRead.from /\ PassedOver(lastRead.from, to)
  /\ \A i, j \in DOMAIN dirp.locq :
       i # j => dirp.locq[i].index # dirp.locq[j].index
                /\ <<dirp.locq[i].seek, dirp.locq[i].loc>> # <<dirp.locq[j].seek, dirp.locq[j].loc>>
  /\ IF dirp.open THEN dirp.fds = 1 /\ dirp.blocks = 2 + Len(dirp.locq) ELSE dirp.fds = 0 /\ dirp.blocks = 0
  /\ question[1] = "scandir" /\ ~Unanswered =>
       LET selected == {n \in Places : DirEntries[n] \in question[2]}
           names == answer.names
       IN  /\ answer.left = 0 /\ ~answer.over
           /\ answer.ret # -1 => /\ answer.ret = Cardinality(selected) /\ ToSet(names) = selected
                                 /\ \A i \in 1 .. Len(names) - 1 : NameRank(names[i]) < NameRank(names[i + 1])
           /\ answer.ret = -1 => question[4] # 0
-----------------------------------------------------------------------------
(* fts *)

CONSTANTS Files,         \* every file: its kind, device, entries, target and parent
          Start,         \* the directory the process is in
          RootLists,     \* arguments of fts_open: sequences of paths
          OptionSets,    \* its options; "compar" stands for a comparison routine
          Rank,          \* the order the comparison routine gives to names
          MaxAsks        \* calls of fts_set and fts_children in a walk

VARIABLES fts,           \* the stream, its nodes, the process's directory and descriptors
          walk,          \* "no", "open", "end" when fts_read returned NULL, "closed"
          args,          \* the roots and the options
          visits,        \* the files fts_read returned, with their fts_info
          asks,          \* calls of fts_set and fts_children, and failures
          told,          \* fts_set was called
          failed         \* a system call failed

ftsVars == <<fts, walk, args, visits, asks, told, failed>>

NOFILE == 0
DANGLING == -1           \* fts_cur or fts_child when nodes it needs are freed: no call is defined then
-----------------------------------------------------------------------------
(* The file system.                                                        *)

IsDir(i) == i /= NOFILE /\ Files[i].kind = "dir"
Follow(i) == IF i /= NOFILE /\ Files[i].kind = "lnk" THEN Files[i].target ELSE i
Listing(d) == <<<<".", d>>, <<"..", Files[d].up>>>> \o Files[d].entries
Lookup(d, n) ==
  IF n = "/" THEN Start
  ELSE IF ~IsDir(d) \/ ~\E e \in Range(Listing(d)) : e[1] = n THEN NOFILE
  ELSE (CHOOSE e \in Range(Listing(d)) : e[1] = n)[2]
\* What a path names from directory d on, its last name not followed.
Named(d, path) == FoldLeft(LAMBDA i, n : Lookup(Follow(i), n), d, path)
-----------------------------------------------------------------------------
(* Nodes.                                                                  *)

IsSet(s, opt) == opt \in s.opts
Chdirs(s) == ~IsSet(s, "NOCHDIR")
IsDot(name) == name \in {<<".">>, <<"..">>}

\* fts_accpath points to the path of the stream or to the name of a node.
AccText(s, p) == IF s.nodes[p].acc = 0 THEN s.path ELSE s.nodes[s.nodes[p].acc].name
Reached(s, p) == Named(s.cwd, AccText(s, p))

NewNode(s) == CHOOSE n \in 1 .. Cardinality(DOMAIN s.nodes) + 1 :
                n \notin DOMAIN s.nodes /\ \A m \in 1 .. n - 1 : m \in DOMAIN s.nodes

\* `file' is what the node was made for.
fts_alloc(s, name, file) ==
  LET n == NewNode(s)
  IN  [s EXCEPT !.nodes = [i \in DOMAIN s.nodes \cup {n} |->
         IF i /= n THEN s.nodes[i]
         ELSE [name |-> name, file |-> file, link |-> 0, parent |-> 0, level |-> 0, pathlen |-> 0,
               acc |-> n, info |-> "none", instr |-> "none", flags |-> {}, errno |-> FALSE,
               symfd |-> 0, ino |-> NOFILE]]]

FreeNodes(s, ns) == [s EXCEPT !.nodes = [i \in DOMAIN s.nodes \ ns |-> s.nodes[i]]]

RECURSIVE ListFrom(_, _)
ListFrom(s, p) == IF p = 0 THEN <<>> ELSE <<p>> \o ListFrom(s, s.nodes[p].link)

fts_lfree(s, head) == FreeNodes(s, Range(ListFrom(s, head)))

\* The nodes of a sequence, linked in its order.
Linked(s, ns) ==
  [s EXCEPT !.nodes = [i \in DOMAIN s.nodes |->
     IF \E j \in DOMAIN ns : ns[j] = i
     THEN LET j == CHOOSE k \in DOMAIN ns : ns[k] = i
          IN  [s.nodes[i] EXCEPT !.link = IF j < Len(ns) THEN ns[j + 1] ELSE 0]
     ELSE s.nodes[i]]]

\* qsort orders the nodes by name.
fts_sort(s, ns) == SortSeq(ns, LAMBDA m, n : Rank[Last(s.nodes[m].name)] < Rank[Last(s.nodes[n].name)])

OpenDot(s) == CHOOSE fd \in 1 .. Cardinality(DOMAIN s.fds) + 1 :
                fd \notin DOMAIN s.fds /\ \A m \in 1 .. fd - 1 : m \in DOMAIN s.fds
WithFd(s, fd) == [s EXCEPT !.fds = [i \in DOMAIN s.fds \cup {fd} |-> IF i = fd THEN s.cwd ELSE s.fds[i]]]
CloseFd(s, fd) == [s EXCEPT !.fds = [i \in DOMAIN s.fds \ {fd} |-> s.fds[i]]]

RECURSIVE Ancestors(_, _)
Ancestors(s, p) ==
  IF p = 0 \/ s.nodes[p].level < 0 THEN {} ELSE {p} \cup Ancestors(s, s.nodes[p].parent)

Statted(s, p, here, there, wants, follow, none) ==
  LET file == IF wants /\ ~(follow = "dir" /\ ~IsDir(there)) THEN there ELSE here
      cycle == \E t \in Ancestors(s, s.nodes[p].parent) : s.nodes[t].ino = file
      info == IF none THEN "NS"
              ELSE IF wants /\ there = NOFILE THEN "SLNONE"
              ELSE IF IsDir(file)
                   THEN IF IsDot(s.nodes[p].name) THEN "DOT" ELSE IF cycle THEN "DC" ELSE "D"
              ELSE IF Files[file].kind = "lnk" THEN "SL" ELSE IF Files[file].kind = "reg" THEN "F" ELSE "DEFAULT"
  IN  [s EXCEPT !.nodes[p].info = info, !.nodes[p].errno = @ \/ none,
                !.nodes[p].ino = IF info \in {"D", "DC", "DOT"} THEN file ELSE @]

StatFrom(s, p, here, follow, fail) ==
  Statted(s, p, here, Follow(here), IsSet(s, "LOGICAL") \/ follow /= "no", follow, fail = "stat" \/ here = NOFILE)

\* Sets fts_info from stat or lstat of fts_accpath.  follow: "no", "yes", or "dir", which
\* drops back to lstat when it does not find a directory.
fts_stat(s, p, follow, fail) == StatFrom(s, p, Reached(s, p), follow, fail)

\* A link to a directory is followed: the way back is a descriptor.
LinkFollowed(s, p, fail) ==
  IF s.nodes[p].info /= "D" \/ ~Chdirs(s) THEN s
  ELSE IF fail = "open" THEN [s EXCEPT !.nodes[p].errno = TRUE, !.nodes[p].info = "ERR"]
  ELSE WithFd([s EXCEPT !.nodes[p].symfd = OpenDot(s), !.nodes[p].flags = @ \cup {"SYMFOLLOW"}], OpenDot(s))

FollowLink(s, p, fail) == LinkFollowed(fts_stat(s, p, "yes", fail), p, fail)
-----------------------------------------------------------------------------
(* fts_build: the entries of the current directory, as a list of nodes.    *)

\* Is stat called for a file of this kind?
Stats(dostat, kind) ==
  CASE dostat = "always" -> TRUE
    [] dostat = "dir" -> kind = "dir"
    [] dostat = "dirsym" -> kind \in {"dir", "lnk"}
    [] dostat = "none" -> FALSE

DoStat(s, type) ==
  IF type = "names" THEN "none"
  ELSE IF IsSet(s, "NOSTAT") THEN IF IsSet(s, "PHYSICAL") THEN "dir" ELSE "dirsym" ELSE "always"

EntryStat(s, e, n, dostat, cdfail, fail) ==
  IF cdfail THEN [s EXCEPT !.nodes[n].info = IF dostat /= "none" THEN "NS" ELSE "NSOK",
                           !.nodes[n].errno = dostat /= "none"]
  ELSE IF ~Stats(dostat, Files[e[2]].kind) THEN [s EXCEPT !.nodes[n].info = "NSOK"]
  ELSE [fts_stat([s EXCEPT !.path = IF Chdirs(s) THEN @ ELSE Append(@, e[1])], n, "no", fail) EXCEPT !.path = s.path]

\* One entry; `path' holds its name during its stat when directories are not changed.
AddEntry(s, e, dostat, cdfail, fail) ==
  LET n == NewNode(s)
      cur == s.nodes[s.cur]
  IN  EntryStat([fts_alloc(s, <<e[1]>>, e[2]) EXCEPT
                   !.nodes[n].pathlen = cur.pathlen + 1, !.nodes[n].parent = s.cur,
                   !.nodes[n].level = cur.level + 1,
                   !.nodes[n].acc = IF cdfail THEN cur.acc ELSE IF Chdirs(s) THEN n ELSE 0],
                e, n, dostat, cdfail, fail)

\* Back from the current directory after its list is made: through the saved descriptor at
\* a root, else "..", also when the directory was reached through a link.
Back(s) == IF s.nodes[s.cur].level = 0 THEN [s EXCEPT !.cwd = s.fds[s.rfd]] ELSE [s EXCEPT !.cwd = Files[s.cwd].up]

Strays(s) == s.nodes[s.cur].level > 0 /\ "SYMFOLLOW" \in s.nodes[s.cur].flags

\* s: the stream before its entries, s1: in their directory, s2: back from it.
BuiltFrom(s, s1, s2, all, dir, back, type, fail) ==
  LET cur == s.cur
      linked == "SYMFOLLOW" \in s.nodes[cur].flags
      empty == all.ns = <<>>
      ordered == IF IsSet(s, "compar") THEN fts_sort(s2, all.ns) ELSE all.ns
  IN  IF fail = "opendir" \/ ~IsDir(dir)
      THEN [IF type = "read" THEN [s EXCEPT !.nodes[cur].info = "DNR", !.nodes[cur].errno = TRUE, !.lost = @ \/ linked] ELSE s
            EXCEPT !.built = 0]
      ELSE IF fail = "alloc" /\ ~empty
      THEN [s1 EXCEPT !.nodes[cur].info = "ERR", !.stop = TRUE, !.built = 0]
      ELSE IF back /\ fail = "back"
      THEN [Linked(all.s, all.ns) EXCEPT !.nodes[cur].info = "ERR", !.stop = TRUE, !.built = 0]
      ELSE IF empty
      THEN [IF type = "read" THEN [s2 EXCEPT !.nodes[cur].info = "DP", !.lost = @ \/ linked] ELSE s2 EXCEPT !.built = 0]
      ELSE [Linked(s2, ordered) EXCEPT !.built = ordered[1]]

BackFrom(s, s1, all, dir, back, type, fail) ==
  BuiltFrom(s, s1, IF back THEN [Back(all.s) EXCEPT !.strayed = @ \/ Strays(s)] ELSE all.s, all, dir, back, type, fail)

\* Every node is the next one allocated.
Entries(s, dir, dostat, cdfail, fail) ==
  FoldLeft(LAMBDA t, e : [s |-> AddEntry(t.s, e, dostat, cdfail, fail), ns |-> Append(t.ns, NewNode(t.s))],
           [s |-> s, ns |-> <<>>],
           SelectSeq(Listing(dir), LAMBDA e : IsSet(s, "SEEDOT") \/ ~IsDot(<<e[1]>>)))

\* The list made in s1; without entries the way back is taken at once.
BuildIn(s, s1, all, dir, descend, type, fail) ==
  BackFrom(s, s1, all, dir, descend /\ (type = "child" \/ all.ns = <<>>), type, fail)

BuildAt(s, s1, dir, dostat, cdfail, descend, type, fail) ==
  BuildIn(s, s1, Entries(s1, dir, dostat, cdfail, fail), dir, descend, type, fail)

\* The list is in `built'; 0 is an empty list or a failure.
fts_build(s, type, fail) ==
  LET cur == s.cur
      dir == Follow(Reached(s, cur))
      dostat == DoStat(s, type)
      try == dostat /= "none" \/ type = "read"
      cdfail == try /\ Chdirs(s) /\ fail = "descend"
      descend == try /\ ~cdfail /\ Chdirs(s)
  IN  BuildAt(s, IF cdfail
                 THEN [s EXCEPT !.nodes[cur].errno = @ \/ (dostat /= "none" /\ type = "read"),
                                !.nodes[cur].flags = @ \cup {"DONTCHDIR"}]
                 ELSE IF descend THEN [s EXCEPT !.cwd = dir] ELSE s,
              dir, dostat, cdfail, descend, type, fail)
-----------------------------------------------------------------------------
(* fts_open, fts_read, fts_set, fts_children and fts_close.                *)

NoWalk ==
  [nodes |-> [i \in {} |-> 0], cur |-> 0, child |-> 0, opts |-> {}, rfd |-> 0, path |-> <<>>, dev |-> 0,
   stop |-> FALSE, cwd |-> Start, fds |-> [i \in {} |-> 0], built |-> 0, strayed |-> FALSE, lost |-> FALSE]

RootStatted(s, n, ns) == [s |-> [s EXCEPT !.nodes[n].info = IF @ = "DOT" THEN "D" ELSE @], ns |-> Append(ns, n)]

AddRoot(t, name, opts, fail) ==
  LET n == NewNode(t.s)
      how == IF "COMFOLLOWDIR" \in opts THEN "dir" ELSE IF "COMFOLLOW" \in opts THEN "yes" ELSE "no"
  IN  RootStatted(fts_stat([fts_alloc(t.s, name, Named(Start, name)) EXCEPT !.nodes[n].parent = 1], n, how, fail), n, t.ns)

\* A descriptor for the way back to where the process is.
SaveCwd(s, fail) ==
  IF ~Chdirs(s) THEN s
  ELSE IF fail = "open" THEN [s EXCEPT !.opts = @ \cup {"NOCHDIR"}]
  ELSE WithFd([s EXCEPT !.rfd = OpenDot(s)], OpenDot(s))

\* A node before the first root, so that the first read moves on to it.
Started(s, first, fail) ==
  LET dummy == NewNode(s)
  IN  SaveCwd([fts_alloc(s, <<>>, NOFILE) EXCEPT !.nodes[dummy].link = first, !.nodes[dummy].info = "INIT", !.cur = dummy], fail)

Ordered(s, ns, fail) == Started(Linked(s, ns), ns[1], fail)

WithRoots(all, opts, fail) == Ordered(all.s, IF "compar" \in opts THEN fts_sort(all.s, all.ns) ELSE all.ns, fail)

fts_open(argv, opts, fail) ==
  LET s0 == [NoWalk EXCEPT !.opts = IF "LOGICAL" \in opts THEN opts \cup {"NOCHDIR"} ELSE opts]
      s1 == [fts_alloc(s0, <<>>, NOFILE) EXCEPT !.nodes[1].level = -1]
  IN  WithRoots(FoldLeft(LAMBDA t, name : AddRoot(t, name, opts, fail), [s |-> s1, ns |-> <<>>], argv), opts, fail)

\* The path of the stream is that of a root; its name becomes the last one.
fts_load(s, p) ==
  LET n == s.nodes[p]
  IN  [s EXCEPT !.path = n.name, !.nodes[p].pathlen = Len(n.name), !.nodes[p].name = <<Last(n.name)>>,
                !.nodes[p].acc = 0, !.dev = IF n.ino = NOFILE THEN 0 ELSE Files[n.ino].dev]

\* The way back fails, after the node that fts_cur points to is freed.
Stopped(s) == [s |-> [s EXCEPT !.stop = TRUE, !.cur = DANGLING], ret |-> 0]

\* The name goes after the path of the parent.
Returned(s, p) ==
  [s |-> [s EXCEPT !.path = SubSeq(@, 1, s.nodes[s.nodes[p].parent].pathlen) \o s.nodes[p].name, !.cur = p], ret |-> p]

\* Mutant: a followed link is left through "..".
WayUpDots(s, n) == IF n.level = 0 THEN s.fds[s.rfd] ELSE Files[s.cwd].up

\* Where the process goes from below a node.
WayUp(s, n) ==
  IF n.level = 0 THEN s.fds[s.rfd] ELSE IF "SYMFOLLOW" \in n.flags THEN s.fds[n.symfd] ELSE Files[s.cwd].up

\* Up to the parent, in post-order.
MoveUp(s, p, fail) ==
  LET n == s.nodes[p]
      s1 == [s EXCEPT !.path = SubSeq(@, 1, n.pathlen)]
      goes == Chdirs(s) /\ (n.level = 0 \/ n.flags \cap {"SYMFOLLOW", "DONTCHDIR"} /= {"DONTCHDIR"})
      there == IF goes /\ fail /= "back" THEN [s1 EXCEPT !.cwd = WayUp(s, n)] ELSE s1
      linked == "SYMFOLLOW" \in n.flags
      closed == IF linked /\ n.level > 0 THEN CloseFd(there, n.symfd) ELSE [there EXCEPT !.lost = @ \/ linked]
  IN  IF n.level = -1 THEN [s |-> [FreeNodes(s, {p}) EXCEPT !.cur = 0], ret |-> 0]
      ELSE IF goes /\ fail = "back" THEN Stopped(closed)
      ELSE [s |-> [closed EXCEPT !.nodes[p].info = IF n.errno THEN "ERR" ELSE "DP", !.cur = p], ret |-> p]

\* To the next node of the list, or up.  A list of children that is left behind has lost its
\* parent: it was made of a link's directory, and FTS_AGAIN made that a link again.
RECURSIVE NextNode(_, _, _), NextOf(_, _, _, _)
NextNode(s, tmp, fail) ==
  NextOf([FreeNodes(s, {tmp}) EXCEPT !.child = IF @ = 0 THEN 0 ELSE DANGLING],
         s.nodes[tmp].link, s.nodes[tmp].parent, fail)

NextOf(s, p, up, fail) ==
  LET home == IF Chdirs(s) THEN [s EXCEPT !.cwd = s.fds[s.rfd]] ELSE s
  IN  IF p = 0 THEN MoveUp(s, up, fail)
      ELSE IF s.nodes[p].level = 0
      THEN IF fail = "back" /\ Chdirs(s) THEN Stopped(s) ELSE [s |-> [fts_load(home, p) EXCEPT !.cur = p], ret |-> p]
      ELSE IF s.nodes[p].instr = "SKIP" THEN NextNode(s, p, fail)
      ELSE Returned(IF s.nodes[p].instr = "FOLLOW" THEN [FollowLink(s, p, fail) EXCEPT !.nodes[p].instr = "none"] ELSE s, p)

EnterBuilt(s, p) ==
  IF s.built /= 0 THEN Returned(s, s.built) ELSE [s |-> s, ret |-> IF s.stop THEN 0 ELSE p]

\* The children are there already; the way down may fail.
EnterChildren(s, p, fail) ==
  LET cs == ListFrom(s, s.child)
      s2 == IF ~Chdirs(s) THEN s
            ELSE IF fail = "descend"
            THEN [s EXCEPT !.nodes = [i \in DOMAIN s.nodes |->
                    IF i = p THEN [s.nodes[i] EXCEPT !.errno = TRUE, !.flags = @ \cup {"DONTCHDIR"}]
                    ELSE IF i \in Range(cs) THEN [s.nodes[i] EXCEPT !.acc = s.nodes[p].acc]
                    ELSE s.nodes[i]]]
            ELSE [s EXCEPT !.cwd = Follow(Reached(s, p))]
  IN  Returned([s2 EXCEPT !.child = 0], s.child)

EnterFrom(s, p, fail) == IF s.child /= 0 THEN EnterChildren(s, p, fail) ELSE EnterBuilt(fts_build(s, "read", fail), p)

\* Down into the directory that was returned in pre-order.
Enter(s, p, fail) ==
  EnterFrom(IF s.child /= 0 /\ IsSet(s, "NAMEONLY")
            THEN [fts_lfree(s, s.child) EXCEPT !.child = 0, !.opts = @ \ {"NAMEONLY"}] ELSE s, p, fail)

fts_read(s0, fail) ==
  LET p == s0.cur
      instr == s0.nodes[p].instr
      s == [s0 EXCEPT !.nodes[p].instr = "none"]
      n == s.nodes[p]
      pruned == instr = "SKIP" \/ (IsSet(s, "XDEV") /\ Files[n.ino].dev /= s.dev)
      s1 == IF "SYMFOLLOW" \in n.flags THEN CloseFd(s, n.symfd) ELSE s
      s2 == IF s.child /= 0 THEN [fts_lfree(s1, s.child) EXCEPT !.child = 0] ELSE s1
  IN  IF p = 0 \/ s0.stop THEN [s |-> s0, ret |-> 0]
      ELSE IF instr = "AGAIN"
      THEN [s |-> [fts_stat(s, p, "no", fail) EXCEPT !.lost = @ \/ "SYMFOLLOW" \in n.flags], ret |-> p]
      ELSE IF instr = "FOLLOW" /\ n.info \in {"SL", "SLNONE"} THEN [s |-> FollowLink(s, p, fail), ret |-> p]
      ELSE IF n.info = "D"
      THEN IF pruned THEN [s |-> [s2 EXCEPT !.nodes[p].info = "DP"], ret |-> p] ELSE Enter(s, p, fail)
      ELSE NextNode(s, p, fail)

fts_set(s, p, instr) == [s EXCEPT !.nodes[p].instr = instr]

\* At a relative root, the directory is left and found again through a descriptor.
ChildrenBuilt(s, cwd, relative) == [s EXCEPT !.child = s.built, !.cwd = IF relative THEN cwd ELSE @]

fts_children(s, names, fail) ==
  LET p == s.cur
      s1 == IF s.child /= 0 THEN fts_lfree(s, s.child) ELSE s
      s2 == IF names THEN [s1 EXCEPT !.opts = @ \cup {"NAMEONLY"}] ELSE s1
      relative == s.nodes[p].level = 0 /\ AccText(s, p)[1] /= "/" /\ Chdirs(s)
  IN  IF s.stop \/ p = 0 \/ s.nodes[p].info /= "D" THEN s
      ELSE IF relative /\ fail = "open" THEN [s2 EXCEPT !.child = IF @ = 0 THEN 0 ELSE DANGLING]
      ELSE ChildrenBuilt(fts_build(s2, IF names THEN "names" ELSE "child", fail), s.cwd, relative)

RECURSIVE FreeUp(_, _)
FreeUp(s, p) ==
  LET n == s.nodes[p]
  IN  IF n.level < 0 THEN FreeNodes(s, {p})
      ELSE FreeUp([FreeNodes(s, {p}) EXCEPT !.lost = @ \/ "SYMFOLLOW" \in n.flags], IF n.link /= 0 THEN n.link ELSE n.parent)

fts_close(s) ==
  LET s1 == IF s.cur /= 0 THEN FreeUp(s, s.cur) ELSE s
      s2 == IF s.child /= 0 THEN fts_lfree(s1, s.child) ELSE s1
  IN  IF Chdirs(s) THEN CloseFd([s2 EXCEPT !.cwd = s.fds[s.rfd]], s.rfd) ELSE s2
-----------------------------------------------------------------------------
Failures == {"none", "stat", "open", "opendir", "descend", "back", "alloc"}

AsksSpent(fail) == IF fail = "none" THEN asks ELSE asks + 1

Fails(fail) ==
  /\ fail /= "none" => ~failed /\ asks < MaxAsks
  /\ failed' = (failed \/ fail /= "none")

Defined == fts.child /= DANGLING /\ fts.cur /= DANGLING
Usable == walk = "open" /\ Defined

WalkOpen ==
  /\ walk = "no"
  /\ \E argv \in RootLists, opts \in OptionSets, fail \in {"none", "stat", "open"} :
       /\ Fails(fail) /\ asks' = AsksSpent(fail)
       /\ fts' = fts_open(argv, opts, fail)
       /\ args' = [argv |-> argv, opts |-> opts]
  /\ walk' = "open"
  /\ UNCHANGED <<visits, told>>

WalkRead ==
  /\ Usable
  /\ \E fail \in Failures :
       /\ Fails(fail) /\ asks' = AsksSpent(fail)
       /\ \E r \in {fts_read(fts, fail)} :
            /\ fts' = r.s
            /\ walk' = IF r.ret = 0 THEN "end" ELSE "open"
            /\ visits' = IF r.ret = 0 THEN visits
                         ELSE Append(visits, <<r.s.nodes[r.ret].file, r.s.nodes[r.ret].info>>)
  /\ UNCHANGED <<args, told>>

\* The nodes the program has: the current one, and the list of its children, or of the roots.
Known ==
  IF fts.nodes[fts.cur].info = "INIT" THEN Range(ListFrom(fts, fts.nodes[fts.cur].link))
  ELSE {fts.cur} \cup Range(ListFrom(fts, fts.child))

Instruct ==
  /\ Usable /\ asks < MaxAsks
  /\ \E p \in Known, instr \in {"AGAIN", "FOLLOW", "SKIP"} : fts' = fts_set(fts, p, instr)
  /\ asks' = asks + 1 /\ told' = TRUE
  /\ UNCHANGED <<walk, args, visits, failed>>

Children ==
  /\ Usable /\ asks < MaxAsks
  /\ \E names \in BOOLEAN, fail \in Failures :
       /\ fail /= "none" => ~failed
       /\ failed' = (failed \/ fail /= "none")
       /\ fts' = fts_children(fts, names, fail)
  /\ asks' = asks + 1
  /\ UNCHANGED <<walk, args, visits, told>>

WalkClose ==
  /\ walk \in {"open", "end"} /\ Defined
  /\ fts' = fts_close(fts)
  /\ walk' = "closed"
  /\ UNCHANGED <<args, visits, asks, told, failed>>

FtsInit ==
  /\ fts = NoWalk /\ walk = "no" /\ args = [argv |-> <<>>, opts |-> {}]
  /\ visits = <<>> /\ asks = 0 /\ told = FALSE /\ failed = FALSE

FtsNext == WalkOpen \/ WalkRead \/ Instruct \/ Children \/ WalkClose
-----------------------------------------------------------------------------
(* What a walk should be.                                                  *)

\* The visits of a file and of what is below it; `above' are the directories it is in.
RECURSIVE RefVisit(_, _, _, _, _)
RefVisit(file, name, above, dev, opts) ==
  LET root == above = {}
      linked == Follow(file)
      there == \/ "LOGICAL" \in opts
               \/ root /\ ("COMFOLLOW" \in opts \/ ("COMFOLLOWDIR" \in opts /\ IsDir(linked)))
      real == IF there THEN linked ELSE file
      known == root \/ "NOSTAT" \notin opts \/ Files[file].kind = "dir" \/ (there /\ Files[file].kind = "lnk")
      below == IF "XDEV" \in opts /\ Files[real].dev /= dev /\ ~root THEN <<>>
               ELSE LET es == SelectSeq(Listing(real), LAMBDA e : "SEEDOT" \in opts \/ e[1] \notin {".", ".."})
                        sorted == IF "compar" \in opts THEN SortSeq(es, LAMBDA d, e : Rank[d[1]] < Rank[e[1]]) ELSE es
                    IN  FlattenSeq([i \in DOMAIN sorted |->
                          RefVisit(sorted[i][2], sorted[i][1], above \cup {real},
                                   IF root THEN Files[real].dev ELSE dev, opts)])
  IN  CASE file = NOFILE -> <<<<file, "NS">>>>
        [] file /= NOFILE /\ ~known -> <<<<file, "NSOK">>>>
        [] file /= NOFILE /\ known /\ real = NOFILE -> <<<<file, "SLNONE">>>>
        [] OTHER -> IF ~IsDir(real) THEN <<<<file, IF Files[real].kind = "lnk" THEN "SL" ELSE "F">>>>
                    ELSE IF ~root /\ name \in {".", ".."} THEN <<<<file, "DOT">>>>
                    ELSE IF real \in above THEN <<<<file, "DC">>>>
                    ELSE <<<<file, "D">>>> \o below \o <<<<file, "DP">>>>

RefWalk ==
  LET ordered == IF "compar" \in args.opts
                 THEN SortSeq(args.argv, LAMBDA a, b : Rank[Last(a)] < Rank[Last(b)]) ELSE args.argv
  IN  FlattenSeq([i \in DOMAIN ordered |-> RefVisit(Named(Start, ordered[i]), Last(ordered[i]), {}, 0, args.opts)])

\* Every directory that is entered is left, in the order of the hierarchy.
Nested ==
  LET Step(stack, v) ==
        IF stack /= <<>> /\ Last(stack) = v[1] THEN IF v[2] = "D" THEN stack ELSE Front(stack)
        ELSE IF v[2] = "D" THEN Append(stack, v[1])
        ELSE IF v[2] \in {"DP", "DNR", "ERR"} THEN Append(stack, NOFILE) ELSE stack
  IN  FoldLeft(Step, <<>>, visits) = <<>>

Current == fts.nodes[fts.cur]

(***************************************************************************)
(* fts.  The file fts_read just returned is found through fts_accpath from *)
(* the directory the process is in, and through fts_path from where the    *)
(* walk began, whatever was listed, skipped or followed before it.         *)
(* Without instructions the files come in the order of the hierarchy; with *)
(* them the directories still nest.  When the walk is closed, even after a *)
(* failure and from anywhere in it, the process is back and no node and no *)
(* descriptor is left, but for the code's own losses: a list that cannot   *)
(* be left again is not freed, and a followed link's descriptor is lost at *)
(* a root, when its directory is empty, unreadable or visited again, and   *)
(* when the walk is closed below it.  A link's directory that is listed by fts_children or  *)
(* is empty is left through "..", and then the process is elsewhere.       *)
(***************************************************************************)
FtsSound ==
  /\ (walk = "open" /\ ~failed /\ ~fts.strayed /\ visits /= <<>>) =>
       /\ Current.file /= NOFILE => Named(fts.cwd, AccText(fts, fts.cur)) = Current.file
       /\ Named(Start, fts.path) = Current.file
  /\ (walk = "end" /\ ~failed /\ ~told) => visits = RefWalk
  /\ (walk = "end" /\ ~failed /\ ~fts.strayed) => (Nested \/ "SEEDOT" \in args.opts) /\ fts.cwd = Start
  /\ walk = "closed" =>
       /\ fts.cwd = Start
       /\ DOMAIN fts.nodes = {} \/ (failed /\ fts.stop)
       /\ DOMAIN fts.fds = {} \/ fts.lost
=============================================================================
