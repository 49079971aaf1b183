------------------------------- MODULE Spawn -------------------------------
(***************************************************************************)
(* posix_spawn (src/core/posix_spawn.c): the attributes object `attr' and  *)
(* the file actions object `acts' a program fills, and the description of  *)
(* them that posix_spawn hands to the kernel; the search of posix_spawnp.  *)
(*                                                                         *)
(* Both objects keep a list of actions in a block of memory that doubles   *)
(* when it is full.  `blocks' is that memory: what realloc gives may be    *)
(* the block itself or another one, and then the old one is free.          *)
(***************************************************************************)
EXTENDS Question, SequencesExt, FiniteSets

CONSTANTS OPEN_MAX, PATH_MAX,
          SearchPaths,     \* values of $PATH: sequences of directories, "" for an empty one
          PathLength,      \* the length of a directory's name, and of a file's
          Verdicts,        \* what the kernel says of a program, "ok" or an error
          ArgVectors,      \* argument lists, at least one argument each
          MaxSpawnCalls    \* bound: the calls of a behaviour

VARIABLES attr, acts, blocks, reply, spawnCalls,
          askedFor,        \* the values and actions of the calls that returned 0
          stray            \* memory that was freed has been written

spawnVars == <<attr, acts, blocks, reply, spawnCalls, askedFor, stray>>

SpawnFields == {"psa_flags", "psa_sigdefault", "psa_sigmask", "psa_pgroup", "psa_pcontrol"}

NBINPREFS == 4
PSF_ACTIONS_INIT_COUNT == 2

DefaultFields == [f \in SpawnFields |-> 0]

\* A block for n actions; alloc and count are the fields of the program's structure.
Block(n) == [live |-> TRUE, room |-> n, alloc |-> n, count |-> 0, slots |-> <<>>]

\* realloc of block b: it stays where it is or moves.
Realloc(b, n, luck) ==
  IF luck = "moves"
    THEN Append([blocks EXCEPT ![b].live = FALSE], [blocks[b] EXCEPT !.room = n])
    ELSE [blocks EXCEPT ![b].room = n]

ReallocAt(b, luck) == IF luck = "moves" THEN Len(blocks) + 1 ELSE b

Lucks == {"stays", "moves", "no memory"}

IsFullLate(block) == block.alloc + 1 = block.count

IsFull(block) == block.alloc = block.count

Filled(block, action) ==
  [block EXCEPT !.slots = Append(SubSeq(@, 1, block.count), action), !.count = @ + 1]

Says(r) == reply' = r

Fails(e) == Says(<<"error", e>>) /\ UNCHANGED <<attr, acts, blocks, askedFor, stray>>

NoObject(object) == object = NONE /\ Fails("EINVAL")
-----------------------------------------------------------------------------
posix_spawnattr_init ==
  /\ attr = NONE
  /\ \/ Fails("ENOMEM")
     \/ /\ attr' = [fields |-> DefaultFields, binprefs |-> [i \in 1 .. NBINPREFS |-> 0], ports |-> 0]
        /\ askedFor' = [askedFor EXCEPT !.fields = DefaultFields, !.ports = <<>>,
                                        !.binprefs = [i \in 1 .. NBINPREFS |-> 0]]
        /\ Says(<<"ok">>)
        /\ UNCHANGED <<acts, blocks, stray>>

\* The blocks once the port actions are freed.
posix_spawn_destroyportactions_np(ports) ==
  IF ports = 0 THEN blocks ELSE [blocks EXCEPT ![ports].live = FALSE]

posix_spawnattr_destroy ==
  \/ NoObject(attr)
  \/ /\ attr # NONE
     /\ blocks' = posix_spawn_destroyportactions_np(attr.ports)
     /\ attr' = NONE
     /\ Says(<<"ok">>)
     /\ UNCHANGED <<acts, askedFor, stray>>

SetField(f, value) ==
  \/ NoObject(attr)
  \/ /\ attr # NONE
     /\ attr' = [attr EXCEPT !.fields[f] = value]
     /\ askedFor' = [askedFor EXCEPT !.fields[f] = value]
     /\ Says(<<"ok">>)
     /\ UNCHANGED <<acts, blocks, stray>>

posix_spawnattr_setflags(v) == SetField("psa_flags", v)

posix_spawnattr_setsigdefault(v) == SetField("psa_sigdefault", v)

posix_spawnattr_setpgroup(v) == SetField("psa_pgroup", v)

posix_spawnattr_setsigmask(v) == SetField("psa_sigmask", v)

posix_spawnattr_setpcontrol_np(v) == SetField("psa_pcontrol", v)

GetField(f) ==
  \/ NoObject(attr)
  \/ /\ attr # NONE
     /\ Says(<<"field", f, attr.fields[f]>>)
     /\ UNCHANGED <<attr, acts, blocks, askedFor, stray>>

posix_spawnattr_getflags == GetField("psa_flags")

posix_spawnattr_getsigdefault == GetField("psa_sigdefault")

posix_spawnattr_getpgroup == GetField("psa_pgroup")

posix_spawnattr_getsigmask == GetField("psa_sigmask")

posix_spawnattr_getpcontrol_np == GetField("psa_pcontrol")

\* The first of the preferences change, at most all.
posix_spawnattr_setbinpref_np(prefs) ==
  \/ NoObject(attr)
  \/ /\ attr # NONE
     /\ attr' = [attr EXCEPT !.binprefs =
                   [i \in 1 .. NBINPREFS |-> IF i <= Len(prefs) THEN prefs[i] ELSE attr.binprefs[i]]]
     /\ askedFor' = [askedFor EXCEPT !.binprefs = SubSeq(prefs \o SubSeq(@, Len(prefs) + 1, Len(@)), 1, NBINPREFS)]
     /\ Says(<<"ok">>)
     /\ UNCHANGED <<acts, blocks, stray>>

posix_spawnattr_getbinpref_np(count) ==
  \/ NoObject(attr)
  \/ /\ attr # NONE
     /\ Says(<<"binprefs", [i \in {k \in 1 .. NBINPREFS : k <= count} |-> attr.binprefs[i]]>>)
     /\ UNCHANGED <<attr, acts, blocks, askedFor, stray>>
-----------------------------------------------------------------------------
\* The first block of port actions, and the action in it.
posix_spawn_createportactions_np(luck, action) ==
  /\ attr.ports = 0
  /\ IF luck = "no memory" THEN Fails("ENOMEM")
     ELSE /\ attr' = [attr EXCEPT !.ports = Len(blocks) + 1]
          /\ blocks' = Append(blocks, Filled(Block(2), action))
          /\ askedFor' = [askedFor EXCEPT !.ports = Append(@, action)]
          /\ Says(<<"ok">>)
          /\ UNCHANGED <<acts, stray>>

\* A block twice as large.  Only the new block learns its size; the attributes object and the
\* caller keep the pointer they have.
posix_spawn_growportactions_np(luck) ==
  LET b == attr.ports
      n == 2 * blocks[b].alloc
  IN  [Realloc(b, n, luck) EXCEPT ![ReallocAt(b, luck)].alloc = n]

\* One more port action, written through the pointer from before the block grew.
AddPortAction(action, luck) ==
  \/ NoObject(attr)
  \/ /\ attr # NONE
     /\ posix_spawn_createportactions_np(luck, action)
  \/ /\ attr # NONE
     /\ attr.ports # 0
     /\ IF IsFull(blocks[attr.ports]) /\ luck = "no memory" THEN Fails("ENOMEM")
        ELSE LET room == IF IsFull(blocks[attr.ports]) THEN posix_spawn_growportactions_np(luck) ELSE blocks
             IN  /\ blocks' = [room EXCEPT ![attr.ports] = Filled(@, action)]
                 /\ stray' = ~room[attr.ports].live
                 /\ askedFor' = [askedFor EXCEPT !.ports = Append(@, action)]
                 /\ Says(<<"ok">>)
                 /\ UNCHANGED <<attr, acts>>

posix_spawnattr_setspecialport_np(luck) == AddPortAction("PSPA_SPECIAL", luck)

posix_spawnattr_setexceptionports_np(luck) == AddPortAction("PSPA_EXCEPTION", luck)

posix_spawnattr_setauditsessionport_np(luck) == AddPortAction("PSPA_AU_SESSION", luck)
-----------------------------------------------------------------------------
posix_spawn_file_actions_init ==
  /\ acts = 0
  /\ \/ Fails("ENOMEM")
     \/ /\ acts' = Len(blocks) + 1
        /\ blocks' = Append(blocks, Block(PSF_ACTIONS_INIT_COUNT))
        /\ askedFor' = [askedFor EXCEPT !.files = <<>>]
        /\ Says(<<"ok">>)
        /\ UNCHANGED <<attr, stray>>

posix_spawn_file_actions_destroy ==
  \/ acts = 0 /\ Fails("EINVAL")
  \/ /\ acts # 0
     /\ blocks' = [blocks EXCEPT ![acts].live = FALSE]
     /\ acts' = 0
     /\ Says(<<"ok">>)
     /\ UNCHANGED <<attr, askedFor, stray>>

\* A block twice as large; the object is the new one.
posix_spawn_file_actions_grow(luck) ==
  LET n == 2 * blocks[acts].alloc
  IN  [Realloc(acts, n, luck) EXCEPT ![ReallocAt(acts, luck)].alloc = n]

\* One more file action, on descriptors fds.
AddFileAction(type, fds, luck) ==
  \/ acts = 0 /\ Fails("EINVAL")
  \/ /\ acts # 0
     /\ \E d \in fds : d < 0 \/ d >= OPEN_MAX
     /\ Fails("EBADF")
  \/ /\ acts # 0
     /\ \A d \in fds : d \in 0 .. OPEN_MAX - 1
     /\ IF IsFull(blocks[acts]) /\ luck = "no memory" THEN Fails("ENOMEM")
        ELSE /\ acts' = IF IsFull(blocks[acts]) THEN ReallocAt(acts, luck) ELSE acts
             /\ blocks' = [(IF IsFull(blocks[acts]) THEN posix_spawn_file_actions_grow(luck) ELSE blocks)
                             EXCEPT ![acts'] = Filled(@, <<type, fds>>)]
             /\ askedFor' = [askedFor EXCEPT !.files = Append(@, <<type, fds>>)]
             /\ Says(<<"ok">>)
             /\ UNCHANGED <<attr, stray>>

posix_spawn_file_actions_addopen(fd, luck) == AddFileAction("PSFA_OPEN", {fd}, luck)

posix_spawn_file_actions_addclose(fd, luck) == AddFileAction("PSFA_CLOSE", {fd}, luck)

posix_spawn_file_actions_adddup2(fd, newfd, luck) == AddFileAction("PSFA_DUP2", {fd, newfd}, luck)
-----------------------------------------------------------------------------
\* What of a block the kernel copies: the actions it counts.
Copyin(b) == SubSeq(blocks[b].slots, 1, blocks[b].count)

NoDescriptor == [fields |-> NONE, binprefs |-> NONE, ports |-> NONE, files |-> NONE]

\* The descriptor, when the program passes its attributes, its file actions, or both.
Descriptor(withAttr, withActs) ==
  [NoDescriptor EXCEPT
     !.fields = IF withAttr /\ attr # NONE THEN attr.fields ELSE NONE,
     !.binprefs = IF withAttr /\ attr # NONE THEN attr.binprefs ELSE NONE,
     !.ports = IF withAttr /\ attr # NONE THEN (IF attr.ports = 0 THEN NONE ELSE Copyin(attr.ports)) ELSE NONE,
     !.files = IF withActs /\ acts # 0 THEN (IF blocks[acts].count > 0 THEN Copyin(acts) ELSE NONE) ELSE NONE]

posix_spawn(withAttr, withActs) ==
  /\ Says(<<"spawn", withAttr, withActs, Descriptor(withAttr, withActs)>>)
  /\ UNCHANGED <<attr, acts, blocks, askedFor, stray>>
-----------------------------------------------------------------------------
\* The search of posix_spawnp.  v says what the kernel and stat say of the programs tried, in
\* order; a try is the program and its arguments.
ToShell(path, argv) == <<<<"", "sh">>, <<"sh", path>> \o Tail(argv)>>

Search(tries, err, eacces, over) == [tries |-> tries, err |-> err, eacces |-> eacces, over |-> over]

\* One directory of the path, or a name with a slash in it.
TryPath(s, dir, file, argv, v) ==
  LET p == IF dir = "" THEN "." ELSE dir
      e == v[Len(s.tries) + 1]
      more == Append(s.tries, <<<<p, file>>, argv>>)
  IN  IF s.over THEN s
      ELSE IF dir # "/" /\ PathLength[p] + PathLength[file] + 2 > PATH_MAX
             THEN Search(s.tries, "ENAMETOOLONG", s.eacces, TRUE)
      ELSE CASE e.says \in {"ok", "E2BIG", "ENOMEM", "ETXTBSY"} -> Search(more, e.says, s.eacces, TRUE)
             [] e.says \in {"ELOOP", "ENAMETOOLONG", "ENOENT", "ENOTDIR"} ->
                  Search(more, e.says, s.eacces, FALSE)
             [] e.says = "ENOEXEC" ->
                  Search(Append(more, ToShell(<<p, file>>, argv)), v[Len(s.tries) + 2].says, s.eacces, TRUE)
             [] OTHER -> IF ~e.stat THEN Search(more, e.says, s.eacces, FALSE)
                         ELSE IF e.says = "EACCES" THEN Search(more, e.says, TRUE, FALSE)
                         ELSE Search(more, e.says, s.eacces, TRUE)

posix_spawnp(path, slash, file, argv, v) ==
  IF ~slash /\ file = "" THEN Search(<<>>, "ENOENT", FALSE, TRUE)
  ELSE LET dirs == IF slash THEN <<"/">> ELSE path
           s == FoldLeft(LAMBDA acc, dir : TryPath(acc, dir, file, argv, v),
                         Search(<<>>, "ok", FALSE, FALSE), dirs)
       IN  IF s.over THEN s ELSE [s EXCEPT !.err = IF s.eacces THEN "EACCES" ELSE "ENOENT"]

\* What posix_spawnp is to do: the candidates in the order of the path are tried until one is
\* not to be passed over.
SpawnpRight(q, r) ==
  LET path == q[2]
      v == q[6]
      tried == Len(SelectSeq(r.tries, LAMBDA t : t[1] # <<"", "sh">>))
      passed(i) == \/ v[i].says \in {"ELOOP", "ENAMETOOLONG", "ENOENT", "ENOTDIR", "EACCES"}
                   \/ v[i].says # "ok" /\ ~v[i].stat
      denied == \E i \in 1 .. tried : v[i].says = "EACCES" /\ v[i].stat
      last == v[Len(r.tries)]
  IN  /\ \A i \in 1 .. tried : r.tries[i][1][2] = q[4] /\ r.tries[i][2] = q[5]
      /\ ~q[3] => \A i \in 1 .. tried : r.tries[i][1][1] = (IF path[i] = "" THEN "." ELSE path[i])
      /\ \A i \in 1 .. tried - 1 : passed(i)
      /\ r.err = "ok" => last.says = "ok" /\ Len(r.tries) \in {tried, tried + 1}
      /\ Len(r.tries) = tried + 1 =>
           /\ v[tried].says = "ENOEXEC"
           /\ r.tries[tried + 1] = <<<<"", "sh">>, <<"sh", r.tries[tried][1]>> \o Tail(q[5])>>
           /\ r.err = last.says
      /\ r.err \notin {"ok", "ENAMETOOLONG"} /\ tried > 0 /\ passed(tried) =>
           r.err = (IF denied THEN "EACCES" ELSE "ENOENT")

SpawnpInit ==
  /\ \E path \in SearchPaths, slash \in BOOLEAN, file \in {"", "prog"}, argv \in ArgVectors,
        v \in [1 .. 3 -> Verdicts] :
       /\ slash => file # ""
       /\ question = <<"spawnp", path, slash, file, argv, v>>
  /\ Unanswered

SpawnpCompute == question[1] = "spawnp" /\ Ask(LAMBDA q : posix_spawnp(q[2], q[3], q[4], q[5], q[6]))
-----------------------------------------------------------------------------
NoSpawn ==
  /\ attr = NONE /\ acts = 0 /\ blocks = <<>> /\ stray = FALSE /\ reply = <<"ok">>
  /\ askedFor = [fields |-> DefaultFields, binprefs |-> [i \in 1 .. NBINPREFS |-> 0],
                 ports |-> <<>>, files |-> <<>>]

SpawnInit == NoSpawn /\ spawnCalls = 0

AttrCall ==
  \/ posix_spawnattr_init
  \/ posix_spawnattr_destroy
  \/ posix_spawnattr_setflags(1)
  \/ posix_spawnattr_setsigdefault(1)
  \/ posix_spawnattr_setpgroup(1)
  \/ posix_spawnattr_setsigmask(1)
  \/ posix_spawnattr_setpcontrol_np(1)
  \/ posix_spawnattr_getflags
  \/ posix_spawnattr_getsigdefault
  \/ posix_spawnattr_getpgroup
  \/ posix_spawnattr_getsigmask
  \/ posix_spawnattr_getpcontrol_np
  \/ \E prefs \in {<<1>>, <<2, 3, 4, 5, 6>>} : posix_spawnattr_setbinpref_np(prefs)
  \/ \E n \in {2, 5} : posix_spawnattr_getbinpref_np(n)

PortCall ==
  \E luck \in Lucks :
    \/ posix_spawnattr_setspecialport_np(luck)
    \/ posix_spawnattr_setexceptionports_np(luck)
    \/ posix_spawnattr_setauditsessionport_np(luck)

FileCall ==
  \/ posix_spawn_file_actions_init
  \/ posix_spawn_file_actions_destroy
  \/ \E luck \in Lucks, fd \in {-1, 0, OPEN_MAX} :
       \/ posix_spawn_file_actions_addopen(fd, luck)
       \/ posix_spawn_file_actions_addclose(fd, luck)
       \/ posix_spawn_file_actions_adddup2(0, fd, luck)

\* Once memory that was freed is written, nothing is known of the program.
SpawnNext ==
  /\ ~stray
  /\ spawnCalls < MaxSpawnCalls
  /\ spawnCalls' = spawnCalls + 1
  /\ \/ AttrCall
     \/ PortCall
     \/ FileCall
     \/ \E withAttr, withActs \in BOOLEAN : posix_spawn(withAttr, withActs)

\* What the calls so far asked for, as the kernel is to see it.
Wanted(withAttr, withActs) ==
  [fields |-> IF withAttr /\ attr # NONE THEN askedFor.fields ELSE NONE,
   binprefs |-> IF withAttr /\ attr # NONE THEN askedFor.binprefs ELSE NONE,
   ports |-> IF withAttr /\ attr # NONE /\ askedFor.ports # <<>> THEN askedFor.ports ELSE NONE,
   files |-> IF withActs /\ acts # 0 /\ askedFor.files # <<>> THEN askedFor.files ELSE NONE]

\* posix_spawn hands the kernel exactly what the successful calls on the two objects asked for,
\* in their order, whichever calls failed between them and wherever realloc put the lists; the
\* getters tell the same; no list outgrows its block and no block is lost.  All this until a
\* block of port actions moves: posix_spawn.c:617 does not tell the object, and the action is
\* written to the block that was freed.  posix_spawnp (posix_spawn.c:1142) tries the directories
\* in order, passes over only what it may, and gives a script to the shell once.
SpawnSound ==
  /\ ~stray =>
       /\ reply[1] = "spawn" => reply[4] = Wanted(reply[2], reply[3])
       /\ reply[1] = "field" => reply[3] = askedFor.fields[reply[2]]
       /\ reply[1] = "binprefs" => \A i \in DOMAIN reply[2] : reply[2][i] = askedFor.binprefs[i]
       /\ \A b \in DOMAIN blocks : blocks[b].count <= blocks[b].room
       /\ {b \in DOMAIN blocks : blocks[b].live} =
            ({acts} \cup (IF attr = NONE THEN {} ELSE {attr.ports})) \ {0}
  /\ question[1] = "spawnp" /\ ~Unanswered => SpawnpRight(question, answer)
=============================================================================
