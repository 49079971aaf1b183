------------------------------- MODULE Stream -------------------------------
(***************************************************************************)
(* A stdio stream over a file (BStandardIO): the buffer and its counts,    *)
(* pushed-back characters, the three kinds of buffering, seeks that stay   *)
(* in the buffer, and a kernel that reads and writes less than it was      *)
(* asked for, or fails.  `spec' is the stream the program thinks it has:   *)
(* a file, a position and the characters pushed back.                      *)
(***************************************************************************)
EXTENDS Integers, SequencesExt

CONSTANTS Blk,         \* st_blksize, a power of two
          Ubuf,        \* characters that can be pushed back without malloc
          FileData,    \* what the file may hold at first
          Texts,       \* what is written at once
          Plans,       \* what the kernel does during one call
          StreamKinds, \* <<mode, device>> of fopen
          MaxStreamOps

VARIABLES fp,      \* the FILE and the kernel's file
          spec,    \* the stream as the program sees it
          ops      \* calls so far

streamVars == <<fp, spec, ops>>

EOF == -1
NL == "n"

Has(s, f) == f \in s.flags
With(s, F) == [s EXCEPT !.flags = @ \cup F]
Without(s, F) == [s EXCEPT !.flags = @ \ F]
Ret(s, v) == [s EXCEPT !.ret = v]
Min2(a, b) == IF a < b THEN a ELSE b

\* data with s written at pos, zeros in between.
Overlay(data, pos, s) ==
  [i \in 1 .. (IF s = <<>> \/ Len(data) > pos + Len(s) THEN Len(data) ELSE pos + Len(s)) |->
     IF i \in pos + 1 .. pos + Len(s) THEN s[i - pos]
     ELSE IF i <= Len(data) THEN data[i] ELSE "0"]
-----------------------------------------------------------------------------
(* The kernel, and the functions of stdio.c that keep the known offset.    *)

\* The next transfer: how many of n bytes, or -1.
Transfer(s, n) == IF s.plan.fail = 1 THEN -1 ELSE IF s.plan.short THEN Min2(n, 1) ELSE n

Spent(s) == [s EXCEPT !.plan.fail = IF @ > 0 THEN @ - 1 ELSE 0]

\* The bytes are left in `got'.
__sread(s, n) ==
  LET k == Transfer(s, Min2(n, IF Len(s.data) > s.pos THEN Len(s.data) - s.pos ELSE 0))
  IN  IF k < 0 THEN Ret(Without(Spent(s), {"OFF"}), -1)
      ELSE [Spent(s) EXCEPT !.pos = @ + k, !.offset = @ + k, !.ret = k,
                            !.got = SubSeq(s.data, s.pos + 1, s.pos + k)]

__swrite(s, text) ==
  LET at == IF Has(s, "APP") \/ s.oappend THEN Len(s.data) ELSE s.pos
      k == Transfer(s, Len(text))
      t == Without(Spent(s), {"OFF"})
  IN  IF k < 0 THEN Ret([t EXCEPT !.pos = IF Has(s, "APP") THEN at ELSE @], -1)
      ELSE [t EXCEPT !.data = Overlay(@, at, SubSeq(text, 1, k)), !.pos = at + k, !.ret = k]

__sseek(s, offset, whence) ==
  LET to == offset + (CASE whence = "SET" -> 0 [] whence = "CUR" -> s.pos
                        [] whence = "END" -> Len(s.data))
  IN  IF s.device /= "reg" \/ to < 0 THEN Ret(Without(s, {"OFF"}), -1)
      ELSE [With(s, {"OFF"}) EXCEPT !.pos = to, !.offset = to, !.ret = to]
-----------------------------------------------------------------------------
HASUB(s) == s.hasub
FREEUB(s) == [s EXCEPT !.hasub = FALSE, !.ub = <<>>]

Blank(n) == [i \in 1 .. n |-> "0"]

__smakebuf(s) ==
  IF Has(s, "NBF") THEN [s EXCEPT !.base = TRUE, !.p = 0, !.size = 1, !.buf = Blank(1)]
  ELSE IF s.plan.nomem
  THEN [With(s, {"NBF"}) EXCEPT !.base = TRUE, !.p = 0, !.size = 1, !.buf = Blank(1)]
  ELSE [With(s, {"MBF"} \cup (IF s.device = "reg" THEN {"OPT"} ELSE {"NPT"})
                  \cup (IF s.device = "tty" THEN {"LBF"} ELSE {}))
          EXCEPT !.base = TRUE, !.p = 0, !.size = Blk, !.buf = Blank(Blk)]

\* Room for writing, after the stream was set up or flushed.
FullW(s) == IF Has(s, "LBF") \/ Has(s, "NBF") THEN 0 ELSE s.size

RECURSIVE WriteOut(_, _)
WriteOut(s, text) ==
  IF text = <<>> THEN Ret(s, 0)
  ELSE LET Written(t) == IF t.ret <= 0 THEN Ret(With(t, {"ERR"}), EOF)
                         ELSE WriteOut(t, SubSeq(text, t.ret + 1, Len(text)))
       IN  Written(__swrite(s, text))

__sflush(s) ==
  IF ~ Has(s, "WR") \/ ~ s.base THEN Ret(s, 0)
  ELSE WriteOut([s EXCEPT !.p = 0, !.w = FullW(s)], SubSeq(s.buf, 1, s.p))

fflush(s) == IF ~ Has(s, "WR") /\ ~ Has(s, "RW") THEN Ret(s, EOF) ELSE __sflush(s)

__swsetup(s) ==
  LET t == IF Has(s, "WR") THEN s
           ELSE With(IF Has(s, "RD") THEN [Without(FREEUB(s), {"RD", "EOF"}) EXCEPT !.r = 0, !.p = 0]
                     ELSE s, {"WR"})
      GivenU(u) ==
        IF ~ Has(s, "WR") /\ ~ Has(s, "RW") THEN Ret(s, EOF)
        ELSE Ret([u EXCEPT !.w = FullW(u), !.lbfsize = IF Has(u, "LBF") THEN -u.size ELSE @], 0)
  IN  GivenU(IF t.base THEN t ELSE __smakebuf(t))

\* cantwrite(fp): the stream made ready, `ret' tells.
Writable(s) == IF Has(s, "WR") /\ s.base THEN Ret(s, 0) ELSE __swsetup(s)

Put(s, c) == [s EXCEPT !.buf[s.p + 1] = c, !.p = @ + 1]

__swbuf(s0, c) ==
  LET s == Writable([s0 EXCEPT !.w = s0.lbfsize])
      t == IF s.p >= s.size THEN fflush(s) ELSE Ret(s, 0)
      u == Put([t EXCEPT !.w = @ - 1], c)
  IN  IF s.ret /= 0 THEN Ret(s, EOF)
      ELSE IF t.ret /= 0 THEN Ret(t, EOF)
      ELSE IF u.p = u.size \/ (Has(u, "LBF") /\ c = NL)
           THEN LET v == fflush(u) IN Ret(v, IF v.ret /= 0 THEN EOF ELSE 0)
           ELSE Ret(u, 0)

\* The function putc, around the macro __sputc.
putc(s0, c) ==
  LET s == Writable(s0)
      w == s.w - 1
  IN  IF s.ret /= 0 THEN Ret(s, EOF)
      ELSE IF w >= 0 \/ (w >= s.lbfsize /\ c /= NL) THEN Ret(Put([s EXCEPT !.w = w], c), 0)
      ELSE __swbuf([s EXCEPT !.w = w], c)

\* n characters of text go into the buffer.
Copy(s, text, n) ==
  [s EXCEPT !.buf = [i \in 1 .. s.size |-> IF i \in s.p + 1 .. s.p + n THEN text[i - s.p] ELSE s.buf[i]],
            !.p = @ + n]

WriteFailed(s) == Ret(With(s, {"ERR"}), EOF)

Drop(text, n) == SubSeq(text, n + 1, Len(text))

RECURSIVE WriteUnbuffered(_, _)
WriteUnbuffered(s, text) ==
  IF text = <<>> THEN Ret(s, 0)
  ELSE LET t == __swrite(s, text)
       IN  IF t.ret <= 0 THEN WriteFailed(t) ELSE WriteUnbuffered(t, Drop(text, t.ret))

RECURSIVE WriteBuffered(_, _)
WriteBuffered(s, text) ==
  IF text = <<>> THEN Ret(s, 0)
  ELSE IF s.p > 0 /\ Len(text) > s.w
  THEN LET t == fflush(Copy(s, text, s.w))
       IN  IF t.ret /= 0 THEN WriteFailed(t) ELSE WriteBuffered(t, Drop(text, s.w))
  ELSE IF Len(text) >= s.size
  THEN LET t == __swrite(s, SubSeq(text, 1, s.size))
       IN  IF t.ret <= 0 THEN WriteFailed(t) ELSE WriteBuffered(t, Drop(text, t.ret))
  ELSE Ret([Copy(s, text, Len(text)) EXCEPT !.w = @ - Len(text)], 0)

\* Up to and with the first newline, or all.
LineLength(text) ==
  IF Contains(text, NL) THEN CHOOSE i \in DOMAIN text : text[i] = NL /\ \A j \in 1 .. i - 1 : text[j] /= NL
  ELSE Len(text) + 1

\* nldist is 0 when the distance to the newline is not known.
RECURSIVE WriteLines(_, _, _)
WriteLines(s, text, nldist0) ==
  LET nldist == IF nldist0 = 0 THEN LineLength(text) ELSE nldist0
      n == Min2(Len(text), nldist)
      room == s.w + s.size
      full == s.p > 0 /\ n > room
      direct == ~ full /\ n >= s.size
      t == IF full THEN fflush(Copy(s, text, room))
           ELSE IF direct THEN __swrite(s, SubSeq(text, 1, s.size))
           ELSE Ret([Copy(s, text, n) EXCEPT !.w = @ - n], 0)
      w == IF full THEN room ELSE IF direct THEN t.ret ELSE n
      u == IF nldist - w = 0 THEN fflush(t) ELSE Ret(t, 0)
  IN  IF text = <<>> THEN Ret(s, 0)
      ELSE IF (full /\ t.ret /= 0) \/ (direct /\ t.ret <= 0) THEN WriteFailed(t)
      ELSE IF u.ret /= 0 THEN WriteFailed(u)
      ELSE WriteLines(u, Drop(text, w), nldist - w)

__sfvwrite(s0, text) ==
  LET s == Writable(s0)
  IN  IF text = <<>> THEN Ret(s0, 0)
      ELSE IF s.ret /= 0 THEN Ret(s, EOF)
      ELSE IF Has(s, "NBF") THEN WriteUnbuffered(s, text)
      ELSE IF ~ Has(s, "LBF") THEN WriteBuffered(s, text)
      ELSE WriteLines(s, text, 0)
-----------------------------------------------------------------------------
(* Reading.                                                                *)

\* Made a reading stream; `ret' tells.
Reading(s) ==
  IF Has(s, "RD") THEN Ret(s, 0)
  ELSE IF ~ Has(s, "RW") THEN Ret(With(s, {"ERR"}), EOF)
  ELSE IF ~ Has(s, "WR") THEN Ret(With(s, {"RD"}), 0)
  ELSE LET t == __sflush(s)
       IN  IF t.ret /= 0 THEN Ret(t, EOF)
           ELSE Ret([With(Without(t, {"WR"}), {"RD"}) EXCEPT !.w = 0, !.lbfsize = 0], 0)

\* The bytes that were read fill the buffer.
Fill(s0) ==
  LET s == IF s0.base THEN s0 ELSE __smakebuf(s0)
      GivenT(t) ==
        IF t.ret > 0
        THEN [t EXCEPT !.r = t.ret, !.ret = 0,
                       !.buf = [i \in 1 .. s.size |-> IF i <= t.ret THEN t.got[i] ELSE s.buf[i]]]
        ELSE Ret([With(t, IF t.ret = 0 THEN {"EOF"} ELSE {"ERR"}) EXCEPT !.r = 0], EOF)
  IN  GivenT(Without(__sread([s EXCEPT !.p = 0], s.size), {"MOD"}))

__srefill(s0) ==
  LET s == [s0 EXCEPT !.r = 0]
      t == Reading(s)
      u == IF HASUB(s) THEN [FREEUB(s) EXCEPT !.r = s.ur] ELSE s
  IN  IF Has(s, "EOF") THEN Ret(s, EOF)
      ELSE IF ~ Has(s, "RD") THEN IF t.ret /= 0 THEN t ELSE Fill(t)
      ELSE IF HASUB(s) /\ u.r /= 0 THEN Ret([u EXCEPT !.p = s.up], 0)
      ELSE Fill(u)

\* The next n unread characters are taken into `got'.
Take(s, n) ==
  IF HASUB(s) THEN [s EXCEPT !.got = SubSeq(s.ub, 1, n), !.ub = Drop(s.ub, n), !.r = @ - n]
  ELSE [s EXCEPT !.got = SubSeq(s.buf, s.p + 1, s.p + n), !.p = @ + n, !.r = @ - n]

Unread(s) == IF HASUB(s) THEN s.ub ELSE SubSeq(s.buf, s.p + 1, s.p + s.r)

getc(s) ==
  LET t == IF s.r > 0 THEN Ret(s, 0) ELSE __srefill(s)
  IN  IF t.ret /= 0 THEN [t EXCEPT !.got = <<>>, !.ret = EOF] ELSE Ret(Take(t, 1), 0)

RECURSIVE ReadBuffered(_, _, _)
ReadBuffered(s, n, sofar) ==
  IF n <= s.r THEN LET t == Take(s, n) IN [t EXCEPT !.got = sofar \o t.got]
  ELSE LET t == Take(s, s.r)
           u == __srefill(t)
       IN  IF u.ret /= 0 THEN [u EXCEPT !.got = sofar \o t.got]
           ELSE ReadBuffered(u, n - s.r, sofar \o t.got)

RECURSIVE ReadUnbuffered(_, _, _)
ReadUnbuffered(s, n, sofar) ==
  IF n = 0 THEN [s EXCEPT !.got = sofar]
  ELSE LET t == Without(__sread(s, n), {"MOD"})
       IN  IF t.ret <= 0
           THEN [With(t, IF t.ret = 0 THEN {"EOF"} ELSE {"ERR"}) EXCEPT !.got = sofar]
           ELSE ReadUnbuffered(t, n - t.ret, sofar \o t.got)

\* An unbuffered stream is read without the buffer, and forgets what was pushed
\* back on it (HASUB with _ur = 0).
fread(s, n) ==
  IF Has(s, "NBF") /\ s.ur = 0
  THEN LET t == [s EXCEPT !.r = 0]
           u == IF Has(t, "RD") THEN Ret(FREEUB(t), 0) ELSE Reading(t)
       IN  IF Has(t, "EOF") THEN [t EXCEPT !.got = <<>>]
           ELSE IF u.ret /= 0 THEN [u EXCEPT !.got = <<>>]
           ELSE ReadUnbuffered(u, n, <<>>)
  ELSE ReadBuffered(s, n, <<>>)

\* How much of the unread characters belongs to a line of at most n.
Chunk(s, n) ==
  LET some == SubSeq(Unread(s), 1, Min2(n, s.r)) IN Min2(Len(some), LineLength(some))

RECURSIVE ReadLine(_, _, _)
ReadLine(s, n, sofar) ==
  LET GivenT(t) ==
        LET u == Take(t, Chunk(t, n))
            line == sofar \o u.got
        IN  IF n = 0 THEN [s EXCEPT !.got = sofar, !.ret = 0]
            ELSE IF t.ret /= 0 THEN [t EXCEPT !.got = sofar, !.ret = IF sofar = <<>> THEN EOF ELSE 0]
            ELSE IF Contains(line, NL) THEN [u EXCEPT !.got = line, !.ret = 0]
            ELSE ReadLine(u, n - Len(u.got), line)
  IN  GivenT(IF s.r > 0 THEN Ret(s, 0) ELSE __srefill(s))

fgets(s, n) == ReadLine(s, n - 1, <<>>)

\* The line is in the buffer, which the program may change, or in one of its own.
fgetln(s) ==
  LET GivenT(t) ==
        IF t.ret /= 0 THEN [t EXCEPT !.got = <<>>, !.ret = EOF]
        ELSE IF Contains(Unread(t), NL) THEN Ret(With(Take(t, LineLength(Unread(t))), {"MOD"}), 0)
        ELSE LET u == ReadLine(t, t.r + Len(t.data) + 1, <<>>) IN Ret(u, 0)
  IN  GivenT(IF s.r > 0 THEN Ret(s, 0) ELSE __srefill(s))

ungetc(s0, c) ==
  LET s == IF Has(s0, "RD") THEN Ret(s0, 0)
           ELSE IF ~ Has(s0, "RW") THEN Ret(s0, EOF) ELSE Reading(s0)
      t == Without(s, {"EOF"})
  IN  IF s.ret /= 0 THEN s
      ELSE IF HASUB(s)
      THEN IF s.r >= Ubuf /\ s.plan.nomem THEN Ret(s, EOF)
           ELSE Ret([s EXCEPT !.ub = <<c>> \o @, !.r = @ + 1], 0)
      ELSE IF t.base /\ t.p > 0 /\ t.buf[t.p] = c
      THEN Ret([t EXCEPT !.p = @ - 1, !.r = @ + 1], 0)
      ELSE Ret([t EXCEPT !.ur = t.r, !.up = t.p, !.hasub = TRUE, !.ub = <<c>>, !.r = 1], 0)
-----------------------------------------------------------------------------
(* Positions.                                                              *)

\* The kernel's offset; `ret' is -1 if it cannot be told.
Offset(s) == IF Has(s, "OFF") THEN Ret(s, s.offset) ELSE __sseek(s, 0, "CUR")

\* Characters between the stream's position and the kernel's.
Ahead(s) == s.r + (IF HASUB(s) THEN s.ur ELSE 0)

ftello(s0) ==
  LET s == Offset(__sflush(s0))
  IN  IF s.ret = -1 THEN s
      ELSE IF Has(s, "RD") THEN Ret(s, s.ret - Ahead(s))
      ELSE IF Has(s, "WR") /\ s.base THEN Ret(s, s.ret + s.p) ELSE s

\* Seek without the buffer.
Dumb(s0, offset, whence) ==
  LET s == __sflush(s0)
      t == __sseek(s, offset, whence)
  IN  IF s.ret /= 0 THEN Ret(s, EOF)
      ELSE IF t.ret = -1 THEN Ret(t, EOF)
      ELSE Ret([Without(FREEUB(t), {"EOF"}) EXCEPT !.p = 0, !.r = 0], 0)

\* Mutant: a buffer the program wrote over still counts.
InBufferModified(s, target, start, n) == target >= start /\ target < start + n

\* The n characters from start on are the file's, and the target is among them.
InBuffer(s, target, start, n) == ~ Has(s, "MOD") /\ target >= start /\ target < start + n

\* A block boundary before the target is read from; curoff is where the stream is.
Optimised(s, target, offset, whence, curoff) ==
  LET start == curoff - (IF HASUB(s) THEN s.up - s.r ELSE s.p)
      n == IF HASUB(s) THEN s.up + s.ur ELSE s.p + s.r
      block == target - (target % Blk)
      t == __sseek(s, block, "SET")
      u == [Without(FREEUB(t), {"EOF"}) EXCEPT !.r = 0, !.p = 0]
      GivenV(v) ==
        LET skip == target - block
        IN  IF InBuffer(s, target, start, n)
            THEN Ret([Without(FREEUB(s), {"EOF"}) EXCEPT !.p = target - start, !.r = n - (target - start)], 0)
            ELSE IF t.ret = -1 THEN Dumb(t, offset, whence)
            ELSE IF skip = 0 THEN Ret(u, 0)
            ELSE IF v.ret /= 0 \/ v.r < skip THEN Dumb(v, offset, whence)
            ELSE Ret([v EXCEPT !.p = @ + skip, !.r = @ - skip], 0)
  IN  GivenV(__srefill(u))

SeekFrom(s0, offset, whence, curoff) ==
  LET s == IF s0.base THEN s0 ELSE __smakebuf(s0)
      t == With(s, {"OPT"})
      o == Offset(t)
  IN  IF s.flags \cap {"WR", "RW", "NBF", "NPT"} /= {} THEN Dumb(s, offset, whence)
      ELSE IF ~ Has(s, "OPT") /\ s.device /= "reg" THEN Dumb(With(s, {"NPT"}), offset, whence)
      ELSE LET target == IF whence = "SET" THEN offset ELSE Len(s.data) + offset
           IN  IF curoff /= <<>> THEN Optimised(t, target, offset, whence, curoff[1])
               ELSE IF o.ret = -1 THEN Dumb(o, offset, whence)
               ELSE Optimised(o, target, offset, whence, o.ret - Ahead(o))

fseeko(s, offset, whence) ==
  LET t == Offset(__sflush(s))
      cur == IF Has(t, "RD") THEN t.ret - Ahead(t)
             ELSE IF Has(t, "WR") /\ t.base THEN t.ret + t.p ELSE t.ret
  IN  IF whence /= "CUR" THEN SeekFrom(s, offset, whence, <<>>)
      ELSE IF t.ret = -1 THEN Ret(t, EOF)
      ELSE SeekFrom(t, offset + cur, "SET", <<cur>>)

\* A buffer of size characters, 0 for the file's block size.
setvbuf(s0, mode, size) ==
  LET s == Without([FREEUB(__sflush(s0)) EXCEPT !.r = 0, !.lbfsize = 0],
                   {"LBF", "NBF", "MBF", "OPT", "NPT", "EOF"})
      n == IF size = 0 THEN Blk ELSE size
      t == [With(s, {"MBF"} \cup (IF s.device = "reg" THEN {"OPT"} ELSE {"NPT"})
                      \cup (IF n /= Blk THEN {"NPT"} ELSE {})
                      \cup (IF mode = "LBF" THEN {"LBF"} ELSE {}))
              EXCEPT !.base = TRUE, !.p = 0, !.size = n, !.buf = Blank(n)]
  IN  IF mode = "NBF" \/ s0.plan.nomem
      THEN Ret([With(s, {"NBF"}) EXCEPT !.w = 0, !.base = TRUE, !.p = 0, !.size = 1, !.buf = Blank(1)],
               IF mode = "NBF" THEN 0 ELSE EOF)
      ELSE IF ~ Has(t, "WR") THEN Ret([t EXCEPT !.w = 0], 0)
      ELSE Ret([t EXCEPT !.w = FullW(t), !.lbfsize = IF Has(t, "LBF") THEN -n ELSE @], 0)

fpurge(s) == Ret([FREEUB(s) EXCEPT !.p = 0, !.r = 0, !.w = FullW(s)], 0)

fclose(s) ==
  LET t == IF Has(s, "WR") THEN __sflush(s) ELSE Ret(s, 0)
  IN  [FREEUB(t) EXCEPT !.flags = {}, !.r = 0, !.w = 0]

NoPlan == [fail |-> 0, short |-> FALSE, nomem |-> FALSE]

__sflags(mode) ==
  CASE mode = "r" -> {"RD"} [] mode \in {"w", "a"} -> {"WR"} [] mode \in {"r+", "w+", "a+"} -> {"RW"}

fopen(data, mode, device) ==
  LET s == [flags |-> __sflags(mode), p |-> 0, r |-> 0, w |-> 0, lbfsize |-> 0, base |-> FALSE,
            size |-> 0, buf |-> <<>>, offset |-> 0, hasub |-> FALSE, ub |-> <<>>, ur |-> 0,
            up |-> 0, data |-> IF mode \in {"w", "w+"} THEN <<>> ELSE data, pos |-> 0,
            device |-> device, oappend |-> mode \in {"a", "a+"},
            plan |-> NoPlan, got |-> <<>>, ret |-> 0]
  IN  IF s.oappend THEN __sseek(s, 0, "END") ELSE s
-----------------------------------------------------------------------------
(* The program calls, in an order the C standard allows: no output right   *)
(* after input unless the end of the file was met or it seeks in between.  *)

Init0(data, k) ==
  /\ fp = fopen(data, k[1], k[2])
  /\ spec = [data |-> fp.data, pos |-> fp.pos, back |-> <<>>, last |-> "none", fault |-> FALSE,
             right |-> TRUE]

StreamInit == (\E d \in FileData, k \in StreamKinds : Init0(d, k)) /\ ops = 0

\* One call, with what the kernel does in it; s is the stream after it and q what
\* the program makes of it.  After a failure nothing is known of the data.
Calls(F(_), G(_)) ==
  /\ fp.flags /= {} /\ ops < MaxStreamOps
  /\ \E plan \in Plans :
       LET s == F([fp EXCEPT !.plan = plan])
           q == G(s)
       IN  /\ fp' = [s EXCEPT !.plan = NoPlan, !.got = <<>>, !.ret = 0]
           /\ spec' = IF spec.fault \/ (plan.fail > 0 /\ s.plan.fail = 0)
                      THEN [q EXCEPT !.data = <<>>, !.pos = 0, !.back = <<>>, !.fault = TRUE]
                      ELSE q
  /\ ops' = ops + 1

\* What is left to be read.
Rest(q) == q.back \o SubSeq(q.data, q.pos + 1, Len(q.data))

FirstOf(text, n) == SubSeq(text, 1, Min2(n, Len(text)))

\* s.got was read, and should be what was expected.
Reads(s, expected) ==
  LET k == Len(s.got)
      b == Min2(k, Len(spec.back))
  IN  [spec EXCEPT !.back = Drop(@, b), !.pos = @ + (k - b), !.last = "in",
                   !.right = s.got = expected]

CanRead == Has(fp, "RD") \/ Has(fp, "RW")
CanWrite == Has(fp, "WR") \/ Has(fp, "RW")

DoGetc == CanRead /\ Calls(getc, LAMBDA s : Reads(s, FirstOf(Rest(spec), 1)))

\* Not on an unbuffered stream with a character pushed back: it would be lost.
DoFread ==
  /\ CanRead /\ ~ (Has(fp, "NBF") /\ fp.r > 0 /\ fp.ur = 0)
  /\ \E n \in {1, Blk + 1} : Calls(LAMBDA s : fread(s, n), LAMBDA s : Reads(s, FirstOf(Rest(spec), n)))

LineOf(text, n) == FirstOf(text, Min2(n, LineLength(text)))

DoFgets ==
  /\ CanRead
  /\ \E n \in {2, Blk + 2} : Calls(LAMBDA s : fgets(s, n), LAMBDA s : Reads(s, LineOf(Rest(spec), n - 1)))

DoFgetln ==
  CanRead /\ Calls(fgetln, LAMBDA s : Reads(s, LineOf(Rest(spec), Len(Rest(spec)))))

\* The program writes over the line it was given, in the stream's buffer.
Stomp ==
  /\ Has(fp, "MOD") /\ ~ HASUB(fp) /\ fp.p > 0 /\ Has(fp, "RD") /\ ops < MaxStreamOps
  /\ fp' = [fp EXCEPT !.buf[fp.p] = "0"] /\ ops' = ops + 1 /\ UNCHANGED spec

\* A character that was just read comes back, or another one in its place.
DoUngetc ==
  /\ CanRead /\ Len(spec.back) < spec.pos /\ Len(spec.back) < 2 /\ spec.last /= "out"
  /\ \E c \in {"a", NL} :
       Calls(LAMBDA s : ungetc(s, c),
             LAMBDA s : IF s.ret /= 0 THEN spec
                        ELSE [spec EXCEPT !.back = <<c>> \o @, !.last = "in"])

Writes(s, text) ==
  IF s.ret /= 0 THEN spec
  ELSE LET at == IF s.oappend THEN Len(spec.data) ELSE spec.pos
       IN  [spec EXCEPT !.data = Overlay(@, at, text), !.pos = at + Len(text),
                        !.back = <<>>, !.last = "out"]

MayWrite == CanWrite /\ (spec.last /= "in" \/ Has(fp, "EOF"))

DoPutc ==
  MayWrite /\ \E c \in {"a", NL} : Calls(LAMBDA s : putc(s, c), LAMBDA s : Writes(s, <<c>>))

DoFwrite ==
  MayWrite /\ \E t \in Texts : Calls(LAMBDA s : __sfvwrite(s, t), LAMBDA s : Writes(s, t))

DoFflush == CanWrite /\ spec.last = "out" /\ Calls(fflush, LAMBDA s : [spec EXCEPT !.last = "none"])

Where(whence) ==
  CASE whence = "SET" -> 0 [] whence = "CUR" -> spec.pos - Len(spec.back)
    [] whence = "END" -> Len(spec.data)

DoFseek ==
  \E offset \in {-1, 0, 1, Blk + 1}, whence \in {"SET", "CUR", "END"} :
     LET to == offset + Where(whence)
     IN  Calls(LAMBDA s : fseeko(s, offset, whence),
               LAMBDA s : IF s.ret /= 0
                          THEN [spec EXCEPT !.right = to < 0 \/ s.device /= "reg" \/ Has(s, "ERR")]
                          ELSE [spec EXCEPT !.pos = to, !.back = <<>>, !.last = "none"])

DoFtell ==
  Calls(ftello, LAMBDA s : [spec EXCEPT !.right = s.ret \in {-1, Where("CUR")}])

\* Before anything else is done with the stream.
DoSetvbuf ==
  /\ ops = 0
  /\ \E mode \in {"FBF", "LBF", "NBF"}, n \in {0, Blk + 1} :
       Calls(LAMBDA s : setvbuf(s, mode, n), LAMBDA s : spec)

\* What was not written is given up, and what was read ahead.
DoFpurge ==
  Calls(fpurge, LAMBDA s : [spec EXCEPT !.data = s.data, !.pos = s.pos, !.back = <<>>, !.last = "none"])

DoFclose == Calls(fclose, LAMBDA s : [spec EXCEPT !.right = spec.fault \/ s.data = spec.data \/ s.ret /= 0])

StreamNext ==
  \/ DoGetc \/ DoFread \/ DoFgets \/ DoFgetln \/ Stomp \/ DoUngetc \/ DoPutc \/ DoFwrite
  \/ DoFflush \/ DoFseek \/ DoFtell \/ DoSetvbuf \/ DoFpurge \/ DoFclose
-----------------------------------------------------------------------------
\* The counts never lead out of the buffer.
InBounds ==
  fp.base =>
    /\ fp.p \in 0 .. fp.size
    /\ ~ HASUB(fp) /\ Has(fp, "RD") => fp.r \in 0 .. fp.size - fp.p
    /\ HASUB(fp) => fp.r = Len(fp.ub) /\ fp.up + fp.ur <= fp.size
    /\ Has(fp, "WR") => fp.w + fp.p <= FullW(fp)

\* Everything the program still can read, from the buffers and the file.
Readable ==
  Unread(fp) \o (IF HASUB(fp) THEN SubSeq(fp.buf, fp.up + 1, fp.up + fp.ur) ELSE <<>>)
    \o SubSeq(fp.data, fp.pos + 1, Len(fp.data))

(***************************************************************************)
(* The buffer is never left by its counts; a known offset is the kernel's; *)
(* and as long as the kernel did not fail, the file with what waits in the *)
(* buffer, the position and what is read next are those of a plain file:   *)
(* whatever was buffered, pushed back, flushed or sought in between.       *)
(***************************************************************************)
StreamSound ==
  /\ InBounds
  /\ Has(fp, "OFF") => fp.offset = fp.pos
  /\ fp.flags /= {} /\ ~ spec.fault =>
       /\ spec.right
       /\ IF Has(fp, "WR") /\ fp.base
          THEN LET at == IF fp.oappend THEN Len(fp.data) ELSE fp.pos
               IN  /\ Overlay(fp.data, at, SubSeq(fp.buf, 1, fp.p)) = spec.data
                   /\ spec.last = "out" => at + fp.p = spec.pos
          ELSE fp.data = spec.data
       /\ Has(fp, "RD") => Readable = Rest(spec)
=============================================================================
