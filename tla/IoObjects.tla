------------------------------ MODULE IoObjects -------------------------------
(***************************************************************************)
(* Memory literals, io.c: a block of memory that is read and written like a *)
(* file, and the loops over reads and writes that may be short.  A result   *)
(* r has the object after the call, and r.cnt what the call returns.        *)
(***************************************************************************)
EXTENDS Integers, Sequences

EIO == 5
EINVAL == 22

\* iolit_init
iolit_init(buf) == [buf |-> buf, size |-> Len(buf), pos |-> 0]

Least(a, b) == IF a < b THEN a ELSE b

\* How much of a request is served: what is left.
Served(lit, len) == Least(len, lit.size - lit.pos)

iolit_read(lit, len) ==
    LET k == Served(lit, len)
    IN [io |-> [lit EXCEPT !.pos = @ + k], cnt |-> k,
        data |-> SubSeq(lit.buf, lit.pos + 1, lit.pos + k)]

iolit_write(lit, s) ==
    LET k == Served(lit, Len(s))
    IN [io |-> [lit EXCEPT !.pos = @ + k,
                           !.buf = [i \in DOMAIN @ |-> IF i \in lit.pos + 1 .. lit.pos + k
                                                       THEN s[i - lit.pos] ELSE @[i]]],
        cnt |-> k]

\* iolit_ioctl with IOCTL_SETPOS, as ioseek calls it.
iolit_setpos(lit, pos) ==
    IF pos <= lit.size THEN [io |-> [lit EXCEPT !.pos = pos], cnt |-> 0]
    ELSE [io |-> lit, cnt |-> -EINVAL]

\* A literal serves all it can at once, so that the next round of the loop finds
\* the end of the file.
iowrite(lit, s) == iolit_write(lit, s)
ioread_full(lit, len) == iolit_read(lit, len)

ioputc(lit, c) ==
    LET r == iowrite(lit, <<c>>)
    IN IF r.cnt = 0 THEN [r EXCEPT !.cnt = -EIO] ELSE r

==============================================================================
