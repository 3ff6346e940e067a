--------------------------------- MODULE Term ----------------------------------
(***************************************************************************)
(* The terminal object of io.c: newlines of input and output, line editing. *)
(*                                                                         *)
(* What it writes goes to a memory literal, which ends; what it reads comes *)
(* from a line that brings any characters, in pieces of any length.  The    *)
(* echo of ioterm_getsn goes to the device past ioterm_write, and is kept   *)
(* apart here.  A terminal has one user.                                    *)
(***************************************************************************)
EXTENDS IoObjects, SequencesExt

CONSTANTS
    CR, LF, BS, BEL, SP,    \* "\r", "\n", "\b" (and delete), "\a" and blank
    Bracket,                \* '\133', which ioterm_getsn takes for escape
    Glyphs,                 \* the other characters
    SinkSize,               \* the length of the literal
    Texts,                  \* what is written, and by which call (the bound of the model)
    Lengths,                \* lengths asked of reads and lines (the bound of the model)
    Budget                  \* characters typed and written in all (the bound of the model)

Keys == Glyphs \cup {CR, LF, BS, Bracket}
Codes == <<CR, LF, BS, BEL, SP, Bracket>>

\* Every character has a code of its own, and texts are strings that have some.
TermConstants ==
    /\ \A i, j \in DOMAIN Codes : Codes[i] = Codes[j] => i = j
    /\ {CR, LF, BS, BEL, SP, Bracket} \cap Glyphs = {}
    /\ SinkSize \in Nat /\ Lengths \subseteq Nat \ {0} /\ Budget \in Nat
    /\ Texts \subseteq {"write", "puts", "printf"} \X (Seq(Keys) \ {<<>>})

ASSUME TermAssumption == TermConstants

VARIABLES
    cr_in, cr_out,
    sink,       \* rawio, for output
    at,         \* "idle", or the call
    queue,      \* the writes a call has still to make
    need,       \* the characters a read still wants
    line, room, \* the line ioterm_getsn has, and the room it counts
    echo,       \* what it echoed of the line
    typed, delivered, asked     \* history: raw input, normalized input, output asked for

ioVars == <<cr_in, cr_out, sink>>
termVars == <<ioVars, at, queue, need, line, room, echo, typed, delivered, asked>>

\* ioterm_init, over a fresh literal.
TermInit ==
    /\ cr_in = FALSE /\ cr_out = FALSE
    /\ sink = iolit_init([i \in 1 .. SinkSize |-> SP])
    /\ at = "idle"
    /\ queue = <<>> /\ need = 0
    /\ line = <<>> /\ room = 0 /\ echo = <<>>
    /\ typed = <<>> /\ delivered = <<>> /\ asked = <<>>

InBudget(k) == Len(typed) + Len(asked) + k <= Budget

------------------------------------------------------------------------------
(* Output *)

\* ioterm_write.  st.wp is the first character of s that was not written out,
\* st.cnt what to return if it is not acc; the easy pair "\r\n" is skipped.
Stops(st, cnt) == [st EXCEPT !.done = TRUE, !.cnt = cnt]

Flush(st, s, to) ==
    LET r == iowrite(st.io, SubSeq(s, st.wp, to))
    IN IF r.cnt = 0 THEN Stops(st, st.acc)
       ELSE [st EXCEPT !.io = r.io, !.acc = @ + r.cnt, !.wp = @ + r.cnt]
PutChar(st, c) ==
    LET r == ioputc(st.io, c)
    IN IF r.cnt < 0 THEN Stops(st, r.cnt) ELSE [st EXCEPT !.io = r.io]

Then(st, next) == IF st.done THEN st ELSE next

\* Whether the "\r" at i is followed by "\n"; and looking past the end of s.
PairPastEnd(s, i) == i = Len(s) \/ s[i + 1] = LF
Pair(s, i) == i < Len(s) /\ s[i + 1] = LF

\* A "\n" after a "\r" that ended an earlier write is skipped.  It is not counted.
Skipped(st) == [st EXCEPT !.cr = FALSE, !.wp = @ + 1]

WriteChar(st, s, i) ==
    IF s[i] = CR
    THEN IF Pair(s, i) THEN [st EXCEPT !.cr = FALSE, !.skip = TRUE]
         ELSE LET f == Flush(st, s, i)
                  p == Then(f, PutChar(f, LF))
              IN Then(p, [p EXCEPT !.cr = TRUE])
    ELSE IF s[i] = LF
    THEN IF st.cr THEN Skipped(st)
         ELSE LET f == IF st.wp # i THEN Flush(st, s, i - 1) ELSE st
                  p == Then(f, PutChar(f, CR))
              IN Then(p, [p EXCEPT !.cr = FALSE])
    ELSE [st EXCEPT !.cr = FALSE]

ioterm_write(s, cr, io) ==
    LET start == [wp |-> 1, acc |-> 0, cr |-> cr, io |-> io,
                  skip |-> FALSE, done |-> FALSE, cnt |-> 0]
        Next1(st, i) == IF st.done THEN st
                        ELSE IF st.skip THEN [st EXCEPT !.skip = FALSE]
                        ELSE WriteChar(st, s, i)
        scan == FoldLeft(Next1, start, [i \in 1 .. Len(s) |-> i])
        end == IF ~scan.done /\ scan.wp <= Len(s) THEN Flush(scan, s, Len(s)) ELSE scan
    IN [io |-> end.io, cr |-> end.cr, cnt |-> IF end.done THEN end.cnt ELSE end.acc]

\* iowrite, ioputs (a newline is a write of its own) and ioprintf (each
\* character is) on the terminal.
StartWrite(call, s) ==
    /\ at = "idle" /\ InBudget(Len(s))
    /\ at' = call
    /\ queue' = CASE call = "write" -> <<s>>
                  [] call = "puts" -> <<s, <<LF>>>>
                  [] call = "printf" -> [i \in DOMAIN s |-> <<s[i]>>]
    /\ asked' = asked \o s \o (IF call = "puts" THEN <<LF>> ELSE <<>>)
    /\ UNCHANGED <<ioVars, need, line, room, echo, typed, delivered>>

\* What is left to write: the rest, until a write fails or writes nothing.
\* ioprintf then writes no more, ioputs only after a failure.
Remaining(cnt) ==
    IF cnt = Len(Head(queue)) THEN Tail(queue)
    ELSE IF cnt > 0 THEN <<SubSeq(Head(queue), cnt + 1, Len(Head(queue)))>> \o Tail(queue)
    ELSE IF cnt = 0 /\ at # "printf" THEN Tail(queue)
    ELSE <<>>

\* One round of the loop of iowrite.
WriteMore ==
    /\ queue # <<>>
    /\ LET r == ioterm_write(Head(queue), cr_out, sink)
       IN /\ sink' = r.io
          /\ cr_out' = r.cr
          /\ queue' = Remaining(r.cnt)
    /\ at' = IF queue' = <<>> THEN "idle" ELSE at
    /\ UNCHANGED <<cr_in, need, line, room, echo, typed, delivered, asked>>

------------------------------------------------------------------------------
(* Input *)

\* One character of ioterm_read's scan; and one that takes "\n" as it comes.
KeepsLF(st, ch) == [out |-> Append(st.out, IF ch = CR THEN LF ELSE ch), cr |-> ch = CR]
Scanned(st, ch) ==
    IF st.cr /\ ch = LF THEN [st EXCEPT !.cr = FALSE]
    ELSE [out |-> Append(st.out, IF ch = CR THEN LF ELSE ch), cr |-> ch = CR]

\* What a read of the line makes of the characters s.
Scan(s) == FoldLeft(Scanned, [out |-> <<>>, cr |-> cr_in], s)

StartRead(call, len) ==
    /\ at = "idle"
    /\ at' = call
    /\ need' = len
    /\ UNCHANGED <<ioVars, queue, line, room, echo, typed, delivered, asked>>

\* The raw read brings some characters.  If nothing is left of them, read again;
\* ioread_full reads again until it has all.
Receive(s) ==
    /\ at \in {"read", "full"} /\ Len(s) <= need /\ InBudget(Len(s))
    /\ LET r == Scan(s)
       IN /\ cr_in' = r.cr
          /\ delivered' = delivered \o r.out
          /\ typed' = typed \o s
          /\ need' = IF at = "read" /\ r.out # <<>> THEN 0 ELSE need - Len(r.out)
    /\ at' = IF need' = 0 THEN "idle" ELSE at
    /\ UNCHANGED <<cr_out, sink, queue, line, room, echo, asked>>

------------------------------------------------------------------------------
(* Line editing *)

ioterm_getsn(len) ==
    /\ at = "idle"
    /\ at' = "line"
    /\ room' = len /\ line' = <<>> /\ echo' = <<>>
    /\ UNCHANGED <<ioVars, queue, need, typed, delivered, asked>>

\* The room that must be left for a character: one for it and one for '\0'.
HasRoom == room > 1

\* Rub the last character out; and only step back over it.
StepBack == line' = Front(line) /\ room' = room + 1 /\ echo' = Append(echo, BS)
Erase == /\ line' = Front(line) /\ room' = room + 1
         /\ echo' = echo \o <<BS, SP, BS>>
Beep == echo' = Append(echo, BEL) /\ UNCHANGED <<line, room>>

Edit(ch) ==
    \/ ch = Bracket /\ UNCHANGED <<line, room, echo, at>>
    \/ ch = LF /\ echo' = echo \o <<CR, LF>> /\ at' = "idle" /\ UNCHANGED <<line, room>>
    \/ ch = BS /\ (IF line # <<>> THEN Erase ELSE Beep) /\ UNCHANGED at
    \/ /\ ch \in Glyphs
       /\ IF HasRoom
          THEN line' = Append(line, ch) /\ room' = room - 1 /\ echo' = Append(echo, ch)
          ELSE Beep
       /\ UNCHANGED at

\* iogetc, and the switch in ioterm_getsn.
Key(ch) ==
    /\ at = "line" /\ InBudget(1)
    /\ LET r == Scan(<<ch>>)
       IN /\ cr_in' = r.cr
          /\ delivered' = delivered \o r.out
          /\ typed' = Append(typed, ch)
          /\ IF r.out = <<>> THEN UNCHANGED <<line, room, echo, at>> ELSE Edit(r.out[1])
    /\ UNCHANGED <<cr_out, sink, queue, need, asked>>

TermNext ==
    \/ \E t \in Texts : StartWrite(t[1], t[2])
    \/ WriteMore
    \/ \E len \in Lengths : StartRead("read", len) \/ StartRead("full", len) \/ ioterm_getsn(len)
    \/ \E s \in UNION {[1 .. k -> Keys] : k \in Lengths} : Receive(s)
    \/ \E ch \in Keys : Key(ch)

TermSpec == TermInit /\ [][TermNext]_termVars

------------------------------------------------------------------------------
(* Properties *)

TermTypeOK ==
    /\ {cr_in, cr_out} \subseteq BOOLEAN
    /\ sink.size = SinkSize /\ sink.pos \in 0 .. SinkSize /\ Len(sink.buf) = SinkSize
    /\ at \in {"idle", "write", "puts", "printf", "read", "full", "line"}
    /\ need \in Nat /\ room \in Nat
    /\ \A i \in DOMAIN queue : queue[i] \in Seq(Keys) \ {<<>>}
    /\ line \in Seq(Glyphs)

\* "\r\n", "\r" and "\n" each arrive as one "\n", wherever the pieces that the
\* line brings are cut, and nothing else is lost or changed.
Lines(s) ==
    FlattenSeq([i \in DOMAIN s |->
        IF s[i] = LF /\ i > 1 /\ s[i - 1] = CR THEN <<>>
        ELSE IF s[i] = CR THEN <<LF>> ELSE <<s[i]>>])
InputNormal == delivered = Lines(typed)

\* "\r\n", "\r" and "\n" each are written as "\r\n", wherever the texts that are
\* written are cut, until the file ends; nothing is written twice.
Normal(s) ==
    FlattenSeq([i \in DOMAIN s |->
        IF s[i] = LF /\ i > 1 /\ s[i - 1] = CR THEN <<>>
        ELSE IF s[i] \in {CR, LF} THEN <<CR, LF>> ELSE <<s[i]>>])
Written == SubSeq(sink.buf, 1, sink.pos)
OutputNormal ==
    at \notin {"write", "puts", "printf"} =>
        Written = SubSeq(Normal(asked), 1, Least(Len(Normal(asked)), SinkSize))

\* What the echo shows on the screen is the line, also after erasures and at its
\* limit: the row up to the cursor.
Shown ==
    FoldLeft(LAMBDA row, ch :
        IF ch = BS THEN [row EXCEPT !.cur = @ - 1]
        ELSE IF ch \in {BEL, CR, LF} THEN row
        ELSE [cells |-> IF row.cur < Len(row.cells)
                        THEN [row.cells EXCEPT ![row.cur + 1] = ch]
                        ELSE Append(row.cells, ch),
              cur |-> row.cur + 1],
        [cells |-> <<>>, cur |-> 0], echo)
ScreenShowsLine ==
    /\ SubSeq(Shown.cells, 1, Shown.cur) = line
    /\ \A i \in Shown.cur + 1 .. Len(Shown.cells) : Shown.cells[i] = SP

\* The line and its '\0' fit the buffer.
LineFits == at = "line" => room >= 1 /\ room + Len(line) \in Lengths

\* ioterm_getsn: the room counted, the characters kept and what the screen shows
\* do not drift apart.
LineKept == TermTypeOK /\ ScreenShowsLine /\ LineFits

==============================================================================
