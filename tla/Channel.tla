------------------------------- MODULE Channel -------------------------------
(***************************************************************************)
(* Channels (io.c) as the kernel has them: what is output is buffered and  *)
(* printed on the console; what asks the system for anything else - input, *)
(* seek, size, close - ends in caml_sys_error, whose message is NULL       *)
(* (sys.c:59-66), and stops the machine.                                   *)
(***************************************************************************)
EXTENDS Integers, Sequences, SequencesExt

CONSTANTS IoBuffer  \* IO_BUFFER_SIZE
ASSUME IoBuffer \in Nat \ {0}

NullMax == -1
Garbage == <<0, 0>>

\* chan: the channels by number; list: caml_all_opened_channels; out: what the
\* console printed; fault: the machine has stopped.
NoChannels == [chan |-> <<>>, list |-> <<>>, out |-> <<>>, fault |-> FALSE]

OpenDescriptor(s, output) ==
    [s EXCEPT !.chan = Append(@, [buff |-> [k \in 1..IoBuffer |-> Garbage], curr |-> 0, max |-> IF output THEN NullMax ELSE 0,
                                  offset |-> 0, refcount |-> 1]),
              !.list = <<Len(s.chan) + 1>> \o @]

IsOutput(s, i) == s.chan[i].max = NullMax

\* do_write prints everything, so that one flush empties the buffer.
FlushPartial(s, i) ==
    LET c == s.chan[i] IN
    [s EXCEPT !.out = @ \o SubSeq(c.buff, 1, c.curr), !.chan[i] = [c EXCEPT !.offset = @ + c.curr, !.curr = 0]]
Flush(s, i) == FlushPartial(s, i)

\* Bytes of p after the first `from` ones, as many as n, into the buffer at curr.
Copied(c, p, n) == [k \in 1..IoBuffer |-> IF k \in (c.curr + 1)..(c.curr + n) THEN p[k - c.curr] ELSE c.buff[k]]

\* The number of bytes taken, and the channels.
PutBlock(s, i, p) ==
    LET c == s.chan[i]
        free == IoBuffer - c.curr
    IN  IF Len(p) < free
        THEN [n |-> Len(p), s |-> [s EXCEPT !.chan[i] = [c EXCEPT !.buff = Copied(c, p, Len(p)), !.curr = @ + Len(p)]]]
        ELSE [n |-> free, s |-> [s EXCEPT !.out = @ \o Copied(c, p, free),
                                          !.chan[i] = [c EXCEPT !.buff = Copied(c, p, free), !.offset = @ + IoBuffer, !.curr = 0]]]

RECURSIVE Output(_, _, _)
Output(s, i, p) ==
    IF p = <<>> THEN s
    ELSE LET r == PutBlock(s, i, p) IN Output(r.s, i, SubSeq(p, r.n + 1, Len(p)))

OutputChar(s, i, ch) ==
    LET t == IF s.chan[i].curr >= IoBuffer THEN FlushPartial(s, i) ELSE s
    IN  [t EXCEPT !.chan[i].buff[t.chan[i].curr + 1] = ch, !.chan[i].curr = @ + 1]

\* The four bytes of an integer.
OutputInt(s, i, word) == FoldLeft(LAMBDA t, ch: OutputChar(t, i, ch), s, word)

PosOut(s, i) == s.chan[i].offset + s.chan[i].curr
PosIn(s, i) == s.chan[i].offset - (s.chan[i].max - s.chan[i].curr)

\* caml_sys_error(NO_ARG).
SysError(s) == [s EXCEPT !.fault = TRUE]

SeekOut(s, i) == SysError(Flush(s, i))

\* Nothing is ever read, so that the only place to seek is where one is.
SeekIn(s, i, dest) ==
    LET c == s.chan[i] IN
    IF dest >= c.offset - c.max /\ dest <= c.offset THEN [s EXCEPT !.chan[i].curr = c.max - (c.offset - dest)] ELSE SysError(s)

Input(s, i, n) ==
    LET avail == s.chan[i].max - s.chan[i].curr IN
    IF n <= avail THEN [s EXCEPT !.chan[i].curr = @ + n]
    ELSE IF avail > 0 THEN [s EXCEPT !.chan[i].curr = @ + avail] ELSE SysError(s)
InputChar(s, i) == IF s.chan[i].curr >= s.chan[i].max THEN SysError(s) ELSE [s EXCEPT !.chan[i].curr = @ + 1]

\* fd and the places are changed, then close fails.
CloseChannel(s, i) == SysError([s EXCEPT !.chan[i].curr = IoBuffer, !.chan[i].max = IoBuffer])

\* The output channels for flush_all, each with one more value that holds it.
OutChannels(s) == Reverse(SelectSeq(s.list, LAMBDA i: IsOutput(s, i)))
OutChannelsList(s) ==
    [s EXCEPT !.chan = [i \in DOMAIN @ |-> IF i \in ToSet(OutChannels(s)) THEN [@[i] EXCEPT !.refcount = @ + 1] ELSE @[i]]]

\* A value that holds the channel is collected.
FinalizeChannel(s, i) ==
    LET left == s.chan[i].refcount - 1 IN
    [s EXCEPT !.chan[i].refcount = left, !.list = IF left > 0 THEN @ ELSE SelectSeq(@, LAMBDA j: j # i)]
=============================================================================
