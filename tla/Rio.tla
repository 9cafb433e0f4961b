---------------------------------- MODULE Rio ----------------------------------
(***************************************************************************)
(* The robust I/O of csapp.c between two processes: one passes a message   *)
(* to rio_writen and closes its end, the other reads it with rio_readlineb *)
(* and rio_readnb through the buffer of a rio_t, or with rio_readn past    *)
(* the buffer.  The socket between them is the kernel's: it holds a        *)
(* bounded number of bytes, and read and write move any part of what was   *)
(* asked for, or are interrupted.                                          *)
(***************************************************************************)
EXTENDS Integers, Sequences

CONSTANTS Bytes, NL,       \* byte values, among them the newline
          MaxMessage,      \* bound on the length of the message
          Capacity,        \* bytes the socket holds
          BufSize,         \* sizeof(rio_buf), RIO_BUFSIZE
          MaxLine,         \* largest maxlen and n a reader asks for
          Resets           \* TRUE: a read may fail with ECONNRESET

ASSUME RioAssumption ==
  /\ NL \in Bytes /\ MaxMessage \in Nat /\ Capacity \in Nat \ {0}
  /\ BufSize \in Nat \ {0} /\ MaxLine \in Nat \ {0, 1} /\ Resets \in BOOLEAN

VARIABLES message, nleft, open,           \* the writer
          channel,                         \* bytes written and not yet read
          rio_buf, rio_bufptr, rio_cnt,   \* the rio_t
          call,                           \* the read in progress
          returned,                       \* history: all bytes the calls have returned
          result                          \* the last call's return value and bytes
writer == <<message, nleft, open>>
rio    == <<rio_buf, rio_bufptr, rio_cnt>>
vars   == <<writer, channel, rio, call, returned, result>>

Idle == [op |-> "none", n |-> 0, got |-> <<>>]
Lesser(a, b) == IF a < b THEN a ELSE b
First(s, k) == SubSeq(s, 1, k)
Rest(s, k)  == SubSeq(s, k + 1, Len(s))

Messages == UNION {[1 .. l -> Bytes] : l \in 0 .. MaxMessage}

Init == /\ message \in Messages /\ nleft = Len(message) /\ open = TRUE
        /\ channel = <<>>
        /\ rio_buf = <<>> /\ rio_bufptr = 0 /\ rio_cnt = 0     \* rio_readinitb
        /\ call = Idle /\ returned = <<>>
        /\ result = [ret |-> 0, data |-> <<>>]

-------------------------------------------------------------------------------
(* The writer. *)

Unwritten == Rest(message, Len(message) - nleft)

write_BugRestarts(k) ==
  /\ open /\ k <= nleft /\ Len(channel) + k <= Capacity
  /\ channel' = channel \o First(message, k)
  /\ nleft' = nleft - k
  /\ UNCHANGED <<message, open, rio, call, returned, result>>

\* One write(2) of rio_writen's loop takes k bytes.  An interrupted one takes
\* none and is tried again, which changes nothing.
write(k) ==
  /\ open /\ k <= nleft /\ Len(channel) + k <= Capacity
  /\ channel' = channel \o First(Unwritten, k)
  /\ nleft' = nleft - k
  /\ UNCHANGED <<message, open, rio, call, returned, result>>

\* The writer closes: it is done, or it ends before.
Close == /\ open /\ open' = FALSE
         /\ UNCHANGED <<message, nleft, channel, rio, call, returned, result>>

-------------------------------------------------------------------------------
(* The reader. *)

Ask(op, n) ==
  /\ call = Idle
  /\ call' = [op |-> op, n |-> n, got |-> <<>>]
  /\ UNCHANGED <<writer, channel, rio, returned, result>>

Unread == IF rio_cnt > 0 THEN SubSeq(rio_buf, rio_bufptr + 1, rio_bufptr + rio_cnt) ELSE <<>>

rio_readlineb(maxlen) == Ask("line", maxlen)
rio_readnb(n)         == Ask("bytes", n)
\* The caller must not leave bytes in the buffer that this call would overtake.
rio_readn(n)          == Unread = <<>> /\ Ask("unbuffered", n)

Return(ret, data) ==
  /\ call' = Idle
  /\ returned' = returned \o data
  /\ result' = [ret |-> ret, data |-> data]

\* rio_read finds its buffer empty and calls read(2).
Refilling_BugOnlyZero == call.op \in {"line", "bytes"} /\ rio_cnt = 0
Refilling == call.op \in {"line", "bytes"} /\ rio_cnt <= 0

Refill_BugKeepsPointer(k) ==
  /\ Refilling /\ k <= Lesser(Len(channel), BufSize)
  /\ rio_buf' = First(channel, k) /\ rio_cnt' = k
  /\ channel' = Rest(channel, k)
  /\ UNCHANGED <<writer, rio_bufptr, call, returned, result>>

Refill(k) ==
  /\ Refilling /\ k <= Lesser(Len(channel), BufSize)
  /\ rio_buf' = First(channel, k) /\ rio_bufptr' = 0 /\ rio_cnt' = k
  /\ channel' = Rest(channel, k)
  /\ UNCHANGED <<writer, call, returned, result>>

Interrupted ==
  /\ Refilling
  /\ rio_cnt' = -1
  /\ UNCHANGED <<writer, channel, rio_buf, rio_bufptr, call, returned, result>>

EndOfFile ==
  /\ Refilling \/ call.op = "unbuffered"
  /\ ~open /\ channel = <<>>
  /\ rio_cnt' = IF Refilling THEN 0 ELSE rio_cnt
  /\ Return(Len(call.got), call.got)
  /\ UNCHANGED <<writer, channel, rio_buf, rio_bufptr>>

\* On an error the wrappers end the process.
Fail ==
  /\ Resets /\ (Refilling \/ call.op = "unbuffered")
  /\ rio_cnt' = IF Refilling THEN -1 ELSE rio_cnt
  /\ call' = [call EXCEPT !.op = "exited"]
  /\ UNCHANGED <<writer, channel, rio_buf, rio_bufptr, returned, result>>

\* rio_read copies cnt bytes out of its buffer.
Copied(cnt) == SubSeq(rio_buf, rio_bufptr + 1, rio_bufptr + cnt)
Advance(cnt) == /\ rio_bufptr' = rio_bufptr + cnt /\ rio_cnt' = rio_cnt - cnt
                /\ UNCHANGED <<writer, channel, rio_buf>>

CopyByte_BugFillsLine ==
  /\ call.op = "line" /\ rio_cnt > 0
  /\ Advance(1)
  /\ LET got == call.got \o Copied(1)
     IN  IF Copied(1) = <<NL>> \/ Len(got) = call.n
         THEN Return(Len(got), got)
         ELSE call' = [call EXCEPT !.got = got] /\ UNCHANGED <<returned, result>>

\* One round of rio_readlineb's loop.
CopyByte ==
  /\ call.op = "line" /\ rio_cnt > 0
  /\ Advance(1)
  /\ LET got == call.got \o Copied(1)
     IN  IF Copied(1) = <<NL>> \/ Len(got) = call.n - 1
         THEN Return(Len(got), got)
         ELSE call' = [call EXCEPT !.got = got] /\ UNCHANGED <<returned, result>>

\* One round of rio_readnb's loop.
CopyBytes ==
  /\ call.op = "bytes" /\ rio_cnt > 0
  /\ LET cnt == Lesser(call.n - Len(call.got), rio_cnt)
         got == call.got \o Copied(cnt)
     IN  /\ Advance(cnt)
         /\ IF Len(got) = call.n
            THEN Return(Len(got), got)
            ELSE call' = [call EXCEPT !.got = got] /\ UNCHANGED <<returned, result>>

\* One round of rio_readn's loop: read(2) brings k bytes.  An interrupted one brings
\* none and changes nothing.
ReadOn(k) ==
  /\ call.op = "unbuffered" /\ k <= Lesser(Len(channel), call.n - Len(call.got))
  /\ channel' = Rest(channel, k)
  /\ LET got == call.got \o First(channel, k)
     IN  IF Len(got) = call.n
         THEN Return(Len(got), got)
         ELSE call' = [call EXCEPT !.got = got] /\ UNCHANGED <<returned, result>>
  /\ UNCHANGED <<writer, rio>>

Call  == \E n \in 2 .. MaxLine : rio_readlineb(n) \/ rio_readnb(n) \/ rio_readn(n)
Write == \E k \in 1 .. Capacity : write(k)
Read  == \E k \in 1 .. Capacity : Refill(k) \/ ReadOn(k)
Copy  == CopyByte \/ CopyBytes

Next == Write \/ Close \/ Call \/ Read \/ Interrupted \/ EndOfFile \/ Fail \/ Copy

Spec == Init /\ [][Next]_vars

-------------------------------------------------------------------------------
(* Properties. *)

\* Every variable holds a value of its type.
TypeOK ==
  /\ message \in Messages /\ nleft \in 0 .. Len(message) /\ open \in BOOLEAN
  /\ channel \in Seq(Bytes) /\ Len(channel) <= Capacity
  /\ rio_buf \in Seq(Bytes) /\ rio_bufptr \in 0 .. Len(rio_buf)
  /\ rio_cnt \in -1 .. Len(rio_buf) - rio_bufptr
  /\ call \in [op : {"none", "line", "bytes", "unbuffered", "exited"}, n : 0 .. MaxLine, got : Seq(Bytes)]
  /\ returned \in Seq(Bytes)
  /\ result \in [ret : 0 .. MaxLine, data : Seq(Bytes)]

\* No byte is lost, duplicated or reordered by partial writes and reads, by
\* interruptions, or by lines and blocks read in turns from the same rio_t.
InOrder ==
  returned \o call.got \o Unread \o channel \o Unwritten = message

\* Everything sent has been returned, and no more will come.
AtEnd == ~open /\ channel = <<>> /\ rio_cnt = 0

\* What a call returns: a line is whole, up to and with its
\* newline, and a block has the length asked for, unless the limit or the end
\* of the stream cuts it short; so 0 means the end and nothing else.
WholeLine(data, n) ==
  /\ \A k \in 1 .. Len(data) - 1 : data[k] # NL
  /\ Len(data) < n
  /\ Len(data) = n - 1 \/ AtEnd' \/ (data # <<>> /\ data[Len(data)] = NL)

ReturnsWhole ==
  [][call # Idle /\ call' = Idle =>
       /\ result'.ret = Len(result'.data)
       /\ IF call.op = "line"
          THEN WholeLine(result'.data, call.n)
          ELSE Len(result'.data) = call.n \/ (Len(result'.data) < call.n /\ AtEnd')]_vars
===============================================================================
