---------------------------- MODULE ConnectionProofs ----------------------------
(***************************************************************************)
(* The connection of the robust I/O, for lists of addresses, messages,     *)
(* buffers, sockets and limits of any size.  First the stream: it loses,   *)
(* duplicates and reorders no byte, whatever partial transfers,            *)
(* interruptions and errors come in between.  Then its set-up: the walks   *)
(* of open_clientfd and open_listenfd over the addresses leave nothing     *)
(* open and end at the first that works.                                   *)
(***************************************************************************)
EXTENDS Connection, SequenceTheorems, TLAPS

-------------------------------------------------------------------------------
(* Sequences cut in two. *)

\* The first k elements and the rest make up the whole.
LEMMA Cut ==
  ASSUME NEW S, NEW s \in Seq(S), NEW k \in 0 .. Len(s)
  PROVE  /\ First(s, k) \in Seq(S) /\ Len(First(s, k)) = k
         /\ Rest(s, k) \in Seq(S) /\ Len(Rest(s, k)) = Len(s) - k
         /\ First(s, k) \o Rest(s, k) = s
<1>0. Len(s) \in Nat /\ k \in Int /\ \A i \in 1 .. Len(s) : s[i] \in S
  BY LenProperties, ElementOfSeq
<1>1. First(s, k) \in Seq(S) /\ Len(First(s, k)) = k
  <2>1. \A i \in 1 .. k : s[i] \in S
    BY <1>0
  <2>2. QED  BY <1>0, <2>1, SubSeqProperties DEF First
<1>2. Rest(s, k) \in Seq(S) /\ Len(Rest(s, k)) = Len(s) - k
  <2>1. \A i \in k + 1 .. Len(s) : s[i] \in S
    BY <1>0
  <2>2. k + 1 \in Int /\ Len(s) \in Int
    BY <1>0
  <2>3. QED  BY <1>0, <2>1, <2>2, SubSeqProperties DEF Rest
<1>3. First(s, k) \o Rest(s, k) = s
  <2>1. SubSeq(s, 1, k) \o SubSeq(s, k + 1, Len(s)) = SubSeq(s, 1, Len(s))
    <3>1. 1 \in 1 .. Len(s) + 1 /\ k \in 1 - 1 .. Len(s) /\ Len(s) \in k .. Len(s)
      BY <1>0
    <3>2. QED  BY <3>1, ConcatAdjacentSubSeq
  <2>2. QED  BY <2>1, SubSeqFull DEF First, Rest
<1>4. QED  BY <1>1, <1>2, <1>3

\* A rest cut again is a shorter rest.
LEMMA RestOfRest ==
  ASSUME NEW S, NEW s \in Seq(S), NEW j \in 0 .. Len(s), NEW k \in 0 .. Len(s) - j
  PROVE  Rest(Rest(s, j), k) = Rest(s, j + k)
<1>0. Len(s) \in Nat /\ j + k \in 0 .. Len(s)
  BY LenProperties
<1>1. Rest(s, j) \in Seq(S) /\ Len(Rest(s, j)) = Len(s) - j
  BY Cut
<1>2. /\ Rest(Rest(s, j), k) \in Seq(S)
      /\ Len(Rest(Rest(s, j), k)) = Len(s) - j - k
  <2>1. k \in 0 .. Len(Rest(s, j))
    BY <1>1
  <2>2. /\ Rest(Rest(s, j), k) \in Seq(S)
        /\ Len(Rest(Rest(s, j), k)) = Len(Rest(s, j)) - k
    BY <1>1, <2>1, Cut
  <2>3. QED  BY <1>1, <2>2
<1>3. Rest(s, j + k) \in Seq(S) /\ Len(Rest(s, j + k)) = Len(s) - (j + k)
  BY <1>0, Cut
<1>4. \A m \in 0 .. Len(s) : \A i \in 1 .. Len(s) - m : Rest(s, m)[i] = s[m + i]
  <2>1. SUFFICES ASSUME NEW m \in 0 .. Len(s), NEW i \in 1 .. Len(s) - m
                 PROVE  SubSeq(s, m + 1, Len(s))[i] = s[m + i]
    BY DEF Rest
  <2>2. \A n \in m + 1 .. Len(s) : s[n] \in S
    BY <1>0, ElementOfSeq
  <2>3. SubSeq(s, m + 1, Len(s))[i] = s[(m + 1) + i - 1]
    BY <1>0, <2>2, SubSeqProperties
  <2>4. QED  BY <1>0, <2>3
<1>5. ASSUME NEW i \in 1 .. Len(s) - j - k
      PROVE  Rest(Rest(s, j), k)[i] = Rest(s, j + k)[i]
  <2>1. Rest(Rest(s, j), k)[i] = Rest(s, j)[k + i]
    <3>1. \A n \in k + 1 .. Len(s) - j : Rest(s, j)[n] \in S
      BY <1>0, <1>1, ElementOfSeq
    <3>2. SubSeq(Rest(s, j), k + 1, Len(s) - j)[i] = Rest(s, j)[(k + 1) + i - 1]
      BY <1>0, <3>1, SubSeqProperties
    <3>3. Rest(Rest(s, j), k) = SubSeq(Rest(s, j), k + 1, Len(s) - j)
      BY <1>1 DEF Rest
    <3>4. (k + 1) + i - 1 = k + i
      BY <1>0
    <3>5. QED  BY <3>2, <3>3, <3>4
  <2>2. Rest(s, j)[k + i] = s[j + k + i] /\ Rest(s, j + k)[i] = s[j + k + i]
    BY <1>0, <1>4
  <2>3. QED  BY <2>1, <2>2
<1>6. QED
  BY <1>0, <1>2, <1>3, <1>5, SeqEqual

\* Concatenation is associative.
LEMMA Assoc ==
  \A a, b, x \in Seq(Bytes) : a \o (b \o x) = a \o b \o x
<1>1. TAKE a, b, x \in Seq(Bytes)
<1>2. QED  BY ConcatAssociative

LEMMA LengthOfBoth ==
  \A a, b \in Seq(Bytes) : a \o b \in Seq(Bytes) /\ Len(a \o b) = Len(a) + Len(b)
  BY ConcatProperties

-------------------------------------------------------------------------------
(* The inductive invariant. *)

\* A call in progress has room left; a call past the buffer found it empty.
CallsHaveRoom ==
  /\ call.op = "line" => Len(call.got) + 1 < call.n
  /\ call.op \in {"bytes", "unbuffered"} => Len(call.got) < call.n
  /\ call.op = "unbuffered" => rio_cnt <= 0

IInv == TypeOK /\ CallsHaveRoom /\ InOrder

\* Messages are the short sequences of bytes.
LEMMA MessageIsSeq == \A m \in Messages : m \in Seq(Bytes) /\ Len(m) \in 0 .. MaxMessage
<1>1. SUFFICES ASSUME NEW l \in 0 .. MaxMessage, NEW m \in [1 .. l -> Bytes]
               PROVE  m \in Seq(Bytes) /\ Len(m) = l
  BY DEF Messages
<1>2. l \in Nat
  BY RioAssumption
<1>3. m \in Seq(Bytes)
  BY <1>2, SeqDef
<1>4. DOMAIN m = 1 .. Len(m) /\ Len(m) \in Nat /\ DOMAIN m = 1 .. l
  BY <1>3, LenProperties
<1>5. Len(m) = l
  BY <1>2, <1>4
<1>6. QED  BY <1>3, <1>5

\* The five parts of the stream are sequences of bytes.
LEMMA Parts ==
  ASSUME TypeOK
  PROVE  /\ message \in Seq(Bytes) /\ Len(message) \in Nat /\ nleft \in 0 .. Len(message)
         /\ Unwritten \in Seq(Bytes) /\ Len(Unwritten) = nleft
         /\ Unread \in Seq(Bytes) /\ channel \in Seq(Bytes) /\ Len(channel) \in Nat
         /\ call.got \in Seq(Bytes) /\ Len(call.got) \in Nat /\ returned \in Seq(Bytes)
         /\ rio_cnt <= 0 => Unread = <<>>
<1>1. message \in Seq(Bytes) /\ Len(message) \in Nat /\ nleft \in 0 .. Len(message)
  BY MessageIsSeq, LenProperties DEF TypeOK
<1>2. Unwritten \in Seq(Bytes) /\ Len(Unwritten) = nleft
  <2>1. Len(message) - nleft \in 0 .. Len(message)
    BY <1>1
  <2>2. Rest(message, Len(message) - nleft) \in Seq(Bytes)
    BY <1>1, <2>1, Cut
  <2>3. Len(Rest(message, Len(message) - nleft)) = Len(message) - (Len(message) - nleft)
    BY <1>1, <2>1, Cut
  <2>4. QED  BY <1>1, <2>2, <2>3 DEF Unwritten
<1>3. Unread \in Seq(Bytes)
  <2>1. CASE rio_cnt > 0
    <3>1. /\ rio_buf \in Seq(Bytes) /\ Len(rio_buf) \in Nat
          /\ rio_bufptr \in Nat /\ rio_cnt \in Nat /\ rio_bufptr + rio_cnt <= Len(rio_buf)
      BY <2>1, LenProperties DEF TypeOK
    <3>2. \A i \in rio_bufptr + 1 .. rio_bufptr + rio_cnt : rio_buf[i] \in Bytes
      BY <3>1, ElementOfSeq
    <3>3. SubSeq(rio_buf, rio_bufptr + 1, rio_bufptr + rio_cnt) \in Seq(Bytes)
      BY <3>1, <3>2, SubSeqProperties
    <3>4. QED  BY <2>1, <3>3 DEF Unread
  <2>2. CASE ~(rio_cnt > 0)
    BY <2>2, EmptySeq DEF Unread
  <2>3. QED  BY <2>1, <2>2
<1>4. call.got \in Seq(Bytes) /\ channel \in Seq(Bytes) /\ returned \in Seq(Bytes)
  BY DEF TypeOK
<1>5. Len(channel) \in Nat /\ Len(call.got) \in Nat
  BY <1>4, LenProperties
<1>6. rio_cnt <= 0 => Unread = <<>>
  <2>1. rio_cnt \in Int
    BY LenProperties DEF TypeOK
  <2>2. QED  BY <2>1 DEF Unread
<1>7. QED  BY <1>1, <1>2, <1>3, <1>4, <1>5, <1>6

\* Copying cnt bytes out of the buffer takes them off the front of what is unread.
LEMMA CopyTakesFront ==
  ASSUME TypeOK, NEW cnt \in 1 .. rio_cnt, Advance(cnt)
  PROVE  /\ Copied(cnt) \in Seq(Bytes) /\ Len(Copied(cnt)) = cnt
         /\ Unread = Copied(cnt) \o Unread' /\ Unread' \in Seq(Bytes)
         /\ rio_bufptr' \in 0 .. Len(rio_buf) /\ rio_cnt' \in 0 .. Len(rio_buf) - rio_bufptr'
<1>0. /\ rio_buf \in Seq(Bytes) /\ Len(rio_buf) \in Nat /\ cnt \in Nat \ {0} /\ cnt <= rio_cnt
      /\ rio_bufptr \in Nat /\ rio_cnt \in Nat /\ rio_bufptr + rio_cnt <= Len(rio_buf)
  BY LenProperties DEF TypeOK
<1>1. /\ rio_buf' = rio_buf /\ rio_bufptr' = rio_bufptr + cnt /\ rio_cnt' = rio_cnt - cnt
  BY DEF Advance
<1>2. Copied(cnt) \in Seq(Bytes) /\ Len(Copied(cnt)) = cnt
  <2>1. \A i \in rio_bufptr + 1 .. rio_bufptr + cnt : rio_buf[i] \in Bytes
    BY <1>0, ElementOfSeq
  <2>2. /\ Copied(cnt) \in Seq(Bytes)
        /\ Len(Copied(cnt)) = IF rio_bufptr + 1 <= rio_bufptr + cnt
                              THEN rio_bufptr + cnt - (rio_bufptr + 1) + 1 ELSE 0
    BY <1>0, <2>1, SubSeqProperties DEF Copied
  <2>3. QED  BY <1>0, <2>2
<1>3. Unread' = SubSeq(rio_buf, rio_bufptr + cnt + 1, rio_bufptr + rio_cnt)
  <2>1. CASE rio_cnt > cnt
    BY <1>0, <1>1, <2>1 DEF Unread
  <2>2. CASE rio_cnt = cnt
    <3>1. Unread' = <<>>
      BY <1>0, <1>1, <2>2 DEF Unread
    <3>2. SubSeq(rio_buf, rio_bufptr + cnt + 1, rio_bufptr + rio_cnt) = <<>>
      BY <1>0, <2>2, SubSeqEmpty
    <3>3. QED  BY <3>1, <3>2
  <2>3. QED  BY <1>0, <2>1, <2>2
<1>4. Unread = SubSeq(rio_buf, rio_bufptr + 1, rio_bufptr + rio_cnt)
  BY <1>0 DEF Unread
<1>5. Copied(cnt) \o Unread' = Unread
  <2>1. /\ rio_bufptr + 1 \in 1 .. Len(rio_buf) + 1
        /\ rio_bufptr + cnt \in (rio_bufptr + 1) - 1 .. Len(rio_buf)
        /\ rio_bufptr + rio_cnt \in rio_bufptr + cnt .. Len(rio_buf)
    BY <1>0
  <2>2. SubSeq(rio_buf, rio_bufptr + 1, rio_bufptr + cnt)
          \o SubSeq(rio_buf, rio_bufptr + cnt + 1, rio_bufptr + rio_cnt)
        = SubSeq(rio_buf, rio_bufptr + 1, rio_bufptr + rio_cnt)
    BY <1>0, <2>1, ConcatAdjacentSubSeq
  <2>3. QED  BY <1>3, <1>4, <2>2 DEF Copied
<1>6. Unread' \in Seq(Bytes)
  <2>1. \A i \in rio_bufptr + cnt + 1 .. rio_bufptr + rio_cnt : rio_buf[i] \in Bytes
    BY <1>0, ElementOfSeq
  <2>2. QED  BY <1>0, <1>3, <2>1, SubSeqProperties
<1>7. QED  BY <1>0, <1>1, <1>2, <1>5, <1>6

-------------------------------------------------------------------------------
(* The steps. *)

Calls   == [op : {"none", "line", "bytes", "unbuffered", "exited"}, n : 0 .. MaxLine, got : Seq(Bytes)]
Results == [ret : 0 .. MaxLine, data : Seq(Bytes)]

LEMMA IdleTypes == Idle \in Calls /\ Idle.got = <<>> /\ Idle.op = "none"
  BY RioAssumption, EmptySeq DEF Idle, Calls

\* A call takes x in, and keeps it or returns it with what it had.
LEMMA TakeIn ==
  ASSUME TypeOK, NEW x \in Seq(Bytes), call.op \in {"line", "bytes", "unbuffered"},
         Len(call.got \o x) <= call.n,
         \/ Return(Len(call.got \o x), call.got \o x)
         \/ call' = [call EXCEPT !.got = call.got \o x] /\ UNCHANGED <<returned, result>>
  PROVE  /\ returned' \o call'.got = returned \o call.got \o x
         /\ call' \in Calls /\ returned' \in Seq(Bytes) /\ result' \in Results
         /\ call' = Idle \/ (call'.op = call.op /\ call'.n = call.n /\ call'.got = call.got \o x)
<1>1. /\ call.got \in Seq(Bytes) /\ returned \in Seq(Bytes) /\ call.n \in 0 .. MaxLine
      /\ call \in Calls /\ result \in Results
  BY DEF TypeOK, Calls, Results
<1>2. call.got \o x \in Seq(Bytes) /\ Len(call.got \o x) \in Nat
  BY <1>1, ConcatProperties, LenProperties
<1>3. returned \o (call.got \o x) = returned \o call.got \o x
  <2>1. call.got \in Seq(Bytes) /\ returned \in Seq(Bytes)
    BY <1>1
  <2>2. QED  BY <2>1, Assoc
<1>4. returned \o (call.got \o x) \in Seq(Bytes)
  BY <1>1, <1>2, ConcatProperties
<1>5. CASE Return(Len(call.got \o x), call.got \o x)
  <2>1. /\ call' = Idle /\ returned' = returned \o (call.got \o x)
        /\ result' = [ret |-> Len(call.got \o x), data |-> call.got \o x]
    BY <1>5 DEF Return
  <2>2. Len(call.got \o x) \in 0 .. MaxLine
    BY <1>1, <1>2, RioAssumption
  <2>3. result' \in Results
    BY <1>2, <2>1, <2>2 DEF Results
  <2>4. returned' \o call'.got = returned'
    BY <1>4, <2>1, IdleTypes, ConcatEmptySeq
  <2>5. QED  BY <1>3, <1>4, <2>1, <2>3, <2>4, IdleTypes
<1>6. CASE call' = [call EXCEPT !.got = call.got \o x] /\ UNCHANGED <<returned, result>>
  <2>1. /\ call'.got = call.got \o x /\ call'.op = call.op /\ call'.n = call.n
        /\ call' \in Calls
    BY <1>1, <1>2, <1>6 DEF Calls
  <2>2. QED  BY <1>1, <1>3, <1>6, <2>1
<1>7. QED  BY <1>5, <1>6

\* The writer puts the next bytes of the message on the channel.
LEMMA WriteStep ==
  ASSUME IInv, NEW k \in 1 .. Capacity, write(k)
  PROVE  IInv'
<1> DEFINE w == Unwritten
           front == returned \o call.got \o Unread
<1>1. /\ k \in Nat /\ k <= nleft /\ Len(channel) + k <= Capacity /\ Len(channel) \in Nat
      /\ w \in Seq(Bytes) /\ Len(w) = nleft /\ nleft \in Nat /\ k \in 0 .. Len(w)
  BY RioAssumption, Parts DEF IInv, write
<1>2. channel' = channel \o First(w, k) /\ nleft' = nleft - k
  BY DEF write
<1>3. UNCHANGED <<message, open, rio_buf, rio_bufptr, rio_cnt, call, returned, result>>
  BY DEF write, rio
<1>4. /\ First(w, k) \in Seq(Bytes) /\ Len(First(w, k)) = k
      /\ Rest(w, k) \in Seq(Bytes) /\ First(w, k) \o Rest(w, k) = w
  BY <1>1, Cut
<1>5. channel \in Seq(Bytes) /\ front \in Seq(Bytes)
  <2>1. /\ returned \in Seq(Bytes) /\ call.got \in Seq(Bytes) /\ Unread \in Seq(Bytes)
        /\ channel \in Seq(Bytes)
    BY Parts DEF IInv
  <2>2. returned \o call.got \in Seq(Bytes)
    BY <2>1, ConcatProperties
  <2>3. QED  BY <2>1, <2>2, ConcatProperties
<1>6. channel' \in Seq(Bytes) /\ Len(channel') <= Capacity
  <2>1. Len(channel') = Len(channel) + k /\ channel' \in Seq(Bytes)
    BY <1>2, <1>4, <1>5, ConcatProperties
  <2>2. QED  BY <1>1, <2>1
<1>7. Unwritten' = Rest(w, k)
  <2>1. /\ message \in Seq(Bytes) /\ Len(message) \in Nat /\ nleft \in 0 .. Len(message)
    BY Parts DEF IInv
  <2>2. /\ Len(message) - nleft \in 0 .. Len(message)
        /\ k \in 0 .. Len(message) - (Len(message) - nleft)
        /\ Len(message) - (nleft - k) = Len(message) - nleft + k
    BY <1>1, <2>1
  <2>3. Unwritten' = Rest(message, Len(message) - (nleft - k))
    BY <1>2, <1>3 DEF Unwritten
  <2>4. w = Rest(message, Len(message) - nleft)
    BY DEF Unwritten
  <2>5. Rest(Rest(message, Len(message) - nleft), k) = Rest(message, Len(message) - nleft + k)
    BY <2>1, <2>2, RestOfRest
  <2>6. QED  BY <2>2, <2>3, <2>4, <2>5
<1>8. InOrder'
  <2>1. front \o channel \o w = message
    BY DEF IInv, InOrder
  <2>2. (front \o channel') \o Rest(w, k) = front \o channel \o w
    <3> HIDE DEF w, front
    <3>0. /\ front \in Seq(Bytes) /\ channel \in Seq(Bytes)
          /\ First(w, k) \in Seq(Bytes) /\ Rest(w, k) \in Seq(Bytes)
      BY <1>4, <1>5
    <3>1. front \o (channel \o First(w, k)) = front \o channel \o First(w, k)
      BY <3>0, Assoc
    <3>2. front \o channel \in Seq(Bytes)
      BY <3>0, ConcatProperties
    <3>3. front \o channel \o (First(w, k) \o Rest(w, k)) = front \o channel \o First(w, k) \o Rest(w, k)
      BY <3>0, <3>2, Assoc
    <3>4. QED  BY <1>2, <1>4, <3>1, <3>3
  <2>3. front' = front
    BY <1>3 DEF Unread
  <2>4. QED  BY <1>3, <1>7, <2>1, <2>2, <2>3 DEF InOrder
<1>9. TypeOK'
  <2>1. nleft' \in 0 .. Len(message)
    BY <1>1, <1>2, Parts DEF IInv
  <2>2. QED  BY <1>3, <1>6, <2>1 DEF IInv, TypeOK
<1>10. CallsHaveRoom'
  BY <1>3 DEF IInv, CallsHaveRoom
<1>11. QED  BY <1>8, <1>9, <1>10 DEF IInv

\* A call begins with nothing.
LEMMA AskStep ==
  ASSUME IInv, NEW n \in 2 .. MaxLine, rio_readlineb(n) \/ rio_readnb(n) \/ rio_readn(n)
  PROVE  IInv'
<1>1. PICK op \in {"line", "bytes", "unbuffered"} :
        Ask(op, n) /\ (op = "unbuffered" => Unread = <<>>)
  BY DEF rio_readlineb, rio_readnb, rio_readn
<1>2. /\ call = Idle /\ call' = [op |-> op, n |-> n, got |-> <<>>]
      /\ UNCHANGED <<message, nleft, open, channel, rio_buf, rio_bufptr, rio_cnt, returned, result>>
  BY <1>1 DEF Ask, writer, rio
<1>3. call'.got = call.got /\ call'.got = <<>> /\ call' \in Calls
  BY <1>2, IdleTypes, RioAssumption, EmptySeq DEF Calls
<1>4. Len(<<>>) = 0
  BY EmptySeq
<1>5. Unread = <<>> => rio_cnt <= 0
  <2>1. SUFFICES ASSUME rio_cnt > 0 PROVE Unread # <<>>
    BY LenProperties DEF IInv, TypeOK
  <2>2. /\ rio_buf \in Seq(Bytes) /\ rio_bufptr \in Nat /\ rio_cnt \in Nat \ {0}
        /\ rio_bufptr + rio_cnt <= Len(rio_buf) /\ Len(rio_buf) \in Nat
    BY <2>1, LenProperties DEF IInv, TypeOK
  <2>3. \A i \in rio_bufptr + 1 .. rio_bufptr + rio_cnt : rio_buf[i] \in Bytes
    BY <2>2, ElementOfSeq
  <2>4. Len(SubSeq(rio_buf, rio_bufptr + 1, rio_bufptr + rio_cnt)) # 0
    BY <2>2, <2>3, SubSeqProperties
  <2>5. QED  BY <1>4, <2>1, <2>4 DEF Unread
<1>6. TypeOK'
  BY <1>2, <1>3 DEF IInv, TypeOK, Calls
<1>7. CallsHaveRoom'
  BY <1>1, <1>2, <1>4, <1>5 DEF CallsHaveRoom
<1>8. InOrder'
  BY <1>2, <1>3 DEF IInv, InOrder, Unread, Unwritten
<1>9. QED  BY <1>6, <1>7, <1>8 DEF IInv

\* rio_read fills its empty buffer with the front of the channel.
LEMMA RefillStep ==
  ASSUME IInv, NEW k \in 1 .. Capacity, Refill(k)
  PROVE  IInv'
<1> DEFINE R == returned \o call.got
<1>0. /\ channel \in Seq(Bytes) /\ Len(channel) \in Nat /\ Len(channel) <= Capacity
      /\ R \in Seq(Bytes) /\ rio_cnt \in Int /\ Unwritten \in Seq(Bytes)
  <2>1. returned \in Seq(Bytes) /\ call.got \in Seq(Bytes)
    BY Parts DEF IInv
  <2>2. R \in Seq(Bytes)
    BY <2>1, ConcatProperties
  <2>3. QED  BY <2>2, Parts, LenProperties DEF IInv, TypeOK
<1>1. /\ rio_cnt <= 0 /\ k \in Nat \ {0} /\ k <= Len(channel)
  BY <1>0, RioAssumption DEF Refill, Refilling, Lesser
<1>2. /\ rio_buf' = First(channel, k) /\ rio_bufptr' = 0 /\ rio_cnt' = k
      /\ channel' = Rest(channel, k)
      /\ UNCHANGED <<message, nleft, open, call, returned, result>>
  BY DEF Refill, writer
<1>3. /\ First(channel, k) \in Seq(Bytes) /\ Len(First(channel, k)) = k
      /\ Rest(channel, k) \in Seq(Bytes) /\ Len(Rest(channel, k)) = Len(channel) - k
      /\ First(channel, k) \o Rest(channel, k) = channel
  <2>1. k \in 0 .. Len(channel)
    BY <1>0, <1>1
  <2>2. QED  BY <1>0, <2>1, Cut
<1>4. Unread = <<>>
  BY <1>1, Parts DEF IInv
<1>5. Unread' = First(channel, k)
  <2>1. Unread' = SubSeq(First(channel, k), 1, k)
    BY <1>1, <1>2 DEF Unread
  <2>2. QED  BY <1>3, <2>1, SubSeqFull
<1>6. R \o First(channel, k) \o Rest(channel, k) = R \o Unread \o channel
  <2> HIDE DEF R
  <2>1. R \o (First(channel, k) \o Rest(channel, k)) = R \o First(channel, k) \o Rest(channel, k)
    BY <1>0, <1>3, Assoc
  <2>2. R \o <<>> = R
    BY <1>0, ConcatEmptySeq
  <2>3. QED  BY <1>3, <1>4, <2>1, <2>2
<1>7. InOrder'
  <2>1. Unwritten' = Unwritten /\ R' = R
    BY <1>2 DEF Unwritten
  <2>2. R \o Unread \o channel \o Unwritten = message
    BY DEF IInv, InOrder
  <2>3. R' \o Unread' \o channel' \o Unwritten' = message
    <3> HIDE DEF R
    <3>1. QED  BY <1>2, <1>5, <1>6, <2>1, <2>2
  <2>4. QED  BY <1>2, <2>3 DEF InOrder
<1>8. TypeOK'
  <2>1. Len(Rest(channel, k)) <= Capacity
    BY <1>0, <1>1, <1>3, RioAssumption
  <2>2. 0 \in 0 .. k /\ k \in -1 .. k - 0
    BY <1>1
  <2>3. QED  BY <1>2, <1>3, <2>1, <2>2 DEF IInv, TypeOK
<1>9. CallsHaveRoom'
  BY <1>2 DEF IInv, CallsHaveRoom, Refill, Refilling
<1>10. QED  BY <1>7, <1>8, <1>9 DEF IInv

\* The buffer is still empty after an interruption or an error.
LEMMA NothingReadStep ==
  ASSUME IInv, Interrupted \/ Fail
  PROVE  IInv'
<1>1. /\ UNCHANGED <<message, nleft, open, channel, rio_buf, rio_bufptr, returned, result>>
      /\ call' \in Calls /\ call'.got = call.got /\ call'.n = call.n
      /\ call'.op \in {call.op, "exited"}
  BY DEF IInv, TypeOK, Interrupted, Fail, writer, Calls
<1>2. rio_cnt' = rio_cnt \/ (rio_cnt <= 0 /\ rio_cnt' = -1)
  BY DEF Interrupted, Fail, Refilling
<1>3. Unread' = Unread
  <2>1. rio_cnt <= 0 /\ rio_cnt' = -1 => Unread' = <<>> /\ Unread = <<>>
    BY Parts DEF IInv, Unread
  <2>2. rio_cnt' = rio_cnt => Unread' = Unread
    BY <1>1 DEF Unread
  <2>3. QED  BY <1>2, <2>1, <2>2
<1>4. InOrder'
  BY <1>1, <1>3 DEF IInv, InOrder, Unwritten
<1>5. TypeOK'
  <2>1. rio_cnt' \in -1 .. Len(rio_buf) - rio_bufptr
    <3>1. Len(rio_buf) \in Nat /\ rio_bufptr \in 0 .. Len(rio_buf)
      BY LenProperties DEF IInv, TypeOK
    <3>2. QED  BY <1>2, <3>1 DEF IInv, TypeOK
  <2>2. QED  BY <1>1, <2>1 DEF IInv, TypeOK, Calls
<1>6. CallsHaveRoom'
  BY <1>1, <1>2 DEF IInv, CallsHaveRoom, Interrupted, Refilling
<1>7. QED  BY <1>4, <1>5, <1>6 DEF IInv

\* At the end of the stream a call returns what it has.
LEMMA EndStep ==
  ASSUME IInv, EndOfFile
  PROVE  IInv'
<1>1. /\ UNCHANGED <<message, nleft, open, channel, rio_buf, rio_bufptr>>
      /\ Return(Len(call.got), call.got) /\ call.op \in {"line", "bytes", "unbuffered"}
  BY DEF EndOfFile, writer, Refilling
<1>2. rio_cnt' = rio_cnt \/ (rio_cnt <= 0 /\ rio_cnt' = 0)
  BY DEF EndOfFile, Refilling
<1>3. Unread' = Unread
  <2>1. rio_cnt <= 0 /\ rio_cnt' = 0 => Unread' = <<>> /\ Unread = <<>>
    BY Parts DEF IInv, Unread
  <2>2. rio_cnt' = rio_cnt => Unread' = Unread
    BY <1>1 DEF Unread
  <2>3. QED  BY <1>2, <2>1, <2>2
<1>4. /\ call.got \in Seq(Bytes) /\ Len(call.got) \in Nat /\ returned \in Seq(Bytes)
      /\ call.n \in 0 .. MaxLine
  BY Parts DEF IInv, TypeOK
<1>5. call' = Idle /\ returned' = returned \o call.got
      /\ result' = [ret |-> Len(call.got), data |-> call.got]
  BY <1>1 DEF Return
<1>6. returned' \in Seq(Bytes) /\ returned' \o call'.got = returned \o call.got
  <2>1. returned \o call.got \in Seq(Bytes)
    BY <1>4, ConcatProperties
  <2>2. QED  BY <1>5, <2>1, IdleTypes, ConcatEmptySeq
<1>7. InOrder'
  BY <1>1, <1>3, <1>6 DEF IInv, InOrder, Unwritten
<1>8. TypeOK'
  <2>1. rio_cnt' \in -1 .. Len(rio_buf) - rio_bufptr
    <3>1. Len(rio_buf) \in Nat /\ rio_bufptr \in 0 .. Len(rio_buf)
      BY LenProperties DEF IInv, TypeOK
    <3>2. QED  BY <1>2, <3>1 DEF IInv, TypeOK
  <2>2. Len(call.got) < call.n
    BY <1>1, <1>4 DEF IInv, CallsHaveRoom
  <2>3. Len(call.got) \in 0 .. MaxLine
    BY <1>4, <2>2, RioAssumption
  <2>4. result' \in Results
    BY <1>4, <1>5, <2>3 DEF Results
  <2>5. QED  BY <1>1, <1>5, <1>6, <2>1, <2>4, IdleTypes DEF IInv, TypeOK, Calls, Results
<1>9. CallsHaveRoom'
  BY <1>5, IdleTypes DEF CallsHaveRoom
<1>10. QED  BY <1>7, <1>8, <1>9 DEF IInv

\* Bytes copied out of the buffer go to the end of what the call has.
LEMMA CopyKeepsOrder ==
  ASSUME IInv, NEW cnt \in 1 .. rio_cnt, Advance(cnt), call.op \in {"line", "bytes"},
         Len(call.got \o Copied(cnt)) <= call.n,
         \/ Return(Len(call.got \o Copied(cnt)), call.got \o Copied(cnt))
         \/ call' = [call EXCEPT !.got = call.got \o Copied(cnt)] /\ UNCHANGED <<returned, result>>
  PROVE  /\ TypeOK' /\ InOrder'
         /\ \/ call' = Idle
            \/ call'.op = call.op /\ call'.n = call.n /\ call'.got = call.got \o Copied(cnt)
<1> DEFINE R == returned \o call.got
           x == Copied(cnt)
<1>0. TypeOK
  BY DEF IInv
<1>1. /\ x \in Seq(Bytes) /\ Unread = x \o Unread' /\ Unread' \in Seq(Bytes)
      /\ rio_bufptr' \in 0 .. Len(rio_buf) /\ rio_cnt' \in 0 .. Len(rio_buf) - rio_bufptr'
  BY <1>0, CopyTakesFront
<1>2. UNCHANGED <<message, nleft, open, channel, rio_buf>>
  BY DEF Advance, writer
<1>3. /\ returned' \o call'.got = R \o x
      /\ call' \in Calls /\ returned' \in Seq(Bytes) /\ result' \in Results
      /\ call' = Idle \/ (call'.op = call.op /\ call'.n = call.n /\ call'.got = call.got \o x)
  BY <1>0, <1>1, TakeIn
<1>4. TypeOK'
  <2>1. rio_cnt' \in -1 .. Len(rio_buf) - rio_bufptr'
    <3>1. Len(rio_buf) \in Nat
      BY <1>0, LenProperties DEF TypeOK
    <3>2. QED  BY <1>1, <3>1
  <2>2. QED  BY <1>0, <1>1, <1>2, <1>3, <2>1 DEF TypeOK, Calls, Results
<1>5. InOrder'
  <2>1. Unread' \in Seq(Bytes)
    BY <1>1
  <2>2. R \in Seq(Bytes)
    BY <1>0, Parts, ConcatProperties
  <2>3. R \o x \o Unread' = R \o Unread
    <3> HIDE DEF R, x
    <3>1. R \o (x \o Unread') = R \o x \o Unread'
      BY <1>1, <2>1, <2>2, Assoc
    <3>2. QED  BY <1>1, <3>1
  <2>4. R \o Unread \o channel \o Unwritten = message
    BY DEF IInv, InOrder
  <2>5. Unwritten' = Unwritten
    BY <1>2 DEF Unwritten
  <2>6. returned' \o call'.got \o Unread' \o channel' \o Unwritten' = message
    <3> HIDE DEF R, x
    <3>1. QED  BY <1>2, <1>3, <2>3, <2>4, <2>5
  <2>7. QED  BY <1>2, <2>6 DEF InOrder
<1>6. QED  BY <1>3, <1>4, <1>5

LEMMA CopyStep ==
  ASSUME IInv, Copy
  PROVE  IInv'
<1>0. /\ TypeOK /\ call.got \in Seq(Bytes) /\ Len(call.got) \in Nat /\ call.n \in Nat /\ rio_cnt \in Int
  BY Parts, RioAssumption, LenProperties DEF IInv, TypeOK
<1>1. CASE CopyByte
  <2>1. /\ call.op = "line" /\ rio_cnt > 0 /\ Advance(1) /\ 1 \in 1 .. rio_cnt
        /\ Len(call.got) + 1 < call.n
    BY <1>0, <1>1 DEF IInv, CallsHaveRoom, CopyByte
  <2>2. Copied(1) \in Seq(Bytes) /\ Len(Copied(1)) = 1
    BY <1>0, <2>1, CopyTakesFront
  <2>3. Len(call.got \o Copied(1)) = Len(call.got) + 1
    BY <1>0, <2>2, LengthOfBoth
  <2>4. \/ Return(Len(call.got \o Copied(1)), call.got \o Copied(1))
        \/ /\ Len(call.got \o Copied(1)) # call.n - 1
           /\ call' = [call EXCEPT !.got = call.got \o Copied(1)]
           /\ UNCHANGED <<returned, result>>
    BY <1>1 DEF CopyByte
  <2>5. /\ TypeOK' /\ InOrder'
        /\ \/ call' = Idle
           \/ call'.op = call.op /\ call'.n = call.n /\ call'.got = call.got \o Copied(1)
    <3>1. Len(call.got \o Copied(1)) <= call.n
      BY <1>0, <2>1, <2>3
    <3>2. QED  BY <2>1, <2>4, <3>1, CopyKeepsOrder
  <2>6. CallsHaveRoom'
    <3>1. CASE call' = Idle
      BY <3>1, IdleTypes DEF CallsHaveRoom
    <3>2. CASE call' # Idle
      <4>1. Len(call.got \o Copied(1)) # call.n - 1
        BY <2>4, <3>2 DEF Return
      <4>2. Len(call.got) + 1 + 1 < call.n
        BY <1>0, <2>1, <2>3, <4>1
      <4>3. QED  BY <2>1, <2>3, <2>5, <3>2, <4>2 DEF CallsHaveRoom
    <3>3. QED  BY <3>1, <3>2
  <2>7. QED  BY <2>5, <2>6 DEF IInv
<1>2. CASE CopyBytes
  <2> DEFINE cnt == Lesser(call.n - Len(call.got), rio_cnt)
  <2>1. /\ call.op = "bytes" /\ rio_cnt > 0 /\ Advance(cnt) /\ Len(call.got) < call.n
    BY <1>2 DEF IInv, CallsHaveRoom, CopyBytes
  <2>2. cnt \in 1 .. rio_cnt /\ cnt \in Nat /\ cnt <= call.n - Len(call.got)
    BY <1>0, <2>1 DEF Lesser
  <2>4. \/ Return(Len(call.got \o Copied(cnt)), call.got \o Copied(cnt))
        \/ /\ Len(call.got \o Copied(cnt)) # call.n
           /\ call' = [call EXCEPT !.got = call.got \o Copied(cnt)]
           /\ UNCHANGED <<returned, result>>
    BY <1>2 DEF CopyBytes
  <2> HIDE DEF cnt
  <2>5. Copied(cnt) \in Seq(Bytes) /\ Len(Copied(cnt)) = cnt
    BY <1>0, <2>1, <2>2, CopyTakesFront
  <2>6. Len(call.got \o Copied(cnt)) = Len(call.got) + cnt
    BY <1>0, <2>5, LengthOfBoth
  <2>7. Len(call.got \o Copied(cnt)) <= call.n
    BY <1>0, <2>2, <2>6
  <2>8. /\ TypeOK' /\ InOrder'
        /\ \/ call' = Idle
           \/ call'.op = call.op /\ call'.n = call.n /\ call'.got = call.got \o Copied(cnt)
    BY <2>1, <2>2, <2>4, <2>7, CopyKeepsOrder
  <2>9. CallsHaveRoom'
    <3>1. CASE call' = Idle
      BY <3>1, IdleTypes DEF CallsHaveRoom
    <3>2. CASE call' # Idle
      <4>1. Len(call.got \o Copied(cnt)) # call.n
        BY <2>4, <3>2 DEF Return
      <4>2. Len(call.got \o Copied(cnt)) < call.n
        BY <1>0, <2>2, <2>6, <2>7, <4>1
      <4>3. QED  BY <2>1, <2>8, <3>2, <4>2 DEF CallsHaveRoom
    <3>3. QED  BY <3>1, <3>2
  <2>10. QED  BY <2>8, <2>9 DEF IInv
<1>3. QED  BY <1>1, <1>2 DEF Copy

\* rio_readn takes its bytes off the channel; the buffer it passes by is empty.
LEMMA ReadOnStep ==
  ASSUME IInv, NEW k \in 1 .. Capacity, ReadOn(k)
  PROVE  IInv'
<1> DEFINE R == returned \o call.got
           x == First(channel, k)
<1>0. /\ TypeOK /\ call.got \in Seq(Bytes) /\ Len(call.got) \in Nat /\ call.n \in Nat
      /\ channel \in Seq(Bytes) /\ Len(channel) \in Nat /\ Len(channel) <= Capacity
  BY Parts, RioAssumption, LenProperties DEF IInv, TypeOK
<1>1. /\ call.op = "unbuffered" /\ k \in Nat \ {0} /\ k <= Len(channel) /\ k <= call.n - Len(call.got)
      /\ Len(call.got) < call.n /\ rio_cnt <= 0
  BY <1>0, RioAssumption DEF IInv, CallsHaveRoom, ReadOn, Lesser
<1>2. /\ channel' = Rest(channel, k)
      /\ UNCHANGED <<message, nleft, open, rio_buf, rio_bufptr, rio_cnt>>
  BY DEF ReadOn, writer, rio
<1>3. /\ x \in Seq(Bytes) /\ Len(x) = k
      /\ Rest(channel, k) \in Seq(Bytes) /\ Len(Rest(channel, k)) = Len(channel) - k
      /\ x \o Rest(channel, k) = channel
  <2>1. k \in 0 .. Len(channel)
    BY <1>0, <1>1
  <2>2. QED  BY <1>0, <2>1, Cut
<1>4. \/ Return(Len(call.got \o x), call.got \o x)
      \/ /\ Len(call.got \o x) # call.n
         /\ call' = [call EXCEPT !.got = call.got \o x]
         /\ UNCHANGED <<returned, result>>
  BY DEF ReadOn
<1> HIDE DEF x
<1>5. Len(call.got \o x) = Len(call.got) + k /\ Len(call.got \o x) <= call.n
  <2>1. Len(call.got \o x) = Len(call.got) + k
    BY <1>0, <1>3, ConcatProperties
  <2>2. QED  BY <1>0, <1>1, <2>1
<1>6. /\ returned' \o call'.got = R \o x
      /\ call' \in Calls /\ returned' \in Seq(Bytes) /\ result' \in Results
      /\ call' = Idle \/ (call'.op = call.op /\ call'.n = call.n /\ call'.got = call.got \o x)
  BY <1>0, <1>1, <1>3, <1>4, <1>5, TakeIn
<1>7. TypeOK'
  <2>1. Len(Rest(channel, k)) <= Capacity
    BY <1>0, <1>1, <1>3, RioAssumption
  <2>2. QED  BY <1>0, <1>2, <1>3, <1>6, <2>1 DEF TypeOK, Calls, Results
<1>8. CallsHaveRoom'
  <2>1. CASE call' = Idle
    BY <2>1, IdleTypes DEF CallsHaveRoom
  <2>2. CASE call' # Idle
    <3>1. Len(call.got \o x) # call.n
      BY <1>4, <2>2 DEF Return
    <3>2. Len(call.got \o x) < call.n
      BY <1>0, <1>1, <1>5, <3>1
    <3>3. QED  BY <1>1, <1>2, <1>6, <2>2, <3>2 DEF CallsHaveRoom
  <2>3. QED  BY <2>1, <2>2
<1>9. InOrder'
  <2>1. R \in Seq(Bytes)
    BY <1>0, Parts, ConcatProperties
  <2>2. Unread = <<>> /\ Unread' = <<>>
    BY <1>0, <1>1, <1>2, Parts DEF Unread
  <2>3. R \o x \in Seq(Bytes)
    BY <1>3, <2>1, ConcatProperties
  <2>4. (R \o x) \o <<>> \o Rest(channel, k) = R \o <<>> \o channel
    <3> HIDE DEF R
    <3>1. R \o (x \o Rest(channel, k)) = R \o x \o Rest(channel, k)
      BY <1>3, <2>1, Assoc
    <3>2. (R \o x) \o <<>> = R \o x /\ R \o <<>> = R
      BY <2>1, <2>3, ConcatEmptySeq
    <3>3. QED  BY <1>3, <3>1, <3>2
  <2>5. R \o Unread \o channel \o Unwritten = message
    BY DEF IInv, InOrder
  <2>6. Unwritten' = Unwritten
    BY <1>2 DEF Unwritten
  <2>7. returned' \o call'.got \o Unread' \o channel' \o Unwritten' = message
    <3> HIDE DEF R
    <3>1. QED  BY <1>2, <1>6, <2>2, <2>4, <2>5, <2>6
  <2>8. QED  BY <1>2, <2>7 DEF InOrder
<1>10. QED  BY <1>7, <1>8, <1>9 DEF IInv

-------------------------------------------------------------------------------
(* What a call returns. *)

\* A line in progress has no newline yet; only an interrupted or failed call
\* leaves the count negative.
LinesAreOpen ==
  /\ call.op = "line" => \A i \in 1 .. Len(call.got) : call.got[i] # NL
  /\ rio_cnt < 0 => call.op \in {"line", "bytes", "exited"}

\* A sequence of one byte is that byte.
LEMMA SingleByte ==
  ASSUME NEW x \in Seq(Bytes), Len(x) = 1
  PROVE  x = <<x[1]>>
<1>1. x[1] \in Bytes
  BY ElementOfSeq
<1>2. QED  BY <1>1, SeqEqual

\* After one more byte that is not the newline the line is still open.
LEMMA OneMoreByte ==
  ASSUME TypeOK, LinesAreOpen, CopyByte
  PROVE  /\ Copied(1) \in Seq(Bytes) /\ Len(Copied(1)) = 1
         /\ Len(call.got \o Copied(1)) = Len(call.got) + 1 /\ Len(call.got) \in Nat
         /\ \A i \in 1 .. Len(call.got) : (call.got \o Copied(1))[i] # NL
         /\ (call.got \o Copied(1))[Len(call.got) + 1] = Copied(1)[1]
         /\ rio_cnt' \in Nat
<1>0. /\ call.got \in Seq(Bytes) /\ Len(call.got) \in Nat /\ rio_cnt \in Int
      /\ call.op = "line" /\ rio_cnt > 0 /\ Advance(1) /\ 1 \in 1 .. rio_cnt
  BY Parts, LenProperties DEF TypeOK, CopyByte
<1>1. /\ Copied(1) \in Seq(Bytes) /\ Len(Copied(1)) = 1
  BY <1>0, CopyTakesFront
<1>2. /\ Len(call.got \o Copied(1)) = Len(call.got) + 1
      /\ \A i \in 1 .. Len(call.got) + 1 :
           (call.got \o Copied(1))[i] = IF i <= Len(call.got) THEN call.got[i]
                                        ELSE Copied(1)[i - Len(call.got)]
  <2> DEFINE x == Copied(1)
             g == call.got
  <2>1. g \in Seq(Bytes) /\ x \in Seq(Bytes) /\ Len(x) = 1
    BY <1>0, <1>1
  <2> HIDE DEF x, g
  <2>2. /\ Len(g \o x) = Len(g) + Len(x)
        /\ \A i \in 1 .. Len(g) + Len(x) : (g \o x)[i] = IF i <= Len(g) THEN g[i] ELSE x[i - Len(g)]
    BY <2>1, ConcatProperties
  <2>3. QED  BY <2>1, <2>2 DEF x, g
<1>3. \A i \in 1 .. Len(call.got) : call.got[i] # NL
  BY <1>0 DEF LinesAreOpen
<1>4. \A i \in 1 .. Len(call.got) : (call.got \o Copied(1))[i] = call.got[i]
  BY <1>0, <1>2
<1>5. (call.got \o Copied(1))[Len(call.got) + 1] = Copied(1)[1]
  BY <1>0, <1>2
<1>6. rio_cnt' \in Nat
  BY <1>0 DEF Advance
<1>7. QED  BY <1>0, <1>1, <1>2, <1>3, <1>4, <1>5, <1>6

LEMMA LinesStep ==
  ASSUME IInv, LinesAreOpen, [Next]_vars
  PROVE  LinesAreOpen'
<1>0. TypeOK /\ rio_cnt \in Int
  BY LenProperties DEF IInv, TypeOK
<1>1. CASE UNCHANGED <<call, rio_cnt>>
  BY <1>1 DEF LinesAreOpen
<1>2. CASE Call
  <2>1. PICK op \in {"line", "bytes", "unbuffered"}, n \in 2 .. MaxLine : Ask(op, n)
    BY <1>2 DEF Call, rio_readlineb, rio_readnb, rio_readn
  <2>2. call'.got = <<>> /\ rio_cnt' = rio_cnt /\ call.op = "none"
    BY <2>1 DEF Ask, rio, Idle
  <2>3. rio_cnt' \in Nat
    BY <1>0, <2>2 DEF LinesAreOpen
  <2>4. QED  BY <2>2, <2>3, EmptySeq DEF LinesAreOpen
<1>3. ASSUME NEW k \in 1 .. Capacity, Refill(k) PROVE LinesAreOpen'
  BY <1>3, RioAssumption DEF Refill, LinesAreOpen
<1>4. ASSUME NEW k \in 1 .. Capacity, ReadOn(k) PROVE LinesAreOpen'
  <2>1. call.op = "unbuffered" /\ rio_cnt' = rio_cnt
    BY <1>4 DEF ReadOn, rio
  <2>2. call'.op # "line"
    <3>1. call' = Idle \/ call' = [call EXCEPT !.got = call.got \o First(channel, k)]
      BY <1>4 DEF ReadOn, Return
    <3>2. QED  BY <1>0, <2>1, <3>1, IdleTypes DEF TypeOK
  <2>3. QED  BY <1>0, <2>1, <2>2 DEF LinesAreOpen
<1>5. CASE Interrupted
  BY <1>5 DEF Interrupted, Refilling, LinesAreOpen
<1>6. CASE EndOfFile
  <2>1. call'.op = "none" /\ rio_cnt' \in Nat
    <3>1. call'.op = "none"
      BY <1>6 DEF EndOfFile, Return, Idle
    <3>2. rio_cnt' = 0 \/ (rio_cnt' = rio_cnt /\ call.op = "unbuffered")
      BY <1>6 DEF EndOfFile
    <3>3. QED  BY <1>0, <3>1, <3>2 DEF LinesAreOpen
  <2>2. QED  BY <1>0, <2>1 DEF LinesAreOpen
<1>7. CASE Fail
  BY <1>0, <1>7 DEF Fail, LinesAreOpen, TypeOK
<1>8. CASE CopyByte
  <2>1. rio_cnt' \in Nat
    BY <1>0, <1>8, OneMoreByte
  <2>2. CASE call' = Idle
    BY <2>1, <2>2 DEF Idle, LinesAreOpen
  <2>3. CASE call' # Idle
    <3>1. Copied(1) # <<NL>> /\ call' = [call EXCEPT !.got = call.got \o Copied(1)]
      BY <1>8, <2>3 DEF CopyByte, Return
    <3>2. Copied(1)[1] # NL
      BY <1>0, <1>8, <3>1, OneMoreByte, SingleByte
    <3>3. \A i \in 1 .. Len(call.got) + 1 : (call.got \o Copied(1))[i] # NL
      BY <1>0, <1>8, <3>2, OneMoreByte
    <3>4. call'.got = call.got \o Copied(1)
      BY <1>0, <3>1 DEF TypeOK
    <3>5. QED  BY <1>0, <1>8, <2>1, <3>3, <3>4, OneMoreByte DEF LinesAreOpen
  <2>4. QED  BY <2>2, <2>3
<1>9. CASE CopyBytes
  <2> DEFINE cnt == Lesser(call.n - Len(call.got), rio_cnt)
  <2>1. call.op = "bytes" /\ Len(call.got) \in Nat /\ call.n \in Int
    BY <1>0, <1>9, Parts DEF CopyBytes, TypeOK
  <2>2. rio_cnt' = rio_cnt - cnt /\ cnt <= rio_cnt
    BY <1>0, <1>9, <2>1 DEF CopyBytes, Advance, Lesser
  <2>3. cnt \in Int
    BY <1>0, <2>1 DEF Lesser
  <2>4. call'.op # "line"
    <3>1. call' = Idle \/ call' = [call EXCEPT !.got = call.got \o Copied(cnt)]
      BY <1>9 DEF CopyBytes, Return
    <3>2. QED  BY <1>0, <2>1, <3>1, IdleTypes DEF TypeOK
  <2> HIDE DEF cnt
  <2>5. QED  BY <1>0, <2>2, <2>3, <2>4 DEF LinesAreOpen
<1>10. QED
  BY <1>1, <1>2, <1>3, <1>4, <1>5, <1>6, <1>7, <1>8, <1>9
     DEF Next, Write, write, Close, Read, Copy, vars, rio

-------------------------------------------------------------------------------
(* The theorems. *)

LEMMA InitIInv == ASSUME Init PROVE IInv
<1>1. message \in Messages /\ message \in Seq(Bytes) /\ Len(message) \in Nat /\ nleft = Len(message)
  BY MessageIsSeq DEF Init
<1>2. /\ <<>> \in Seq(Bytes) /\ Len(<<>>) = 0 /\ call \in Calls /\ call.got = <<>> /\ call.op = "none"
      /\ result \in Results
  BY IdleTypes, EmptySeq, RioAssumption DEF Init, Results
<1>3. TypeOK
  BY <1>1, <1>2, RioAssumption DEF Init, TypeOK, Calls, Results
<1>4. CallsHaveRoom
  BY <1>2 DEF CallsHaveRoom
<1>5. InOrder
  <2>1. Unwritten = message
    <3>1. Unwritten = SubSeq(message, 1, Len(message))
      BY <1>1 DEF Unwritten, Rest
    <3>2. QED  BY <1>1, <3>1, SubSeqFull
  <2>2. Unread = <<>> /\ channel = <<>> /\ returned = <<>>
    BY DEF Init, Unread
  <2>3. <<>> \o <<>> = <<>> /\ <<>> \o message = message
    BY <1>1, <1>2, ConcatEmptySeq
  <2>4. QED  BY <1>2, <2>1, <2>2, <2>3 DEF InOrder
<1>6. QED  BY <1>3, <1>4, <1>5 DEF IInv

LEMMA NextIInv == ASSUME IInv, [Next]_vars PROVE IInv'
<1>1. CASE Close
  BY <1>1 DEF Close, rio, IInv, TypeOK, CallsHaveRoom, InOrder, Unread, Unwritten
<1>2. CASE UNCHANGED vars
  BY <1>2 DEF vars, writer, rio, IInv, TypeOK, CallsHaveRoom, InOrder, Unread, Unwritten
<1>3. CASE Write
  BY <1>3, WriteStep DEF Write
<1>4. CASE Call
  BY <1>4, AskStep DEF Call
<1>5. CASE Read
  BY <1>5, RefillStep, ReadOnStep DEF Read
<1>6. CASE Interrupted \/ Fail
  BY <1>6, NothingReadStep
<1>7. QED
  BY <1>1, <1>2, <1>3, <1>4, <1>5, <1>6, EndStep, CopyStep DEF Next

LEMMA Invariance == Spec => []IInv
<1>1. Init => IInv
  BY InitIInv
<1>2. IInv /\ [Next]_vars => IInv'
  BY NextIInv
<1>3. QED  BY <1>1, <1>2, PTL DEF Spec

LEMMA LinesInvariance == Spec => []LinesAreOpen
<1>1. Init => LinesAreOpen
  BY EmptySeq DEF Init, Idle, LinesAreOpen
<1>2. IInv /\ LinesAreOpen /\ [Next]_vars => LinesAreOpen'
  BY LinesStep
<1>3. QED  BY <1>1, <1>2, Invariance, PTL DEF Spec

\* What a call that comes back has returned.
WholeReturn ==
  call # Idle /\ call' = Idle =>
    /\ result'.ret = Len(result'.data)
    /\ IF call.op = "line"
       THEN WholeLine(result'.data, call.n)
       ELSE Len(result'.data) = call.n \/ (Len(result'.data) < call.n /\ AtEnd')

LEMMA ReturnStep ==
  ASSUME IInv, LinesAreOpen, [Next]_vars
  PROVE  WholeReturn
<1> SUFFICES ASSUME call # Idle, call' = Idle
             PROVE  /\ result'.ret = Len(result'.data)
                    /\ IF call.op = "line"
                       THEN WholeLine(result'.data, call.n)
                       ELSE Len(result'.data) = call.n \/ (Len(result'.data) < call.n /\ AtEnd')
  BY DEF WholeReturn
<1>0. /\ TypeOK /\ call.got \in Seq(Bytes) /\ Len(call.got) \in Nat /\ call.n \in Nat /\ rio_cnt \in Int
  BY Parts, RioAssumption, LenProperties DEF IInv, TypeOK
<1>1. CASE EndOfFile
  <2>1. result' = [ret |-> Len(call.got), data |-> call.got]
    BY <1>1 DEF EndOfFile, Return
  <2>2. AtEnd'
    <3>1. rio_cnt' = 0 \/ (rio_cnt' = rio_cnt /\ call.op = "unbuffered")
      BY <1>1 DEF EndOfFile
    <3>2. call.op = "unbuffered" => rio_cnt = 0
      BY <1>0 DEF IInv, CallsHaveRoom, LinesAreOpen
    <3>3. QED  BY <1>1, <3>1, <3>2 DEF EndOfFile, AtEnd, writer
  <2>3. call.op \in {"line", "bytes", "unbuffered"} /\ Len(call.got) < call.n
    <3>1. call.op \in {"line", "bytes", "unbuffered"}
      BY <1>1 DEF EndOfFile, Refilling
    <3>2. QED  BY <1>0, <3>1 DEF IInv, CallsHaveRoom
  <2>4. call.op = "line" => \A k \in 1 .. Len(call.got) - 1 : call.got[k] # NL
    BY <1>0 DEF LinesAreOpen
  <2>5. QED  BY <1>0, <2>1, <2>2, <2>3, <2>4 DEF WholeLine
<1>2. CASE CopyByte
  <2> DEFINE data == call.got \o Copied(1)
  <2>1. /\ result' = [ret |-> Len(data), data |-> data]
        /\ Copied(1) = <<NL>> \/ Len(data) = call.n - 1
        /\ call.op = "line"
    <3>1. call.op = "line"
      BY <1>2 DEF CopyByte
    <3>2. [call EXCEPT !.got = data].op = "line"
      BY <1>0, <3>1 DEF TypeOK
    <3>3. call' # [call EXCEPT !.got = data]
      BY <3>2, IdleTypes
    <3>4. QED  BY <1>2, <3>1, <3>3 DEF CopyByte, Return
  <2>2. /\ Len(data) = Len(call.got) + 1
        /\ \A i \in 1 .. Len(call.got) : data[i] # NL
        /\ data[Len(call.got) + 1] = Copied(1)[1]
    BY <1>0, <1>2, OneMoreByte
  <2>3. Len(call.got) + 1 < call.n
    BY <2>1 DEF IInv, CallsHaveRoom
  <2>4. Copied(1) = <<NL>> => data[Len(data)] = NL
    BY <2>2
  <2> HIDE DEF data
  <2>5. \A k \in 1 .. Len(data) - 1 : data[k] # NL
    BY <1>0, <2>2
  <2>6. Len(data) < call.n /\ data # <<>>
    BY <1>0, <2>2, <2>3, EmptySeq
  <2>7. result'.data = data /\ result'.ret = Len(data)
    BY <2>1
  <2>8. QED  BY <2>1, <2>4, <2>5, <2>6, <2>7 DEF WholeLine
<1>3. CASE CopyBytes
  <2>1. PICK data : /\ \/ Return(Len(data), data) /\ Len(data) = call.n
                       \/ call' = [call EXCEPT !.got = data]
                    /\ call.op = "bytes"
    BY <1>3 DEF CopyBytes
  <2>2. [call EXCEPT !.got = data].op = "bytes"
    BY <1>0, <2>1 DEF TypeOK
  <2>3. result' = [ret |-> Len(data), data |-> data] /\ Len(data) = call.n
    BY <2>1, <2>2, IdleTypes DEF Return
  <2>4. QED  BY <2>1, <2>3
<1>4. ASSUME NEW k \in 1 .. Capacity, ReadOn(k)
      PROVE  /\ result'.ret = Len(result'.data) /\ Len(result'.data) = call.n
             /\ call.op # "line"
  <2>1. PICK data : /\ \/ Return(Len(data), data) /\ Len(data) = call.n
                       \/ call' = [call EXCEPT !.got = data]
                    /\ call.op = "unbuffered"
    BY <1>4 DEF ReadOn
  <2>2. [call EXCEPT !.got = data].op = "unbuffered"
    BY <1>0, <2>1 DEF TypeOK
  <2>3. result' = [ret |-> Len(data), data |-> data] /\ Len(data) = call.n
    BY <2>1, <2>2, IdleTypes DEF Return
  <2>4. QED  BY <2>1, <2>3
<1>5. ~Call /\ ~Fail
  <2>1. ~Call
    BY DEF Call, rio_readlineb, rio_readnb, rio_readn, Ask
  <2>2. ~Fail
    <3>1. [call EXCEPT !.op = "exited"].op = "exited"
      BY <1>0 DEF TypeOK
    <3>2. QED  BY <3>1, IdleTypes DEF Fail
  <2>3. QED  BY <2>1, <2>2
<1>6. call' # call
  OBVIOUS
<1>7. QED
  BY <1>1, <1>2, <1>3, <1>4, <1>5, <1>6
     DEF Next, Write, write, Close, Read, Refill, Interrupted, Copy, vars

\* Every variable of the stream keeps its type; the buffer pointer and the
\* count of unread bytes stay inside the buffer, whatever its size.
THEOREM TypeCorrectness == Spec => []TypeOK
<1>1. IInv => TypeOK
  BY DEF IInv
<1>2. QED  BY <1>1, Invariance, PTL

\* No byte is lost, duplicated or reordered between rio_writen and the reads,
\* for messages, buffers, sockets and limits of any size.
THEOREM StreamIsKept == Spec => []InOrder
<1>1. IInv => InOrder
  BY DEF IInv
<1>2. QED  BY <1>1, Invariance, PTL

\* A line comes back whole and a block in its length, cut short only by the
\* caller's limit or by the end of the stream; 0 means the end and nothing else.
THEOREM CallsReturnWhole == Spec => ReturnsWhole
<1>1. ASSUME IInv, LinesAreOpen, [Next]_vars
      PROVE  [call # Idle /\ call' = Idle =>
               /\ result'.ret = Len(result'.data)
               /\ IF call.op = "line"
                  THEN WholeLine(result'.data, call.n)
                  ELSE Len(result'.data) = call.n
                         \/ (Len(result'.data) < call.n /\ AtEnd')]_vars
  BY <1>1, ReturnStep DEF WholeReturn
<1>2. QED  BY <1>1, Invariance, LinesInvariance, PTL DEF Spec, ReturnsWhole

-------------------------------------------------------------------------------
(* The walks over the addresses. *)

\* A list of addresses is a sequence.
LEMMA ListIsSeq == \A l \in Lists \union {<<>>} : Len(l) \in Nat /\ DOMAIN l = 1 .. Len(l)
                                                  /\ \A k \in DOMAIN l : l[k] \in Addresses
<1>1. SUFFICES ASSUME NEW n \in 1 .. MaxList, NEW l \in [1 .. n -> Addresses]
               PROVE  Len(l) \in Nat /\ DOMAIN l = 1 .. Len(l)
  BY EmptySeq DEF Lists
<1>2. n \in Nat
  BY SocketsAssumption
<1>3. l \in Seq(Addresses)
  BY <1>2, SeqDef
<1>4. QED  BY <1>3, LenProperties

Places == {"resolve", "socket", "connect", "bind", "close", "free", "listen", "accept",
           "connected", "error", "exited"}
Walking == {"socket", "connect", "bind", "close"}

Walks == [pc : Places, listp : Lists \union {<<>>}, p : Nat]

\* What is right of side sd with its walk w, n descriptors open and the addresses F
\* failed: the walk is at an address of its list, or past the last, those before did
\* not work, and one descriptor is open or none.
Right(sd, w, n, F) ==
  /\ w.pc = "connect" => sd = "client"
  /\ w.pc \in {"bind", "listen", "accept"} => sd = "server"
  /\ w.pc \in Walking => w.p \in 1 .. Len(w.listp)
  /\ w.pc = "free" => w.p \in 1 .. Len(w.listp) + 1
  /\ w.pc \in Walking \union {"free"} => \A k \in 1 .. w.p - 1 : w.listp[k] \in F
  /\ w.pc \in {"resolve", "socket", "error", "exited"} => n = 0
  /\ w.pc \in {"connect", "bind", "close", "listen", "accept"} => n = 1
  /\ w.pc = "free" => n = IF w.p <= Len(w.listp) THEN 1 ELSE 0

WalksOK ==
  /\ walk \in [Sides -> Walks] /\ fds \in [Sides -> Int] /\ failed \in [Sides -> SUBSET Addresses]
  /\ \A s \in Sides : Right(s, walk[s], fds[s], failed[s])

\* Side s has found an address that works.
Reached(s) == walk[s].pc = "free" /\ walk[s].p <= Len(walk[s].listp)

\* A walk that ends before the end of its list ends at the address the server is bound
\* to; a server that a client has reached waits for it, or is gone.
BoundOK ==
  /\ \A x, y \in bound : x = y
  /\ \A s \in Sides : Reached(s) => bound = {Address(s)}
  /\ Reached("client") => walk["server"].pc \in {"accept", "exited"}

SocketsOK == WalksOK /\ BoundOK

Others(s) == \A r \in Sides \ {s} : walk'[r] = walk[r] /\ fds'[r] = fds[r] /\ failed'[r] = failed[r]

\* A step of one side leaves the other as it is.
LEMMA OneSide ==
  ASSUME WalksOK, NEW s \in Sides, NEW w \in Walks, NEW n \in Int, NEW F \in SUBSET Addresses,
         walk' = [walk EXCEPT ![s] = w], fds' = [fds EXCEPT ![s] = n],
         failed' = [failed EXCEPT ![s] = F], Right(s, w, n, F)
  PROVE  WalksOK' /\ Others(s) /\ walk'[s] = w
<1>1. /\ walk' \in [Sides -> Walks] /\ fds' \in [Sides -> Int] /\ failed' \in [Sides -> SUBSET Addresses]
      /\ walk'[s] = w /\ fds'[s] = n /\ failed'[s] = F /\ Others(s)
  BY DEF WalksOK, Others
<1>2. \A r \in Sides : Right(r, walk'[r], fds'[r], failed'[r])
  BY <1>1 DEF WalksOK, Others
<1>3. QED  BY <1>1, <1>2 DEF WalksOK

\* What a step does that ends no walk at an address.
LEMMA BoundKept ==
  ASSUME BoundOK, NEW s \in Sides, Others(s), bound' = bound, ~Reached(s)',
         Reached("client") => s = "client" \/ walk'["server"].pc \in {"accept", "exited"}
  PROVE  BoundOK'
BY DEF BoundOK, Others, Reached, Address, Sides

\* The walks as records.
LEMMA WalkFields ==
  ASSUME WalksOK, NEW s \in Sides
  PROVE  /\ walk[s] \in Walks
         /\ walk[s].pc \in Places /\ walk[s].listp \in Lists \union {<<>>} /\ walk[s].p \in Nat
         /\ Len(walk[s].listp) \in Nat /\ DOMAIN walk[s].listp = 1 .. Len(walk[s].listp)
         /\ \A k \in DOMAIN walk[s].listp : walk[s].listp[k] \in Addresses
         /\ fds[s] \in Int /\ failed[s] \in SUBSET Addresses
         /\ Right(s, walk[s], fds[s], failed[s])
         /\ fds = [fds EXCEPT ![s] = fds[s]] /\ failed = [failed EXCEPT ![s] = failed[s]]
<1>1. walk[s] \in Walks /\ fds[s] \in Int /\ failed[s] \in SUBSET Addresses
      /\ Right(s, walk[s], fds[s], failed[s])
  BY DEF WalksOK
<1>2. fds = [fds EXCEPT ![s] = fds[s]] /\ failed = [failed EXCEPT ![s] = failed[s]]
  BY DEF WalksOK
<1>3. QED  BY <1>1, <1>2, ListIsSeq DEF Walks

LEMMA WalkUpdates ==
  ASSUME NEW w \in Walks, NEW place, NEW l
  PROVE  /\ [w EXCEPT !.pc = place] = [pc |-> place, listp |-> w.listp, p |-> w.p]
         /\ [w EXCEPT !.listp = l] = [pc |-> w.pc, listp |-> l, p |-> w.p]
         /\ [[w EXCEPT !.p = @ + 1] EXCEPT !.pc = place] =
              [pc |-> place, listp |-> w.listp, p |-> w.p + 1]
<1>1. ASSUME NEW a, NEW b, NEW x, NEW y
      PROVE  /\ [[pc |-> a, listp |-> b, p |-> x] EXCEPT !.pc = y] = [pc |-> y, listp |-> b, p |-> x]
             /\ [[pc |-> a, listp |-> b, p |-> x] EXCEPT !.listp = y] = [pc |-> a, listp |-> y, p |-> x]
             /\ [[pc |-> a, listp |-> b, p |-> x] EXCEPT !.p = y] = [pc |-> a, listp |-> b, p |-> y]
  OBVIOUS
<1>2. PICK a, b, x : w = [pc |-> a, listp |-> b, p |-> x]
  BY DEF Walks
<1>3. w.pc = a /\ w.listp = b /\ w.p = x
  BY <1>2
<1>4. [w EXCEPT !.pc = place] = [pc |-> place, listp |-> b, p |-> x]
  BY <1>1, <1>2
<1>5. [w EXCEPT !.listp = l] = [pc |-> a, listp |-> l, p |-> x]
  <2>1. [[pc |-> a, listp |-> b, p |-> x] EXCEPT !.listp = l] = [pc |-> a, listp |-> l, p |-> x]
    BY <1>1
  <2>2. QED  BY <1>2, <2>1, Zenon
<1> DEFINE v == [w EXCEPT !.p = @ + 1]
<1>6. v = [pc |-> a, listp |-> b, p |-> x + 1]
  BY <1>1, <1>2, <1>3
<1> HIDE DEF v
<1>7. [v EXCEPT !.pc = place] = [pc |-> place, listp |-> b, p |-> x + 1]
  BY <1>1, <1>6
<1>8. QED  BY <1>3, <1>4, <1>5, <1>7 DEF v

LEMMA GoesWalk ==
  ASSUME WalksOK, NEW s \in Sides, NEW place \in Places, Goes(s, place)
  PROVE  /\ walk' = [walk EXCEPT ![s] = [pc |-> place, listp |-> walk[s].listp, p |-> walk[s].p]]
         /\ [pc |-> place, listp |-> walk[s].listp, p |-> walk[s].p] \in Walks
<1>1. [walk[s] EXCEPT !.pc = place] = [pc |-> place, listp |-> walk[s].listp, p |-> walk[s].p]
  BY WalkFields, WalkUpdates
<1>2. walk' = [walk EXCEPT ![s] = [walk[s] EXCEPT !.pc = place]]
  BY DEF Goes
<1>3. QED  BY <1>1, <1>2, WalkFields DEF Walks

LEMMA NextAddressWalk ==
  ASSUME WalksOK, NEW s \in Sides, walk[s].pc \in Walking, NextAddress(s)
  PROVE  LET w == [pc |-> IF walk[s].p = Len(walk[s].listp) THEN "free" ELSE "socket",
                   listp |-> walk[s].listp, p |-> walk[s].p + 1]
             F == failed[s] \union {Address(s)}
         IN  /\ walk' = [walk EXCEPT ![s] = w] /\ w \in Walks
             /\ failed' = [failed EXCEPT ![s] = F] /\ F \in SUBSET Addresses
             /\ Right(s, w, 0, F)
<1> DEFINE place == IF walk[s].p = Len(walk[s].listp) THEN "free" ELSE "socket"
           w == [pc |-> place, listp |-> walk[s].listp, p |-> walk[s].p + 1]
           F == failed[s] \union {Address(s)}
<1>1. walk[s].p \in 1 .. Len(walk[s].listp)
      /\ \A k \in 1 .. walk[s].p - 1 : walk[s].listp[k] \in failed[s]
  BY WalkFields DEF Right
<1>2. Address(s) = walk[s].listp[walk[s].p] /\ Address(s) \in Addresses
  BY <1>1, WalkFields DEF Address
<1>3. walk' = [walk EXCEPT ![s] = w]
  <2>1. [[walk[s] EXCEPT !.p = @ + 1] EXCEPT !.pc = place] = w
    BY WalkFields, WalkUpdates
  <2>2. walk' = [walk EXCEPT ![s] = [[walk[s] EXCEPT !.p = @ + 1] EXCEPT !.pc = place]]
    BY DEF NextAddress, WalksOK
  <2> HIDE DEF w
  <2>3. QED  BY <2>1, <2>2
<1>4. failed' = [failed EXCEPT ![s] = F] /\ F \in SUBSET Addresses
  BY <1>2, WalkFields DEF NextAddress
<1>5. w \in Walks
  <2>1. walk[s].listp \in Lists \union {<<>>} /\ walk[s].p + 1 \in Nat /\ place \in Places
    BY WalkFields DEF Places
  <2> HIDE DEF place
  <2>2. QED  BY <2>1 DEF Walks
<1>6. \A k \in 1 .. w.p - 1 : w.listp[k] \in F
  BY <1>1, <1>2, WalkFields
<1>7. w.pc \in {"free", "socket"} /\ w.p \in 1 .. Len(w.listp) + 1
      /\ (w.pc = "socket" => w.p <= Len(w.listp)) /\ (w.pc = "free" => w.p = Len(w.listp) + 1)
  BY <1>1, WalkFields
<1> HIDE DEF w, F
<1>8. Right(s, w, 0, F)
  <2>1. w.p \in Nat /\ Len(w.listp) \in Nat
    BY <1>5, ListIsSeq DEF Walks
  <2>2. QED  BY <1>6, <1>7, <2>1 DEF Right, Walking
<1>9. QED  BY <1>3, <1>4, <1>5, <1>8 DEF w, F

\* The server is where no client can have reached it.
LEMMA NotReached ==
  ASSUME BoundOK, walk["server"].pc \notin {"accept", "exited"}
  PROVE  ~Reached("client")
BY DEF BoundOK

LEMMA BothSides == Sides = {"client", "server"}
BY DEF Sides

\* A step of side s to a place that is not the end of its walk.
LEMMA GoesOn ==
  ASSUME SocketsOK, NEW s \in Sides, NEW w \in Walks, NEW n \in Int, NEW F \in SUBSET Addresses,
         walk' = [walk EXCEPT ![s] = w], fds' = [fds EXCEPT ![s] = n],
         failed' = [failed EXCEPT ![s] = F], bound' = bound, Right(s, w, n, F),
         w.pc = "free" => w.p > Len(w.listp),
         s = "server" => walk["server"].pc \notin {"accept", "exited"} \/ w.pc \in {"accept", "exited"}
  PROVE  SocketsOK'
<1>1. WalksOK' /\ Others(s) /\ walk'[s] = w
  BY OneSide DEF SocketsOK
<1>2. ~Reached(s)'
  <2>1. w.p \in Nat /\ Len(w.listp) \in Nat
    BY ListIsSeq DEF Walks
  <2>2. QED  BY <1>1, <2>1 DEF Reached
<1>3. BoundOK'
  <2>1. CASE s = "client"
    BY <1>1, <1>2, <2>1, BoundKept DEF SocketsOK
  <2>2. CASE s = "server"
    BY <1>1, <1>2, <2>2, BoundKept, NotReached DEF SocketsOK
  <2>3. QED  BY <2>1, <2>2, BothSides
<1>4. QED  BY <1>1, <1>3 DEF SocketsOK

\* To the next address, with no descriptor open.
LEMMA NextAddressGoesOn ==
  ASSUME SocketsOK, NEW s \in Sides, walk[s].pc \in Walking, walk[s].pc # "connect",
         NextAddress(s), fds' = [fds EXCEPT ![s] = 0], bound' = bound
  PROVE  SocketsOK'
<1> DEFINE w == [pc |-> IF walk[s].p = Len(walk[s].listp) THEN "free" ELSE "socket",
                 listp |-> walk[s].listp, p |-> walk[s].p + 1]
           F == failed[s] \union {Address(s)}
<1>1. /\ WalksOK /\ walk' = [walk EXCEPT ![s] = w] /\ w \in Walks
      /\ failed' = [failed EXCEPT ![s] = F] /\ F \in SUBSET Addresses
      /\ Right(s, w, 0, F) /\ 0 \in Int
  <2>1. WalksOK /\ 0 \in Int
    BY DEF SocketsOK
  <2>2. QED  BY <2>1, NextAddressWalk
<1>2. w.pc = "free" => w.p > Len(w.listp)
  BY WalkFields DEF SocketsOK
<1>3. walk[s].pc \notin {"accept", "exited"}
  BY DEF Walking
<1> HIDE DEF w, F
<1>4. QED  BY <1>1, <1>2, <1>3, GoesOn

LEMMA getaddrinfoStep ==
  ASSUME SocketsOK, NEW s \in Sides, getaddrinfo(s)
  PROVE  SocketsOK'
<1>0. /\ WalksOK /\ walk[s].pc = "resolve" /\ fds[s] = 0 /\ 0 \in Int /\ bound' = bound
      /\ fds' = [fds EXCEPT ![s] = 0] /\ failed' = [failed EXCEPT ![s] = failed[s]]
      /\ failed[s] \in SUBSET Addresses
  BY WalkFields DEF SocketsOK, getaddrinfo, At, Right
<1>1. CASE Goes(s, "error")
  <2> DEFINE w == [pc |-> "error", listp |-> walk[s].listp, p |-> walk[s].p]
  <2>1. walk' = [walk EXCEPT ![s] = w] /\ w \in Walks
    BY <1>0, <1>1, GoesWalk DEF Places
  <2>2. Right(s, w, 0, failed[s]) /\ w.pc = "error"
    BY DEF Right, Walking
  <2> HIDE DEF w
  <2>3. QED  BY <1>0, <2>1, <2>2, GoesOn
<1>2. ASSUME NEW l \in Lists, walk' = [walk EXCEPT ![s] = [Walk("socket") EXCEPT !.listp = l]]
      PROVE  SocketsOK'
  <2> DEFINE w == [pc |-> "socket", listp |-> l, p |-> 1]
  <2>1. walk' = [walk EXCEPT ![s] = w]
    <3>1. Walk("socket") \in Walks
      BY DEF Walk, Walks, Places
    <3>2. [Walk("socket") EXCEPT !.listp = l] = w
      BY <3>1, WalkUpdates DEF Walk
    <3> HIDE DEF w
    <3>3. QED  BY <1>2, <3>2
  <2>2. w \in Walks
    BY DEF Walks, Places
  <2>3. 1 \in 1 .. Len(l)
    <3>1. Len(l) \in Nat /\ DOMAIN l = 1 .. Len(l)
      BY ListIsSeq
    <3>2. 1 \in DOMAIN l
      BY SocketsAssumption DEF Lists
    <3>3. QED  BY <3>1, <3>2
  <2>4. Right(s, w, 0, failed[s]) /\ w.pc = "socket"
    BY <2>3 DEF Right, Walking
  <2> HIDE DEF w
  <2>5. QED  BY <1>0, <2>1, <2>2, <2>4, GoesOn
<1>3. QED  BY <1>1, <1>2 DEF getaddrinfo

LEMMA socketStep ==
  ASSUME SocketsOK, NEW s \in Sides, socket(s)
  PROVE  SocketsOK'
<1>0. /\ WalksOK /\ walk[s].pc = "socket" /\ "socket" \in Walking /\ bound' = bound
      /\ fds[s] = 0 /\ 0 \in Int /\ walk[s].p \in 1 .. Len(walk[s].listp)
      /\ \A k \in 1 .. walk[s].p - 1 : walk[s].listp[k] \in failed[s]
      /\ fds = [fds EXCEPT ![s] = 0] /\ failed = [failed EXCEPT ![s] = failed[s]]
      /\ failed[s] \in SUBSET Addresses
  BY WalkFields DEF SocketsOK, socket, At, Right, Walking
<1>1. CASE NextAddress(s) /\ UNCHANGED fds
  BY <1>0, <1>1, NextAddressGoesOn
<1>2. CASE Goes(s, IF s = "client" THEN "connect" ELSE "bind") /\ Opened(s) /\ UNCHANGED failed
  <2> DEFINE place == IF s = "client" THEN "connect" ELSE "bind"
             w == [pc |-> place, listp |-> walk[s].listp, p |-> walk[s].p]
  <2>1. walk' = [walk EXCEPT ![s] = w] /\ w \in Walks
    BY <1>0, <1>2, GoesWalk DEF Places
  <2>2. fds' = [fds EXCEPT ![s] = 1]
    BY <1>0, <1>2 DEF Opened, WalksOK
  <2>3. Right(s, w, 1, failed[s]) /\ w.pc \in {"connect", "bind"}
    BY <1>0, BothSides DEF Right, Walking
  <2>4. s = "server" => walk["server"].pc \notin {"accept", "exited"}
    BY <1>0
  <2>5. failed' = [failed EXCEPT ![s] = failed[s]] /\ 1 \in Int
    BY <1>0, <1>2
  <2> HIDE DEF w
  <2>6. QED  BY <1>0, <2>1, <2>2, <2>3, <2>4, <2>5, GoesOn
<1>3. QED  BY <1>1, <1>2 DEF socket

LEMMA closeStep ==
  ASSUME SocketsOK, NEW s \in Sides, close(s)
  PROVE  SocketsOK'
<1>0. /\ WalksOK /\ walk[s].pc = "close" /\ "close" \in Walking /\ bound' = bound
      /\ fds[s] = 1 /\ 0 \in Int /\ failed = [failed EXCEPT ![s] = failed[s]]
      /\ failed[s] \in SUBSET Addresses
  <2>1. WalksOK /\ walk[s].pc = "close" /\ bound' = bound
    BY DEF SocketsOK, close, At
  <2>2. QED  BY <2>1, WalkFields DEF Right, Walking
<1>1. fds' = [fds EXCEPT ![s] = 0]
  BY <1>0 DEF close, Closed, WalksOK
<1>2. CASE NextAddress(s)
  BY <1>0, <1>1, <1>2, NextAddressGoesOn
<1>3. CASE Goes(s, "error") /\ UNCHANGED failed
  <2> DEFINE w == [pc |-> "error", listp |-> walk[s].listp, p |-> walk[s].p]
  <2>1. walk' = [walk EXCEPT ![s] = w] /\ w \in Walks
    BY <1>0, <1>3, GoesWalk DEF Places
  <2>2. Right(s, w, 0, failed[s]) /\ w.pc = "error"
    BY DEF Right, Walking
  <2> HIDE DEF w
  <2>3. QED  BY <1>0, <1>1, <1>3, <2>1, <2>2, GoesOn
<1>4. QED  BY <1>2, <1>3 DEF close

LEMMA freeaddrinfoStep ==
  ASSUME SocketsOK, NEW s \in Sides, freeaddrinfo(s)
  PROVE  SocketsOK'
<1>0. /\ WalksOK /\ walk[s].pc = "free" /\ bound' = bound /\ 0 \in Int /\ 1 \in Int
      /\ walk[s].p \in Nat /\ Len(walk[s].listp) \in Nat /\ failed[s] \in SUBSET Addresses
      /\ fds[s] = IF walk[s].p <= Len(walk[s].listp) THEN 1 ELSE 0
      /\ fds' = [fds EXCEPT ![s] = fds[s]] /\ failed = [failed EXCEPT ![s] = failed[s]]
  <2>1. WalksOK /\ walk[s].pc = "free" /\ bound' = bound /\ fds' = fds
    BY DEF SocketsOK, freeaddrinfo, At
  <2>2. QED  BY <2>1, WalkFields DEF Right
<1>1. CASE walk[s].p > Len(walk[s].listp)
  <2> DEFINE w == [pc |-> "error", listp |-> walk[s].listp, p |-> walk[s].p]
  <2>1. Goes(s, "error") /\ failed' = failed /\ fds[s] = 0
    BY <1>0, <1>1 DEF freeaddrinfo
  <2>2. walk' = [walk EXCEPT ![s] = w] /\ w \in Walks
    BY <1>0, <2>1, GoesWalk DEF Places
  <2>3. Right(s, w, 0, failed[s]) /\ w.pc = "error"
    BY DEF Right, Walking
  <2> HIDE DEF w
  <2>4. QED  BY <1>0, <2>1, <2>2, <2>3, GoesOn
<1>2. CASE ~(walk[s].p > Len(walk[s].listp))
  <2> DEFINE place == IF s = "client" THEN "connected" ELSE "listen"
             w == [pc |-> place, listp |-> <<>>, p |-> 1]
  <2>1. Ends(s, place) /\ fds[s] = 1
    BY <1>0, <1>2 DEF freeaddrinfo
  <2>2. walk' = [walk EXCEPT ![s] = w] /\ failed' = [failed EXCEPT ![s] = {}] /\ w \in Walks
    BY <2>1 DEF Ends, Walk, Walks, Places
  <2>3. Right(s, w, 1, {}) /\ w.pc \in {"connected", "listen"}
    BY BothSides DEF Right, Walking
  <2>4. s = "server" => walk["server"].pc \notin {"accept", "exited"}
    BY <1>0
  <2>5. fds' = [fds EXCEPT ![s] = 1] /\ {} \in SUBSET Addresses
    BY <1>0, <2>1
  <2> HIDE DEF w
  <2>6. QED  BY <1>0, <2>2, <2>3, <2>4, <2>5, GoesOn
<1>3. QED  BY <1>1, <1>2

\* The end of a walk at an address.
LEMMA ReachedStep ==
  ASSUME SocketsOK, NEW s \in Sides, walk[s].pc \in Walking, fds[s] = 1,
         Goes(s, "free"), UNCHANGED <<fds, failed>>, bound' = {Address(s)},
         \A r \in Sides \ {s} : ~Reached(r),
         s = "client" => walk["server"].pc = "accept"
  PROVE  SocketsOK'
<1> DEFINE w == [pc |-> "free", listp |-> walk[s].listp, p |-> walk[s].p]
<1>0. /\ WalksOK /\ walk[s].p \in 1 .. Len(walk[s].listp) /\ Len(walk[s].listp) \in Nat
      /\ \A k \in 1 .. walk[s].p - 1 : walk[s].listp[k] \in failed[s]
      /\ fds = [fds EXCEPT ![s] = 1] /\ failed = [failed EXCEPT ![s] = failed[s]] /\ 1 \in Int
      /\ failed[s] \in SUBSET Addresses
  BY WalkFields DEF SocketsOK, Right
<1>1. walk' = [walk EXCEPT ![s] = w] /\ w \in Walks
  BY <1>0, GoesWalk DEF Places
<1>2. Right(s, w, 1, failed[s])
  BY <1>0 DEF Right, Walking
<1>3. WalksOK' /\ Others(s) /\ walk'[s] = w
  <2> HIDE DEF w
  <2>1. QED  BY <1>0, <1>1, <1>2, OneSide
<1>4. Address(s)' = Address(s)
  BY <1>3 DEF Address
<1>5. \A r \in Sides \ {s} : ~Reached(r)'
  BY <1>3 DEF Others, Reached
<1>6. Reached("client")' => walk'["server"].pc = "accept"
  BY <1>3, <1>5, BothSides DEF Others
<1>7. BoundOK'
  BY <1>4, <1>5, <1>6 DEF BoundOK
<1>8. QED  BY <1>3, <1>7 DEF SocketsOK

LEMMA connectStep == ASSUME SocketsOK, connect PROVE SocketsOK'
<1> DEFINE s == "client"
<1>0. /\ WalksOK /\ s \in Sides /\ walk[s].pc = "connect" /\ bound' = bound
      /\ fds[s] = 1 /\ 1 \in Int /\ walk[s].p \in 1 .. Len(walk[s].listp)
      /\ \A k \in 1 .. walk[s].p - 1 : walk[s].listp[k] \in failed[s]
      /\ fds' = [fds EXCEPT ![s] = 1] /\ failed' = [failed EXCEPT ![s] = failed[s]]
      /\ failed[s] \in SUBSET Addresses /\ "connect" \in Walking
  BY WalkFields, BothSides DEF SocketsOK, connect, At, Right, Walking
<1>1. CASE At("server", "accept") /\ Address(s) \in bound
  <2>1. bound' = {Address(s)}
    BY <1>0, <1>1 DEF SocketsOK, BoundOK
  <2>2. Goes(s, "free") /\ UNCHANGED <<fds, failed>>
    BY <1>1 DEF connect
  <2>3. walk["server"].pc = "accept" /\ ~Reached("server")
    BY <1>1 DEF At, Reached
  <2>4. QED  BY <1>0, <2>1, <2>2, <2>3, ReachedStep, BothSides
<1>2. CASE ~(At("server", "accept") /\ Address(s) \in bound)
  <2> DEFINE w == [pc |-> "close", listp |-> walk[s].listp, p |-> walk[s].p]
  <2>1. Goes(s, "close")
    BY <1>2 DEF connect
  <2>2. walk' = [walk EXCEPT ![s] = w] /\ w \in Walks
    BY <1>0, <2>1, GoesWalk DEF Places
  <2>3. Right(s, w, 1, failed[s]) /\ w.pc = "close"
    BY <1>0 DEF Right, Walking
  <2> HIDE DEF w
  <2>4. QED  BY <1>0, <2>2, <2>3, GoesOn
<1>3. QED  BY <1>1, <1>2

LEMMA bindStep == ASSUME SocketsOK, bind PROVE SocketsOK'
<1> DEFINE s == "server"
<1>0. /\ WalksOK /\ s \in Sides /\ walk[s].pc = "bind"
      /\ fds[s] = 1 /\ 1 \in Int /\ walk[s].p \in 1 .. Len(walk[s].listp)
      /\ \A k \in 1 .. walk[s].p - 1 : walk[s].listp[k] \in failed[s]
      /\ fds' = [fds EXCEPT ![s] = 1] /\ failed' = [failed EXCEPT ![s] = failed[s]]
      /\ failed[s] \in SUBSET Addresses /\ "bind" \in Walking
  BY WalkFields, BothSides DEF SocketsOK, bind, At, Right, Walking
<1>1. CASE Goes(s, "close") /\ UNCHANGED bound
  <2> DEFINE w == [pc |-> "close", listp |-> walk[s].listp, p |-> walk[s].p]
  <2>1. walk' = [walk EXCEPT ![s] = w] /\ w \in Walks
    BY <1>0, <1>1, GoesWalk DEF Places
  <2>2. Right(s, w, 1, failed[s]) /\ w.pc = "close"
    BY <1>0 DEF Right, Walking
  <2> HIDE DEF w
  <2>3. QED  BY <1>0, <1>1, <2>1, <2>2, GoesOn
<1>2. CASE Goes(s, "free") /\ bound' = {Address(s)}
  <2>1. ~Reached("client")
    BY <1>0, NotReached DEF SocketsOK
  <2>2. UNCHANGED <<fds, failed>>
    BY DEF bind
  <2>3. QED  BY <1>0, <1>2, <2>1, <2>2, ReachedStep, BothSides
<1>3. QED  BY <1>1, <1>2 DEF bind

LEMMA listenStep == ASSUME SocketsOK, listen PROVE SocketsOK'
<1> DEFINE s == "server"
<1>0. /\ WalksOK /\ s \in Sides /\ walk[s].pc = "listen" /\ bound' = bound
      /\ fds[s] = 1 /\ 1 \in Int /\ 0 \in Int /\ failed' = [failed EXCEPT ![s] = failed[s]]
      /\ fds = [fds EXCEPT ![s] = 1] /\ failed[s] \in SUBSET Addresses
  BY WalkFields, BothSides DEF SocketsOK, listen, At, Right
<1>1. CASE Goes(s, "accept") /\ UNCHANGED fds
  <2> DEFINE w == [pc |-> "accept", listp |-> walk[s].listp, p |-> walk[s].p]
  <2>1. walk' = [walk EXCEPT ![s] = w] /\ w \in Walks
    BY <1>0, <1>1, GoesWalk DEF Places
  <2>2. Right(s, w, 1, failed[s]) /\ w.pc = "accept"
    BY DEF Right, Walking
  <2> HIDE DEF w
  <2>3. QED  BY <1>0, <1>1, <2>1, <2>2, GoesOn
<1>2. CASE Goes(s, "error") /\ Closed(s)
  <2> DEFINE w == [pc |-> "error", listp |-> walk[s].listp, p |-> walk[s].p]
  <2>1. walk' = [walk EXCEPT ![s] = w] /\ w \in Walks
    BY <1>0, <1>2, GoesWalk DEF Places
  <2>2. fds' = [fds EXCEPT ![s] = 0]
    BY <1>0, <1>2 DEF Closed, WalksOK
  <2>3. Right(s, w, 0, failed[s]) /\ w.pc = "error"
    BY DEF Right, Walking
  <2> HIDE DEF w
  <2>4. QED  BY <1>0, <2>1, <2>2, <2>3, GoesOn
<1>3. QED  BY <1>1, <1>2 DEF listen

LEMMA AcceptStep == ASSUME SocketsOK, Accept PROVE SocketsOK'
<1> DEFINE s == "server"
<1>0. /\ WalksOK /\ s \in Sides /\ walk[s].pc = "accept" /\ fds[s] = 1 /\ 0 \in Int /\ 2 \in Int
      /\ failed' = [failed EXCEPT ![s] = failed[s]] /\ failed[s] \in SUBSET Addresses
  BY WalkFields, BothSides DEF SocketsOK, Accept, At, Right
<1>1. CASE At("client", "connected") /\ Goes(s, "connected") /\ Opened(s) /\ bound' = {}
  <2> DEFINE w == [pc |-> "connected", listp |-> walk[s].listp, p |-> walk[s].p]
  <2>1. walk' = [walk EXCEPT ![s] = w] /\ w \in Walks
    BY <1>0, <1>1, GoesWalk DEF Places
  <2>2. fds' = [fds EXCEPT ![s] = 2]
    BY <1>0, <1>1 DEF Opened, WalksOK
  <2>3. Right(s, w, 2, failed[s]) /\ w.pc = "connected"
    BY DEF Right, Walking
  <2> HIDE DEF w, s
  <2>4. WalksOK' /\ Others(s) /\ walk'[s] = w
    <3> DEFINE n == 2
               F == failed[s]
    <3>1. /\ WalksOK /\ s \in Sides /\ w \in Walks /\ n \in Int /\ F \in SUBSET Addresses
          /\ walk' = [walk EXCEPT ![s] = w] /\ fds' = [fds EXCEPT ![s] = n]
          /\ failed' = [failed EXCEPT ![s] = F] /\ Right(s, w, n, F)
      BY <1>0, <2>1, <2>2, <2>3
    <3> HIDE DEF n, F
    <3>2. QED  BY <3>1, OneSide
  <2> USE DEF s
  <2>5. \A r \in Sides : ~Reached(r)'
    BY <1>1, <2>3, <2>4, BothSides DEF Others, Reached, At
  <2>6. BoundOK'
    BY <1>1, <2>5, BothSides DEF BoundOK
  <2>7. QED  BY <2>4, <2>6 DEF SocketsOK
<1>2. CASE Goes(s, "exited") /\ Closed(s) /\ UNCHANGED bound
  <2> DEFINE w == [pc |-> "exited", listp |-> walk[s].listp, p |-> walk[s].p]
  <2>1. walk' = [walk EXCEPT ![s] = w] /\ w \in Walks
    BY <1>0, <1>2, GoesWalk DEF Places
  <2>2. fds' = [fds EXCEPT ![s] = 0]
    BY <1>0, <1>2 DEF Closed, WalksOK
  <2>3. Right(s, w, 0, failed[s]) /\ w.pc = "exited"
    BY DEF Right, Walking
  <2> HIDE DEF w
  <2>4. QED  BY <1>0, <1>2, <2>1, <2>2, <2>3, GoesOn
<1>3. QED  BY <1>1, <1>2 DEF Accept

LEMMA ExitStep == ASSUME SocketsOK, NEW s \in Sides, Exit(s) PROVE SocketsOK'
<1> DEFINE w == [pc |-> "exited", listp |-> <<>>, p |-> 1]
<1>0. /\ WalksOK /\ walk[s].pc = "error" /\ bound' = bound
      /\ fds[s] = 0 /\ 0 \in Int /\ fds' = [fds EXCEPT ![s] = 0]
  BY WalkFields DEF SocketsOK, Exit, At, Right
<1>1. walk' = [walk EXCEPT ![s] = w] /\ failed' = [failed EXCEPT ![s] = {}] /\ w \in Walks
  BY DEF Exit, Ends, Walk, Walks, Places
<1>2. Right(s, w, 0, {}) /\ w.pc = "exited"
  BY DEF Right, Walking
<1>3. {} \in SUBSET Addresses
  OBVIOUS
<1> HIDE DEF w
<1>4. QED  BY <1>0, <1>1, <1>2, <1>3, GoesOn

LEMMA SocketsStep == ASSUME SocketsOK, [SocketsNext]_socketVars PROVE SocketsOK'
<1>1. CASE UNCHANGED socketVars
  BY <1>1 DEF socketVars, SocketsOK, WalksOK, BoundOK, Reached, Address
<1>2. QED
  BY <1>1, getaddrinfoStep, socketStep, closeStep, freeaddrinfoStep, ExitStep, connectStep, bindStep,
     listenStep, AcceptStep DEF SocketsNext

LEMMA SocketsStart == SocketsInit => SocketsOK
<1> SUFFICES ASSUME SocketsInit PROVE SocketsOK
  OBVIOUS
<1> DEFINE w == [pc |-> "resolve", listp |-> <<>>, p |-> 1]
<1>1. w \in Walks /\ w.pc = "resolve"
  BY DEF Walks, Places
<1>2. walk = [s \in Sides |-> w] /\ fds = [s \in Sides |-> 0] /\ failed = [s \in Sides |-> {}] /\ bound = {}
  BY DEF SocketsInit, Walk
<1> HIDE DEF w
<1>3. \A s \in Sides : Right(s, w, 0, {})
  BY <1>1 DEF Right, Walking
<1>4. WalksOK
  BY <1>1, <1>2, <1>3 DEF WalksOK
<1>5. \A s \in Sides : ~Reached(s)
  BY <1>1, <1>2 DEF Reached
<1>6. QED  BY <1>2, <1>4, <1>5, BothSides DEF SocketsOK, BoundOK

\* How a walk ends.
WalkEndsRight ==
  \A s \in Sides : At(s, "free") /\ ~At(s, "free")' =>
       LET l == walk[s].listp
       IN  IF At(s, "error")' THEN \A k \in DOMAIN l : l[k] \in failed[s]
           ELSE /\ \A k \in 1 .. walk[s].p - 1 : l[k] \in failed[s]
                /\ bound = {Address(s)}

\* Only freeaddrinfo leaves the end of a walk.
LEMMA OnlyFreeLeaves ==
  ASSUME WalksOK, SocketsNext, NEW s \in Sides, At(s, "free"), ~At(s, "free")'
  PROVE  freeaddrinfo(s)
<1>1. ASSUME NEW r \in Sides, getaddrinfo(r) \/ socket(r) \/ close(r) \/ Exit(r) PROVE r # s /\ walk'[s] = walk[s]
  <2>1. r # s
    BY <1>1 DEF getaddrinfo, socket, close, Exit, At
  <2>2. walk'[s] = walk[s]
    BY <1>1, <2>1 DEF getaddrinfo, socket, close, Exit, Goes, Ends, NextAddress, WalksOK
  <2>3. QED  BY <2>1, <2>2
<1>2. ASSUME connect \/ bind \/ listen \/ Accept PROVE walk'[s] = walk[s]
  BY <1>2 DEF connect, bind, listen, Accept, At, Goes, WalksOK
<1>3. ASSUME NEW r \in Sides, freeaddrinfo(r) PROVE r = s
  <2>1. r # s => walk'[s] = walk[s]
    BY <1>3 DEF freeaddrinfo, Goes, Ends, WalksOK
  <2>2. QED  BY <2>1 DEF At
<1>4. QED  BY <1>1, <1>2, <1>3 DEF SocketsNext, At

LEMMA WalkEnds == ASSUME SocketsOK, [SocketsNext]_socketVars PROVE WalkEndsRight
<1> SUFFICES ASSUME NEW s \in Sides, At(s, "free"), ~At(s, "free")'
             PROVE  LET l == walk[s].listp
                    IN  IF At(s, "error")' THEN \A k \in DOMAIN l : l[k] \in failed[s]
                        ELSE /\ \A k \in 1 .. walk[s].p - 1 : l[k] \in failed[s]
                             /\ bound = {Address(s)}
  BY DEF WalkEndsRight
<1>1. freeaddrinfo(s)
  BY OnlyFreeLeaves DEF SocketsOK, socketVars, At
<1>2. /\ WalksOK /\ Len(walk[s].listp) \in Nat /\ DOMAIN walk[s].listp = 1 .. Len(walk[s].listp)
      /\ walk[s].p \in Nat /\ \A k \in 1 .. walk[s].p - 1 : walk[s].listp[k] \in failed[s]
  BY WalkFields DEF SocketsOK, Right, At
<1>3. CASE walk[s].p > Len(walk[s].listp)
  <2>1. \A k \in DOMAIN walk[s].listp : walk[s].listp[k] \in failed[s]
    BY <1>2, <1>3
  <2>2. walk'[s].pc = "error"
    BY <1>1, <1>3 DEF freeaddrinfo, Goes, WalksOK, SocketsOK, Walks
  <2>3. QED  BY <2>1, <2>2 DEF At
<1>4. CASE ~(walk[s].p > Len(walk[s].listp))
  <2>1. bound = {Address(s)}
    BY <1>2, <1>4 DEF SocketsOK, BoundOK, Reached, At
  <2>2. walk'[s].pc # "error"
    <3>1. Ends(s, IF s = "client" THEN "connected" ELSE "listen")
      BY <1>1, <1>4 DEF freeaddrinfo
    <3>2. QED  BY <1>2, <3>1 DEF Ends, Walk, WalksOK
  <2>3. QED  BY <1>2, <2>1, <2>2 DEF At
<1>5. QED  BY <1>3, <1>4

LEMMA RightIsEnough == WalksOK => NothingIsLeftOpen
<1> SUFFICES ASSUME WalksOK, NEW s \in Sides
             PROVE  CASE walk[s].pc \in {"resolve", "socket", "error", "exited"} -> fds[s] = 0
                      [] walk[s].pc \in {"connect", "bind", "close", "listen", "accept"} -> fds[s] = 1
                      [] walk[s].pc = "free" ->
                           fds[s] = IF walk[s].p > Len(walk[s].listp) THEN 0 ELSE 1
                      [] OTHER -> TRUE
  BY DEF NothingIsLeftOpen
<1>1. walk[s].p \in Nat /\ Len(walk[s].listp) \in Nat /\ Right(s, walk[s], fds[s], failed[s])
  BY WalkFields
<1>2. /\ walk[s].pc \in {"resolve", "socket", "error", "exited"} => fds[s] = 0
      /\ walk[s].pc \in {"connect", "bind", "close", "listen", "accept"} => fds[s] = 1
      /\ walk[s].pc = "free" => fds[s] = IF walk[s].p > Len(walk[s].listp) THEN 0 ELSE 1
  BY <1>1 DEF Right
<1>3. CASE walk[s].pc \in {"resolve", "socket", "error", "exited"}
  BY <1>2, <1>3
<1>4. CASE walk[s].pc \in {"connect", "bind", "close", "listen", "accept"}
  BY <1>2, <1>4
<1>5. CASE walk[s].pc = "free"
  BY <1>2, <1>5
<1>6. CASE walk[s].pc \notin {"resolve", "socket", "error", "exited", "connect", "bind", "close",
                             "listen", "accept", "free"}
  BY <1>6
<1>7. QED  BY <1>3, <1>4, <1>5, <1>6

LEMMA SocketsInvariance == ConnectionSpec => []SocketsOK
<1>1. ConnectionInit => SocketsOK
  BY SocketsStart DEF ConnectionInit
<1>2. SocketsOK /\ [SetUp \/ On(Next)]_connectionVars => SocketsOK'
  BY SocketsStep DEF SetUp, On, connectionVars, socketVars
<1>3. QED  BY <1>1, <1>2, PTL DEF ConnectionSpec

\* open_clientfd and open_listenfd, whatever system call fails and at whatever address
\* of the list, leave one descriptor open if they succeed and none if they fail.
THEOREM WalksLeaveNothingOpen == ConnectionSpec => []NothingIsLeftOpen
<1>1. SocketsOK => NothingIsLeftOpen
  BY RightIsEnough DEF SocketsOK
<1>2. QED  BY <1>1, SocketsInvariance, PTL

\* They fail only when every address of the list has failed, and succeed with the first
\* that works: both ends of the connection are at the same address.
THEOREM WalksEndAtTheFirst == ConnectionSpec => WalksEndRight
<1>1. ASSUME SocketsOK, [SetUp \/ On(Next)]_connectionVars
      PROVE  [\A s \in Sides : At(s, "free") /\ ~At(s, "free")' =>
                LET l == walk[s].listp
                IN  IF At(s, "error")' THEN \A k \in DOMAIN l : l[k] \in failed[s]
                    ELSE /\ \A k \in 1 .. walk[s].p - 1 : l[k] \in failed[s]
                         /\ bound = {Address(s)}]_socketVars
  <2>1. WalkEndsRight
    BY <1>1, WalkEnds DEF SetUp, On, connectionVars, socketVars
  <2>2. QED  BY <2>1 DEF WalkEndsRight
<1>2. QED  BY <1>1, SocketsInvariance, PTL DEF ConnectionSpec, WalksEndRight

\* What is proved of Rio's stream holds of the stream over the connection.
THEOREM ConnectionRunsRio == ConnectionSpec => Spec
<1>1. ConnectionInit => Init
  BY DEF ConnectionInit
<1>2. [SetUp \/ On(Next)]_connectionVars => [Next]_vars
  BY DEF SetUp, On, connectionVars
<1>3. QED  BY <1>1, <1>2, PTL DEF ConnectionSpec, Spec
=================================================================================
