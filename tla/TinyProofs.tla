------------------------------- MODULE TinyProofs -------------------------------
(***************************************************************************)
(* What is proved of the Tiny server, for any clients, any header lines    *)
(* and any of the clients leaving: its types, and that every reply is the  *)
(* one its own request calls for.  The invariant follows the reply through *)
(* the places of the server: what has been written of it at each of them,  *)
(* and what is known there of the request.                                 *)
(***************************************************************************)
EXTENDS Tiny, SequenceTheorems, TLAPS

\* The server's connection is the one that is served, and nothing has been
\* written on one that has not been accepted.
ConnectionsOK ==
  \A c \in Clients : /\ conn[c] = "served" <=> c = cur
                     /\ conn[c] # "none" => ask[c] # <<>>
                     /\ conn[c] \in {"none", "waiting"} => reply[c] = <<>>

\* The first line to be read is the request line.
Unread(c)   == conn[c] = "waiting" \/ (c = cur /\ pc = "request")
RequestLine == \A c \in Clients : Unread(c) /\ lines[c] # <<>> => lines[c][1] = ask[c].method

\* What the server knows of the request it serves, and has written.
Nothing   == reply[cur] = <<>>
Begun     == reply[cur] = <<"200">>
Whole     == reply[cur] \in Replies(ask[cur])
Programs  == Dynamic \ {"not a program"}
ServedOK ==
  cur # Nobody /\ cur \notin left =>
    /\ pc \in {"request", "headers", "more headers", "uri", "501", "404", "403", "static", "dynamic"}
         => Nothing
    /\ pc = "501" => ask[cur].method = "HEAD"
    /\ pc \in {"headers", "more headers", "uri", "404", "403", "static", "dynamic", "open",
               "body", "fork", "wait"} => ask[cur].method = "GET"
    /\ pc = "404" => ask[cur].path = "missing" \/ (ask[cur].path = "page" /\ ~page)
    /\ pc = "403" => ask[cur].path \in {"private page", "not a program"}
    /\ pc \in {"static", "open"} => ask[cur].path \in {"page", "empty page"}
    /\ pc = "body" => ask[cur].path = "page"
    /\ pc \in {"dynamic", "fork", "wait"} => ask[cur].path \in Programs
    /\ pc \in {"open", "body", "fork"} => Begun
    /\ pc = "wait" => IF child = "ended" THEN Whole ELSE Begun
    /\ pc = "close" => Whole

IInv == TypeOK /\ ConnectionsOK /\ RequestLine /\ ServedOK /\ RepliesAreRight
-------------------------------------------------------------------------------

(* What is asked and sent. *)

LEMMA AskedFacts ==
  ASSUME NEW r \in Requests, NEW ls \in Seq(Lines)
  PROVE  Asked(r, ls) \in Asks /\ Asked(r, ls) # <<>> /\ Asked(r, ls).method = r.method
<1>1. r.via \in {"direct", "proxy"} /\ r.method \in {"GET", "HEAD"} /\ r.path \in Static \union Dynamic
  BY DEF Requests
<1>2. Asked(r, ls) \in Asks /\ Asked(r, ls).method = r.method
  BY <1>1 DEF Asked, Asks
<1>3. DOMAIN Asked(r, ls) = {"via", "method", "path", "whole"}
  BY DEF Asked
<1>4. DOMAIN <<>> = {}
  OBVIOUS
<1> QED
  BY <1>2, <1>3, <1>4

\* The first of several lines stays the first.
LEMMA FirstLine ==
  ASSUME NEW x \in Lines, NEW s \in Seq(Lines), NEW t \in Seq(Lines)
  PROVE  <<x>> \o s \o t \in Seq(Lines) /\ (<<x>> \o s \o t)[1] = x
<1>1. <<x>> \in Seq(Lines) /\ Len(<<x>>) = 1
  OBVIOUS
<1>2. <<x>> \o s \in Seq(Lines) /\ Len(<<x>> \o s) >= 1 /\ (<<x>> \o s)[1] = x
  BY <1>1, ConcatProperties, LenProperties
<1> QED
  BY <1>2, ConcatProperties, LenProperties

LEMMA LinesAreSequences ==
  /\ <<>> \in Seq(Lines) /\ <<"blank">> \in Seq(Lines)
  /\ <<"blank", "blank">> \in Seq(Lines) /\ <<"junk">> \in Seq(Lines)
  /\ <<"junk", "blank">> \in Seq(Lines)
<1>1. "blank" \in Lines /\ "junk" \in Lines
  BY DEF Lines
<1> QED
  BY <1>1

LEMMA HeaderSequences == ASSUME NEW s \in Seq(Headers) PROVE s \in Seq(Lines)
<1>1. Headers \subseteq Lines
  BY DEF Lines
<1>2. \A n \in 1 .. Len(s) : s[n] \in Lines
  BY <1>1, ElementOfSeq
<1> QED
  BY <1>2, IsASeq, LenProperties

LEMMA HeadersAreLines ==
  ASSUME NEW r \in Requests
  PROVE  r.headers \in Seq(Headers) /\ r.headers \in Seq(Lines)
<1>1. r.headers \in HeaderSets
  BY DEF Requests
<1>2. r.headers \in Seq(Headers)
  BY <1>1, TinyAssumption
<1> QED
  BY <1>2, HeaderSequences

\* What the client of the server sends begins with its method.
LEMMA DirectFacts ==
  ASSUME NEW r \in Requests
  PROVE  LET ls == <<r.method>> \o r.headers \o (IF r.ended THEN <<"blank">> ELSE <<>>)
         IN  ls \in Seq(Lines) /\ ls[1] = r.method
<1>1. r.method \in Lines
  BY DEF Requests, Lines
<1>2. (IF r.ended THEN <<"blank">> ELSE <<>>) \in Seq(Lines)
  BY LinesAreSequences
<1>3. ASSUME NEW t \in Seq(Lines)
      PROVE  /\ <<r.method>> \o r.headers \o t \in Seq(Lines)
             /\ (<<r.method>> \o r.headers \o t)[1] = r.method
  BY <1>1, HeadersAreLines, FirstLine
<1> QED
  BY <1>2, <1>3

\* The last header that is kept is one of the request's, or what the stack held.
LEMMA LastKeptFacts ==
  ASSUME NEW headers \in Seq(Headers), NEW left_ \in {"", "left over"}
  PROVE  LastKept(headers, left_) \in Headers \union {"", "left over"}
<1>1. CASE \E n \in DOMAIN headers : IsLast(headers, n)
  <2> DEFINE last == CHOOSE n \in DOMAIN headers : IsLast(headers, n)
  <2>1. last \in DOMAIN headers
    BY <1>1
  <2>2. headers[last] \in Headers
    <3> HIDE DEF last
    <3> QED
      BY <2>1, ElementOfSeq, LenProperties
  <2> QED
    BY <1>1, <2>2 DEF LastKept
<1>2. CASE ~ \E n \in DOMAIN headers : IsLast(headers, n)
  BY <1>2 DEF LastKept
<1> QED
  BY <1>1, <1>2

\* What the proxy sends is a GET request.
LEMMA ForwardedFacts ==
  ASSUME NEW r \in Requests, NEW stack \in Stacks
  PROVE  Forwarded(r, stack) \in Seq(Lines) /\ Forwarded(r, stack)[1] = "GET"
<1> DEFINE kept == LastKept(r.headers, stack.host_hdr)
           rest == <<IF kept = "" THEN "Host" ELSE kept, "Connection", "Proxy-Connection", "User-Agent">>
<1>1. stack.host_hdr \in {"", "left over"} /\ stack.other \in {"", "blank", "junk"}
  BY DEF Stacks
<1>2. kept \in Headers \union {"", "left over"}
  BY <1>1, HeadersAreLines, LastKeptFacts
<1>3. (IF kept = "" THEN "Host" ELSE kept) \in Lines
  BY <1>2 DEF Lines, Headers
<1>4. rest \in Seq(Lines)
  <2>1. "Connection" \in Lines /\ "Proxy-Connection" \in Lines /\ "User-Agent" \in Lines
    BY DEF Lines
  <2>2. \A x \in Lines : <<x, "Connection", "Proxy-Connection", "User-Agent">> \in Seq(Lines)
    BY <2>1
  <2> QED
    BY <1>3, <2>2
<1>5. Ending(r.ended, stack.other) \in Seq(Lines)
  <2>1. CASE stack.other = ""
    BY <2>1, LinesAreSequences DEF Ending
  <2>2. CASE stack.other = "blank"
    BY <2>2, LinesAreSequences DEF Ending
  <2>3. CASE stack.other = "junk"
    BY <2>3, LinesAreSequences DEF Ending
  <2> QED
    BY <1>1, <2>1, <2>2, <2>3
<1>6. "GET" \in Lines
  BY DEF Lines
<1>7. Forwarded(r, stack) = <<"GET">> \o rest \o Ending(r.ended, stack.other)
  BY DEF Forwarded, uri2req_header
<1> HIDE DEF rest
<1> QED
  BY <1>4, <1>5, <1>6, <1>7, FirstLine

-------------------------------------------------------------------------------
(* Types. *)

LEMMA SendsType ==
  ASSUME TypeOK, NEW c \in Clients, NEW r \in Requests, NEW ls \in Seq(Lines), Sends(c, r, ls)
  PROVE  TypeOK'
  BY AskedFacts DEF TypeOK, Sends

LEMMA ClientsType ==
  ASSUME TypeOK, NEW c \in Clients,
         Leave(c) \/ RemovePage \/ \E r \in Requests : Connect(c, r) \/ ConnectByProxy(c, r)
  PROVE  TypeOK'
<1>1. CASE Leave(c)
  BY <1>1 DEF TypeOK, Leave
<1>2. CASE RemovePage
  BY <1>2 DEF TypeOK, RemovePage
<1>3. ASSUME NEW r \in Requests, Connect(c, r) PROVE TypeOK'
  <2>1. <<>> \in Seq(Lines)
    OBVIOUS
  <2> QED
    BY <1>3, <2>1, DirectFacts, SendsType DEF Connect
<1>4. ASSUME NEW r \in Requests, ConnectByProxy(c, r) PROVE TypeOK'
  <2>1. CASE Resolves(r.form)
    BY <1>4, <2>1, ForwardedFacts, SendsType DEF ConnectByProxy
  <2>2. CASE ~Resolves(r.form)
    <3>1. Asked(r, <<>>) \in Asks
      BY AskedFacts, LinesAreSequences
    <3> QED
      BY <1>4, <2>2, <3>1 DEF ConnectByProxy, TypeOK
  <2> QED
    BY <2>1, <2>2
<1> QED
  BY <1>1, <1>2, <1>3, <1>4

\* A write adds a part, or ends the server.
LEMMA WriteType ==
  ASSUME TypeOK, NEW part \in Parts, NEW next, Write(part, next), cur # Nobody, child = "none",
         next \in {"close", "open", "fork"}
  PROVE  TypeOK'
<1>1. CASE Exit
  BY <1>1 DEF TypeOK, Exit
<1>2. CASE ~Exit
  <2>1. cur \in Clients /\ Append(reply[cur], part) \in Seq(Parts)
    BY AppendProperties DEF TypeOK
  <2>2. reply' \in [Clients -> Seq(Parts)]
    BY <1>2, <2>1 DEF Write, TypeOK
  <2> QED
    BY <1>2, <2>2 DEF Write, Goto, TypeOK
<1> QED
  BY <1>1, <1>2

LEMMA ServerType ==
  ASSUME TypeOK, Serve \/ ChildEnds
  PROVE  TypeOK'
<1>1. ASSUME NEW c \in Clients, Accept(c) PROVE TypeOK'
  BY <1>1, TinyAssumption DEF TypeOK, Accept, At, Goto
<1>2. CASE ReadFails
  BY <1>2 DEF TypeOK, ReadFails, Exit
<1>3. CASE ReadRequestLine
  <2>1. cur \in Clients
    BY <1>3 DEF ReadRequestLine, At, TypeOK
  <2>2. lines[cur] # <<>> => Tail(lines[cur]) \in Seq(Lines)
    BY <2>1, HeadTailProperties DEF TypeOK
  <2>3. lines' \in [Clients -> Seq(Lines)]
    BY <1>3, <2>1, <2>2 DEF ReadRequestLine, Available, TakeLine, TypeOK
  <2> QED
    BY <1>3, <2>1, <2>3, TinyAssumption DEF ReadRequestLine, At, Goto, TypeOK
<1>4. CASE read_requesthdrs
  <2>1. cur \in Clients
    BY <1>4 DEF read_requesthdrs, At, TypeOK
  <2>2. ASSUME NEW n \in DOMAIN lines[cur]
        PROVE  SubSeq(lines[cur], n + 1, Len(lines[cur])) \in Seq(Lines)
    <3>1. lines[cur] \in Seq(Lines)
      BY <2>1 DEF TypeOK
    <3> QED
      BY <3>1, SubSeqProperties
  <2>3. lines' \in [Clients -> Seq(Lines)]
    <3>1. \/ UNCHANGED lines
          \/ lines' = [lines EXCEPT ![cur] = <<>>]
          \/ \E n \in DOMAIN lines[cur] :
                lines' = [lines EXCEPT ![cur] = SubSeq(lines[cur], n + 1, Len(lines[cur]))]
      BY <1>4, <2>1 DEF read_requesthdrs, TypeOK
    <3> QED
      BY <2>1, <2>2, <3>1, LinesAreSequences DEF TypeOK
  <2>4. pc' \in {"uri", "more headers"}
    BY <1>4 DEF read_requesthdrs, Goto
  <2> QED
    BY <1>4, <2>1, <2>3, <2>4, TinyAssumption DEF read_requesthdrs, At, TypeOK
<1>5. CASE Stat
  <2>1. pc' \in {"404", "403", "static", "dynamic"}
    BY <1>5 DEF Stat, Goto
  <2> QED
    BY <1>5, <2>1, TinyAssumption DEF Stat, At, TypeOK
<1>6. CASE clienterror
  <2>1. pc \in {"501", "404", "403"} /\ pc \in Parts /\ cur # Nobody /\ child = "none" /\ Write(pc, "close")
    BY <1>6 DEF clienterror, TypeOK, Parts
  <2> QED
    BY <2>1, WriteType
<1>7. CASE SendStaticHeaders
  <2>1. cur # Nobody /\ child = "none" /\ Write("200", "open") /\ "200" \in Parts
    BY <1>7 DEF SendStaticHeaders, At, TypeOK, Parts
  <2> QED
    BY <2>1, WriteType
<1>8. CASE MapFile
  BY <1>8 DEF MapFile, At, Goto, Exit, TypeOK
<1>9. CASE SendBody
  <2>1. cur # Nobody /\ child = "none" /\ Write("page", "close") /\ "page" \in Parts
    BY <1>9 DEF SendBody, At, TypeOK, Parts
  <2> QED
    BY <2>1, WriteType
<1>10. CASE SendDynamicHeaders
  <2>1. cur # Nobody /\ child = "none" /\ Write("200", "fork") /\ "200" \in Parts
    BY <1>10 DEF SendDynamicHeaders, At, TypeOK, Parts
  <2> QED
    BY <2>1, WriteType
<1>11. CASE ForkChild
  BY <1>11 DEF ForkChild, At, Goto, Exit, TypeOK
<1>12. CASE WaitForChild
  BY <1>12 DEF WaitForChild, At, Goto, TypeOK
<1>13. CASE CloseConnection
  <2>1. cur \in Clients /\ <<>> \in Seq(Parts)
    BY <1>13 DEF CloseConnection, At, TypeOK
  <2>2. reply' \in [Clients -> Seq(Parts)]
    BY <1>13, <2>1 DEF CloseConnection, TypeOK
  <2> QED
    BY <1>13, <2>1, <2>2, TinyAssumption DEF CloseConnection, At, Goto, TypeOK
<1>14. CASE ChildEnds
  <2>1. cur \in Clients
    BY <1>14 DEF ChildEnds, TypeOK
  <2>2. Append(reply[cur], "sum") \in Seq(Parts)
    BY <2>1, AppendProperties DEF TypeOK, Parts
  <2>3. reply' \in [Clients -> Seq(Parts)]
    BY <1>14, <2>1, <2>2 DEF ChildEnds, TypeOK
  <2> QED
    BY <1>14, <2>3 DEF ChildEnds, TypeOK
<1> QED
  BY <1>1, <1>2, <1>3, <1>4, <1>5, <1>6, <1>7, <1>8, <1>9, <1>10, <1>11, <1>12, <1>13, <1>14
  DEF Serve

LEMMA InitType == Init => TypeOK
<1>1. <<>> \in Seq(Lines) /\ <<>> \in Seq(Parts)
  OBVIOUS
<1> QED
  BY <1>1, TinyAssumption DEF Init, TypeOK

LEMMA NextType == TypeOK /\ [Next]_vars => TypeOK'
<1> SUFFICES ASSUME TypeOK, [Next]_vars PROVE TypeOK'
  OBVIOUS
<1>1. CASE Next
  <2>1. CASE Serve \/ ChildEnds
    BY <2>1, ServerType
  <2>2. CASE RemovePage
    BY <2>2 DEF RemovePage, TypeOK
  <2>3. ASSUME NEW c \in Clients,
               Leave(c) \/ \E r \in Requests : Connect(c, r) \/ ConnectByProxy(c, r)
        PROVE  TypeOK'
    BY <2>3, ClientsType
  <2> QED
    BY <1>1, <2>1, <2>2, <2>3 DEF Next
<1>2. CASE UNCHANGED vars
  BY <1>2 DEF vars, TypeOK
<1> QED
  BY <1>1, <1>2

-------------------------------------------------------------------------------
(* Replies. *)

Rest == ConnectionsOK /\ RequestLine /\ ServedOK /\ RepliesAreRight

\* Nothing of what the invariant speaks of depends on the processes running.
LEMMA ExitKeeps == ASSUME IInv, Exit PROVE Rest'
<1> USE DEF Exit
<1>1. ConnectionsOK'
  BY DEF IInv, ConnectionsOK
<1>2. RequestLine'
  BY DEF IInv, RequestLine, Unread
<1>3. ServedOK'
  BY DEF IInv, ServedOK, Nothing, Begun, Whole, Replies
<1>4. RepliesAreRight'
  BY DEF IInv, RepliesAreRight, Replies
<1> QED
  BY <1>1, <1>2, <1>3, <1>4 DEF Rest

\* A step of the server that keeps its connection concerns only that one.
LEMMA ServerStep ==
  ASSUME IInv, cur \in Clients, UNCHANGED <<ask, conn, left, page, cur>>, pc' # "request",
         \A c \in Clients \ {cur} : reply'[c] = reply[c] /\ lines'[c] = lines[c],
         ServedOK'
  PROVE  Rest'
<1>1. ConnectionsOK'
  BY DEF IInv, ConnectionsOK
<1>2. RequestLine'
  BY DEF IInv, RequestLine, Unread, ConnectionsOK
<1>3. RepliesAreRight'
  BY DEF IInv, RepliesAreRight, Replies, ConnectionsOK
<1> QED
  BY <1>1, <1>2, <1>3 DEF Rest

\* In every state of a server that serves, what ServedOK says of it.
LEMMA Served ==
  ASSUME IInv, pc # "accept"
  PROVE  /\ cur \in Clients /\ cur # Nobody /\ conn[cur] = "served" /\ ask[cur] \in Asks
         /\ reply[cur] \in Seq(Parts) /\ lines[cur] \in Seq(Lines)
<1>1. cur \in Clients /\ cur # Nobody
  BY TinyAssumption DEF IInv, TypeOK
<1>2. conn[cur] = "served" /\ ask[cur] # <<>>
  BY <1>1 DEF IInv, ConnectionsOK
<1> QED
  BY <1>1, <1>2 DEF IInv, TypeOK

\* A write appends to the reply, unless its client has left.
LEMMA WriteStep ==
  ASSUME IInv, pc # "accept", NEW part \in Parts, NEW next, next # "request", Write(part, next),
         next # "accept",
         cur \notin left =>
           \/ next = "close" /\ Append(reply[cur], part) \in Replies(ask[cur])
           \/ /\ next \in {"open", "fork"} /\ Append(reply[cur], part) = <<"200">>
              /\ ask[cur].method = "GET"
              /\ next = "open" => ask[cur].path \in {"page", "empty page"}
              /\ next = "fork" => ask[cur].path \in Programs
  PROVE  Rest'
<1>1. CASE Exit
  BY <1>1, ExitKeeps
<1>2. CASE ~Exit
  <2>1. /\ pc' = next /\ UNCHANGED <<ask, conn, left, lines, cur, child, page, tiny, proxy>>
        /\ reply' = IF cur \in left THEN reply ELSE [reply EXCEPT ![cur] = Append(@, part)]
    BY <1>2 DEF Write, Goto
  <2>2. cur \notin left => reply'[cur] = Append(reply[cur], part)
    BY <2>1, Served DEF IInv, TypeOK
  <2>3. ASSUME NEW c \in Clients \ {cur} PROVE reply'[c] = reply[c]
    BY <2>1, <2>3 DEF IInv, TypeOK
  <2>4. ServedOK'
    <3> SUFFICES ASSUME cur \notin left PROVE ServedOK'
      BY <2>1 DEF ServedOK
    <3>1. CASE next = "close"
      <4>1. reply'[cur] \in Replies(ask[cur])
        BY <2>2, <3>1
      <4>2. Whole'
        BY <2>1, <4>1 DEF Whole, Replies
      <4> QED
        BY <2>1, <3>1, <4>2 DEF ServedOK
    <3>2. CASE next \in {"open", "fork"}
      <4>1. reply'[cur] = <<"200">>
        BY <2>2, <3>2
      <4> QED
        BY <2>1, <3>2, <4>1 DEF ServedOK, Begun
    <3> QED
      BY <3>1, <3>2
  <2> QED
    BY <2>1, <2>3, <2>4, Served, ServerStep
<1> QED
  BY <1>1, <1>2

\* The steps of the server that write nothing.
LEMMA QuietSteps ==
  ASSUME IInv, ReadFails \/ ReadRequestLine \/ read_requesthdrs \/ Stat \/ MapFile \/ ForkChild \/ WaitForChild
  PROVE  Rest'
<1>1. CASE ReadFails
  BY <1>1, ExitKeeps DEF ReadFails
<1>2. CASE ReadRequestLine
  <2>1. /\ pc = "request" /\ UNCHANGED <<ask, conn, left, reply, cur, child, page, tiny, proxy>>
        /\ \/ /\ lines[cur] # <<>> /\ lines' = [lines EXCEPT ![cur] = Tail(@)]
              /\ pc' = IF Head(lines[cur]) = "GET" THEN "headers" ELSE "501"
           \/ cur \in left /\ pc' = "close" /\ UNCHANGED lines
    BY <1>2 DEF ReadRequestLine, At, Goto, Available, EndOfStream, NextLine, TakeLine
  <2>2. cur \in Clients /\ cur # Nobody /\ ask[cur] \in Asks /\ lines[cur] \in Seq(Lines)
    BY <2>1, Served
  <2>3. \A c \in Clients \ {cur} : lines'[c] = lines[c]
    BY <2>1 DEF IInv, TypeOK
  <2>4. ServedOK'
    <3> SUFFICES ASSUME cur \notin left PROVE ServedOK'
      BY <2>1 DEF ServedOK
    <3>1. reply[cur] = <<>>
      BY <2>1, <2>2 DEF IInv, ServedOK, Nothing
    <3>2. lines[cur] # <<>> /\ Head(lines[cur]) = ask[cur].method
      BY <2>1, <2>2 DEF IInv, RequestLine, Unread
    <3>3. ask[cur].method \in {"GET", "HEAD"}
      BY <2>2 DEF Asks
    <3>4. \/ pc' = "headers" /\ ask[cur].method = "GET"
          \/ pc' = "501" /\ ask[cur].method = "HEAD"
      BY <2>1, <3>2, <3>3
    <3> QED
      BY <2>1, <3>1, <3>4 DEF ServedOK, Nothing
  <2>5. pc' # "request"
    BY <2>1
  <2> QED
    BY <2>1, <2>2, <2>3, <2>4, <2>5, ServerStep
<1>3. CASE read_requesthdrs
  <2>1. /\ pc = "headers" /\ pc' \in {"uri", "more headers"}
        /\ UNCHANGED <<ask, conn, left, reply, cur, child, page, tiny, proxy>>
    BY <1>3 DEF read_requesthdrs, At, Goto
  <2>2. cur \in Clients /\ cur # Nobody
    BY <2>1, Served
  <2>3. \A c \in Clients \ {cur} : lines'[c] = lines[c]
    BY <1>3 DEF IInv, TypeOK, read_requesthdrs
  <2>4. ServedOK'
    BY <2>1, <2>2 DEF IInv, ServedOK, Nothing
  <2> QED
    BY <2>1, <2>2, <2>3, <2>4, ServerStep
<1>4. CASE Stat
  <2>1. /\ pc = "uri" /\ UNCHANGED <<ask, conn, left, lines, reply, cur, child, page, tiny, proxy>>
        /\ LET path == ask[cur].path
           IN  pc' = CASE path = "missing" \/ (path = "page" /\ ~page) -> "404"
                       [] path \in {"private page", "not a program"}   -> "403"
                       [] path = "empty page" \/ (path = "page" /\ page) -> "static"
                       [] OTHER                                        -> "dynamic"
    BY <1>4 DEF Stat, At, Goto
  <2>2. cur \in Clients /\ cur # Nobody /\ ask[cur].path \in Static \union Dynamic
    BY <2>1, Served DEF Asks
  <2>3. \/ pc' = "404" /\ (ask[cur].path = "missing" \/ (ask[cur].path = "page" /\ ~page))
        \/ pc' = "403" /\ ask[cur].path \in {"private page", "not a program"}
        \/ pc' = "static" /\ ask[cur].path \in {"page", "empty page"}
        \/ pc' = "dynamic" /\ ask[cur].path \in Programs
    <3> DEFINE path == ask[cur].path
    <3>1. CASE path = "missing" \/ (path = "page" /\ ~page)
      BY <2>1, <3>1
    <3>2. CASE path \in {"private page", "not a program"}
      BY <2>1, <3>2
    <3>3. CASE path = "empty page" \/ (path = "page" /\ page)
      BY <2>1, <3>3
    <3>4. CASE path \in {"adder", "adder without &", "endless program"}
      BY <2>1, <3>4 DEF Programs, Dynamic
    <3> QED
      BY <2>2, <3>1, <3>2, <3>3, <3>4 DEF Static, Dynamic
  <2>4. ServedOK'
    BY <2>1, <2>2, <2>3 DEF IInv, ServedOK, Nothing
  <2>5. pc' # "request"
    BY <2>3
  <2> QED
    BY <2>1, <2>2, <2>4, <2>5, ServerStep
<1>5. CASE MapFile
  <2>1. CASE Exit
    BY <2>1, ExitKeeps
  <2>2. CASE ~Exit
    <3>1. /\ pc = "open" /\ pc' = "body" /\ ask[cur].path # "empty page"
          /\ UNCHANGED <<ask, conn, left, lines, reply, cur, child, page, tiny, proxy>>
      BY <1>5, <2>2 DEF MapFile, At, Goto
    <3>2. cur \in Clients /\ cur # Nobody
      BY <3>1, Served
    <3>3. ServedOK'
      BY <3>1, <3>2 DEF IInv, ServedOK, Begun
    <3> QED
      BY <3>1, <3>2, <3>3, ServerStep
  <2> QED
    BY <2>1, <2>2
<1>6. CASE ForkChild
  <2>1. CASE Exit
    BY <2>1, ExitKeeps
  <2>2. CASE ~Exit
    <3>1. /\ pc = "fork" /\ pc' = "wait" /\ child' = "running"
          /\ UNCHANGED <<ask, conn, left, lines, reply, cur, page, tiny, proxy>>
      BY <1>6, <2>2 DEF ForkChild, At, Goto
    <3>2. cur \in Clients /\ cur # Nobody
      BY <3>1, Served
    <3>3. ServedOK'
      BY <3>1, <3>2 DEF IInv, ServedOK, Begun
    <3> QED
      BY <3>1, <3>2, <3>3, ServerStep
  <2> QED
    BY <2>1, <2>2
<1>7. CASE WaitForChild
  <2>1. /\ pc = "wait" /\ child = "ended" /\ pc' = "close" /\ child' = "none"
        /\ UNCHANGED <<ask, conn, left, lines, reply, cur, page, tiny, proxy>>
    BY <1>7 DEF WaitForChild, At, Goto
  <2>2. cur \in Clients /\ cur # Nobody
    BY <2>1, Served
  <2>3. ServedOK'
    BY <2>1, <2>2 DEF IInv, ServedOK, Whole, Replies
  <2> QED
    BY <2>1, <2>2, <2>3, ServerStep
<1> QED
  BY <1>1, <1>2, <1>3, <1>4, <1>5, <1>6, <1>7

LEMMA Parts1 == ASSUME NEW x \in Parts PROVE Append(<<>>, x) = <<x>>
  OBVIOUS

LEMMA Parts2 == ASSUME NEW x \in Parts PROVE Append(<<"200">>, x) = <<"200", x>>
<1> DEFINE s == Append(<<"200">>, x)
           t == <<"200", x>>
<1>1. "200" \in Parts
  BY DEF Parts
<1>2. <<"200">> \in Seq(Parts) /\ Len(<<"200">>) = 1 /\ <<"200">>[1] = "200"
  BY <1>1
<1>3. s \in Seq(Parts) /\ Len(s) = 2 /\ s[1] = "200" /\ s[2] = x
  BY <1>2, AppendProperties
<1>4. t \in Seq(Parts) /\ Len(t) = 2 /\ t[1] = "200" /\ t[2] = x
  BY <1>1
<1> HIDE DEF s, t
<1>5. s = t
  BY <1>3, <1>4, SeqEqual
<1> QED
  BY <1>5 DEF s, t

\* The steps that write a part of the reply.
LEMMA WritingSteps ==
  ASSUME IInv, clienterror \/ SendStaticHeaders \/ SendBody \/ SendDynamicHeaders
  PROVE  Rest'
<1>1. ASSUME NEW x \in Parts
      PROVE  Append(<<>>, x) = <<x>> /\ Append(<<"200">>, x) = <<"200", x>>
  BY Parts1, Parts2
<1>2. CASE clienterror
  <2>1. pc \in {"501", "404", "403"} /\ pc \in Parts /\ Write(pc, "close")
    BY <1>2 DEF clienterror, Parts
  <2>2. cur \in Clients /\ cur # Nobody
    BY <2>1, Served
  <2>3. ASSUME cur \notin left PROVE Append(reply[cur], pc) \in Replies(ask[cur])
    <3>1. reply[cur] = <<>>
      BY <2>1, <2>2, <2>3 DEF IInv, ServedOK, Nothing
    <3>2. CASE pc = "501"
      <4>1. ask[cur].method = "HEAD"
        BY <2>2, <2>3, <3>2 DEF IInv, ServedOK
      <4> QED
        BY <1>1, <2>1, <3>1, <3>2, <4>1 DEF Replies
    <3>3. CASE pc = "404"
      <4>1. ask[cur].method = "GET" /\ (ask[cur].path = "missing" \/ (ask[cur].path = "page" /\ ~page))
        BY <2>2, <2>3, <3>3 DEF IInv, ServedOK
      <4> QED
        BY <1>1, <2>1, <3>1, <3>3, <4>1 DEF Replies
    <3>4. CASE pc = "403"
      <4>1. ask[cur].method = "GET" /\ ask[cur].path \in {"private page", "not a program"}
        BY <2>2, <2>3, <3>4 DEF IInv, ServedOK
      <4> QED
        BY <1>1, <2>1, <3>1, <3>4, <4>1 DEF Replies
    <3> QED
      BY <2>1, <3>2, <3>3, <3>4
  <2> QED
    BY <2>1, <2>3, WriteStep
<1>3. CASE SendStaticHeaders
  <2>1. pc = "static" /\ Write("200", "open") /\ "200" \in Parts
    BY <1>3 DEF SendStaticHeaders, At, Parts
  <2>2. cur \in Clients /\ cur # Nobody
    BY <2>1, Served
  <2>3. ASSUME cur \notin left
        PROVE  /\ Append(reply[cur], "200") = <<"200">> /\ ask[cur].method = "GET"
               /\ ask[cur].path \in {"page", "empty page"}
    BY <1>1, <2>1, <2>2, <2>3 DEF IInv, ServedOK, Nothing
  <2> QED
    BY <2>1, <2>3, WriteStep
<1>4. CASE SendDynamicHeaders
  <2>1. pc = "dynamic" /\ Write("200", "fork") /\ "200" \in Parts
    BY <1>4 DEF SendDynamicHeaders, At, Parts
  <2>2. cur \in Clients /\ cur # Nobody
    BY <2>1, Served
  <2>3. ASSUME cur \notin left
        PROVE  /\ Append(reply[cur], "200") = <<"200">> /\ ask[cur].method = "GET"
               /\ ask[cur].path \in Programs
    BY <1>1, <2>1, <2>2, <2>3 DEF IInv, ServedOK, Nothing
  <2> QED
    BY <2>1, <2>3, WriteStep
<1>5. CASE SendBody
  <2>1. pc = "body" /\ Write("page", "close") /\ "page" \in Parts
    BY <1>5 DEF SendBody, At, Parts
  <2>2. cur \in Clients /\ cur # Nobody
    BY <2>1, Served
  <2>3. ASSUME cur \notin left PROVE Append(reply[cur], "page") \in Replies(ask[cur])
    <3>1. reply[cur] = <<"200">> /\ ask[cur].method = "GET" /\ ask[cur].path = "page"
      BY <2>1, <2>2, <2>3 DEF IInv, ServedOK, Begun
    <3> QED
      BY <1>1, <2>1, <3>1 DEF Replies
  <2> QED
    BY <2>1, <2>3, WriteStep
<1> QED
  BY <1>2, <1>3, <1>4, <1>5

\* The program's output completes the reply of a request for it.
LEMMA ChildStep == ASSUME IInv, ChildEnds PROVE Rest'
<1>1. /\ child = "running" /\ ask[cur].path # "endless program" /\ child' = "ended"
      /\ reply' = IF ask[cur].path = "adder" /\ cur \notin left
                  THEN [reply EXCEPT ![cur] = Append(@, "sum")] ELSE reply
      /\ UNCHANGED <<ask, conn, left, lines, pc, cur, page, tiny, proxy>>
  BY DEF ChildEnds
<1>2. pc = "wait"
  BY <1>1 DEF IInv, TypeOK
<1>3. cur \in Clients /\ cur # Nobody /\ ask[cur] \in Asks
  BY <1>2, Served
<1>4. \A c \in Clients \ {cur} : reply'[c] = reply[c]
  BY <1>1 DEF IInv, TypeOK
<1>5. ServedOK'
  <2> SUFFICES ASSUME cur \notin left PROVE ServedOK'
    BY <1>1 DEF ServedOK
  <2>1. reply[cur] = <<"200">> /\ ask[cur].method = "GET" /\ ask[cur].path \in {"adder", "adder without &"}
    BY <1>1, <1>2, <1>3 DEF IInv, ServedOK, Begun, Programs, Dynamic
  <2>2. CASE ask[cur].path = "adder"
    <3>1. reply'[cur] = <<"200", "sum">>
      <4>1. Append(<<"200">>, "sum") = <<"200", "sum">>
        BY Parts2 DEF Parts
      <4> QED
        BY <1>1, <1>3, <2>1, <2>2, <4>1 DEF IInv, TypeOK
    <3>2. reply'[cur] \in Replies(ask[cur])
      BY <2>1, <2>2, <3>1 DEF Replies
    <3>3. Whole'
      BY <1>1, <3>2 DEF Whole, Replies
    <3> QED
      BY <1>1, <1>2, <2>1, <2>2, <3>3 DEF ServedOK, Programs, Dynamic
  <2>3. CASE ask[cur].path = "adder without &"
    <3>1. reply'[cur] = <<"200">>
      BY <1>1, <1>3, <2>1, <2>3 DEF IInv, TypeOK
    <3>2. reply'[cur] \in Replies(ask[cur])
      BY <2>1, <2>3, <3>1 DEF Replies
    <3>3. Whole'
      BY <1>1, <3>2 DEF Whole, Replies
    <3> QED
      BY <1>1, <1>2, <2>1, <2>3, <3>3 DEF ServedOK, Programs, Dynamic
  <2> QED
    BY <2>1, <2>2, <2>3
<1> QED
  BY <1>1, <1>2, <1>3, <1>4, <1>5, ServerStep

\* A request sent, or lost with the proxy: nothing of it is served yet.
LEMMA SendsStep ==
  ASSUME IInv, NEW c \in Clients, ask[c] = <<>>, NEW r \in Requests, NEW ls \in Seq(Lines),
         Sends(c, r, ls), ls # <<>> => ls[1] = r.method
  PROVE  Rest'
<1>1. /\ ask' = [ask EXCEPT ![c] = Asked(r, ls)]
      /\ conn' = [conn EXCEPT ![c] = "waiting"] /\ lines' = [lines EXCEPT ![c] = ls]
      /\ UNCHANGED <<left, reply, pc, cur, child, page, tiny, proxy>>
  BY DEF Sends
<1>2. conn[c] = "none" /\ c # cur /\ reply[c] = <<>>
  BY DEF IInv, TypeOK, ConnectionsOK
<1>3. /\ conn'[c] = "waiting" /\ lines'[c] = ls
      /\ ask'[c] # <<>> /\ ask'[c].method = r.method
      /\ \A d \in Clients \ {c} : ask'[d] = ask[d] /\ conn'[d] = conn[d] /\ lines'[d] = lines[d]
  BY <1>1, AskedFacts DEF IInv, TypeOK
<1>4. ConnectionsOK'
  BY <1>1, <1>2, <1>3 DEF IInv, ConnectionsOK
<1>5. RequestLine'
  BY <1>1, <1>2, <1>3 DEF IInv, RequestLine, Unread
<1>6. ServedOK'
  <2>1. cur # Nobody => cur \in Clients /\ ask'[cur] = ask[cur]
    BY <1>2, <1>3 DEF IInv, TypeOK
  <2> QED
    BY <1>1, <2>1 DEF IInv, ServedOK, Nothing, Begun, Whole, Replies
<1>7. RepliesAreRight'
  BY <1>1, <1>2, <1>3 DEF IInv, RepliesAreRight, Replies
<1> QED
  BY <1>4, <1>5, <1>6, <1>7 DEF Rest

LEMMA ClientSteps ==
  ASSUME IInv, NEW c \in Clients,
         Leave(c) \/ \E r \in Requests : Connect(c, r) \/ ConnectByProxy(c, r)
  PROVE  Rest'
<1>1. CASE Leave(c)
  <2>1. /\ left' = left \union {c}
        /\ UNCHANGED <<ask, conn, lines, reply, pc, cur, child, page, tiny, proxy>>
    BY <1>1 DEF Leave
  <2>2. ConnectionsOK' /\ RequestLine'
    BY <2>1 DEF IInv, ConnectionsOK, RequestLine, Unread
  <2>3. ServedOK'
    BY <2>1 DEF IInv, ServedOK, Nothing, Begun, Whole, Replies
  <2>4. RepliesAreRight'
    BY <2>1 DEF IInv, RepliesAreRight, Replies
  <2> QED
    BY <2>2, <2>3, <2>4 DEF Rest
<1>2. ASSUME NEW r \in Requests, Connect(c, r) PROVE Rest'
  <2>1. ask[c] = <<>>
    BY <1>2 DEF Connect
  <2>2. CASE Sends(c, r, <<>>)
    BY <2>1, <2>2, SendsStep, LinesAreSequences
  <2>3. CASE Sends(c, r, <<r.method>> \o r.headers \o (IF r.ended THEN <<"blank">> ELSE <<>>))
    BY <2>1, <2>3, SendsStep, DirectFacts
  <2> QED
    BY <1>2, <2>2, <2>3 DEF Connect
<1>3. ASSUME NEW r \in Requests, ConnectByProxy(c, r) PROVE Rest'
  <2>1. ask[c] = <<>> /\ r.method = "GET"
    BY <1>3 DEF ConnectByProxy, Requests
  <2>2. CASE Resolves(r.form)
    <3>1. PICK stack \in Stacks : Sends(c, r, Forwarded(r, stack))
      BY <1>3, <2>2 DEF ConnectByProxy
    <3> QED
      BY <2>1, <3>1, SendsStep, ForwardedFacts
  <2>3. CASE ~Resolves(r.form)
    <3>1. /\ ask' = [ask EXCEPT ![c] = Asked(r, <<>>)]
          /\ left \subseteq left'
          /\ UNCHANGED <<conn, lines, reply, pc, cur, child, page, tiny>>
      BY <1>3, <2>3 DEF ConnectByProxy
    <3>2. conn[c] = "none" /\ c # cur
      BY <2>1 DEF IInv, TypeOK, ConnectionsOK
    <3>3. ask'[c] # <<>> /\ \A d \in Clients \ {c} : ask'[d] = ask[d]
      BY <3>1, AskedFacts, LinesAreSequences DEF IInv, TypeOK
    <3>4. ConnectionsOK'
      BY <3>1, <3>2, <3>3 DEF IInv, ConnectionsOK
    <3>5. RequestLine'
      BY <3>1, <3>2, <3>3 DEF IInv, RequestLine, Unread
    <3>6. ServedOK'
      <4>1. cur # Nobody => cur \in Clients /\ ask'[cur] = ask[cur]
        BY <3>2, <3>3 DEF IInv, TypeOK
      <4> QED
        BY <3>1, <4>1 DEF IInv, ServedOK, Nothing, Begun, Whole, Replies
    <3>7. RepliesAreRight'
      BY <3>1, <3>2, <3>3 DEF IInv, RepliesAreRight, Replies
    <3> QED
      BY <3>4, <3>5, <3>6, <3>7 DEF Rest
  <2> QED
    BY <2>2, <2>3
<1> QED
  BY <1>1, <1>2, <1>3

\* Once the file has gone, a 404 is right for a request for it too.
LEMMA RemoveStep == ASSUME IInv, RemovePage PROVE Rest'
<1>1. page' = FALSE /\ UNCHANGED <<ask, conn, left, lines, reply, pc, cur, child, tiny, proxy>>
  BY DEF RemovePage
<1>2. ASSUME NEW r, NEW x \in Replies(r) PROVE x \in Replies(r)'
  BY <1>1, <1>2 DEF Replies
<1>3. ConnectionsOK' /\ RequestLine'
  BY <1>1 DEF IInv, ConnectionsOK, RequestLine, Unread
<1>4. ServedOK'
  <2>1. Whole => Whole'
    BY <1>1, <1>2 DEF Whole
  <2> QED
    BY <1>1, <2>1 DEF IInv, ServedOK, Nothing, Begun
<1>5. RepliesAreRight'
  BY <1>1, <1>2 DEF IInv, RepliesAreRight
<1> QED
  BY <1>3, <1>4, <1>5 DEF Rest

LEMMA AcceptStep == ASSUME IInv, NEW c \in Clients, Accept(c) PROVE Rest'
<1>1. /\ pc = "accept" /\ pc' = "request" /\ conn[c] = "waiting" /\ cur' = c
      /\ conn' = [conn EXCEPT ![c] = "served"]
      /\ UNCHANGED <<ask, left, lines, reply, child, page, tiny, proxy>>
  BY DEF Accept, At, Goto
<1>2. cur = Nobody /\ \A d \in Clients : conn[d] # "served"
  BY <1>1, TinyAssumption DEF IInv, TypeOK, ConnectionsOK
<1>3. conn'[c] = "served" /\ \A d \in Clients \ {c} : conn'[d] = conn[d]
  BY <1>1 DEF IInv, TypeOK
<1>4. ConnectionsOK'
  BY <1>1, <1>2, <1>3 DEF IInv, ConnectionsOK
<1>5. RequestLine'
  BY <1>1, <1>3 DEF IInv, RequestLine, Unread
<1>6. ServedOK'
  BY <1>1 DEF IInv, ServedOK, ConnectionsOK, Nothing
<1>7. RepliesAreRight'
  BY <1>1, <1>3 DEF IInv, RepliesAreRight, Replies
<1> QED
  BY <1>4, <1>5, <1>6, <1>7 DEF Rest

LEMMA CloseStep == ASSUME IInv, CloseConnection PROVE Rest'
<1>1. /\ pc = "close" /\ pc' = "accept" /\ cur' = Nobody
      /\ conn' = [conn EXCEPT ![cur] = "closed"]
      /\ UNCHANGED <<ask, left, lines, child, page, tiny, proxy>>
      /\ \/ UNCHANGED reply
         \/ lines[cur] # <<>> /\ reply' = [reply EXCEPT ![cur] = <<>>]
  BY DEF CloseConnection, At, Goto
<1>2. cur \in Clients /\ cur # Nobody /\ conn[cur] = "served" /\ ask[cur] # <<>>
  <2>1. cur \in Clients /\ cur # Nobody /\ conn[cur] = "served"
    BY <1>1, Served
  <2> QED
    BY <2>1 DEF IInv, ConnectionsOK
<1>3. /\ conn'[cur] = "closed"
      /\ \A d \in Clients \ {cur} : conn'[d] = conn[d] /\ reply'[d] = reply[d]
      /\ reply'[cur] = reply[cur] \/ (lines[cur] # <<>> /\ reply'[cur] = <<>>)
  BY <1>1, <1>2 DEF IInv, TypeOK
<1>4. ConnectionsOK'
  BY <1>1, <1>2, <1>3, TinyAssumption DEF IInv, ConnectionsOK
<1>5. RequestLine'
  BY <1>1, <1>2, <1>3 DEF IInv, RequestLine, Unread
<1>6. ServedOK'
  BY <1>1 DEF ServedOK
<1>7. cur \notin left => reply[cur] \in Replies(ask[cur])
  BY <1>1, <1>2 DEF IInv, ServedOK, Whole
<1>8. RepliesAreRight'
  <2> SUFFICES ASSUME NEW c \in Clients, conn'[c] = "closed", c \notin left
               PROVE  reply'[c] \in Replies(ask[c])' \union (IF lines[c] # <<>> THEN {<<>>} ELSE {})
    BY <1>1 DEF RepliesAreRight, Replies
  <2>1. Replies(ask[c])' = Replies(ask[c])
    BY <1>1 DEF Replies
  <2>2. CASE c = cur
    BY <1>3, <1>7, <2>1, <2>2
  <2>3. CASE c # cur
    BY <1>3, <2>1, <2>3 DEF IInv, RepliesAreRight
  <2> QED
    BY <2>2, <2>3
<1> QED
  BY <1>4, <1>5, <1>6, <1>8 DEF Rest

-------------------------------------------------------------------------------

\* Every variable keeps its type, whatever the clients and their headers.
THEOREM TypeCorrectness == Spec => []TypeOK
  BY InitType, NextType, PTL DEF Spec

\* The inductive invariant: what the connections hold, and what the server is doing.
THEOREM Invariance == Spec => []IInv
<1>1. Init => IInv
  <2> SUFFICES ASSUME Init PROVE IInv
    OBVIOUS
  <2>1. ConnectionsOK /\ RequestLine /\ ServedOK /\ RepliesAreRight
    BY TinyAssumption DEF Init, ConnectionsOK, RequestLine, Unread, ServedOK, RepliesAreRight
  <2> QED
    BY <2>1, InitType DEF IInv
<1>2. IInv /\ [Next]_vars => IInv'
  <2> SUFFICES ASSUME IInv, [Next]_vars PROVE IInv'
    OBVIOUS
  <2>1. TypeOK'
    BY NextType DEF IInv
  <2>2. Rest'
    <3>1. CASE Serve
      <4>1. CASE \E c \in Clients : Accept(c)
        BY <4>1, AcceptStep
      <4>2. CASE ReadFails \/ ReadRequestLine \/ read_requesthdrs \/ Stat \/ MapFile \/ ForkChild
                 \/ WaitForChild
        BY <4>2, QuietSteps
      <4>3. CASE clienterror \/ SendStaticHeaders \/ SendBody \/ SendDynamicHeaders
        BY <4>3, WritingSteps
      <4>4. CASE CloseConnection
        BY <4>4, CloseStep
      <4> QED
        BY <3>1, <4>1, <4>2, <4>3, <4>4 DEF Serve
    <3>2. CASE ChildEnds
      BY <3>2, ChildStep
    <3>3. CASE RemovePage
      BY <3>3, RemoveStep
    <3>4. ASSUME NEW c \in Clients,
                 Leave(c) \/ \E r \in Requests : Connect(c, r) \/ ConnectByProxy(c, r)
          PROVE  Rest'
      BY <3>4, ClientSteps
    <3>5. CASE UNCHANGED vars
      <4> USE <3>5 DEF vars
      <4>1. ConnectionsOK' /\ RequestLine'
        BY DEF IInv, ConnectionsOK, RequestLine, Unread
      <4>2. ServedOK'
        BY DEF IInv, ServedOK, Nothing, Begun, Whole, Replies
      <4>3. RepliesAreRight'
        BY DEF IInv, RepliesAreRight, Replies
      <4> QED
        BY <4>1, <4>2, <4>3 DEF Rest
    <3> QED
      BY <3>1, <3>2, <3>3, <3>4, <3>5 DEF Next
  <2> QED
    BY <2>1, <2>2 DEF IInv, Rest
<1> QED
  BY <1>1, <1>2, PTL DEF Spec

\* Every connection that is closed carries one whole reply to its own request,
\* whatever header lines it came with and whatever the proxy's buffers held.
THEOREM EveryReplyIsRight == Spec => []RepliesAreRight
<1>1. IInv => RepliesAreRight
  BY DEF IInv
<1> QED
  BY <1>1, Invariance, PTL
===============================================================================
