---------------------------------- MODULE Tiny ----------------------------------
(***************************************************************************)
(* The Tiny web server: one process that serves one connection after the   *)
(* other, runs CGI programs in a child it waits for, and ends on the first *)
(* error (the csapp wrappers).  Its clients connect directly or through    *)
(* the proxy, whose rewriting of a request is ProxyRequest.                *)
(*                                                                         *)
(* A request names a file by what the server will find under that name.  A *)
(* connection carries lines to the server and the parts of a reply back.   *)
(***************************************************************************)
EXTENDS ProxyRequest

CONSTANTS Clients, Nobody,
          HeaderSets,   \* the sequences of header lines a client may send
          Impatient     \* clients that may leave at any time

ASSUME TinyAssumption == /\ Nobody \notin Clients /\ Impatient \subseteq Clients
                         /\ HeaderSets \subseteq Seq(Headers)

Static  == {"page", "empty page", "private page", "missing"}
Dynamic == {"adder", "adder without &", "endless program", "not a program"}

\* The proxy is asked with any form of URL, and passes on GET requests only.
Requests ==
  [via : {"direct"}, method : {"GET", "HEAD"}, form : {"path only"},
   path : Static \union Dynamic, headers : HeaderSets, ended : BOOLEAN]
  \union
  [via : {"proxy"}, method : {"GET"}, form : Forms,
   path : Static \union Dynamic, headers : HeaderSets, ended : BOOLEAN]

\* What is kept of a request: all that its answer depends on, and whether the
\* lines sent for it end with a blank one.
Asked(r, ls) == [via |-> r.via, method |-> r.method, path |-> r.path,
                 whole |-> "blank" \in ToSet(ls)]

Asks == [via : {"direct", "proxy"}, method : {"GET", "HEAD"},
         path : Static \union Dynamic, whole : BOOLEAN]

\* The lines sent to the server, and the parts of its replies.
Lines == {"GET", "HEAD", "Connection", "Proxy-Connection", "User-Agent", "left over",
          "blank", "junk"} \union Headers
Parts == {"501", "404", "403", "200", "page", "sum"}

VARIABLES ask,      \* what each client asks for, <<>> before it does
          conn,     \* its connection: "none", "waiting", "served", "closed"
          left,     \* the clients that have closed their end
          lines,    \* what was sent on the connection and is not read yet
          reply,    \* the parts of the reply sent on it
          pc, cur,  \* the server's place and the connection it serves
          child,    \* the CGI program: "none", "running", "ended"
          page,     \* the file "page" exists
          tiny, proxy   \* the processes run
vars == <<ask, conn, left, lines, reply, pc, cur, child, page, tiny, proxy>>

Init == /\ ask = [c \in Clients |-> <<>>] /\ conn = [c \in Clients |-> "none"]
        /\ left = {}
        /\ lines = [c \in Clients |-> <<>>] /\ reply = [c \in Clients |-> <<>>]
        /\ pc = "accept" /\ cur = Nobody /\ child = "none" /\ page = TRUE
        /\ tiny = TRUE /\ proxy = TRUE

At(place) == tiny /\ pc = place
Goto(place) == pc' = place

\* A csapp wrapper reports an error, or SIGPIPE kills the process.
Exit == /\ tiny' = FALSE
        /\ UNCHANGED <<ask, conn, left, lines, reply, pc, cur, child, page, proxy>>

-------------------------------------------------------------------------------
(* The clients. *)

Sends(c, r, ls) == /\ ask' = [ask EXCEPT ![c] = Asked(r, ls)]
                   /\ conn' = [conn EXCEPT ![c] = "waiting"]
                   /\ lines' = [lines EXCEPT ![c] = ls]
                   /\ UNCHANGED <<left, reply, pc, cur, child, page, tiny, proxy>>

\* A client that does not end its request may have sent nothing at all.
Connect(c, r) ==
  /\ tiny /\ ask[c] = <<>> /\ r.via = "direct"
  /\ \/ Sends(c, r, <<r.method>> \o r.headers \o (IF r.ended THEN <<"blank">> ELSE <<>>))
     \/ ~r.ended /\ Sends(c, r, <<>>)

\* A request the proxy cannot resolve ends its process, and with it every
\* connection it holds.
ConnectByProxy(c, r) ==
  /\ tiny /\ proxy /\ ask[c] = <<>> /\ r.via = "proxy"
  /\ IF Resolves(r.form)
     THEN \E stack \in Stacks : Sends(c, r, Forwarded(r, stack))
     ELSE /\ proxy' = FALSE
          /\ ask' = [ask EXCEPT ![c] = Asked(r, <<>>)]
          /\ left' = left \union {c} \union {d \in Clients : ask[d] # <<>> /\ ask[d].via = "proxy"}
          /\ UNCHANGED <<conn, lines, reply, pc, cur, child, page, tiny>>

\* The proxy itself never closes before the end of the reply.
Leave(c) ==
  /\ c \in Impatient \ left /\ conn[c] \in {"waiting", "served"} /\ ask[c].via = "direct"
  /\ left' = left \union {c}
  /\ UNCHANGED <<ask, conn, lines, reply, pc, cur, child, page, tiny, proxy>>

RemovePage == /\ page /\ page' = FALSE
              /\ UNCHANGED <<ask, conn, left, lines, reply, pc, cur, child, tiny, proxy>>

-------------------------------------------------------------------------------
(* The server: the request. *)

\* A connection its client has left is accepted all the same.
Accept(c) ==
  /\ At("accept") /\ conn[c] = "waiting"
  /\ conn' = [conn EXCEPT ![c] = "served"]
  /\ cur' = c /\ Goto("request")
  /\ UNCHANGED <<ask, left, lines, reply, child, page, tiny, proxy>>

Available   == lines[cur] # <<>>
EndOfStream == lines[cur] = <<>> /\ cur \in left
NextLine    == Head(lines[cur])
TakeLine    == lines' = [lines EXCEPT ![cur] = Tail(@)]

\* A connection the client has reset makes the read fail.
ReadFails == /\ tiny /\ pc \in {"request", "headers"} /\ cur \in left
             /\ Exit

ReadRequestLine ==
  /\ At("request")
  /\ \/ Available /\ TakeLine /\ Goto(IF NextLine = "GET" THEN "headers" ELSE "501")
     \/ EndOfStream /\ Goto("close") /\ UNCHANGED lines
  /\ UNCHANGED <<ask, conn, left, reply, cur, child, page, tiny, proxy>>

\* The loop takes lines up to a blank one, or all that will ever come: it then
\* waits, or, at the end of the stream, where buf keeps its last line, spins for
\* ever.  With no line read at all buf is what the stack held, perhaps a blank line.
read_requesthdrs_BugReadsOn ==
  /\ At("headers")
  /\ \/ Available /\ Goto("more headers") /\ lines' = [lines EXCEPT ![cur] = <<>>]
     \/ EndOfStream /\ pc' \in {"uri", "more headers"} /\ UNCHANGED lines
  /\ UNCHANGED <<ask, conn, left, reply, cur, child, page, tiny, proxy>>
read_requesthdrs ==
  /\ At("headers")
  /\ \/ /\ "blank" \in ToSet(lines[cur]) /\ Goto("uri")
        /\ \E n \in DOMAIN lines[cur] :
             /\ lines[cur][n] = "blank" /\ \A m \in 1 .. n - 1 : lines[cur][m] # "blank"
             /\ lines' = [lines EXCEPT ![cur] = SubSeq(@, n + 1, Len(@))]
     \/ /\ "blank" \notin ToSet(lines[cur]) /\ Available /\ Goto("more headers")
        /\ lines' = [lines EXCEPT ![cur] = <<>>]
     \/ EndOfStream /\ pc' \in {"uri", "more headers"} /\ UNCHANGED lines
  /\ UNCHANGED <<ask, conn, left, reply, cur, child, page, tiny, proxy>>

\* parse_uri, stat and the tests of the file's mode.
Stat ==
  /\ At("uri")
  /\ LET path == ask[cur].path
     IN  Goto(CASE path = "missing" \/ (path = "page" /\ ~page)    -> "404"
                [] path \in {"private page", "not a program"}      -> "403"
                [] path = "empty page" \/ (path = "page" /\ page) -> "static"
                [] OTHER                                           -> "dynamic")
  /\ UNCHANGED <<ask, conn, left, lines, reply, cur, child, page, tiny, proxy>>

-------------------------------------------------------------------------------
(* The server: the reply. *)

\* To a client that has left, a first write succeeds and a later one does not.
Write(part, next) ==
  \/ /\ Goto(next)
     /\ reply' = IF cur \in left THEN reply ELSE [reply EXCEPT ![cur] = Append(@, part)]
     /\ UNCHANGED <<ask, conn, left, lines, cur, child, page, tiny, proxy>>
  \/ cur \in left /\ Exit

clienterror_BugFallsThrough == /\ tiny /\ pc \in {"501", "404", "403"}
                               /\ Write(pc, IF pc = "501" THEN "headers" ELSE "close")
clienterror == tiny /\ pc \in {"501", "404", "403"} /\ Write(pc, "close")

SendStaticHeaders == At("static") /\ Write("200", "open")

\* open fails if the file has gone since stat, mmap if it is empty.
MapFile ==
  /\ At("open")
  /\ IF ask[cur].path = "empty page" \/ ~page THEN Exit
     ELSE /\ Goto("body")
          /\ UNCHANGED <<ask, conn, left, lines, reply, cur, child, page, tiny, proxy>>

SendBody == At("body") /\ Write("page", "close")

SendDynamicHeaders == At("dynamic") /\ Write("200", "fork")

ForkChild ==
  /\ At("fork")
  /\ \/ /\ child' = "running" /\ Goto("wait")
        /\ UNCHANGED <<ask, conn, left, lines, reply, cur, page, tiny, proxy>>
     \/ Exit

\* The program's output goes to the connection the server serves.  Without an
\* & in its arguments the adder writes through a null pointer.
ChildEnds ==
  /\ child = "running" /\ ask[cur].path # "endless program"
  /\ child' = "ended"
  /\ reply' = IF ask[cur].path = "adder" /\ cur \notin left
              THEN [reply EXCEPT ![cur] = Append(@, "sum")] ELSE reply
  /\ UNCHANGED <<ask, conn, left, lines, pc, cur, page, tiny, proxy>>

WaitForChild_BugDoesNotWait ==
  /\ At("wait") /\ Goto("close")
  /\ child' = IF child = "ended" THEN "none" ELSE child
  /\ UNCHANGED <<ask, conn, left, lines, reply, cur, page, tiny, proxy>>
WaitForChild ==
  /\ At("wait") /\ child = "ended"
  /\ child' = "none" /\ Goto("close")
  /\ UNCHANGED <<ask, conn, left, lines, reply, cur, page, tiny, proxy>>

\* Closing with unread data resets the connection, and the client may lose what
\* it has not read yet.
CloseConnection ==
  /\ At("close")
  /\ conn' = [conn EXCEPT ![cur] = "closed"]
  /\ \/ UNCHANGED reply
     \/ lines[cur] # <<>> /\ reply' = [reply EXCEPT ![cur] = <<>>]
  /\ cur' = Nobody /\ Goto("accept")
  /\ UNCHANGED <<ask, left, lines, child, page, tiny, proxy>>

-------------------------------------------------------------------------------

Serve == \/ \E c \in Clients : Accept(c)
         \/ ReadFails \/ ReadRequestLine \/ read_requesthdrs \/ Stat
         \/ clienterror \/ SendStaticHeaders \/ MapFile \/ SendBody
         \/ SendDynamicHeaders \/ ForkChild \/ WaitForChild \/ CloseConnection

Next == \/ \E c \in Clients, r \in Requests : Connect(c, r) \/ ConnectByProxy(c, r)
        \/ \E c \in Clients : Leave(c)
        \/ RemovePage \/ ChildEnds \/ Serve

\* The server and the CGI program keep running; nothing makes a client act.
Spec == Init /\ [][Next]_vars /\ WF_vars(Serve) /\ WF_vars(ChildEnds)

-------------------------------------------------------------------------------
(* What should hold. *)

\* The types of the variables.
TypeOK ==
  /\ ask \in [Clients -> {<<>>} \union Asks]
  /\ conn \in [Clients -> {"none", "waiting", "served", "closed"}]
  /\ left \subseteq Clients
  /\ lines \in [Clients -> Seq(Lines)] /\ reply \in [Clients -> Seq(Parts)]
  /\ pc \in {"accept", "request", "headers", "more headers", "uri", "501", "404", "403",
             "static", "open", "body", "dynamic", "fork", "wait", "close"}
  /\ cur \in Clients \union {Nobody} /\ (cur = Nobody <=> pc = "accept")
  /\ child \in {"none", "running", "ended"} /\ (child # "none" => pc = "wait")
  /\ page \in BOOLEAN /\ tiny \in BOOLEAN /\ proxy \in BOOLEAN

\* The replies a request may get.
Replies(r) ==
  IF r.method = "HEAD" THEN {<<"501">>}
  ELSE CASE r.path = "missing"         -> {<<"404">>}
         [] r.path \in {"private page", "not a program"} -> {<<"403">>}
         [] r.path = "page"            -> {<<"200", "page">>} \union (IF page THEN {} ELSE {<<"404">>})
         [] r.path = "adder"           -> {<<"200", "sum">>}
         [] r.path = "adder without &" -> {<<"200">>}
         [] OTHER                      -> {}

\* A connection the server has closed carries one whole reply to the request of
\* its own client, the same one whether the request came directly or through the
\* proxy's rewriting, whatever the buffers of the proxy held (tiny.c:50-96,
\* proxy.c:137-160).  Only a reset, with lines still unread, can lose it.
RepliesAreRight ==
  \A c \in Clients : conn[c] = "closed" /\ c \notin left =>
    reply[c] \in Replies(ask[c]) \union (IF lines[c] # <<>> THEN {<<>>} ELSE {})

\* What can hold the server: a request that never ends with its blank line, or
\* a program that does not end.
Holds == \/ pc \in {"request", "headers", "more headers"} /\ ~ask[cur].whole
         \/ pc = "wait" /\ ask[cur].path = "endless program"

\* Every client that connects is served: the server closes its connection unless
\* the process ends or another client holds it (tiny.c:33-42).
AllAreServed == \A c \in Clients : conn[c] = "waiting" ~> conn[c] = "closed" \/ ~tiny \/ Holds
===============================================================================
