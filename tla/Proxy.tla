--------------------------------- MODULE Proxy ---------------------------------
(***************************************************************************)
(* The concurrent proxy: main accepts connections and starts a detached    *)
(* thread for each, which reads a request, connects to the end server,     *)
(* relays the reply and closes both descriptors.  The threads share the    *)
(* descriptor table of the process and main's variable connfd, whose       *)
(* ADDRESS each of them is given (proxy.c:50).  A thread is named by the   *)
(* client whose arrival made main start it.                                *)
(*                                                                         *)
(* What travels on a connection is a sequence of tokens: a client sends    *)
(* its request line and its headers, a server the reply to the request it  *)
(* was sent, and "eof" is what a read finds at the end.  Every csapp.c     *)
(* wrapper ends the whole process on an error (csapp.c:31-35).             *)
(***************************************************************************)
EXTENDS Integers, Sequences, FiniteSets

CONSTANTS Clients,
          Nobody,     \* no client, no connection
          MaxFd,      \* bound: descriptors above listenfd, RLIMIT_NOFILE in the code
          Hung,       \* clients that ask for a server that never answers
          Refused,    \* clients that ask for a server that refuses to connect
          Impatient   \* clients that may close their connection at any time

ASSUME ProxyAssumption ==
  /\ Nobody \notin Clients \union ({"client", "server"} \X Clients)
  /\ MaxFd \in Nat \ {0}
  /\ Hung \subseteq Clients /\ Refused \subseteq Clients /\ Impatient \subseteq Clients

Fds     == 1 .. MaxFd
Conns   == {"client", "server"} \X Clients
Tokens  == {"line", "headers", "reply", "eof"} \X (Clients \union {Nobody})
ToClient(c) == <<"client", c>>
ToServer(t) == <<"server", t>>

VARIABLES client,    \* each client: "away", "waiting" (in the backlog), "connected", "gone"
          inbox,     \* what it has sent and nobody has read
          got,       \* the tokens it has received
          main,      \* main's pc and the client it has accepted last
          connfd,    \* main's variable, shared with the threads
          fdtab,     \* the connection each descriptor stands for
          th,        \* the threads
          server,    \* the far end of each thread's server connection
          exited     \* the process has ended
vars == <<client, inbox, got, main, connfd, fdtab, th, server, exited>>

NewThread == [pc |-> "none", fd |-> 0, sfd |-> 0, req |-> Nobody, buf |-> <<>>,
              reading |-> Nobody]

Init == /\ client = [c \in Clients |-> "away"]
        /\ inbox = [c \in Clients |-> <<>>]
        /\ got = [c \in Clients |-> {}]
        /\ main = [pc |-> "accept", last |-> Nobody] /\ connfd = 0
        /\ fdtab = [f \in Fds |-> Nobody]
        /\ th = [t \in Clients |-> NewThread]
        /\ server = [t \in Clients |-> [state |-> "none", asked |-> Nobody]]
        /\ exited = FALSE

FreeFds == {f \in Fds : fdtab[f] = Nobody}
LowestFree == CHOOSE f \in FreeFds : \A g \in FreeFds : f <= g
At(t, pc) == ~exited /\ th[t].pc = pc

\* A wrapper reports an error, or a signal kills the process.
Abort == /\ exited' = TRUE
         /\ UNCHANGED <<client, inbox, got, main, connfd, fdtab, th, server>>

-------------------------------------------------------------------------------
(* Clients and servers. *)

\* Connections main has not accepted yet, abandoned ones among them.
InBacklog(c) == /\ client[c] \in {"waiting", "gone"} /\ th[c].pc = "none"
                /\ ~(main.pc = "create" /\ main.last = c)

Arrive(c) ==
  /\ client[c] = "away" /\ ~exited
  /\ client' = [client EXCEPT ![c] = "waiting"]
  /\ inbox' = [inbox EXCEPT ![c] = <<<<"line", c>>, <<"headers", c>>>>]
  /\ UNCHANGED <<got, main, connfd, fdtab, th, server, exited>>

GiveUp(c) ==
  /\ c \in Impatient /\ client[c] \in {"waiting", "connected"}
  /\ client' = [client EXCEPT ![c] = "gone"]
  /\ UNCHANGED <<inbox, got, main, connfd, fdtab, th, server, exited>>

Answer(t) ==
  /\ server[t].state = "asked" /\ server[t].asked \notin Hung
  /\ server' = [server EXCEPT ![t].state = "answered"]
  /\ UNCHANGED <<client, inbox, got, main, connfd, fdtab, th, exited>>

-------------------------------------------------------------------------------
(* main. *)

MainWaits_BugServesFirst ==
  /\ main.pc = "accept" /\ ~exited
  /\ \A t \in Clients : th[t].pc \in {"none", "done"}
MainWaits == main.pc = "accept" /\ ~exited

\* The kernel gives the lowest free descriptor; with none left accept fails.
Accept(c) ==
  /\ MainWaits
  /\ InBacklog(c)
  /\ IF FreeFds = {} THEN Abort
     ELSE /\ connfd' = LowestFree
          /\ fdtab' = [fdtab EXCEPT ![LowestFree] = ToClient(c)]
          /\ main' = [pc |-> "create", last |-> c]
          /\ client' = [client EXCEPT ![c] = IF @ = "gone" THEN @ ELSE "connected"]
          /\ UNCHANGED <<inbox, got, th, server, exited>>

CreateThread ==
  /\ main.pc = "create" /\ ~exited
  /\ main' = [main EXCEPT !.pc = "accept"]
  /\ th' = [th EXCEPT ![main.last].pc = "start"]
  /\ UNCHANGED <<client, inbox, got, connfd, fdtab, server, exited>>

-------------------------------------------------------------------------------
(* A thread. *)

\* The address itself taken for the descriptor.
ReadArgument_BugPointer(t) ==
  /\ At(t, "start")
  /\ th' = [th EXCEPT ![t].pc = "line", ![t].fd = MaxFd + 1]
  /\ UNCHANGED <<client, inbox, got, main, connfd, fdtab, server, exited>>

ReadArgument(t) ==
  /\ At(t, "start")
  /\ th' = [th EXCEPT ![t].pc = "line", ![t].fd = connfd]
  /\ UNCHANGED <<client, inbox, got, main, connfd, fdtab, server, exited>>

\* The descriptor a thread reads from, at the points where it reads.
ReadFd(t) == IF th[t].pc = "relay" THEN th[t].sfd ELSE th[t].fd

\* A read looks up its descriptor once, and keeps the connection while it waits.
BeginRead(t) ==
  /\ ~exited /\ th[t].pc \in {"line", "headers", "relay"}
  /\ th[t].buf = <<>> /\ th[t].reading = Nobody
  /\ IF fdtab[ReadFd(t)] = Nobody THEN Abort
     ELSE /\ th' = [th EXCEPT ![t].reading = fdtab[ReadFd(t)]]
          /\ UNCHANGED <<client, inbox, got, main, connfd, fdtab, server, exited>>

Received(t, tokens) ==
  /\ th' = [th EXCEPT ![t].buf = tokens, ![t].reading = Nobody]
  /\ UNCHANGED <<client, got, main, connfd, fdtab, exited>>

\* Part or all of what a client has sent; after a client has gone, the end of
\* its stream or a reset.
ReadFromClient(t) ==
  /\ ~exited
  /\ \E c \in Clients :
       /\ th[t].reading = ToClient(c)
       /\ \/ \E k \in 1 .. Len(inbox[c]) :
               /\ Received(t, SubSeq(inbox[c], 1, k))
               /\ inbox' = [inbox EXCEPT ![c] = SubSeq(@, k + 1, Len(@))]
               /\ UNCHANGED server
          \/ /\ inbox[c] = <<>> /\ client[c] = "gone"
             /\ Received(t, <<<<"eof", Nobody>>>>)
             /\ UNCHANGED <<inbox, server>>
          \/ client[c] = "gone" /\ Abort

\* The reply, then the end.
ReadFromServer(t) ==
  /\ ~exited
  /\ \E u \in Clients :
       /\ th[t].reading = ToServer(u)
       /\ \/ /\ server[u].state = "answered"
             /\ Received(t, <<<<"reply", server[u].asked>>>>)
             /\ server' = [server EXCEPT ![u].state = "drained"]
          \/ /\ server[u].state = "drained"
             /\ Received(t, <<<<"eof", Nobody>>>>)
             /\ UNCHANGED server
       /\ UNCHANGED inbox

\* The token a thread looks at, and the thread past it, at pc.
Token(t) == th[t].buf[1]
Past(t, pc) == [th[t] EXCEPT !.pc = pc, !.buf = Tail(@)]

\* doit, lines 70-80.  A line that is no GET ends the thread's work.  At the end
\* of the stream buf was never written: what a previous request left on the
\* stack decides, or a pointer made from it faults.
ParseRequestLine(t) ==
  /\ At(t, "line") /\ th[t].buf # <<>>
  /\ \/ /\ \/ /\ Token(t)[1] = "line"
              /\ th' = [th EXCEPT ![t] = [Past(t, "headers") EXCEPT !.req = Token(t)[2]]]
           \/ /\ Token(t)[1] = "eof"
              /\ \E r \in Clients : th' = [th EXCEPT ![t] = [Past(t, "headers") EXCEPT !.req = r]]
           \/ /\ Token(t)[1] # "line"
              /\ th' = [th EXCEPT ![t] = Past(t, "closeclient")]
        /\ UNCHANGED <<client, inbox, got, main, connfd, fdtab, server, exited>>
     \/ Token(t)[1] = "eof" /\ Abort

\* uri2req_header reads up to the blank line or the end of the stream.
ReadHeaders(t) ==
  /\ At(t, "headers") /\ th[t].buf # <<>>
  /\ th' = [th EXCEPT ![t] = Past(t, IF Token(t)[1] \in {"headers", "eof"} THEN "connect"
                                      ELSE "headers")]
  /\ UNCHANGED <<client, inbox, got, main, connfd, fdtab, server, exited>>

Connect(t) ==
  /\ At(t, "connect")
  /\ IF th[t].req \in Refused \/ FreeFds = {} THEN Abort
     ELSE /\ fdtab' = [fdtab EXCEPT ![LowestFree] = ToServer(t)]
          /\ server' = [server EXCEPT ![t].state = "open"]
          /\ th' = [th EXCEPT ![t].pc = "send", ![t].sfd = LowestFree, ![t].buf = <<>>]
          /\ UNCHANGED <<client, inbox, got, main, connfd, exited>>

\* A token written to a descriptor reaches whatever connection that is now.
SendTo(f, token) ==
  \/ \E u \in Clients :
       /\ fdtab[f] = ToServer(u)
       /\ server' = IF token[1] = "line" /\ server[u].state = "open"
                    THEN [server EXCEPT ![u] = [state |-> "asked", asked |-> token[2]]]
                    ELSE server
       /\ UNCHANGED got
  \/ \E c \in Clients :
       /\ fdtab[f] = ToClient(c)
       /\ got' = IF client[c] = "connected" THEN [got EXCEPT ![c] = @ \union {token}] ELSE got
       /\ UNCHANGED server

\* Writing fails on a closed descriptor, and may once the client has gone.
MayFail(f) == fdtab[f] = Nobody \/ \E c \in Clients : fdtab[f] = ToClient(c) /\ client[c] = "gone"

SendRequest(t) ==
  /\ At(t, "send")
  /\ \/ /\ SendTo(th[t].sfd, <<"line", th[t].req>>)
        /\ th' = [th EXCEPT ![t].pc = "relay"]
        /\ UNCHANGED <<client, inbox, main, connfd, fdtab, exited>>
     \/ MayFail(th[t].sfd) /\ Abort

ReplyFd_BugShared(t) == connfd
ReplyFd(t) == th[t].fd

Relay(t) ==
  /\ At(t, "relay") /\ th[t].buf # <<>>
  /\ \/ /\ Token(t)[1] = "eof"
        /\ th' = [th EXCEPT ![t] = Past(t, "closeserver")]
        /\ UNCHANGED <<client, inbox, got, main, connfd, fdtab, server, exited>>
     \/ /\ Token(t)[1] # "eof"
        /\ SendTo(ReplyFd(t), Token(t))
        /\ th' = [th EXCEPT ![t] = Past(t, "relay")]
        /\ UNCHANGED <<client, inbox, main, connfd, fdtab, exited>>
     \/ Token(t)[1] # "eof" /\ MayFail(ReplyFd(t)) /\ Abort

CloseFd(f, step) ==
  IF fdtab[f] = Nobody THEN Abort
  ELSE /\ fdtab' = [fdtab EXCEPT ![f] = Nobody]
       /\ th' = step
       /\ UNCHANGED <<client, inbox, got, main, connfd, server, exited>>

CloseServer_BugClosesClient(t) ==
  At(t, "closeserver") /\ CloseFd(th[t].fd, [th EXCEPT ![t].pc = "closeclient"])
CloseServer(t) ==
  At(t, "closeserver") /\ CloseFd(th[t].sfd, [th EXCEPT ![t].pc = "closeclient"])

CloseClient_BugLeftOpen(t) ==
  /\ At(t, "closeclient") /\ th' = [th EXCEPT ![t].pc = "done"]
  /\ UNCHANGED <<client, inbox, got, main, connfd, fdtab, server, exited>>
CloseClient(t) ==
  At(t, "closeclient") /\ CloseFd(th[t].fd, [th EXCEPT ![t].pc = "done"])

ThreadStep(t) ==
  \/ ReadArgument(t) \/ BeginRead(t) \/ ReadFromClient(t) \/ ReadFromServer(t)
  \/ ParseRequestLine(t) \/ ReadHeaders(t) \/ Connect(t) \/ SendRequest(t)
  \/ Relay(t) \/ CloseServer(t) \/ CloseClient(t)

MainStep == CreateThread \/ \E c \in Clients : Accept(c)

Next == \/ MainStep
        \/ \E c \in Clients : ThreadStep(c) \/ Arrive(c) \/ GiveUp(c) \/ Answer(c)

\* Main and the threads are scheduled and servers answer; clients need not come.
Fairness == /\ WF_vars(MainStep)
            /\ \A c \in Clients : WF_vars(ThreadStep(c)) /\ WF_vars(Answer(c))

Spec == Init /\ [][Next]_vars

\* Nothing in the code makes main wait for the thread it has just started: that
\* it has not accepted again before the thread reads connfd is a matter of
\* scheduling.  InTimeSpec has the schedules on which it has not.
ReadInTime == main.pc = "create" => \A t \in Clients : th[t].pc # "start"

InTimeNext == Next /\ ReadInTime'
InTimeSpec == Init /\ [][InTimeNext]_vars /\ Fairness
-------------------------------------------------------------------------------
(* Properties. *)

Pcs     == {"none", "start", "line", "headers", "connect", "send", "relay", "closeserver",
            "closeclient", "done"}
Threads == [pc : Pcs, fd : 0 .. MaxFd, sfd : 0 .. MaxFd, req : Clients \union {Nobody},
            buf : Seq(Tokens), reading : Conns \union {Nobody}]
Servers == [state : {"none", "open", "asked", "answered", "drained"},
            asked : Clients \union {Nobody}]

\* Every variable holds a value of its type.
TypeOK ==
  /\ client \in [Clients -> {"away", "waiting", "connected", "gone"}]
  /\ inbox \in [Clients -> Seq(Tokens)] /\ got \in [Clients -> SUBSET Tokens]
  /\ main \in [pc : {"accept", "create"}, last : Clients \union {Nobody}]
  /\ connfd \in 0 .. MaxFd /\ fdtab \in [Fds -> Conns \union {Nobody}]
  /\ th \in [Clients -> Threads] /\ server \in [Clients -> Servers]
  /\ exited \in BOOLEAN

Serving(t) == th[t].pc \notin {"none", "start", "done"}
HasServer(t) == th[t].pc \in {"send", "relay", "closeserver"}

\* Descriptors are reused at once, yet a thread's descriptors stand for its own
\* connections for as long as it may use them.
OwnConnections ==
  \A t \in Clients :
    /\ Serving(t) => fdtab[th[t].fd] = ToClient(t)
    /\ HasServer(t) => fdtab[th[t].sfd] = ToServer(t)

\* Every descriptor that is open will be closed by somebody: a thread that
\* holds it, or the thread main is about to start with it.
NoDescriptorLeaks ==
  \A f \in Fds : fdtab[f] # Nobody =>
    \/ \E t \in Clients : (Serving(t) /\ th[t].fd = f) \/ (HasServer(t) /\ th[t].sfd = f)
    \/ connfd = f /\ (main.pc = "create" \/ \E t \in Clients : th[t].pc = "start")

\* "sends the replies back to the clients" (README-proxylab:14-15): a client
\* receives the reply to its own request and nothing else.
RepliesReachTheirClients == \A c \in Clients : got[c] \subseteq {<<"reply", c>>}

\* Each client whose server answers is served, even while other threads wait
\* for a server that never does (driver.sh:298-328), unless an error has ended
\* the process.
AllAreServed ==
  \A c \in Clients \ (Hung \union Impatient) :
    client[c] = "waiting" ~> <<"reply", c>> \in got[c] \/ exited
===============================================================================
