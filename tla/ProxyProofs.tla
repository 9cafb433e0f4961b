------------------------------ MODULE ProxyProofs ------------------------------
(***************************************************************************)
(* For any number of clients, who come when they like: if main never       *)
(* accepts a connection before the thread it started last has read its     *)
(* argument (ReadInTime, of which the code does not take care), then every *)
(* thread keeps its descriptors for itself, every descriptor that is open  *)
(* will be closed, and each client receives its own reply.  The race over  *)
(* connfd is thus the only way to lose them.  Types do not depend on it.   *)
(***************************************************************************)
EXTENDS Proxy, WellFoundedInduction, TLAPS

\* A nonempty set of naturals has a least element.
LEMMA LeastNumber ==
  ASSUME NEW P \in SUBSET Nat, P # {}
  PROVE  \E m \in P : \A k \in P : m <= k
<1>1. \E m \in P : \A k \in P : <<k, m>> \notin OpToRel(<, Nat)
  BY NatLessThanWellFounded, WFMin
<1>2. \A k, m \in P : <<k, m>> \notin OpToRel(<, Nat) => m <= k
  BY DEF OpToRel
<1>3. QED  BY <1>1, <1>2

\* The lowest free descriptor exists while one is free.
LEMMA LowestIsFree == FreeFds # {} => LowestFree \in FreeFds
<1>1. FreeFds \in SUBSET Nat
  BY ProxyAssumption DEF FreeFds, Fds
<1>2. FreeFds # {} => \E m \in FreeFds : \A k \in FreeFds : m <= k
  BY <1>1, LeastNumber
<1>3. QED  BY <1>2 DEF LowestFree

\* Connections are told apart by their kind and their client.
LEMMA ConnsDiffer ==
  /\ \A c, d : ToClient(c) = ToClient(d) => c = d
  /\ \A c, d : ToServer(c) = ToServer(d) => c = d
  /\ \A c, d : ToClient(c) # ToServer(d)
  /\ \A c \in Clients : ToClient(c) \in Conns /\ ToServer(c) \in Conns
  /\ \A x \in Conns : \E c \in Clients : x = ToClient(c) \/ x = ToServer(c)
  /\ Nobody \notin Conns
<1>1. \A x \in Conns : \E k \in {"client", "server"}, c \in Clients : x = <<k, c>>
  BY DEF Conns
<1>2. \A x \in Conns : \E c \in Clients : x = ToClient(c) \/ x = ToServer(c)
  BY <1>1 DEF ToClient, ToServer
<1>3. QED  BY <1>2, ProxyAssumption DEF ToClient, ToServer, Conns

-------------------------------------------------------------------------------
(* The inductive invariant. *)

\* No connection has two descriptors.
OneDescriptor == \A f, g \in Fds : fdtab[f] = fdtab[g] /\ fdtab[f] # Nobody => f = g

\* The descriptors a thread may use are descriptors of the table.
HeldFds == \A t \in Clients : /\ Serving(t) => th[t].fd \in Fds
                              /\ HasServer(t) => th[t].sfd \in Fds

\* A thread is being started from main's accept until it reads its argument.
\* Meanwhile connfd is some descriptor: whose, depends on the schedule.
Starting(t) == th[t].pc = "start" \/ (main.pc = "create" /\ main.last = t)
AtStart ==
  /\ main.pc = "create" => main.last \in Clients /\ th[main.last].pc = "none"
  /\ \A t \in Clients : Starting(t) => connfd \in Fds

\* What holds on every schedule, beside the types.
Held == HeldFds /\ AtStart

\* A connection is in the table only while somebody has the use of it.
InUse ==
  \A f \in Fds, c \in Clients :
    /\ fdtab[f] = ToClient(c) =>
         Serving(c) \/ th[c].pc = "start" \/ (main.pc = "create" /\ main.last = c)
    /\ fdtab[f] = ToServer(c) => HasServer(c)

\* One thread at a time is being started, and connfd is its connection.
OneAtATime ==
  \A t \in Clients : Starting(t) =>
    fdtab[connfd] = ToClient(t) /\ \A u \in Clients : Starting(u) => u = t

\* What holds when the arguments are read in time.
Uses == OwnConnections /\ OneDescriptor /\ InUse /\ OneAtATime

IInv == TypeOK /\ Held /\ Uses

LEMMA InitIInv == Init => IInv
<1> SUFFICES ASSUME Init PROVE IInv
  OBVIOUS
<1>1. TypeOK
  <2>1. NewThread \in Threads
    BY ProxyAssumption DEF NewThread, Threads, Pcs
  <2>2. [state |-> "none", asked |-> Nobody] \in Servers
    BY DEF Servers
  <2>3. connfd \in 0 .. MaxFd /\ main \in [pc : {"accept", "create"}, last : Clients \union {Nobody}]
    BY ProxyAssumption DEF Init
  <2>4. client \in [Clients -> {"away", "waiting", "connected", "gone"}]
    BY DEF Init
  <2>5. inbox \in [Clients -> Seq(Tokens)]
    <3>1. <<>> \in Seq(Tokens)
      OBVIOUS
    <3>2. QED  BY <3>1 DEF Init
  <2>6. got \in [Clients -> SUBSET Tokens]
    BY DEF Init
  <2>7. fdtab \in [Fds -> Conns \union {Nobody}] /\ exited \in BOOLEAN
    BY DEF Init
  <2>8. th \in [Clients -> Threads] /\ server \in [Clients -> Servers]
    BY <2>1, <2>2 DEF Init
  <2>9. QED  BY <2>3, <2>4, <2>5, <2>6, <2>7, <2>8 DEF TypeOK
<1>2. \A f \in Fds : fdtab[f] = Nobody
  BY DEF Init
<1>3. \A t \in Clients : th[t].pc = "none" /\ client[t] = "away"
  BY DEF Init, NewThread
<1>4. main.pc = "accept"
  BY DEF Init
<1>5. OwnConnections /\ Held
  BY <1>3, <1>4 DEF OwnConnections, Held, HeldFds, AtStart, Starting, Serving, HasServer
<1>6. OneDescriptor /\ InUse
  BY <1>2, ConnsDiffer DEF OneDescriptor, InUse
<1>7. OneAtATime
  BY <1>3, <1>4 DEF OneAtATime, Starting
<1>8. QED  BY <1>1, <1>5, <1>6, <1>7 DEF IInv, Uses

-------------------------------------------------------------------------------
(* Types, action by action. *)

\* A thread after a change of some of its fields is a thread.
LEMMA ThreadFields ==
  ASSUME TypeOK, NEW t \in Clients
  PROVE  /\ th[t] \in Threads
         /\ \A pc \in Pcs : [th[t] EXCEPT !.pc = pc] \in Threads
         /\ \A pc \in Pcs, f \in 0 .. MaxFd : [th[t] EXCEPT !.pc = pc, !.fd = f] \in Threads
         /\ \A pc \in Pcs, f \in 0 .. MaxFd :
              [th[t] EXCEPT !.pc = pc, !.sfd = f, !.buf = <<>>] \in Threads
         /\ \A x \in Conns : [th[t] EXCEPT !.reading = x] \in Threads
         /\ \A tokens \in Seq(Tokens) :
              [th[t] EXCEPT !.buf = tokens, !.reading = Nobody] \in Threads
         /\ th[t].buf # <<>> => /\ Token(t) \in Tokens
                                /\ \A pc \in Pcs : Past(t, pc) \in Threads
                                /\ \A pc \in Pcs, r \in Clients :
                                     [Past(t, pc) EXCEPT !.req = r] \in Threads
<1>1. th[t] \in Threads
  BY DEF TypeOK
<1>2. th[t].buf \in Seq(Tokens)
  BY <1>1 DEF Threads
<1>3. th[t].buf # <<>> => Tail(th[t].buf) \in Seq(Tokens) /\ Token(t) \in Tokens
  BY <1>2 DEF Token
<1>4. <<>> \in Seq(Tokens)
  OBVIOUS
<1>5. \A pc \in Pcs : [th[t] EXCEPT !.pc = pc] \in Threads
  BY <1>1 DEF Threads
<1>6. \A pc \in Pcs, f \in 0 .. MaxFd : [th[t] EXCEPT !.pc = pc, !.fd = f] \in Threads
  BY <1>1 DEF Threads
<1>7. \A pc \in Pcs, f \in 0 .. MaxFd :
        [th[t] EXCEPT !.pc = pc, !.sfd = f, !.buf = <<>>] \in Threads
  BY <1>1, <1>4 DEF Threads
<1>8. \A x \in Conns : [th[t] EXCEPT !.reading = x] \in Threads
  BY <1>1 DEF Threads
<1>9. \A tokens \in Seq(Tokens) : [th[t] EXCEPT !.buf = tokens, !.reading = Nobody] \in Threads
  BY <1>1 DEF Threads
<1>10. th[t].buf # <<>> => \A pc \in Pcs : Past(t, pc) \in Threads
  BY <1>1, <1>3 DEF Threads, Past
<1>11. th[t].buf # <<>> => \A pc \in Pcs, r \in Clients : [Past(t, pc) EXCEPT !.req = r] \in Threads
  BY <1>10 DEF Threads
<1>12. QED  BY <1>1, <1>3, <1>5, <1>6, <1>7, <1>8, <1>9, <1>10, <1>11

LEMMA AbortTypes == ASSUME TypeOK, Abort PROVE TypeOK'
BY DEF TypeOK, Abort

LEMMA OutsideTypes ==
  ASSUME TypeOK, NEW c \in Clients, Arrive(c) \/ GiveUp(c) \/ Answer(c)
  PROVE  TypeOK'
<1>1. CASE Arrive(c)
  <2>1. <<<<"line", c>>, <<"headers", c>>>> \in Seq(Tokens)
    <3>1. <<"line", c>> \in Tokens /\ <<"headers", c>> \in Tokens
      BY DEF Tokens
    <3>2. QED  BY <3>1
  <2>2. client' \in [Clients -> {"away", "waiting", "connected", "gone"}]
    BY <1>1 DEF Arrive, TypeOK
  <2>3. inbox' \in [Clients -> Seq(Tokens)]
    BY <1>1, <2>1 DEF Arrive, TypeOK
  <2>4. QED  BY <1>1, <2>2, <2>3 DEF Arrive, TypeOK
<1>2. CASE GiveUp(c)
  BY <1>2 DEF GiveUp, TypeOK
<1>3. CASE Answer(c)
  <2>1. server' \in [Clients -> Servers]
    BY <1>3 DEF Answer, TypeOK, Servers
  <2>2. QED  BY <1>3, <2>1 DEF Answer, TypeOK
<1>4. QED  BY <1>1, <1>2, <1>3

LEMMA MainTypes ==
  ASSUME TypeOK, Held, MainStep
  PROVE  TypeOK'
<1>1. ASSUME NEW c \in Clients, Accept(c) PROVE TypeOK'
  <2>1. CASE FreeFds = {}
    BY <1>1, <2>1, AbortTypes DEF Accept
  <2>2. CASE FreeFds # {}
    <3>1. LowestFree \in Fds
      BY <2>2, LowestIsFree DEF FreeFds
    <3>2. ToClient(c) \in Conns
      BY ConnsDiffer
    <3>3. fdtab' \in [Fds -> Conns \union {Nobody}]
      BY <1>1, <2>2, <3>1, <3>2 DEF Accept, TypeOK
    <3>4. connfd' \in 0 .. MaxFd
      BY <1>1, <2>2, <3>1, ProxyAssumption DEF Accept, Fds
    <3>5. main' \in [pc : {"accept", "create"}, last : Clients \union {Nobody}]
      BY <1>1, <2>2 DEF Accept
    <3>6. client' \in [Clients -> {"away", "waiting", "connected", "gone"}]
      BY <1>1, <2>2 DEF Accept, TypeOK
    <3>7. QED  BY <1>1, <2>2, <3>3, <3>4, <3>5, <3>6 DEF Accept, TypeOK
  <2>3. QED  BY <2>1, <2>2
<1>2. CASE CreateThread
  <2>1. main.last \in Clients
    BY <1>2 DEF CreateThread, Held, AtStart
  <2>2. th' = [th EXCEPT ![main.last] = [th[main.last] EXCEPT !.pc = "start"]]
    BY <1>2 DEF CreateThread
  <2>3. th' \in [Clients -> Threads]
    BY <2>1, <2>2, ThreadFields DEF TypeOK, Pcs
  <2>4. main' \in [pc : {"accept", "create"}, last : Clients \union {Nobody}]
    BY <1>2 DEF CreateThread, TypeOK
  <2>5. QED  BY <1>2, <2>3, <2>4 DEF CreateThread, TypeOK
<1>3. QED  BY <1>1, <1>2 DEF MainStep

\* A thread that changes to a thread, and nothing else that matters, keeps the types.
LEMMA ThreadChange ==
  ASSUME TypeOK, NEW t \in Clients, NEW r \in Threads, th' = [th EXCEPT ![t] = r]
  PROVE  th' \in [Clients -> Threads]
BY DEF TypeOK

LEMMA ReadTypes ==
  ASSUME TypeOK, Held, NEW t \in Clients,
         BeginRead(t) \/ ReadFromClient(t) \/ ReadFromServer(t)
  PROVE  TypeOK'
<1>1. CASE Abort
  BY <1>1, AbortTypes
<1>2. CASE BeginRead(t) /\ ~Abort
  <2>1. /\ fdtab[ReadFd(t)] # Nobody
        /\ th' = [th EXCEPT ![t] = [th[t] EXCEPT !.reading = fdtab[ReadFd(t)]]]
        /\ UNCHANGED <<client, inbox, got, main, connfd, fdtab, server, exited>>
    BY <1>2 DEF BeginRead
  <2>2. fdtab[ReadFd(t)] \in Conns
    <3>1. ReadFd(t) \in Fds
      BY <1>2 DEF BeginRead, ReadFd, Held, HeldFds, Serving, HasServer
    <3>2. QED  BY <2>1, <3>1 DEF TypeOK
  <2>3. QED  BY <2>1, <2>2, ThreadFields, ThreadChange DEF TypeOK
<1>3. ASSUME NEW tokens \in Seq(Tokens), Received(t, tokens),
             inbox' \in [Clients -> Seq(Tokens)], server' \in [Clients -> Servers]
      PROVE  TypeOK'
  <2>1. th' = [th EXCEPT ![t] = [th[t] EXCEPT !.buf = tokens, !.reading = Nobody]]
    BY <1>3 DEF Received
  <2>2. th' \in [Clients -> Threads]
    BY <2>1, ThreadFields, ThreadChange
  <2>3. QED  BY <1>3, <2>2 DEF Received, TypeOK
<1>4. <<<<"eof", Nobody>>>> \in Seq(Tokens)
  <2>1. <<"eof", Nobody>> \in Tokens
    BY DEF Tokens
  <2>2. QED  BY <2>1
<1>5. CASE ReadFromClient(t) /\ ~Abort
  <2>1. PICK c \in Clients :
          \/ \E k \in 1 .. Len(inbox[c]) :
               /\ Received(t, SubSeq(inbox[c], 1, k))
               /\ inbox' = [inbox EXCEPT ![c] = SubSeq(@, k + 1, Len(@))]
               /\ UNCHANGED server
          \/ Received(t, <<<<"eof", Nobody>>>>) /\ UNCHANGED <<inbox, server>>
    BY <1>5 DEF ReadFromClient
  <2>2. CASE Received(t, <<<<"eof", Nobody>>>>) /\ UNCHANGED <<inbox, server>>
    BY <1>3, <1>4, <2>2 DEF TypeOK
  <2>3. ASSUME NEW k \in 1 .. Len(inbox[c]), Received(t, SubSeq(inbox[c], 1, k)),
               inbox' = [inbox EXCEPT ![c] = SubSeq(@, k + 1, Len(@))], UNCHANGED server
        PROVE  TypeOK'
    <3>1. inbox[c] \in Seq(Tokens)
      BY DEF TypeOK
    <3>2. SubSeq(inbox[c], 1, k) \in Seq(Tokens) /\ SubSeq(inbox[c], k + 1, Len(inbox[c])) \in Seq(Tokens)
      BY <3>1
    <3>3. inbox' \in [Clients -> Seq(Tokens)]
      BY <2>3, <3>2 DEF TypeOK
    <3>4. QED  BY <1>3, <2>3, <3>2, <3>3 DEF TypeOK
  <2>4. QED  BY <2>1, <2>2, <2>3
<1>6. CASE ReadFromServer(t)
  <2>1. PICK u \in Clients :
          /\ \/ /\ Received(t, <<<<"reply", server[u].asked>>>>)
                /\ server' = [server EXCEPT ![u].state = "drained"]
             \/ Received(t, <<<<"eof", Nobody>>>>) /\ UNCHANGED server
          /\ UNCHANGED inbox
    BY <1>6 DEF ReadFromServer
  <2>2. server[u] \in Servers
    BY DEF TypeOK
  <2>3. <<<<"reply", server[u].asked>>>> \in Seq(Tokens)
    <3>1. <<"reply", server[u].asked>> \in Tokens
      BY <2>2 DEF Servers, Tokens
    <3>2. QED  BY <3>1
  <2>4. server' \in [Clients -> Servers]
    <3>1. [server[u] EXCEPT !.state = "drained"] \in Servers
      BY <2>2 DEF Servers
    <3>2. QED  BY <2>1, <3>1 DEF TypeOK
  <2>5. inbox' \in [Clients -> Seq(Tokens)]
    BY <2>1 DEF TypeOK
  <2>6. QED  BY <1>3, <1>4, <2>1, <2>3, <2>4, <2>5
<1>7. QED  BY <1>1, <1>2, <1>5, <1>6

LEMMA ParseTypes ==
  ASSUME TypeOK, NEW t \in Clients, ReadArgument(t) \/ ParseRequestLine(t) \/ ReadHeaders(t)
  PROVE  TypeOK'
<1>1. CASE Abort
  BY <1>1, AbortTypes
<1>2. ASSUME NEW r \in Threads, th' = [th EXCEPT ![t] = r],
             UNCHANGED <<client, inbox, got, main, connfd, fdtab, server, exited>>
      PROVE  TypeOK'
  BY <1>2, ThreadChange DEF TypeOK
<1>3. CASE ReadArgument(t)
  <2>1. th' = [th EXCEPT ![t] = [th[t] EXCEPT !.pc = "line", !.fd = connfd]]
    BY <1>3 DEF ReadArgument
  <2>2. [th[t] EXCEPT !.pc = "line", !.fd = connfd] \in Threads
    BY ThreadFields DEF TypeOK, Pcs
  <2>3. QED  BY <1>2, <1>3, <2>1, <2>2 DEF ReadArgument
<1>4. CASE ParseRequestLine(t) /\ ~Abort
  <2>1. th[t].buf # <<>>
    BY <1>4 DEF ParseRequestLine
  <2>2. \/ th' = [th EXCEPT ![t] = Past(t, "closeclient")]
        \/ \E r \in Clients \union {Token(t)[2]} :
             th' = [th EXCEPT ![t] = [Past(t, "headers") EXCEPT !.req = r]]
    BY <1>4 DEF ParseRequestLine
  <2>3. \A r \in Clients \union {Nobody} : [Past(t, "headers") EXCEPT !.req = r] \in Threads
    <3>1. Past(t, "headers") \in Threads
      BY <2>1, ThreadFields DEF Pcs
    <3>2. QED  BY <3>1 DEF Threads
  <2>4. Token(t)[2] \in Clients \union {Nobody} /\ Past(t, "closeclient") \in Threads
    BY <2>1, ThreadFields DEF Tokens, Pcs
  <2>5. UNCHANGED <<client, inbox, got, main, connfd, fdtab, server, exited>>
    BY <1>4 DEF ParseRequestLine
  <2>6. QED  BY <1>2, <2>2, <2>3, <2>4, <2>5
<1>5. CASE ReadHeaders(t)
  <2>1. th[t].buf # <<>> /\ UNCHANGED <<client, inbox, got, main, connfd, fdtab, server, exited>>
    BY <1>5 DEF ReadHeaders
  <2>2. \E pc \in Pcs : th' = [th EXCEPT ![t] = Past(t, pc)]
    BY <1>5 DEF ReadHeaders, Pcs
  <2>3. QED  BY <1>2, <2>1, <2>2, ThreadFields
<1>6. QED  BY <1>1, <1>3, <1>4, <1>5

LEMMA SendToTypes ==
  ASSUME TypeOK, NEW f, NEW token \in Tokens, SendTo(f, token)
  PROVE  got' \in [Clients -> SUBSET Tokens] /\ server' \in [Clients -> Servers]
<1>1. ASSUME NEW u \in Clients,
             server' = IF token[1] = "line" /\ server[u].state = "open"
                       THEN [server EXCEPT ![u] = [state |-> "asked", asked |-> token[2]]]
                       ELSE server
      PROVE  server' \in [Clients -> Servers]
  <2>1. [state |-> "asked", asked |-> token[2]] \in Servers
    BY DEF Servers, Tokens
  <2>2. QED  BY <1>1, <2>1 DEF TypeOK
<1>2. ASSUME NEW c \in Clients,
             got' = IF client[c] = "connected" THEN [got EXCEPT ![c] = @ \union {token}] ELSE got
      PROVE  got' \in [Clients -> SUBSET Tokens]
  BY <1>2 DEF TypeOK
<1>3. QED  BY <1>1, <1>2 DEF SendTo, TypeOK

LEMMA ServerTypes ==
  ASSUME TypeOK, NEW t \in Clients,
         Connect(t) \/ SendRequest(t) \/ Relay(t) \/ CloseServer(t) \/ CloseClient(t)
  PROVE  TypeOK'
<1>1. CASE Abort
  BY <1>1, AbortTypes
<1>2. CASE Connect(t) /\ ~Abort
  <2>1. /\ FreeFds # {}
        /\ fdtab' = [fdtab EXCEPT ![LowestFree] = ToServer(t)]
        /\ server' = [server EXCEPT ![t].state = "open"]
        /\ th' = [th EXCEPT ![t] = [th[t] EXCEPT !.pc = "send", !.sfd = LowestFree, !.buf = <<>>]]
        /\ UNCHANGED <<client, inbox, got, main, connfd, exited>>
    BY <1>2 DEF Connect
  <2>2. LowestFree \in Fds /\ ToServer(t) \in Conns
    BY <2>1, LowestIsFree, ConnsDiffer DEF FreeFds
  <2>3. LowestFree \in 0 .. MaxFd
    BY <2>2, ProxyAssumption DEF Fds
  <2>4. th' \in [Clients -> Threads]
    BY <2>1, <2>3, ThreadFields, ThreadChange DEF Pcs
  <2>5. server' \in [Clients -> Servers]
    BY <2>1 DEF TypeOK, Servers
  <2>6. fdtab' \in [Fds -> Conns \union {Nobody}]
    BY <2>1, <2>2 DEF TypeOK
  <2>7. QED  BY <2>1, <2>4, <2>5, <2>6 DEF TypeOK
<1>3. CASE SendRequest(t) /\ ~Abort
  <2>1. /\ SendTo(th[t].sfd, <<"line", th[t].req>>)
        /\ th' = [th EXCEPT ![t] = [th[t] EXCEPT !.pc = "relay"]]
        /\ UNCHANGED <<client, inbox, main, connfd, fdtab, exited>>
    BY <1>3 DEF SendRequest
  <2>2. <<"line", th[t].req>> \in Tokens
    BY ThreadFields DEF Threads, Tokens
  <2>3. got' \in [Clients -> SUBSET Tokens] /\ server' \in [Clients -> Servers]
    BY <2>1, <2>2, SendToTypes
  <2>4. th' \in [Clients -> Threads]
    BY <2>1, ThreadFields, ThreadChange DEF Pcs
  <2>5. QED  BY <2>1, <2>3, <2>4 DEF TypeOK
<1>4. CASE Relay(t) /\ ~Abort
  <2>1. th[t].buf # <<>> /\ Token(t) \in Tokens
    BY <1>4, ThreadFields DEF Relay
  <2>2. \E pc \in Pcs : th' = [th EXCEPT ![t] = Past(t, pc)]
    BY <1>4 DEF Relay, Pcs
  <2>3. th' \in [Clients -> Threads]
    BY <2>1, <2>2, ThreadFields, ThreadChange
  <2>4. /\ UNCHANGED <<client, inbox, main, connfd, fdtab, exited>>
        /\ SendTo(ReplyFd(t), Token(t)) \/ UNCHANGED <<got, server>>
    BY <1>4 DEF Relay
  <2>5. got' \in [Clients -> SUBSET Tokens] /\ server' \in [Clients -> Servers]
    BY <2>1, <2>4, SendToTypes DEF TypeOK
  <2>6. QED  BY <2>3, <2>4, <2>5 DEF TypeOK
<1>5. ASSUME NEW f, NEW pc \in Pcs, CloseFd(f, [th EXCEPT ![t].pc = pc]), ~Abort
      PROVE  TypeOK'
  <2>1. /\ fdtab' = [fdtab EXCEPT ![f] = Nobody] /\ th' = [th EXCEPT ![t] = [th[t] EXCEPT !.pc = pc]]
        /\ UNCHANGED <<client, inbox, got, main, connfd, server, exited>>
    BY <1>5 DEF CloseFd
  <2>2. th' \in [Clients -> Threads]
    BY <2>1, ThreadFields, ThreadChange
  <2>3. fdtab' \in [Fds -> Conns \union {Nobody}]
    BY <2>1 DEF TypeOK
  <2>4. QED  BY <2>1, <2>2, <2>3 DEF TypeOK
<1>6. CASE CloseServer(t) /\ ~Abort
  BY <1>5, <1>6 DEF CloseServer, Pcs
<1>7. CASE CloseClient(t) /\ ~Abort
  BY <1>5, <1>7 DEF CloseClient, Pcs
<1>8. QED  BY <1>1, <1>2, <1>3, <1>4, <1>6, <1>7
-------------------------------------------------------------------------------
(* The use of the descriptors, action by action. *)

\* What Held and Uses see of a thread.
SameRole(q, r) == /\ q.fd = r.fd /\ q.sfd = r.sfd
                  /\ q.pc = "none" <=> r.pc = "none"
                  /\ q.pc = "start" <=> r.pc = "start"
                  /\ q.pc = "done" <=> r.pc = "done"
                  /\ q.pc \in {"send", "relay", "closeserver"} <=>
                     r.pc \in {"send", "relay", "closeserver"}

\* A step that changes no role, no descriptor and nothing of main.
SameRoles == /\ UNCHANGED <<main, connfd, fdtab>>
             /\ \A t \in Clients : SameRole(th[t], th'[t])

LEMMA SameUses ==
  ASSUME SameRoles
  PROVE  (Held => Held') /\ (Uses => Uses')
<1>1. \A t \in Clients : /\ Serving(t)' <=> Serving(t)
                         /\ HasServer(t)' <=> HasServer(t)
                         /\ Starting(t)' <=> Starting(t)
                         /\ th'[t].fd = th[t].fd /\ th'[t].sfd = th[t].sfd
                         /\ th'[t].pc = "none" <=> th[t].pc = "none"
                         /\ th'[t].pc = "start" <=> th[t].pc = "start"
  BY DEF SameRoles, SameRole, Serving, HasServer, Starting
<1>2. Held => Held'
  BY <1>1 DEF SameRoles, Held, HeldFds, AtStart
<1>3. ASSUME Uses PROVE Uses'
  <2>1. OwnConnections' /\ OneDescriptor'
    BY <1>1, <1>3 DEF SameRoles, Uses, OwnConnections, OneDescriptor
  <2>2. InUse'
    BY <1>1, <1>3 DEF SameRoles, Uses, InUse
  <2>3. OneAtATime'
    BY <1>1, <1>3 DEF SameRoles, Uses, OneAtATime
  <2>4. QED  BY <2>1, <2>2, <2>3 DEF Uses
<1>4. QED  BY <1>2, <1>3

\* The same, for a step of one thread.
LEMMA SameRolesOfThread ==
  ASSUME TypeOK, UNCHANGED <<main, connfd, fdtab>>,
         NEW t \in Clients, NEW r, th' = [th EXCEPT ![t] = r], SameRole(th[t], r)
  PROVE  SameRoles
<1>1. \A u \in Clients : th'[u] = IF u = t THEN r ELSE th[u]
  BY DEF TypeOK
<1>2. \A q : SameRole(q, q)
  BY DEF SameRole
<1>3. QED  BY <1>1, <1>2 DEF SameRoles

\* A step of no thread, or the exit.
LEMMA SameThreads ==
  ASSUME UNCHANGED <<main, connfd, fdtab, th>>
  PROVE  SameRoles
BY DEF SameRoles, SameRole

LEMMA AbortRoles == ASSUME Abort PROVE SameRoles
BY SameThreads DEF Abort

\* The fields of a thread after the changes the inner steps make.
LEMMA RoleKept ==
  ASSUME TypeOK, NEW t \in Clients
  PROVE  /\ \A x : SameRole(th[t], [th[t] EXCEPT !.reading = x])
         /\ \A x, y : SameRole(th[t], [th[t] EXCEPT !.buf = x, !.reading = y])
         /\ \A pc \in Pcs : /\ Past(t, pc).pc = pc /\ Past(t, pc).fd = th[t].fd
                            /\ Past(t, pc).sfd = th[t].sfd
         /\ \A x : \A pc \in Pcs : SameRole(Past(t, pc), [Past(t, pc) EXCEPT !.req = x])
         /\ \A pc \in Pcs : /\ [th[t] EXCEPT !.pc = pc].pc = pc
                            /\ [th[t] EXCEPT !.pc = pc].fd = th[t].fd
                            /\ [th[t] EXCEPT !.pc = pc].sfd = th[t].sfd
<1>1. th[t] \in Threads
  BY DEF TypeOK
<1>2. QED  BY <1>1 DEF Threads, SameRole, Past

\* The steps between the ones that open, take over or close a descriptor.
LEMMA InnerRoles ==
  ASSUME TypeOK, NEW t \in Clients,
         \/ BeginRead(t) \/ ReadFromClient(t) \/ ReadFromServer(t) \/ ParseRequestLine(t)
         \/ ReadHeaders(t) \/ SendRequest(t) \/ Relay(t)
  PROVE  SameRoles
<1>1. CASE Abort
  BY <1>1, AbortRoles
<1>2. CASE BeginRead(t) /\ ~Abort
  <2>1. /\ th' = [th EXCEPT ![t] = [th[t] EXCEPT !.reading = fdtab[ReadFd(t)]]]
        /\ UNCHANGED <<main, connfd, fdtab>>
    BY <1>2 DEF BeginRead
  <2>2. QED  BY <2>1, RoleKept, SameRolesOfThread
<1>3. ASSUME NEW tokens, Received(t, tokens) PROVE SameRoles
  <2>1. /\ th' = [th EXCEPT ![t] = [th[t] EXCEPT !.buf = tokens, !.reading = Nobody]]
        /\ UNCHANGED <<main, connfd, fdtab>>
    BY <1>3 DEF Received
  <2>2. SameRole(th[t], [th[t] EXCEPT !.buf = tokens, !.reading = Nobody])
    BY RoleKept
  <2>3. QED  BY <2>1, <2>2, SameRolesOfThread
<1>4. CASE ReadFromClient(t) /\ ~Abort
  BY <1>3, <1>4 DEF ReadFromClient
<1>5. CASE ReadFromServer(t)
  BY <1>3, <1>5 DEF ReadFromServer
<1>6. CASE ParseRequestLine(t) /\ ~Abort
  <2>1. th[t].pc = "line" /\ UNCHANGED <<main, connfd, fdtab>>
    BY <1>6 DEF ParseRequestLine, At
  <2>2. \/ th' = [th EXCEPT ![t] = Past(t, "closeclient")]
        \/ \E r : th' = [th EXCEPT ![t] = [Past(t, "headers") EXCEPT !.req = r]]
    BY <1>6 DEF ParseRequestLine
  <2>3. SameRole(th[t], Past(t, "closeclient"))
    BY <2>1, RoleKept DEF SameRole, Pcs
  <2>4. \A r : SameRole(th[t], [Past(t, "headers") EXCEPT !.req = r])
    BY <2>1, RoleKept DEF SameRole, Pcs
  <2>5. QED  BY <2>1, <2>2, <2>3, <2>4, SameRolesOfThread
<1>7. CASE ReadHeaders(t)
  <2>1. th[t].pc = "headers" /\ UNCHANGED <<main, connfd, fdtab>>
    BY <1>7 DEF ReadHeaders, At
  <2>2. \E pc \in {"connect", "headers"} : th' = [th EXCEPT ![t] = Past(t, pc)]
    BY <1>7 DEF ReadHeaders
  <2>3. \A pc \in {"connect", "headers"} : SameRole(th[t], Past(t, pc))
    BY <2>1, RoleKept DEF SameRole, Pcs
  <2>4. QED  BY <2>1, <2>2, <2>3, SameRolesOfThread
<1>8. CASE SendRequest(t) /\ ~Abort
  <2>1. /\ th[t].pc = "send" /\ UNCHANGED <<main, connfd, fdtab>>
        /\ th' = [th EXCEPT ![t] = [th[t] EXCEPT !.pc = "relay"]]
    BY <1>8 DEF SendRequest, At
  <2>2. SameRole(th[t], [th[t] EXCEPT !.pc = "relay"])
    BY <2>1, RoleKept DEF SameRole, Pcs
  <2>3. QED  BY <2>1, <2>2, SameRolesOfThread
<1>9. CASE Relay(t) /\ ~Abort
  <2>1. th[t].pc = "relay" /\ UNCHANGED <<main, connfd, fdtab>>
    BY <1>9 DEF Relay, At
  <2>2. \E pc \in {"closeserver", "relay"} : th' = [th EXCEPT ![t] = Past(t, pc)]
    BY <1>9 DEF Relay
  <2>3. \A pc \in {"closeserver", "relay"} : SameRole(th[t], Past(t, pc))
    BY <2>1, RoleKept DEF SameRole, Pcs
  <2>4. QED  BY <2>1, <2>2, <2>3, SameRolesOfThread
<1>10. QED  BY <1>1, <1>2, <1>4, <1>5, <1>6, <1>7, <1>8, <1>9

\* A client comes, goes or is answered.
LEMMA OutsideRoles ==
  ASSUME NEW c \in Clients, Arrive(c) \/ GiveUp(c) \/ Answer(c)
  PROVE  SameRoles
BY SameThreads DEF Arrive, GiveUp, Answer

\* Held, on every schedule.  First the steps of one thread past its start.
LEMMA ThreadHeld ==
  ASSUME Held, UNCHANGED <<main, connfd>>, NEW t \in Clients,
         th[t].pc # "none", th'[t].pc \notin {"none", "start"},
         \A u \in Clients : u # t => th'[u] = th[u],
         th'[t].fd \in Fds, HasServer(t)' => th'[t].sfd \in Fds
  PROVE  Held'
<1>1. HeldFds'
  BY DEF Held, HeldFds, Serving, HasServer
<1>2. AtStart'
  <2>1. main.pc = "create" => main.last \in Clients /\ main.last # t /\ th[main.last].pc = "none"
    BY DEF Held, AtStart
  <2>2. \A u \in Clients : Starting(u)' => Starting(u)
    BY DEF Starting
  <2>3. QED  BY <2>1, <2>2 DEF Held, AtStart
<1>3. QED  BY <1>1, <1>2 DEF Held

LEMMA NextHeld == ASSUME TypeOK, Held, [Next]_vars PROVE Held'
<1>1. CASE SameRoles
  BY <1>1, SameUses
<1>2. CASE UNCHANGED vars
  BY <1>1, <1>2, SameThreads DEF vars
<1>3. ASSUME NEW c \in Clients, Accept(c) PROVE Held'
  <2>1. CASE FreeFds = {}
    BY <1>1, <1>3, <2>1, AbortRoles DEF Accept
  <2>2. CASE FreeFds # {}
    <3>1. /\ connfd' = LowestFree /\ main' = [pc |-> "create", last |-> c]
          /\ th' = th /\ th[c].pc = "none"
      BY <1>3, <2>2 DEF Accept, InBacklog
    <3>2. connfd' \in Fds
      BY <2>2, <3>1, LowestIsFree DEF FreeFds
    <3>3. QED  BY <3>1, <3>2 DEF Held, HeldFds, AtStart, Serving, HasServer
  <2>3. QED  BY <2>1, <2>2
<1>4. CASE CreateThread
  <2> DEFINE c == main.last
  <2>1. /\ main.pc = "create" /\ c \in Clients /\ Starting(c)
        /\ main' = [main EXCEPT !.pc = "accept"] /\ th' = [th EXCEPT ![c].pc = "start"]
        /\ UNCHANGED connfd
    BY <1>4 DEF CreateThread, Held, AtStart, Starting
  <2>2. main'.pc = "accept"
    BY <2>1 DEF TypeOK
  <2>3. th'[c].pc = "start" /\ \A t \in Clients : t # c => th'[t] = th[t]
    BY <2>1, ThreadFields DEF TypeOK, Threads
  <2> HIDE DEF c
  <2>4. \A t \in Clients : Starting(t)' => Starting(t)
    BY <2>1, <2>2, <2>3 DEF Starting
  <2>5. QED  BY <2>1, <2>2, <2>3, <2>4 DEF Held, HeldFds, AtStart, Serving, HasServer
<1>5. ASSUME NEW t \in Clients, ThreadStep(t) PROVE Held'
  <2>1. CASE ReadArgument(t)
    <3>1. /\ th[t].pc = "start"
          /\ th' = [th EXCEPT ![t] = [th[t] EXCEPT !.pc = "line", !.fd = connfd]]
          /\ UNCHANGED <<main, connfd>>
      BY <2>1 DEF ReadArgument, At
    <3>2. th'[t].pc = "line" /\ th'[t].fd = connfd /\ \A u \in Clients : u # t => th'[u] = th[u]
      BY <3>1, ThreadFields DEF TypeOK, Threads
    <3>3. connfd \in Fds
      BY <3>1 DEF Held, AtStart, Starting
    <3>4. QED  BY <3>1, <3>2, <3>3, ThreadHeld DEF HasServer
  <2>2. CASE Connect(t) /\ ~Abort
    <3>1. FreeFds # {} /\ LowestFree \in Fds
      BY <2>2, LowestIsFree DEF Connect, FreeFds
    <3>2. /\ th[t].pc = "connect" /\ UNCHANGED <<main, connfd>>
          /\ th' = [th EXCEPT ![t] = [th[t] EXCEPT !.pc = "send", !.sfd = LowestFree, !.buf = <<>>]]
      BY <2>2 DEF Connect, At
    <3>3. /\ th'[t].pc = "send" /\ th'[t].sfd = LowestFree /\ th'[t].fd = th[t].fd
          /\ \A u \in Clients : u # t => th'[u] = th[u]
      BY <3>2, ThreadFields DEF TypeOK, Threads
    <3>4. th[t].fd \in Fds
      BY <3>2 DEF Held, HeldFds, Serving
    <3>5. QED  BY <3>1, <3>2, <3>3, <3>4, ThreadHeld
  <2>3. CASE (CloseServer(t) \/ CloseClient(t)) /\ ~Abort
    <3>1. PICK pc \in {"closeclient", "done"} :
            /\ th[t].pc \in {"closeserver", "closeclient"} /\ UNCHANGED <<main, connfd>>
            /\ th' = [th EXCEPT ![t] = [th[t] EXCEPT !.pc = pc]]
      BY <2>3 DEF CloseServer, CloseClient, CloseFd, At
    <3>2. th'[t].pc = pc /\ th'[t].fd = th[t].fd /\ \A u \in Clients : u # t => th'[u] = th[u]
      BY <3>1, ThreadFields DEF TypeOK, Threads
    <3>3. th[t].fd \in Fds
      BY <3>1 DEF Held, HeldFds, Serving
    <3>4. QED  BY <3>1, <3>2, <3>3, ThreadHeld DEF HasServer
  <2>4. CASE Abort
    BY <1>1, <2>4, AbortRoles
  <2>5. QED  BY <1>1, <1>5, <2>1, <2>2, <2>3, <2>4, InnerRoles DEF ThreadStep
<1>6. ASSUME NEW c \in Clients, Arrive(c) \/ GiveUp(c) \/ Answer(c) PROVE Held'
  BY <1>1, <1>6, OutsideRoles
<1>7. QED  BY <1>2, <1>3, <1>4, <1>5, <1>6 DEF Next, MainStep

\* main takes a connection: nobody had it, no thread has the descriptor, and the
\* thread started last has read its argument.
LEMMA AcceptUses ==
  ASSUME TypeOK, Held, Uses, NEW c \in Clients, Accept(c), ReadInTime'
  PROVE  Uses'
<1>1. CASE FreeFds = {}
  BY <1>1, AbortRoles, SameUses DEF Accept
<1>2. CASE FreeFds # {}
  <2> DEFINE n == LowestFree
  <2>1. n \in Fds /\ fdtab[n] = Nobody
    BY <1>2, LowestIsFree DEF FreeFds
  <2>2. /\ connfd' = n /\ fdtab' = [fdtab EXCEPT ![n] = ToClient(c)]
        /\ main.pc = "accept" /\ main' = [pc |-> "create", last |-> c]
        /\ th' = th /\ InBacklog(c)
    BY <1>2 DEF Accept, MainWaits
  <2> HIDE DEF n
  <2>3. th[c].pc = "none" /\ \A t \in Clients : ~Starting(t)
    BY <2>2 DEF InBacklog, ReadInTime, Starting
  <2>4. \A f \in Fds : fdtab'[f] = IF f = n THEN ToClient(c) ELSE fdtab[f]
    BY <2>2 DEF TypeOK
  <2>5. \A f \in Fds : fdtab[f] # ToClient(c)
    BY <2>2, <2>3 DEF Uses, InUse, Serving, Starting
  <2>6. OwnConnections'
    <3>1. \A t \in Clients : (Serving(t)' <=> Serving(t)) /\ (HasServer(t)' <=> HasServer(t))
      BY <2>2 DEF Serving, HasServer
    <3>2. QED  BY <2>1, <2>2, <2>4, <3>1, ConnsDiffer DEF Uses, Held, OwnConnections, HeldFds
  <2>7. OneDescriptor'
    BY <2>4, <2>5 DEF Uses, OneDescriptor
  <2>8. InUse'
    BY <2>2, <2>3, <2>4, ConnsDiffer DEF Uses, InUse, Serving, HasServer, Starting
  <2>9. OneAtATime'
    <3>1. \A t \in Clients : Starting(t)' <=> t = c
      BY <2>2, <2>3 DEF Starting
    <3>2. QED  BY <2>1, <2>2, <2>4, <3>1 DEF OneAtATime
  <2>10. QED  BY <2>6, <2>7, <2>8, <2>9 DEF Uses
<1>3. QED  BY <1>1, <1>2

\* The thread starts with the connection main has just accepted.
LEMMA CreateUses ==
  ASSUME TypeOK, Held, Uses, CreateThread
  PROVE  Uses'
<1> DEFINE c == main.last
<1>1. /\ main.pc = "create" /\ c \in Clients /\ th[c].pc = "none" /\ Starting(c)
      /\ main' = [main EXCEPT !.pc = "accept"] /\ th' = [th EXCEPT ![c].pc = "start"]
      /\ UNCHANGED <<client, connfd, fdtab>>
  BY DEF CreateThread, Held, AtStart, Starting
<1>2. main'.pc = "accept" /\ main'.last = c
  BY <1>1 DEF TypeOK
<1>3. th'[c].pc = "start" /\ \A t \in Clients : t # c => th'[t] = th[t]
  BY <1>1, ThreadFields DEF TypeOK, Threads
<1> HIDE DEF c
<1>4. \A t \in Clients : /\ Serving(t)' => Serving(t) /\ t # c
                         /\ HasServer(t)' => HasServer(t) /\ t # c
                         /\ t # c => (Serving(t)' <=> Serving(t)) /\ (HasServer(t)' <=> HasServer(t))
  BY <1>3 DEF Serving, HasServer
<1>5. ~Serving(c) /\ ~HasServer(c)
  BY <1>1 DEF Serving, HasServer
<1>6. OwnConnections' /\ OneDescriptor'
  BY <1>1, <1>3, <1>4 DEF Uses, OwnConnections, OneDescriptor
<1>7. InUse'
  BY <1>1, <1>3, <1>4, <1>5 DEF Uses, InUse, Starting, c
<1>8. OneAtATime'
  <2>1. \A t \in Clients : Starting(t)' <=> t = c
    BY <1>1, <1>2, <1>3 DEF Starting, Uses, OneAtATime
  <2>2. QED  BY <1>1, <2>1 DEF Uses, OneAtATime
<1>9. QED  BY <1>6, <1>7, <1>8 DEF Uses

\* The thread takes the connection over from main.
LEMMA ArgumentUses ==
  ASSUME TypeOK, Held, Uses, NEW t \in Clients, ReadArgument(t)
  PROVE  Uses'
<1>1. /\ th[t].pc = "start" /\ th' = [th EXCEPT ![t] = [th[t] EXCEPT !.pc = "line", !.fd = connfd]]
      /\ UNCHANGED <<client, main, connfd, fdtab>>
  BY DEF ReadArgument, At
<1>2. th'[t].pc = "line" /\ th'[t].fd = connfd /\ \A u \in Clients : u # t => th'[u] = th[u]
  BY <1>1, ThreadFields DEF TypeOK, Threads
<1>3. connfd \in Fds /\ fdtab[connfd] = ToClient(t) /\ main.pc # "create"
  BY <1>1 DEF Held, AtStart, Uses, OneAtATime, Starting
<1>4. Serving(t)' /\ ~HasServer(t)' /\ ~HasServer(t) /\ ~Serving(t)
  BY <1>1, <1>2 DEF Serving, HasServer
<1>5. \A u \in Clients : u # t => (Serving(u)' <=> Serving(u)) /\ (HasServer(u)' <=> HasServer(u))
  BY <1>2 DEF Serving, HasServer
<1>6. OwnConnections' /\ OneDescriptor'
  BY <1>1, <1>2, <1>3, <1>4, <1>5 DEF Uses, OwnConnections, OneDescriptor
<1>7. InUse'
  BY <1>1, <1>2, <1>4, <1>5 DEF Uses, InUse
<1>8. OneAtATime'
  <2>1. \A u \in Clients : ~Starting(u)'
    BY <1>1, <1>2, <1>3 DEF Uses, OneAtATime, Starting
  <2>2. QED  BY <2>1 DEF OneAtATime
<1>9. QED  BY <1>6, <1>7, <1>8 DEF Uses

\* A step of a thread past its start changes nothing of what main sees.
LEMMA LaterOneAtATime ==
  ASSUME Held, OneAtATime, NEW t \in Clients, UNCHANGED <<main, connfd>>,
         th[t].pc \notin {"none", "start"}, th'[t].pc \notin {"none", "start"},
         \A u \in Clients : u # t => th'[u] = th[u],
         \A f \in Fds, u \in Clients : u # t /\ fdtab[f] = ToClient(u) => fdtab'[f] = fdtab[f]
  PROVE  OneAtATime'
<1>1. main.pc = "create" => main.last # t
  BY DEF Held, AtStart
<1>2. \A u \in Clients : Starting(u)' <=> Starting(u)
  BY DEF Starting
<1>3. ~Starting(t)
  BY <1>1 DEF Starting
<1>4. \A u \in Clients : Starting(u) => fdtab'[connfd'] = ToClient(u)
  BY <1>3 DEF Held, AtStart, OneAtATime
<1>5. QED  BY <1>2, <1>4 DEF OneAtATime

\* A descriptor nobody has becomes the thread's server connection.
LEMMA ConnectUses ==
  ASSUME TypeOK, Held, Uses, NEW t \in Clients, Connect(t)
  PROVE  Uses'
<1>1. CASE Abort
  BY <1>1, AbortRoles, SameUses
<1>2. CASE ~Abort
  <2> DEFINE n == LowestFree
  <2>1. FreeFds # {}
    BY <1>2 DEF Connect
  <2>2. n \in Fds /\ fdtab[n] = Nobody
    BY <2>1, LowestIsFree DEF FreeFds
  <2>3. /\ th[t].pc = "connect" /\ fdtab' = [fdtab EXCEPT ![n] = ToServer(t)]
        /\ th' = [th EXCEPT ![t] = [th[t] EXCEPT !.pc = "send", !.sfd = n, !.buf = <<>>]]
        /\ UNCHANGED <<main, connfd>>
    BY <1>2 DEF Connect, At
  <2> HIDE DEF n
  <2>4. /\ th'[t].pc = "send" /\ th'[t].sfd = n /\ th'[t].fd = th[t].fd
        /\ \A u \in Clients : u # t => th'[u] = th[u]
    BY <2>3, ThreadFields DEF TypeOK, Threads
  <2>5. \A f \in Fds : fdtab'[f] = IF f = n THEN ToServer(t) ELSE fdtab[f]
    BY <2>3 DEF TypeOK
  <2>6. Serving(t) /\ Serving(t)' /\ ~HasServer(t) /\ HasServer(t)'
    BY <2>3, <2>4 DEF Serving, HasServer
  <2>7. \A u \in Clients : u # t => (Serving(u)' <=> Serving(u)) /\ (HasServer(u)' <=> HasServer(u))
    BY <2>4 DEF Serving, HasServer
  <2>8. \A f \in Fds : fdtab[f] # ToServer(t)
    BY <2>6 DEF Uses, InUse
  <2>10. OwnConnections'
    <3>1. \A u \in Clients : u # t =>
            /\ Serving(u)' => fdtab'[th'[u].fd] = ToClient(u)
            /\ HasServer(u)' => fdtab'[th'[u].sfd] = ToServer(u)
      BY <2>2, <2>4, <2>5, <2>7, ConnsDiffer DEF Uses, Held, OwnConnections, HeldFds
    <3>2. fdtab'[th'[t].fd] = ToClient(t) /\ fdtab'[th'[t].sfd] = ToServer(t)
      BY <2>2, <2>4, <2>5, <2>6, ConnsDiffer DEF Uses, Held, OwnConnections, HeldFds
    <3>3. QED  BY <3>1, <3>2 DEF OwnConnections
  <2>11. OneDescriptor'
    BY <2>5, <2>8 DEF Uses, OneDescriptor
  <2>12. InUse'
    BY <2>3, <2>4, <2>5, <2>6, <2>7, ConnsDiffer DEF Uses, InUse
  <2>13. OneAtATime'
    BY <2>2, <2>3, <2>4, <2>5, LaterOneAtATime, ConnsDiffer DEF Uses
  <2>14. QED  BY <2>10, <2>11, <2>12, <2>13 DEF Uses
<1>3. QED  BY <1>1, <1>2

\* The thread closes its server connection, and keeps the client's.
LEMMA CloseServerUses ==
  ASSUME TypeOK, Held, Uses, NEW t \in Clients, CloseServer(t)
  PROVE  Uses'
<1>1. CASE Abort
  BY <1>1, AbortRoles, SameUses
<1>2. CASE ~Abort
  <2> DEFINE n == th[t].sfd
  <2>1. /\ th[t].pc = "closeserver" /\ fdtab' = [fdtab EXCEPT ![n] = Nobody]
        /\ th' = [th EXCEPT ![t] = [th[t] EXCEPT !.pc = "closeclient"]]
        /\ UNCHANGED <<main, connfd>>
    BY <1>2 DEF CloseServer, CloseFd, At
  <2>2. Serving(t) /\ HasServer(t)
    BY <2>1 DEF Serving, HasServer
  <2>3. n \in Fds /\ fdtab[n] = ToServer(t)
    BY <2>2 DEF Uses, Held, HeldFds, OwnConnections
  <2> HIDE DEF n
  <2>4. /\ th'[t].pc = "closeclient" /\ th'[t].fd = th[t].fd
        /\ \A u \in Clients : u # t => th'[u] = th[u]
    <3>1. th'[t] = [th[t] EXCEPT !.pc = "closeclient"]
      BY <2>1 DEF TypeOK
    <3>2. QED  BY <2>1, <3>1, ThreadFields DEF TypeOK, Threads
  <2>5. \A f \in Fds : fdtab'[f] = IF f = n THEN Nobody ELSE fdtab[f]
    BY <2>1 DEF TypeOK
  <2>6. Serving(t)' /\ ~HasServer(t)'
    BY <2>4 DEF Serving, HasServer
  <2>7. \A u \in Clients : u # t => (Serving(u)' <=> Serving(u)) /\ (HasServer(u)' <=> HasServer(u))
    BY <2>4 DEF Serving, HasServer
  <2>8. \A f \in Fds : fdtab[f] = ToServer(t) => f = n
    BY <2>3, ConnsDiffer DEF Uses, OneDescriptor
  <2>10. OwnConnections'
    <3>1. \A u \in Clients : u # t =>
            /\ Serving(u)' => fdtab'[th'[u].fd] = ToClient(u)
            /\ HasServer(u)' => fdtab'[th'[u].sfd] = ToServer(u)
      BY <2>3, <2>4, <2>5, <2>7, ConnsDiffer DEF Uses, Held, OwnConnections, HeldFds
    <3>2. fdtab'[th'[t].fd] = ToClient(t)
      BY <2>2, <2>3, <2>4, <2>5, ConnsDiffer DEF Uses, Held, OwnConnections, HeldFds
    <3>3. QED  BY <2>6, <3>1, <3>2 DEF OwnConnections
  <2>11. OneDescriptor'
    BY <2>5 DEF Uses, OneDescriptor
  <2>12. InUse'
    BY <2>1, <2>4, <2>5, <2>6, <2>7, <2>8, ConnsDiffer DEF Uses, InUse
  <2>13. OneAtATime'
    BY <2>1, <2>3, <2>4, <2>5, LaterOneAtATime, ConnsDiffer DEF Uses
  <2>14. QED  BY <2>10, <2>11, <2>12, <2>13 DEF Uses
<1>3. QED  BY <1>1, <1>2

\* The thread closes its client's connection and has no other.
LEMMA CloseClientUses ==
  ASSUME TypeOK, Held, Uses, NEW t \in Clients, CloseClient(t)
  PROVE  Uses'
<1>1. CASE Abort
  BY <1>1, AbortRoles, SameUses
<1>2. CASE ~Abort
  <2> DEFINE n == th[t].fd
  <2>1. /\ th[t].pc = "closeclient" /\ fdtab' = [fdtab EXCEPT ![n] = Nobody]
        /\ th' = [th EXCEPT ![t] = [th[t] EXCEPT !.pc = "done"]]
        /\ UNCHANGED <<main, connfd>>
    BY <1>2 DEF CloseClient, CloseFd, At
  <2>2. Serving(t) /\ ~HasServer(t)
    BY <2>1 DEF Serving, HasServer
  <2>3. n \in Fds /\ fdtab[n] = ToClient(t)
    BY <2>2 DEF Uses, Held, HeldFds, OwnConnections
  <2> HIDE DEF n
  <2>4. th'[t].pc = "done" /\ \A u \in Clients : u # t => th'[u] = th[u]
    <3>1. th'[t] = [th[t] EXCEPT !.pc = "done"]
      BY <2>1 DEF TypeOK
    <3>2. QED  BY <2>1, <3>1, ThreadFields DEF TypeOK, Threads
  <2>5. \A f \in Fds : fdtab'[f] = IF f = n THEN Nobody ELSE fdtab[f]
    BY <2>1 DEF TypeOK
  <2>6. ~Serving(t)' /\ ~HasServer(t)'
    BY <2>4 DEF Serving, HasServer
  <2>7. \A u \in Clients : u # t => (Serving(u)' <=> Serving(u)) /\ (HasServer(u)' <=> HasServer(u))
    BY <2>4 DEF Serving, HasServer
  <2>8. \A f \in Fds : fdtab[f] = ToClient(t) => f = n
    BY <2>3, ConnsDiffer DEF Uses, OneDescriptor
  <2>10. OwnConnections'
    BY <2>3, <2>4, <2>5, <2>6, <2>7, ConnsDiffer DEF Uses, Held, OwnConnections, HeldFds
  <2>11. OneDescriptor'
    BY <2>5 DEF Uses, OneDescriptor
  <2>12. InUse'
    BY <2>1, <2>2, <2>4, <2>5, <2>6, <2>7, <2>8, ConnsDiffer DEF Uses, InUse
  <2>13. OneAtATime'
    BY <2>1, <2>3, <2>4, <2>5, LaterOneAtATime, ConnsDiffer DEF Uses
  <2>14. QED  BY <2>10, <2>11, <2>12, <2>13 DEF Uses
<1>3. QED  BY <1>1, <1>2

-------------------------------------------------------------------------------
(* The theorems. *)

LEMMA NextTypes == ASSUME TypeOK, Held, [Next]_vars PROVE TypeOK'
<1>1. CASE UNCHANGED vars
  BY <1>1 DEF TypeOK, vars
<1>2. CASE MainStep
  BY <1>2, MainTypes
<1>3. ASSUME NEW c \in Clients, ThreadStep(c) PROVE TypeOK'
  BY <1>3, ReadTypes, ParseTypes, ServerTypes DEF ThreadStep
<1>4. ASSUME NEW c \in Clients, Arrive(c) \/ GiveUp(c) \/ Answer(c) PROVE TypeOK'
  BY <1>4, OutsideTypes
<1>5. QED  BY <1>1, <1>2, <1>3, <1>4 DEF Next

LEMMA NextIInv == ASSUME IInv, ReadInTime', [Next]_vars PROVE IInv'
<1>1. TypeOK /\ Held /\ Uses
  BY DEF IInv
<1>2. TypeOK' /\ Held'
  BY <1>1, NextTypes, NextHeld
<1>3. Uses'
  <2>1. CASE SameRoles
    BY <1>1, <2>1, SameUses
  <2>2. CASE UNCHANGED vars
    BY <2>1, <2>2, SameThreads DEF vars
  <2>3. CASE MainStep
    BY <1>1, <2>3, AcceptUses, CreateUses DEF MainStep
  <2>4. ASSUME NEW c \in Clients, ThreadStep(c) PROVE Uses'
    BY <1>1, <2>1, <2>4, ArgumentUses, InnerRoles, ConnectUses, CloseServerUses, CloseClientUses
       DEF ThreadStep
  <2>5. ASSUME NEW c \in Clients, Arrive(c) \/ GiveUp(c) \/ Answer(c) PROVE Uses'
    BY <2>1, <2>5, OutsideRoles
  <2>6. QED  BY <2>2, <2>3, <2>4, <2>5 DEF Next
<1>4. QED  BY <1>2, <1>3 DEF IInv

\* Every variable keeps its type, however the threads are scheduled.
THEOREM TypeCorrectness == Spec => []TypeOK
<1>1. Init => TypeOK /\ Held
  BY InitIInv DEF IInv
<1>2. TypeOK /\ Held /\ [Next]_vars => TypeOK' /\ Held'
  BY NextTypes, NextHeld
<1>3. QED  BY <1>1, <1>2, PTL DEF Spec

\* As long as arguments are read in time the invariant holds.
THEOREM Invariance == Spec /\ []ReadInTime => []IInv
<1>1. Init => IInv
  BY InitIInv
<1>2. IInv /\ ReadInTime' /\ [Next]_vars => IInv'
  BY NextIInv
<1>3. QED  BY <1>1, <1>2, PTL DEF Spec

\* The behaviours that ProxyServes checks are those whose arguments are read in
\* time: what follows holds of them.
THEOREM RunsAreInTime == InTimeSpec => Spec /\ []ReadInTime
<1>1. Init => ReadInTime
  BY DEF Init, ReadInTime
<1>2. ReadInTime /\ [InTimeNext]_vars => ReadInTime'
  BY DEF ReadInTime, InTimeNext, vars
<1>3. [InTimeNext]_vars => [Next]_vars
  BY DEF InTimeNext
<1>4. QED  BY <1>1, <1>2, <1>3, PTL DEF InTimeSpec, Spec

\* A thread's descriptors stand for its own client and server, whatever other
\* threads open and close, and whatever numbers the kernel gives them, unless
\* main has accepted again before some thread read its argument.
THEOREM ThreadsKeepTheirConnections == Spec /\ []ReadInTime => []OwnConnections
<1>1. IInv => OwnConnections
  BY DEF IInv, Uses
<1>2. QED  BY <1>1, Invariance, PTL

\* An open descriptor is held by a thread, or by main for the one it starts: no
\* order of failures, ends and arrivals loses one but that same race.
THEOREM DescriptorsDoNotLeak == Spec /\ []ReadInTime => []NoDescriptorLeaks
<1>1. IInv => NoDescriptorLeaks
  <2> SUFFICES ASSUME IInv, NEW f \in Fds, fdtab[f] # Nobody
               PROVE  \/ \E t \in Clients : \/ Serving(t) /\ th[t].fd = f
                                            \/ HasServer(t) /\ th[t].sfd = f
                      \/ connfd = f /\ (main.pc = "create" \/ \E t \in Clients : th[t].pc = "start")
    BY DEF NoDescriptorLeaks
  <2>1. OwnConnections /\ OneDescriptor /\ HeldFds /\ InUse /\ OneAtATime /\ AtStart
    BY DEF IInv, Uses, Held
  <2>2. PICK c \in Clients : fdtab[f] = ToClient(c) \/ fdtab[f] = ToServer(c)
    BY ConnsDiffer DEF IInv, TypeOK
  <2>3. CASE fdtab[f] = ToServer(c)
    <3>1. HasServer(c) /\ th[c].sfd \in Fds /\ fdtab[th[c].sfd] = ToServer(c)
      BY <2>1, <2>3 DEF InUse, HeldFds, OwnConnections
    <3>2. QED  BY <2>1, <2>3, <3>1 DEF OneDescriptor
  <2>4. CASE fdtab[f] = ToClient(c) /\ Serving(c)
    <3>1. th[c].fd \in Fds /\ fdtab[th[c].fd] = ToClient(c)
      BY <2>1, <2>4 DEF HeldFds, OwnConnections
    <3>2. QED  BY <2>1, <2>4, <3>1 DEF OneDescriptor
  <2>5. CASE fdtab[f] = ToClient(c) /\ ~Serving(c)
    <3>1. Starting(c)
      BY <2>1, <2>5 DEF InUse, Starting
    <3>2. connfd \in Fds /\ fdtab[connfd] = ToClient(c)
      BY <2>1, <3>1 DEF AtStart, OneAtATime
    <3>3. connfd = f
      BY <2>1, <2>5, <3>2 DEF OneDescriptor
    <3>4. QED  BY <3>1, <3>3 DEF Starting
  <2>6. QED  BY <2>2, <2>3, <2>4, <2>5
<1>2. QED  BY <1>1, Invariance, PTL

-------------------------------------------------------------------------------
(* What travels on the connections. *)

\* A request is the thread's own client's, unless that client has gone: the
\* thread may then have taken another from what its stack held.
Own(r, t) == r = t \/ client[t] = "gone"

FromClient(t, x) == \/ x[1] \in {"line", "headers"} /\ x[2] = t
                    \/ x[1] = "eof" /\ client[t] = "gone"
FromServer(t, x) == x[1] = "eof" \/ (x[1] = "reply" /\ Own(x[2], t))

\* Up to the server: what a thread reads, what it asks for, and the answer.
Carries(t) ==
  /\ th[t].reading # Nobody => /\ th[t].buf = <<>>
                               /\ \/ th[t].pc \in {"line", "headers"} /\ th[t].reading = ToClient(t)
                                  \/ th[t].pc = "relay" /\ th[t].reading = ToServer(t)
  /\ th[t].pc \in {"none", "start", "send"} => th[t].buf = <<>>
  /\ th[t].pc \in {"line", "headers"} => \A n \in 1 .. Len(th[t].buf) : FromClient(t, th[t].buf[n])
  /\ th[t].pc = "relay" => \A n \in 1 .. Len(th[t].buf) : FromServer(t, th[t].buf[n])
  /\ th[t].pc \in {"headers", "connect", "send"} => Own(th[t].req, t)
  /\ server[t].state \in {"asked", "answered", "drained"} => Own(server[t].asked, t)

\* A client sends its own request.
Inboxes == \A c \in Clients : \A n \in 1 .. Len(inbox[c]) :
             inbox[c][n][1] \in {"line", "headers"} /\ inbox[c][n][2] = c

\* The part of the invariant that is about tokens.
Data == Inboxes /\ RepliesReachTheirClients /\ \A t \in Clients : Carries(t)

LEMMA InitData == Init => Data
<1> SUFFICES ASSUME Init PROVE Data
  OBVIOUS
<1>1. Inboxes /\ RepliesReachTheirClients
  BY DEF Init, Inboxes, RepliesReachTheirClients
<1>2. ASSUME NEW t \in Clients PROVE Carries(t)
  <2>1. /\ th[t].pc = "none" /\ th[t].reading = Nobody /\ th[t].buf = <<>>
        /\ server[t].state = "none"
    BY DEF Init, NewThread
  <2>2. QED  BY <2>1 DEF Carries
<1>3. QED  BY <1>1, <1>2 DEF Data

\* A thread of which nothing changes, whose client at most goes.
LEMMA CarriesOn ==
  ASSUME NEW t \in Clients, Carries(t), th'[t] = th[t], server'[t] = server[t],
         client[t] = "gone" => client'[t] = "gone"
  PROVE  Carries(t)'
BY DEF Carries, Own, FromClient, FromServer

\* A step that moves one thread, or none, and nothing of clients and inboxes.
LEMMA OneThread ==
  ASSUME Data, NEW t \in Clients, UNCHANGED <<client, inbox>>,
         \A u \in Clients \ {t} : th'[u] = th[u] /\ server'[u] = server[u],
         Carries(t)', RepliesReachTheirClients'
  PROVE  Data'
<1>1. Inboxes'
  BY DEF Data, Inboxes
<1>2. \A u \in Clients : Carries(u)'
  BY CarriesOn DEF Data
<1>3. QED  BY <1>1, <1>2 DEF Data

LEMMA SameData == ASSUME Data, UNCHANGED <<client, inbox, got, th, server>> PROVE Data'
<1>1. Inboxes' /\ RepliesReachTheirClients'
  BY DEF Data, Inboxes, RepliesReachTheirClients
<1>2. \A u \in Clients : Carries(u)'
  BY CarriesOn DEF Data
<1>3. QED  BY <1>1, <1>2 DEF Data

\* Clients and servers, and main.
LEMMA OutsideData ==
  ASSUME TypeOK, Held, Data, NEW c \in Clients,
         Arrive(c) \/ GiveUp(c) \/ Answer(c) \/ Accept(c) \/ CreateThread
  PROVE  Data'
<1>1. CASE Abort
  BY <1>1, SameData DEF Abort
<1>2. CASE Arrive(c)
  <2>1. /\ client[c] = "away" /\ client' = [client EXCEPT ![c] = "waiting"]
        /\ inbox' = [inbox EXCEPT ![c] = <<<<"line", c>>, <<"headers", c>>>>]
        /\ UNCHANGED <<got, th, server>>
    BY <1>2 DEF Arrive
  <2>2. \A u \in Clients : client[u] = "gone" => client'[u] = "gone"
    BY <2>1 DEF TypeOK
  <2>3. \A u \in Clients : Carries(u)'
    BY <2>1, <2>2, CarriesOn DEF Data
  <2>4. Inboxes'
    <3>1. inbox'[c] = <<<<"line", c>>, <<"headers", c>>>>
      BY <2>1 DEF TypeOK
    <3>2. \A u \in Clients \ {c} : inbox'[u] = inbox[u]
      BY <2>1 DEF TypeOK
    <3>3. QED  BY <3>1, <3>2 DEF Data, Inboxes
  <2>5. QED  BY <2>1, <2>3, <2>4 DEF Data, RepliesReachTheirClients
<1>3. CASE GiveUp(c)
  <2>1. client' = [client EXCEPT ![c] = "gone"] /\ UNCHANGED <<inbox, got, th, server>>
    BY <1>3 DEF GiveUp
  <2>2. \A u \in Clients : client[u] = "gone" => client'[u] = "gone"
    BY <2>1 DEF TypeOK
  <2>3. \A u \in Clients : Carries(u)'
    BY <2>1, <2>2, CarriesOn DEF Data
  <2>4. QED  BY <2>1, <2>3 DEF Data, Inboxes, RepliesReachTheirClients
<1>4. CASE Answer(c)
  <2>1. /\ server[c].state = "asked" /\ server' = [server EXCEPT ![c].state = "answered"]
        /\ UNCHANGED <<client, inbox, got, th>>
    BY <1>4 DEF Answer
  <2>2. /\ server'[c].asked = server[c].asked
        /\ \A u \in Clients \ {c} : server'[u] = server[u]
    BY <2>1 DEF TypeOK, Servers
  <2>3. Carries(c)'
    BY <2>1, <2>2 DEF Data, Carries, Own, FromClient, FromServer
  <2>4. QED  BY <2>1, <2>2, <2>3, OneThread DEF Data, RepliesReachTheirClients
<1>5. CASE Accept(c) /\ ~Abort
  <2>1. /\ client' = [client EXCEPT ![c] = IF @ = "gone" THEN @ ELSE "connected"]
        /\ UNCHANGED <<inbox, got, th, server>>
    BY <1>5 DEF Accept
  <2>2. \A u \in Clients : client[u] = "gone" => client'[u] = "gone"
    BY <2>1 DEF TypeOK
  <2>3. \A u \in Clients : Carries(u)'
    BY <2>1, <2>2, CarriesOn DEF Data
  <2>4. QED  BY <2>1, <2>3 DEF Data, Inboxes, RepliesReachTheirClients
<1>6. CASE CreateThread
  <2>1. /\ th' = [th EXCEPT ![main.last].pc = "start"]
        /\ UNCHANGED <<client, inbox, got, server>>
    BY <1>6 DEF CreateThread
  <2>2. PICK t \in Clients : t = main.last /\ th[t].pc = "none"
    BY <1>6 DEF CreateThread, Held, AtStart
  <2>3. /\ th'[t].pc = "start" /\ th'[t].buf = th[t].buf /\ th'[t].reading = th[t].reading
        /\ \A u \in Clients \ {t} : th'[u] = th[u]
    BY <2>1, <2>2 DEF TypeOK, Threads
  <2>4. Carries(t)
    BY DEF Data
  <2>5. Carries(t)'
    BY <2>1, <2>2, <2>3, <2>4 DEF Carries, Own
  <2>6. QED  BY <2>1, <2>3, <2>5, OneThread DEF Data, RepliesReachTheirClients
<1>7. QED  BY <1>1, <1>2, <1>3, <1>4, <1>5, <1>6

\* The threads: first the steps after which nothing travels.
LEMMA QuietData ==
  ASSUME TypeOK, Data, NEW t \in Clients,
         ReadArgument(t) \/ CloseServer(t) \/ CloseClient(t)
  PROVE  Data'
<1>1. CASE Abort
  BY <1>1, SameData DEF Abort
<1>2. CASE ~Abort
  <2>1. PICK pc \in {"line", "closeclient", "done"} :
          /\ th'[t].pc = pc /\ th'[t].buf = th[t].buf /\ th'[t].reading = th[t].reading
          /\ pc = "line" => th[t].pc = "start"
          /\ th[t].pc \in {"start", "closeserver", "closeclient"}
          /\ \A u \in Clients \ {t} : th'[u] = th[u]
          /\ UNCHANGED <<client, inbox, got, server>>
    <3>1. CASE ReadArgument(t)
      BY <3>1 DEF ReadArgument, At, TypeOK, Threads
    <3>2. CASE CloseServer(t)
      BY <1>2, <3>2 DEF CloseServer, CloseFd, At, TypeOK, Threads
    <3>3. CASE CloseClient(t)
      BY <1>2, <3>3 DEF CloseClient, CloseFd, At, TypeOK, Threads
    <3>4. QED  BY <3>1, <3>2, <3>3
  <2>2. Carries(t)
    BY DEF Data
  <2>3. Carries(t)'
    BY <2>1, <2>2 DEF Carries, Own
  <2>4. QED  BY <2>1, <2>3, OneThread DEF Data, RepliesReachTheirClients
<1>3. QED  BY <1>1, <1>2

\* A read waits on the connection its descriptor stands for: the thread's own.
LEMMA BeginReadData ==
  ASSUME TypeOK, OwnConnections, Data, NEW t \in Clients, BeginRead(t)
  PROVE  Data'
<1>1. CASE Abort
  BY <1>1, SameData DEF Abort
<1>2. CASE ~Abort
  <2>1. /\ th[t].pc \in {"line", "headers", "relay"} /\ th[t].buf = <<>>
        /\ th' = [th EXCEPT ![t].reading = fdtab[ReadFd(t)]]
        /\ UNCHANGED <<client, inbox, got, server>>
    BY <1>2 DEF BeginRead
  <2>2. /\ th'[t].pc = th[t].pc /\ th'[t].buf = <<>> /\ th'[t].reading = fdtab[ReadFd(t)]
        /\ \A u \in Clients \ {t} : th'[u] = th[u]
    BY <2>1 DEF TypeOK, Threads
  <2>3. CASE th[t].pc = "relay"
    <3>1. fdtab[ReadFd(t)] = ToServer(t)
      BY <2>3 DEF ReadFd, OwnConnections, HasServer
    <3>2. Carries(t)'
      BY <2>1, <2>2, <2>3, <3>1 DEF Data, Carries, Own
    <3>3. QED  BY <2>1, <2>2, <3>2, OneThread DEF Data, RepliesReachTheirClients
  <2>4. CASE th[t].pc \in {"line", "headers"}
    <3>1. fdtab[ReadFd(t)] = ToClient(t)
      BY <2>4 DEF ReadFd, OwnConnections, Serving
    <3>2. Carries(t)'
      BY <2>1, <2>2, <2>4, <3>1 DEF Data, Carries, Own
    <3>3. QED  BY <2>1, <2>2, <3>2, OneThread DEF Data, RepliesReachTheirClients
  <2>5. QED  BY <2>1, <2>3, <2>4
<1>3. QED  BY <1>1, <1>2

\* What a thread receives when it waits.
LEMMA ReceivedData ==
  ASSUME TypeOK, Data, NEW t \in Clients, NEW tokens, Received(t, tokens),
         th[t].reading # Nobody,
         th[t].pc \in {"line", "headers"} => \A n \in 1 .. Len(tokens) : FromClient(t, tokens[n]),
         th[t].pc = "relay" => \A n \in 1 .. Len(tokens) : FromServer(t, tokens[n]),
         server'[t].state \in {"asked", "answered", "drained"} => Own(server'[t].asked, t)
  PROVE  Carries(t)' /\ RepliesReachTheirClients' /\ \A u \in Clients \ {t} : th'[u] = th[u]
<1>1. /\ th'[t].pc = th[t].pc /\ th'[t].buf = tokens /\ th'[t].reading = Nobody
      /\ th'[t].req = th[t].req /\ \A u \in Clients \ {t} : th'[u] = th[u]
      /\ UNCHANGED <<client, got>>
  BY DEF Received, TypeOK, Threads
<1>2. Carries(t) /\ th[t].pc \in {"line", "headers", "relay"}
  BY DEF Data, Carries
<1>3. Carries(t)'
  BY <1>1, <1>2 DEF Carries, Own, FromClient, FromServer
<1>4. QED  BY <1>1, <1>3 DEF Data, RepliesReachTheirClients

LEMMA ReadFromClientData ==
  ASSUME TypeOK, Data, NEW t \in Clients, ReadFromClient(t)
  PROVE  Data'
<1>1. PICK c \in Clients :
        /\ th[t].reading = ToClient(c)
        /\ \/ \E k \in 1 .. Len(inbox[c]) :
                /\ Received(t, SubSeq(inbox[c], 1, k))
                /\ inbox' = [inbox EXCEPT ![c] = SubSeq(@, k + 1, Len(@))]
                /\ UNCHANGED server
           \/ /\ client[c] = "gone"
              /\ Received(t, <<<<"eof", Nobody>>>>)
              /\ UNCHANGED <<inbox, server>>
           \/ Abort
  BY DEF ReadFromClient
<1>2. Carries(t) /\ th[t].reading # Nobody
  BY <1>1, ConnsDiffer DEF Data
<1>3. c = t /\ th[t].pc \in {"line", "headers"}
  BY <1>1, <1>2, ConnsDiffer DEF Carries
<1>4. ASSUME NEW k \in 1 .. Len(inbox[t]), Received(t, SubSeq(inbox[t], 1, k)),
             inbox' = [inbox EXCEPT ![t] = SubSeq(@, k + 1, Len(@))], UNCHANGED server
      PROVE  Data'
  <2>1. inbox[t] \in Seq(Tokens)
    BY DEF TypeOK
  <2>2. \A n \in 1 .. Len(inbox[t]) : inbox[t][n][1] \in {"line", "headers"} /\ inbox[t][n][2] = t
    BY DEF Data, Inboxes
  <2>3. \A n \in 1 .. Len(SubSeq(inbox[t], 1, k)) : FromClient(t, SubSeq(inbox[t], 1, k)[n])
    BY <2>1, <2>2 DEF FromClient
  <2>4. /\ Carries(t)' /\ RepliesReachTheirClients' /\ \A u \in Clients \ {t} : th'[u] = th[u]
    BY <1>2, <1>3, <1>4, <2>3, ReceivedData DEF Carries
  <2>5. Inboxes'
    <3>1. inbox'[t] = SubSeq(inbox[t], k + 1, Len(inbox[t])) /\ \A u \in Clients \ {t} : inbox'[u] = inbox[u]
      BY <1>4 DEF TypeOK
    <3>2. \A n \in 1 .. Len(inbox'[t]) : inbox'[t][n] = inbox[t][n + k] /\ n + k \in 1 .. Len(inbox[t])
      BY <2>1, <3>1
    <3>3. \A n \in 1 .. Len(inbox'[t]) : inbox'[t][n][1] \in {"line", "headers"} /\ inbox'[t][n][2] = t
      <4> SUFFICES ASSUME NEW n \in 1 .. Len(inbox'[t])
                   PROVE  inbox'[t][n][1] \in {"line", "headers"} /\ inbox'[t][n][2] = t
        OBVIOUS
      <4>1. inbox'[t][n] = inbox[t][n + k] /\ n + k \in 1 .. Len(inbox[t])
        BY <3>2
      <4>2. QED  BY <2>2, <4>1
    <3>4. QED  BY <3>1, <3>3 DEF Data, Inboxes
  <2>6. \A u \in Clients \ {t} : Carries(u)'
    BY <1>4, <2>4, CarriesOn DEF Data, Received
  <2>7. QED  BY <2>4, <2>5, <2>6 DEF Data
<1>5. CASE client[t] = "gone" /\ Received(t, <<<<"eof", Nobody>>>>) /\ UNCHANGED <<inbox, server>>
  <2>1. \A n \in 1 .. Len(<<<<"eof", Nobody>>>>) : FromClient(t, <<<<"eof", Nobody>>>>[n])
    BY <1>5 DEF FromClient
  <2>2. /\ Carries(t)' /\ RepliesReachTheirClients' /\ \A u \in Clients \ {t} : th'[u] = th[u]
    BY <1>2, <1>3, <1>5, <2>1, ReceivedData DEF Carries
  <2>3. QED  BY <1>5, <2>2, OneThread DEF Received
<1>6. CASE Abort
  BY <1>6, SameData DEF Abort
<1>7. QED  BY <1>1, <1>3, <1>4, <1>5, <1>6

LEMMA ReadFromServerData ==
  ASSUME TypeOK, Data, NEW t \in Clients, ReadFromServer(t)
  PROVE  Data'
<1>1. PICK c \in Clients :
        /\ th[t].reading = ToServer(c)
        /\ \/ /\ server[c].state = "answered"
              /\ Received(t, <<<<"reply", server[c].asked>>>>)
              /\ server' = [server EXCEPT ![c].state = "drained"]
           \/ Received(t, <<<<"eof", Nobody>>>>) /\ UNCHANGED server
        /\ UNCHANGED inbox
  BY DEF ReadFromServer
<1>2. Carries(t) /\ th[t].reading # Nobody
  BY <1>1, ConnsDiffer DEF Data
<1>3. c = t /\ th[t].pc = "relay"
  BY <1>1, <1>2, ConnsDiffer DEF Carries
<1>4. CASE /\ server[t].state = "answered"
           /\ Received(t, <<<<"reply", server[t].asked>>>>)
           /\ server' = [server EXCEPT ![t].state = "drained"]
  <2>1. server'[t].asked = server[t].asked /\ \A u \in Clients \ {t} : server'[u] = server[u]
    BY <1>4 DEF TypeOK, Servers
  <2>2. Own(server[t].asked, t)
    BY <1>2, <1>4 DEF Carries
  <2>3. \A n \in 1 .. Len(<<<<"reply", server[t].asked>>>>) :
          FromServer(t, <<<<"reply", server[t].asked>>>>[n])
    BY <2>2 DEF FromServer
  <2>4. /\ Carries(t)' /\ RepliesReachTheirClients' /\ \A u \in Clients \ {t} : th'[u] = th[u]
    BY <1>2, <1>3, <1>4, <2>1, <2>2, <2>3, ReceivedData
  <2>5. QED  BY <1>1, <1>4, <2>1, <2>4, OneThread DEF Received
<1>5. CASE Received(t, <<<<"eof", Nobody>>>>) /\ UNCHANGED server
  <2>1. \A n \in 1 .. Len(<<<<"eof", Nobody>>>>) : FromServer(t, <<<<"eof", Nobody>>>>[n])
    BY DEF FromServer
  <2>2. /\ Carries(t)' /\ RepliesReachTheirClients' /\ \A u \in Clients \ {t} : th'[u] = th[u]
    BY <1>2, <1>3, <1>5, <2>1, ReceivedData DEF Carries
  <2>3. QED  BY <1>1, <1>5, <2>2, OneThread DEF Received
<1>6. QED  BY <1>1, <1>3, <1>4, <1>5

\* What a thread reads next: the rest of what it holds.
LEMMA RestOfBuffer ==
  ASSUME TypeOK, NEW t \in Clients, th[t].buf # <<>>
  PROVE  /\ th[t].buf \in Seq(Tokens) /\ Token(t) = th[t].buf[1] /\ 1 \in 1 .. Len(th[t].buf)
         /\ \A n \in 1 .. Len(Tail(th[t].buf)) : /\ n + 1 \in 1 .. Len(th[t].buf)
                                                /\ Tail(th[t].buf)[n] = th[t].buf[n + 1]
         /\ \A pc : /\ Past(t, pc).pc = pc /\ Past(t, pc).buf = Tail(th[t].buf)
                    /\ Past(t, pc).reading = th[t].reading /\ Past(t, pc).req = th[t].req
         /\ \A pc, r : /\ [Past(t, pc) EXCEPT !.req = r].pc = pc
                       /\ [Past(t, pc) EXCEPT !.req = r].buf = Tail(th[t].buf)
                       /\ [Past(t, pc) EXCEPT !.req = r].reading = th[t].reading
                       /\ [Past(t, pc) EXCEPT !.req = r].req = r
<1>1. th[t] \in Threads /\ th[t].buf \in Seq(Tokens)
  BY DEF TypeOK, Threads
<1>2. 1 \in 1 .. Len(th[t].buf)
  BY <1>1
<1>3. \A n \in 1 .. Len(Tail(th[t].buf)) : /\ n + 1 \in 1 .. Len(th[t].buf)
                                          /\ Tail(th[t].buf)[n] = th[t].buf[n + 1]
  BY <1>1, <1>2
<1>4. \A pc : /\ Past(t, pc).pc = pc /\ Past(t, pc).buf = Tail(th[t].buf)
             /\ Past(t, pc).reading = th[t].reading /\ Past(t, pc).req = th[t].req
  BY <1>1 DEF Past, Threads
<1>5. \A pc, r : /\ [Past(t, pc) EXCEPT !.req = r].pc = pc
                /\ [Past(t, pc) EXCEPT !.req = r].buf = Tail(th[t].buf)
                /\ [Past(t, pc) EXCEPT !.req = r].reading = th[t].reading
                /\ [Past(t, pc) EXCEPT !.req = r].req = r
  BY <1>1 DEF Past, Threads
<1>6. QED  BY <1>1, <1>2, <1>3, <1>4, <1>5 DEF Token

\* The request a thread takes is its client's, or its client has gone.
LEMMA ParseData ==
  ASSUME TypeOK, Data, NEW t \in Clients, ParseRequestLine(t) \/ ReadHeaders(t)
  PROVE  Data'
<1>1. CASE Abort
  BY <1>1, SameData DEF Abort
<1>2. CASE ~Abort
  <2>1. /\ th[t].buf # <<>> /\ th[t].pc \in {"line", "headers"}
        /\ UNCHANGED <<client, inbox, got, server>>
    BY <1>2 DEF ParseRequestLine, ReadHeaders, At
  <2>2. Carries(t) /\ FromClient(t, Token(t)) /\ th[t].reading = Nobody
    BY <2>1, RestOfBuffer DEF Data, Carries
  <2>3. \A n \in 1 .. Len(Tail(th[t].buf)) : FromClient(t, Tail(th[t].buf)[n])
    BY <2>1, <2>2, RestOfBuffer DEF Carries
  <2>4. \/ th' = [th EXCEPT ![t] = Past(t, "closeclient")]
        \/ \E pc \in {"headers", "connect"} :
              /\ th' = [th EXCEPT ![t] = Past(t, pc)] /\ th[t].pc = "headers"
        \/ \E r : /\ th' = [th EXCEPT ![t] = [Past(t, "headers") EXCEPT !.req = r]]
                  /\ (Token(t)[1] = "line" /\ r = Token(t)[2]) \/ Token(t)[1] = "eof"
    BY <1>2 DEF ParseRequestLine, ReadHeaders, At
  <2>5. \A u \in Clients \ {t} : th'[u] = th[u]
    BY <2>4 DEF TypeOK
  <2>6. CASE th' = [th EXCEPT ![t] = Past(t, "closeclient")]
    <3>1. th'[t].pc = "closeclient" /\ th'[t].reading = Nobody
      BY <2>1, <2>2, <2>6, RestOfBuffer DEF TypeOK
    <3>2. Carries(t)'
      BY <2>1, <2>2, <3>1 DEF Carries, Own
    <3>3. QED  BY <2>1, <2>5, <3>2, OneThread DEF Data, RepliesReachTheirClients
  <2>7. ASSUME NEW pc \in {"headers", "connect"}, th' = [th EXCEPT ![t] = Past(t, pc)],
               th[t].pc = "headers"
        PROVE  Data'
    <3>1. /\ th'[t].pc = pc /\ th'[t].reading = Nobody /\ th'[t].req = th[t].req
          /\ th'[t].buf = Tail(th[t].buf)
      BY <2>1, <2>2, <2>7, RestOfBuffer DEF TypeOK
    <3>2. Carries(t)'
      BY <2>1, <2>2, <2>3, <2>7, <3>1 DEF Carries, Own, FromClient
    <3>3. QED  BY <2>1, <2>5, <3>2, OneThread DEF Data, RepliesReachTheirClients
  <2>8. ASSUME NEW r, th' = [th EXCEPT ![t] = [Past(t, "headers") EXCEPT !.req = r]],
               (Token(t)[1] = "line" /\ r = Token(t)[2]) \/ Token(t)[1] = "eof"
        PROVE  Data'
    <3>1. /\ th'[t].pc = "headers" /\ th'[t].reading = Nobody /\ th'[t].req = r
          /\ th'[t].buf = Tail(th[t].buf)
      BY <2>1, <2>2, <2>8, RestOfBuffer DEF TypeOK
    <3>2. Own(r, t)
      BY <2>2, <2>8 DEF FromClient, Own
    <3>3. Carries(t)'
      BY <2>1, <2>2, <2>3, <3>1, <3>2 DEF Carries, Own, FromClient
    <3>4. QED  BY <2>1, <2>5, <3>3, OneThread DEF Data, RepliesReachTheirClients
  <2>9. QED  BY <2>4, <2>6, <2>7, <2>8
<1>3. QED  BY <1>1, <1>2

\* The thread's own server is asked for its own request.
LEMMA AskData ==
  ASSUME TypeOK, OwnConnections, Data, NEW t \in Clients, Connect(t) \/ SendRequest(t)
  PROVE  Data'
<1>1. CASE Abort
  BY <1>1, SameData DEF Abort
<1>2. CASE Connect(t) /\ ~Abort
  <2>1. /\ th[t].pc = "connect" /\ server' = [server EXCEPT ![t].state = "open"]
        /\ th' = [th EXCEPT ![t].pc = "send", ![t].sfd = LowestFree, ![t].buf = <<>>]
        /\ UNCHANGED <<client, inbox, got>>
    BY <1>2 DEF Connect, At
  <2>2. /\ th'[t].pc = "send" /\ th'[t].buf = <<>> /\ th'[t].req = th[t].req
        /\ th'[t].reading = th[t].reading /\ server'[t].state = "open"
        /\ \A u \in Clients \ {t} : th'[u] = th[u] /\ server'[u] = server[u]
    BY <2>1 DEF TypeOK, Threads, Servers
  <2>3. Carries(t)
    BY DEF Data
  <2>4. Carries(t)'
    BY <2>1, <2>2, <2>3 DEF Carries, Own
  <2>5. QED  BY <2>1, <2>2, <2>4, OneThread DEF Data, RepliesReachTheirClients
<1>3. CASE SendRequest(t) /\ ~Abort
  <2>1. /\ th[t].pc = "send" /\ SendTo(th[t].sfd, <<"line", th[t].req>>)
        /\ th' = [th EXCEPT ![t].pc = "relay"] /\ UNCHANGED <<client, inbox>>
    BY <1>3 DEF SendRequest, At
  <2>2. fdtab[th[t].sfd] = ToServer(t)
    BY <2>1 DEF OwnConnections, HasServer
  <2>3. /\ UNCHANGED got
        /\ server' = IF server[t].state = "open"
                     THEN [server EXCEPT ![t] = [state |-> "asked", asked |-> th[t].req]]
                     ELSE server
    BY <2>1, <2>2, ConnsDiffer DEF SendTo
  <2>4. /\ th'[t].pc = "relay" /\ th'[t].buf = th[t].buf /\ th'[t].reading = th[t].reading
        /\ \A u \in Clients \ {t} : th'[u] = th[u] /\ server'[u] = server[u]
    BY <2>1, <2>3 DEF TypeOK, Threads
  <2>5. Carries(t)
    BY DEF Data
  <2>6. server'[t] = server[t] \/ server'[t].asked = th[t].req
    BY <2>3 DEF TypeOK
  <2>7. Carries(t)'
    BY <2>1, <2>4, <2>5, <2>6 DEF Carries, Own
  <2>8. QED  BY <2>1, <2>3, <2>4, <2>7, OneThread DEF Data, RepliesReachTheirClients
<1>4. QED  BY <1>1, <1>2, <1>3

\* A reply goes to the thread's own client, or to nobody when it has gone.
LEMMA RelayData ==
  ASSUME TypeOK, OwnConnections, Data, NEW t \in Clients, Relay(t)
  PROVE  Data'
<1>1. CASE Abort
  BY <1>1, SameData DEF Abort
<1>2. CASE ~Abort
  <2>1. th[t].pc = "relay" /\ th[t].buf # <<>> /\ UNCHANGED <<client, inbox>>
    BY <1>2 DEF Relay, At
  <2>2. PICK pc \in {"relay", "closeserver"} :
          /\ th' = [th EXCEPT ![t] = Past(t, pc)]
          /\ \/ UNCHANGED <<got, server>>
             \/ Token(t)[1] # "eof" /\ SendTo(th[t].fd, Token(t))
    BY <1>2 DEF Relay, ReplyFd
  <2>3. Carries(t) /\ th[t].reading = Nobody /\ FromServer(t, Token(t))
    BY <2>1, RestOfBuffer DEF Data, Carries
  <2>4. fdtab[th[t].fd] = ToClient(t)
    BY <2>1 DEF OwnConnections, Serving
  <2>5. /\ UNCHANGED server
        /\ \/ UNCHANGED got
           \/ /\ client[t] = "connected" /\ Token(t)[1] # "eof"
              /\ got' = [got EXCEPT ![t] = @ \union {Token(t)}]
    BY <2>2, <2>4, ConnsDiffer DEF SendTo
  <2>6. RepliesReachTheirClients'
    <3>1. CASE UNCHANGED got
      BY <3>1 DEF Data, RepliesReachTheirClients
    <3>2. CASE /\ client[t] = "connected" /\ Token(t)[1] # "eof"
               /\ got' = [got EXCEPT ![t] = @ \union {Token(t)}]
      <4>1. Token(t)[1] = "reply" /\ Token(t)[2] = t
        BY <2>3, <3>2 DEF FromServer, Own
      <4>2. Token(t) = <<"reply", t>>
        <5>1. Token(t) \in {"line", "headers", "reply", "eof"} \X (Clients \union {Nobody})
          BY <2>1, ThreadFields DEF Tokens
        <5>2. QED  BY <4>1, <5>1
      <4>3. QED  BY <3>2, <4>2 DEF Data, RepliesReachTheirClients, TypeOK
    <3>3. QED  BY <2>5, <3>1, <3>2
  <2>7. /\ th'[t].pc = pc /\ th'[t].buf = Tail(th[t].buf) /\ th'[t].reading = Nobody
        /\ \A u \in Clients \ {t} : th'[u] = th[u]
    BY <2>1, <2>2, <2>3, RestOfBuffer DEF TypeOK
  <2>8. \A n \in 1 .. Len(Tail(th[t].buf)) : FromServer(t, Tail(th[t].buf)[n])
    BY <2>1, <2>3, RestOfBuffer DEF Carries
  <2>9. Carries(t)'
    BY <2>1, <2>3, <2>5, <2>7, <2>8 DEF Carries, Own, FromServer
  <2>10. QED  BY <2>1, <2>5, <2>6, <2>7, <2>9, OneThread
<1>3. QED  BY <1>1, <1>2

LEMMA NextData == ASSUME IInv, Data, [Next]_vars PROVE Data'
<1>1. TypeOK /\ OwnConnections /\ Held
  BY DEF IInv, Uses
<1>2. CASE UNCHANGED vars
  BY <1>2, SameData DEF vars
<1>3. CASE CreateThread
  <2>1. main.last \in Clients
    BY <1>1, <1>3 DEF Held, AtStart, CreateThread
  <2>2. QED  BY <1>1, <1>3, <2>1, OutsideData
<1>4. ASSUME NEW c \in Clients, Accept(c) \/ Arrive(c) \/ GiveUp(c) \/ Answer(c) PROVE Data'
  BY <1>1, <1>4, OutsideData
<1>5. ASSUME NEW c \in Clients, ThreadStep(c) PROVE Data'
  BY <1>1, <1>5, QuietData, BeginReadData, ReadFromClientData, ReadFromServerData, ParseData,
     AskData, RelayData DEF ThreadStep
<1>6. QED  BY <1>2, <1>3, <1>4, <1>5 DEF Next, MainStep

\* Each client receives the reply to its own request and nothing else, whatever
\* happens to the other connections, as long as arguments are read in time.
THEOREM RepliesAreDelivered == Spec /\ []ReadInTime => []RepliesReachTheirClients
<1>1. Init => Data
  BY InitData
<1>2. IInv /\ Data /\ [Next]_vars => Data'
  BY NextData
<1>3. Data => RepliesReachTheirClients
  BY DEF Data
<1>4. QED  BY <1>1, <1>2, <1>3, Invariance, PTL DEF Spec
===============================================================================
