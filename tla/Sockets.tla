---------------------------------- MODULE Sockets ----------------------------------
(***************************************************************************)
(* How a connection comes about: open_listenfd and Accept in the server,   *)
(* open_clientfd in the client.  The two functions walk a list of          *)
(* addresses for the first that works, opening and closing a descriptor    *)
(* for each; system calls may fail, and the wrappers end the process on an *)
(* error.                                                                  *)
(***************************************************************************)
EXTENDS Integers, Sequences

CONSTANTS Addresses,
          MaxList        \* bound on the length of getaddrinfo's list

ASSUME SocketsAssumption == MaxList \in Nat \ {0}

Sides == {"client", "server"}
Lists == {l \in UNION {[1 .. n -> Addresses] : n \in 1 .. MaxList} :
            \A j, k \in DOMAIN l : l[j] = l[k] => j = k}

VARIABLES walk,     \* each side's place in its function, its list and the index p
          fds,      \* how many descriptors each side has open
          failed,   \* history: the addresses that did not work in this walk
          bound     \* the address the server's socket is bound to, as a set; forgotten
                    \* with the connection made, there is no second one
socketVars == <<walk, fds, failed, bound>>

Walk(place) == [pc |-> place, listp |-> <<>>, p |-> 1]
SocketsInit == /\ walk = [s \in Sides |-> Walk("resolve")] /\ fds = [s \in Sides |-> 0]
               /\ failed = [s \in Sides |-> {}] /\ bound = {}

At(s, place)   == walk[s].pc = place
Goes(s, place) == walk' = [walk EXCEPT ![s].pc = place]
Ends(s, place) == walk' = [walk EXCEPT ![s] = Walk(place)] /\ failed' = [failed EXCEPT ![s] = {}]
Address(s)     == walk[s].listp[walk[s].p]
Opened(s)      == fds' = [fds EXCEPT ![s] = @ + 1]
Closed(s)      == fds' = [fds EXCEPT ![s] = @ - 1]

getaddrinfo(s) ==
  /\ At(s, "resolve")
  /\ \/ Goes(s, "error")
     \/ \E l \in Lists : walk' = [walk EXCEPT ![s] = [Walk("socket") EXCEPT !.listp = l]]
  /\ UNCHANGED <<fds, failed, bound>>

\* The rest of the loop: to the next address, or out of it.
NextAddress(s) ==
  /\ failed' = [failed EXCEPT ![s] = @ \union {Address(s)}]
  /\ walk' = [walk EXCEPT ![s].p = @ + 1,
                          ![s].pc = IF walk[s].p = Len(walk[s].listp) THEN "free" ELSE "socket"]

socket(s) ==
  /\ At(s, "socket")
  /\ \/ NextAddress(s) /\ UNCHANGED fds
     \/ Goes(s, IF s = "client" THEN "connect" ELSE "bind") /\ Opened(s) /\ UNCHANGED failed
  /\ UNCHANGED bound

\* Refused unless the server listens there; connects to others fail in time.
connect ==
  /\ At("client", "connect")
  /\ Goes("client", IF At("server", "accept") /\ Address("client") \in bound
                    THEN "free" ELSE "close")
  /\ UNCHANGED <<fds, failed, bound>>

\* The address may be in use, or not this host's.
bind ==
  /\ At("server", "bind")
  /\ \/ Goes("server", "close") /\ UNCHANGED bound
     \/ Goes("server", "free") /\ bound' = {Address("server")}
  /\ UNCHANGED <<fds, failed>>

\* If close reports an error, the function returns at once; the descriptor is free.
close_BugForgotten(s) ==
  /\ At(s, "close") /\ NextAddress(s)
  /\ UNCHANGED <<fds, bound>>
close(s) ==
  /\ At(s, "close")
  /\ NextAddress(s) \/ (Goes(s, "error") /\ UNCHANGED failed)
  /\ Closed(s)
  /\ UNCHANGED bound

\* freeaddrinfo; then -1 if p has run off the list.
freeaddrinfo_BugLastFails(s) ==
  /\ At(s, "free")
  /\ IF walk[s].p >= Len(walk[s].listp) THEN Goes(s, "error") /\ UNCHANGED failed
     ELSE Ends(s, IF s = "client" THEN "connected" ELSE "listen")
  /\ UNCHANGED <<fds, bound>>
freeaddrinfo(s) ==
  /\ At(s, "free")
  /\ IF walk[s].p > Len(walk[s].listp) THEN Goes(s, "error") /\ UNCHANGED failed
     ELSE Ends(s, IF s = "client" THEN "connected" ELSE "listen")
  /\ UNCHANGED <<fds, bound>>

listen ==
  /\ At("server", "listen")
  /\ \/ Goes("server", "accept") /\ UNCHANGED fds
     \/ Goes("server", "error") /\ Closed("server")
  /\ UNCHANGED <<failed, bound>>

\* The client sees no difference if accept returns before open_clientfd does.
Accept ==
  /\ At("server", "accept")
  /\ \/ At("client", "connected") /\ Goes("server", "connected") /\ Opened("server") /\ bound' = {}
     \/ Goes("server", "exited") /\ Closed("server") /\ UNCHANGED bound
  /\ UNCHANGED failed

\* The wrappers: unix_error ends the process.
Exit(s) ==
  /\ At(s, "error") /\ Ends(s, "exited")
  /\ UNCHANGED <<fds, bound>>

SocketsNext == \/ \E s \in Sides : getaddrinfo(s) \/ socket(s) \/ close(s) \/ freeaddrinfo(s) \/ Exit(s)
               \/ connect \/ bind \/ listen \/ Accept

-------------------------------------------------------------------------------
(* What should hold. *)

\* A function that returns a descriptor has opened no other, and one that returns an
\* error has closed all it opened (csapp.c:966-986, 1014-1042).
NothingIsLeftOpen ==
  \A s \in Sides :
    CASE walk[s].pc \in {"resolve", "socket", "error", "exited"} -> fds[s] = 0
      [] walk[s].pc \in {"connect", "bind", "close", "listen", "accept"} -> fds[s] = 1
      [] walk[s].pc = "free" -> fds[s] = IF walk[s].p > Len(walk[s].listp) THEN 0 ELSE 1
      [] OTHER -> TRUE

\* A walk fails only if every address has failed, and succeeds with the first that
\* works: the server's socket is bound to it, the client's reaches that socket
\* (csapp.c:965-986, 1013-1035).
WalksEndRight ==
  [][\A s \in Sides : At(s, "free") /\ ~At(s, "free")' =>
       LET l == walk[s].listp
       IN  IF At(s, "error")' THEN \A k \in DOMAIN l : l[k] \in failed[s]
           ELSE /\ \A k \in 1 .. walk[s].p - 1 : l[k] \in failed[s]
                /\ bound = {Address(s)}]_socketVars
===============================================================================
