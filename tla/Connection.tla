--------------------------------- MODULE Connection ---------------------------------
(***************************************************************************)
(* A connection from its set-up to its end: Sockets connects a client to a *)
(* server, then the client is the writer and the server the reader of Rio. *)
(***************************************************************************)
EXTENDS Rio, Sockets

Connected == At("client", "connected") /\ At("server", "connected")

ConnectionInit == SocketsInit /\ Init

SetUp == SocketsNext /\ UNCHANGED vars
On(A) == Connected /\ A /\ UNCHANGED socketVars

connectionVars == <<vars, socketVars>>

\* Both processes keep running, and the reader keeps asking.  Interruptions do not go
\* on forever: a read that finds bytes, or the end, gets through.
ConnectionSpec ==
  /\ ConnectionInit
  /\ [][SetUp \/ On(Next)]_connectionVars
  /\ WF_connectionVars(SetUp)
  /\ WF_connectionVars(On(Write)) /\ WF_connectionVars(On(Close))
  /\ WF_connectionVars(On(Call)) /\ WF_connectionVars(On(Read))
  /\ WF_connectionVars(On(EndOfFile)) /\ WF_connectionVars(On(Copy))

-------------------------------------------------------------------------------
(* What should hold. *)

\* Unless one of the two ends on an error, the connection is made and every byte the
\* client has written is returned in the end, whatever the interruptions: no call
\* waits for bytes that are in its buffer, or for more than the stream will bring
\* (csapp.c:749-894).
EverythingArrives ==
  <>[](\/ \E s \in Sides : At(s, "exited")
       \/ call.op = "exited"
       \/ ~open /\ returned = First(message, Len(message) - nleft))
===============================================================================
