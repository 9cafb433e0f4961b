------------------------------ MODULE ProxyRequest ------------------------------
(***************************************************************************)
(* What the proxy makes of a request: parse_url takes the URL apart and    *)
(* uri2req_header builds the lines sent to the end server.  A request is   *)
(* [form, path, headers, ended]: the form of its URL, the file it names,   *)
(* its header lines, and whether the blank line came before the end.       *)
(*                                                                         *)
(* url_parsed, host_hdr and other are never initialised: they hold what    *)
(* the thread's stack held, which is a parameter here.  A new thread's     *)
(* stack is zero; glibc reuses the stack of a finished one.                *)
(***************************************************************************)
EXTENDS Integers, Sequences, SequencesExt

Forms   == {"host and port", "host only", "path only"}
Headers == {"Host", "Connection", "Accept"}

\* Left in host_hdr: nothing, or some header.  Left in other: nothing, the
\* blank line of an earlier request, or text without an end of line.
Stacks == [host_hdr : {"", "left over"}, other : {"", "blank", "junk"}]

\* The fields parse_url fills.  Without a host the port is 80 and the host what
\* the stack held; without a port the code goes through a pointer that has no
\* value, before it fills any field.
parse_url(form) == CASE form = "host and port" -> {"host", "port", "path"}
                     [] form = "path only"     -> {"port", "path"}
                     [] form = "host only"     -> {}

\* Whether Open_clientfd can find the server, which does not listen at port 80;
\* if not, it ends the proxy.
Resolves(form) == "host" \in parse_url(form)

\* The Host header is dropped (its test is inverted) and any other header
\* replaces the one before it; the test for the headers to add never holds.
IsLast(headers, n) == headers[n] # "Host" /\ \A m \in n + 1 .. Len(headers) : headers[m] = "Host"
LastKept(headers, left) ==
  IF \E n \in DOMAIN headers : IsLast(headers, n)
  THEN headers[CHOOSE n \in DOMAIN headers : IsLast(headers, n)] ELSE left

\* The lines of other: what it held, and the blank line if one was read.
Ending(ended, left) ==
  CASE left = ""      -> IF ended THEN <<"blank">> ELSE <<>>
    [] left = "blank" -> IF ended THEN <<"blank", "blank">> ELSE <<"blank">>
    [] left = "junk"  -> IF ended THEN <<"junk">> ELSE <<>>

\* Without a kept header the Host of the URL is sent.
uri2req_header(headers, ended, stack) ==
  LET kept == LastKept(headers, stack.host_hdr)
  IN  <<"GET">>
      \o <<IF kept = "" THEN "Host" ELSE kept, "Connection", "Proxy-Connection", "User-Agent">>
      \o Ending(ended, stack.other)

\* The lines the end server receives.
Forwarded(r, stack) == uri2req_header(r.headers, r.ended, stack)
===============================================================================
