-------------------------------- MODULE Httpd --------------------------------
(***************************************************************************)
(* app/httpd.c and the pages of web/system.cpp: a list of handlers by URL  *)
(* prefix, and connections whose answers are longer than espconn can queue *)
(* and therefore go out piece by piece, from one callback to the next.     *)
(*                                                                         *)
(* A connection's context remembers the handler, the URL and the next      *)
(* line.  A handler returns true to be called again when something has     *)
(* been sent, false to hang up.  The callbacks of different connections    *)
(* interleave; espconn_disconnect takes effect later, and an               *)
(* acknowledgement may come in between.                                    *)
(***************************************************************************)
EXTENDS Integers, Sequences, SequencesExt

CONSTANTS
    Conns,       \* connections
    Cap,         \* how many packets of a connection espconn queues
    PageLines,   \* chunks of the page of web_system   (6)
    RtcLines,    \* chunks of the page of web_rtc      (192)
    Parts,       \* what URLs are made of
    Values,      \* what a form may contain
    LateNodes,   \* what httpd_regist is called with after setup()
    Requests,    \* what clients send: GET or not, a URL, the value in it
    MaxReq       \* bound: requests on one connection

(***************************************************************************)
(* A URL is the sequence of its parts: <<"/">> is a prefix of every path.  *)
(***************************************************************************)
Root == <<"/">>
Node(url, type, handler) == [url |-> url, type |-> type, handler |-> handler]

\* What setup() registers.  (web_ip, web_ota, web_mqtt and web_ntp are web_ssid
\* with another file and other keys; one of the five stands for all.)
SetupNodes == <<
    Node(Root, "html", "web_system"),
    Node(<<"/", "ssid">>, "none", "web_ssid"),
    Node(<<"/", "reset">>, "none", "web_reset"),
    Node(<<"/", "rtc">>, "plain", "web_rtc") >>

\* A page has a content type, which its header tells; a form's handler has none.
Typed == {"web_system", "web_rtc"}
Handlers == Typed \cup {"web_ssid", "web_reset"}
Nodes == {n \in [url : Seq(Parts), type : {"html", "plain", "none"}, handler : Handlers] :
              n.type # "none" <=> n.handler \in Typed}

SetupUrls == {SetupNodes[i].url : i \in 1 .. Len(SetupNodes)}
LateUrls == {n.url : n \in LateNodes}

NoConn == "nobody"

(***************************************************************************)
(* What is registered late either has a URL of setup(), as "/" has, or one *)
(* that is no prefix of another, as "/setup" is.                           *)
(***************************************************************************)
ASSUME HttpdAssumption ==
    /\ Cap \in Nat \ {0}
    /\ PageLines \in Nat \ {0}
    /\ RtcLines \in Nat \ {0}
    /\ MaxReq \in Nat
    /\ NoConn \notin Conns
    /\ {"/", "ssid", "reset", "rtc"} \subseteq Parts
    /\ Requests \subseteq [get : BOOLEAN, url : Seq(Parts), value : Values]
    /\ LateNodes \subseteq Nodes
    /\ \A u \in LateUrls \ SetupUrls : \A v \in SetupUrls \cup LateUrls :
          IsPrefix(u, v) => u = v

VARIABLES
    handlers,  \* httpd_handlers, from its head on
    st,        \* the life of a connection
    ctx,       \* pespconn->reverse: handler, value in the URL and line, or NoCtx
    out,       \* packets sent and not yet acknowledged
    file,      \* the lines of the file "ssid"
    armed,     \* the restart timer of web_reset runs
    wire,      \* ghost: what was put on the connection
    reqs,      \* ghost: requests received on the connection
    cut,       \* ghost: it was hung up because a request was not understood
    saver      \* ghost: the connection whose handler last wrote the file, while open

vars == <<handlers, st, ctx, out, file, armed, wire, reqs, cut, saver>>

NoCtx == [handler |-> "none"]

\* What goes over the wire.
Header == <<"header", 0>>
Redirect == <<"redirect", 0>>
Chunk(k) == <<"chunk", k>>

-----------------------------------------------------------------------------
\* (A new node goes to the end of the list.)
RegistLast(list, n) ==
    IF \E p \in 1 .. Len(list) : list[p].url = n.url
    THEN [p \in 1 .. Len(list) |-> IF list[p].url = n.url THEN n ELSE list[p]]
    ELSE Append(list, n)

\* httpd_regist: replace the node of the same URL, or put a new one in front.
Regist(list, n) ==
    IF \E p \in 1 .. Len(list) : list[p].url = n.url
    THEN [p \in 1 .. Len(list) |-> IF list[p].url = n.url THEN n ELSE list[p]]
    ELSE <<n>> \o list

\* setup() registers one after the other.
AtSetup ==
    Regist(Regist(Regist(Regist(<< >>, SetupNodes[1]), SetupNodes[2]), SetupNodes[3]),
           SetupNodes[4])

\* The positions of the nodes whose URL is a prefix of u.
Matches(u) == {p \in 1 .. Len(handlers) : IsPrefix(handlers[p].url, u)}

\* The first one in the list is taken.
Dispatch(u) == handlers[CHOOSE p \in Matches(u) : \A q \in Matches(u) : p <= q]

Init ==
    /\ handlers = AtSetup
    /\ st = [c \in Conns |-> "closed"]
    /\ ctx = [c \in Conns |-> NoCtx]
    /\ out = [c \in Conns |-> 0]
    /\ file = << >>
    /\ armed = FALSE
    /\ wire = [c \in Conns |-> << >>]
    /\ reqs = [c \in Conns |-> 0]
    /\ cut = [c \in Conns |-> FALSE]
    /\ saver = NoConn

httpd_regist(n) ==
    /\ handlers' = Regist(handlers, n)
    /\ UNCHANGED <<st, ctx, out, file, armed, wire, reqs, cut, saver>>

\* httpd_listen: a client connects.
httpd_listen(c) ==
    /\ st[c] = "closed"
    /\ st' = [st EXCEPT ![c] = "open"]
    /\ UNCHANGED <<handlers, ctx, out, file, armed, wire, reqs, cut, saver>>

-----------------------------------------------------------------------------
\* What a handler run does: the items it puts on the wire, whether it wants to
\* be called again, the line it leaves, and what it changes elsewhere.
Result(items, more, line, text, restart) ==
    [items |-> items, more |-> more, line |-> line, file |-> text, armed |-> restart]

\* (The line advances although the chunk was refused.)
SystemSkips(line, room) ==
    LET n == IF PageLines - line < room THEN PageLines - line ELSE room
    IN  Result([k \in 1 .. n |-> Chunk(line + k)], line + n < PageLines,
               IF line + n < PageLines THEN line + n + 1 ELSE line + n, file, armed)

\* The switch falls through from line to line until a chunk is refused.
web_system(line, room) ==
    LET n == IF PageLines - line < room THEN PageLines - line ELSE room
    IN  Result([k \in 1 .. n |-> Chunk(line + k)], line + n < PageLines,
               line + n, file, armed)

\* (Waits for an acknowledgement although nothing was sent.)
RtcWaits(line, room) ==
    IF line >= RtcLines THEN Result(<< >>, TRUE, line, file, armed)
    ELSE IF room = 0 THEN Result(<< >>, TRUE, line, file, armed)
    ELSE Result(<<Chunk(line + 1)>>, TRUE, line + 1, file, armed)

\* (One chunk too few.)
RtcShort(line, room) ==
    IF line + 1 >= RtcLines THEN Result(<< >>, FALSE, line, file, armed)
    ELSE IF room = 0 THEN Result(<< >>, TRUE, line, file, armed)
    ELSE Result(<<Chunk(line + 1)>>, TRUE, line + 1, file, armed)

\* One chunk for each call; whether it was refused is not looked at.
web_rtc(line, room) ==
    IF line >= RtcLines THEN Result(<< >>, FALSE, line, file, armed)
    ELSE IF room = 0 THEN Result(<< >>, TRUE, line, file, armed)
    ELSE Result(<<Chunk(line + 1)>>, TRUE, line + 1, file, armed)

httpd_redirect(room) == IF room = 0 THEN << >> ELSE <<Redirect>>

\* (Opens the file for appending.)
SaveAppends(value, line, room, opened) ==
    Result(httpd_redirect(room), FALSE, line, IF opened THEN Append(file, value) ELSE file,
           armed)

\* web_ssid, web_ip, web_ota, web_mqtt, web_ntp: write the file anew if it can
\* be opened.
web_ssid(value, line, room, opened) ==
    Result(httpd_redirect(room), FALSE, line, IF opened THEN <<value>> ELSE file, armed)

web_reset(line, room) == Result(httpd_redirect(room), FALSE, line, file, TRUE)

\* The call of a context's handler when espconn has room for `room' packets.
Call(x, room, opened) ==
    CASE x.handler = "web_system" -> web_system(x.line, room)
      [] x.handler = "web_rtc"    -> web_rtc(x.line, room)
      [] x.handler = "web_ssid"   -> web_ssid(x.value, x.line, room, opened)
      [] x.handler = "web_reset"  -> web_reset(x.line, room)

\* Run it on connection c with context x when o packets are outstanding.  A
\* connection that is being closed takes nothing more.
Run(c, x, o) ==
    \E opened \in (IF x.handler = "web_ssid" THEN BOOLEAN ELSE {TRUE}) :
        LET r == Call(x, IF st[c] = "open" THEN Cap - o ELSE 0, opened)
        IN  /\ ctx' = [ctx EXCEPT ![c] = [x EXCEPT !.line = r.line]]
            /\ wire' = [wire EXCEPT ![c] = @ \o r.items]
            /\ out' = [out EXCEPT ![c] = o + Len(r.items)]
            /\ st' = [st EXCEPT ![c] = IF r.more THEN @ ELSE "closing"]
            /\ file' = r.file
            /\ armed' = r.armed
            /\ saver' = IF x.handler = "web_ssid" /\ opened THEN c ELSE saver

\* The header of a typed node; a refusal is not looked at.
SendHeader(c, x) ==
    LET sent == out[c] < Cap
    IN  /\ ctx' = [ctx EXCEPT ![c] = x]
        /\ wire' = [wire EXCEPT ![c] = IF sent THEN Append(@, Header) ELSE @]
        /\ out' = [out EXCEPT ![c] = IF sent THEN @ + 1 ELSE @]
        /\ UNCHANGED <<st, file, armed, saver>>

\* A segment arrives: a request, or the rest of one that was longer than a
\* segment, which is not understood.
httpd_server_recv(c, r) ==
    /\ st[c] = "open"
    /\ reqs[c] < MaxReq
    /\ reqs' = [reqs EXCEPT ![c] = @ + 1]
    /\ UNCHANGED handlers
    /\ \/ /\ r.get /\ Matches(r.url) # {}
          /\ LET node == Dispatch(r.url)
                 x    == [handler |-> node.handler, value |-> r.value, line |-> 0]
             IN  IF node.type # "none" THEN SendHeader(c, x) ELSE Run(c, x, out[c])
          /\ UNCHANGED cut
       \/ /\ ~ (r.get /\ Matches(r.url) # {})
          /\ st' = [st EXCEPT ![c] = "closing"]
          /\ cut' = [cut EXCEPT ![c] = TRUE]
          /\ UNCHANGED <<ctx, out, file, armed, wire, saver>>

\* A packet is acknowledged.
httpd_server_sent(c) ==
    /\ st[c] \in {"open", "closing"}
    /\ out[c] > 0
    /\ Run(c, ctx[c], out[c] - 1)
    /\ UNCHANGED <<handlers, reqs, cut>>

\* The client closes its side.
PeerCloses(c) ==
    /\ st[c] = "open"
    /\ st' = [st EXCEPT ![c] = "left"]
    /\ UNCHANGED <<handlers, ctx, out, file, armed, wire, reqs, cut, saver>>

Close(cs) ==
    /\ st' = [c \in Conns |-> IF c \in cs THEN "closed" ELSE st[c]]
    /\ ctx' = [c \in Conns |-> IF c \in cs THEN NoCtx ELSE ctx[c]]
    /\ out' = [c \in Conns |-> IF c \in cs THEN 0 ELSE out[c]]
    /\ wire' = [c \in Conns |-> IF c \in cs THEN << >> ELSE wire[c]]
    /\ reqs' = [c \in Conns |-> IF c \in cs THEN 0 ELSE reqs[c]]
    /\ cut' = [c \in Conns |-> IF c \in cs THEN FALSE ELSE cut[c]]
    /\ saver' = IF saver \in cs THEN NoConn ELSE saver

\* The disconnect is reported: the context is freed.
httpd_server_discon(c) ==
    /\ st[c] \in {"closing", "left"}
    /\ Close({c})
    /\ UNCHANGED <<handlers, file, armed>>

\* The connection fails: no callback is registered for it, the context is lost.
Aborted(c) ==
    /\ st[c] # "closed"
    /\ Close({c})
    /\ UNCHANGED <<handlers, file, armed>>

\* The timer of web_reset fires: system_restart_local, then setup() again.
Restart ==
    /\ armed
    /\ Close(Conns)
    /\ handlers' = AtSetup
    /\ armed' = FALSE
    /\ UNCHANGED file

Next ==
    \/ \E n \in LateNodes : httpd_regist(n)
    \/ \E c \in Conns :
          \/ httpd_listen(c)
          \/ \E r \in Requests : httpd_server_recv(c, r)
          \/ httpd_server_sent(c)
          \/ PeerCloses(c)
          \/ httpd_server_discon(c)
          \/ Aborted(c)
    \/ Restart

(***************************************************************************)
(* TCP acknowledges a packet or the connection fails, the SDK reports a    *)
(* disconnect, and timers fire.                                            *)
(***************************************************************************)
Fairness ==
    /\ \A c \in Conns : WF_vars(httpd_server_sent(c)) /\ WF_vars(httpd_server_discon(c))
    /\ WF_vars(Restart)

Spec == Init /\ [][Next]_vars
FairSpec == Spec /\ Fairness

-----------------------------------------------------------------------------
Lines(h) == IF h = "web_system" THEN PageLines ELSE RtcLines

(***************************************************************************)
(* A request is answered by the handler with the longest matching URL,     *)
(* whatever was registered again while the device was running: the list is *)
(* searched from its head, and the catch-all "/" has to stay behind the    *)
(* others.                                                                 *)
(***************************************************************************)
LongestPrefixWins ==
    \A r \in Requests :
        Matches(r.url) # {} =>
            \A p \in Matches(r.url) : Len(handlers[p].url) <= Len(Dispatch(r.url).url)

(***************************************************************************)
(* A page arrives in order and without gaps: every chunk but the first     *)
(* follows the one before it, although the callbacks of other connections, *)
(* refused packets and further requests come in between; the first request *)
(* of a connection gets its header first.                                  *)
(***************************************************************************)
ChunksInOrder ==
    \A c \in Conns : \A p \in 1 .. Len(wire[c]) :
        /\ wire[c][p][1] = "chunk" /\ wire[c][p][2] > 1 =>
               p > 1 /\ wire[c][p - 1] = Chunk(wire[c][p][2] - 1)
        /\ wire[c][p] = Chunk(1) /\ reqs[c] = 1 => p = 2 /\ wire[c][1] = Header

(***************************************************************************)
(* The server hangs up on a page only after its last chunk, unless a       *)
(* segment was not understood.                                             *)
(***************************************************************************)
HangsUpAfterLastChunk ==
    \A c \in Conns :
        st[c] = "closing" /\ ~ cut[c] /\ ctx[c].handler \in Typed =>
            wire[c] # << >> /\ Last(wire[c]) = Chunk(Lines(ctx[c].handler))

(***************************************************************************)
(* A form is saved once: the acknowledgement of the redirect runs the      *)
(* handler a second time, which leaves the file as it is unless the first  *)
(* time it could not be opened or another connection has changed it since. *)
(***************************************************************************)
SecondRunKeepsFile ==
    [][\A c \in Conns : httpd_server_sent(c) /\ saver = c => file' = file]_vars

(***************************************************************************)
(* Every request is answered and its connection released: no answer gets   *)
(* stuck without an acknowledgement to come that calls the handler again,  *)
(* even when the queue refused a packet and nobody looked.                 *)
(***************************************************************************)
RequestsEnd ==
    \A c \in Conns : (reqs[c] > 0 /\ st[c] = "open") ~> st[c] # "open"

-----------------------------------------------------------------------------
Contexts == [handler : Handlers, value : Values, line : Nat]
Items == {"header", "redirect", "chunk"} \X Nat

\* The types of the variables.
TypeOK ==
    /\ handlers \in Seq(Nodes)
    /\ st \in [Conns -> {"closed", "open", "closing", "left"}]
    /\ ctx \in [Conns -> Contexts \cup {NoCtx}]
    /\ out \in [Conns -> 0 .. Cap]
    /\ file \in Seq(Values)
    /\ armed \in BOOLEAN
    /\ wire \in [Conns -> Seq(Items)]
    /\ reqs \in [Conns -> Nat]
    /\ cut \in [Conns -> BOOLEAN]
    /\ saver \in Conns \cup {NoConn}

(***************************************************************************)
(* Nothing in a list of handlers hides what is behind it; nothing but what *)
(* setup() and wifi() register is in it, and all that setup() does.        *)
(***************************************************************************)
NothingHidden(list) ==
    /\ \A p, q \in 1 .. Len(list) : p < q => ~ IsPrefix(list[p].url, list[q].url)
    /\ \A p \in 1 .. Len(list) : list[p].url \in SetupUrls \cup LateUrls

HandlersInv ==
    /\ NothingHidden(handlers)
    /\ SetupUrls \subseteq {handlers[p].url : p \in 1 .. Len(handlers)}

(***************************************************************************)
(* A connection has a context from its first request on; what waits for an *)
(* acknowledgement was sent by its handler, and one that serves a form     *)
(* hangs up at once.                                                       *)
(***************************************************************************)
ContextInv ==
    \A c \in Conns :
        /\ st[c] = "closed" => reqs[c] = 0
        /\ reqs[c] = 0 => ctx[c] = NoCtx /\ wire[c] = << >> /\ out[c] = 0
        /\ out[c] > 0 => ctx[c] # NoCtx
        /\ ctx[c].handler \in Handlers \ Typed => st[c] = "closing"

(***************************************************************************)
(* The line in a context is the last chunk on the wire, whatever callbacks *)
(* came without room for another; before the first chunk of the first      *)
(* request there is just the header; and at the end it is the page's last. *)
(***************************************************************************)
PageInv ==
    \A c \in Conns : ctx[c].handler \in Typed =>
        /\ ctx[c].line <= Lines(ctx[c].handler)
        /\ ctx[c].line > 0 => wire[c] # << >> /\ Last(wire[c]) = Chunk(ctx[c].line)
        /\ ctx[c].line = 0 /\ reqs[c] = 1 => wire[c] = <<Header>>
        /\ st[c] = "closing" /\ ~ cut[c] => ctx[c].line = Lines(ctx[c].handler)

\* What is in the file is what the connection that wrote it last would write again.
SaverInv ==
    \A c \in Conns : saver = c =>
        st[c] = "closing" /\ ctx[c].handler = "web_ssid" /\ file = <<ctx[c].value>>

HttpdInv == HandlersInv /\ ContextInv /\ PageInv /\ ChunksInOrder /\ SaverInv
=============================================================================
