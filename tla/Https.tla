-------------------------------- MODULE Https --------------------------------
(***************************************************************************)
(* app/https.c and the TLS client it drives (crypto/tls_internal.c,        *)
(* crypto/tls/tlsv1_client.c): resolve the host, connect, shake hands,     *)
(* send one GET request, and pass on what is decrypted.                    *)
(*                                                                         *)
(* TCP cuts the stream where it likes.  The TLS client keeps the beginning *)
(* of a record until the rest has come; its memory may run out at any      *)
(* allocation.  The server's records are data, alerts and requests for     *)
(* another handshake.  The connections share the library's reference count.*)
(***************************************************************************)
EXTENDS Integers, Sequences, FiniteSets

CONSTANTS
    Conns,    \* connections, one call of https_connect each
    Answers,  \* the answers a server may give: what each of the records is
    L,        \* cells in a record
    MaxSeg    \* the largest segment TCP delivers, in cells

\* Application data, an alert that is a warning, one that is fatal, or a
\* message of a handshake (HelloRequest).
Kinds == {"data", "warning", "fatal", "handshake"}

ASSUME HttpsAssumption ==
    /\ IsFiniteSet(Conns)
    /\ Answers \subseteq Seq(Kinds)
    /\ L \in Nat \ {0}
    /\ MaxSeg \in Nat \ {0}

\* A server sends nothing after a fatal alert.
FatalEnds ==
    \A a \in Answers : \A i \in 1 .. Len(a) : a[i] = "fatal" => i = Len(a)

ASSUME FatalAssumption == FatalEnds

VARIABLES
    st,      \* the life of each connection
    tls,     \* context->tls and context->conn: "none", "global", or conn's state
    alert,   \* ghost: the handshake has returned an alert
    recvcb,  \* the receive callback
    seq,     \* records decrypted: conn->rl.read_seq_num
    held,    \* cells in conn->partial_input
    refs,    \* tls_ref_count
    answer,  \* ghost: the records the server sends after the request
    got,     \* ghost: cells of them TCP has delivered
    asked,   \* ghost: GET requests sent
    passed,  \* ghost: the numbers of the records taken (a warning brings nothing)
    starved, \* ghost: an allocation failed while decrypting
    refused  \* ghost: a record was decrypted that is neither data nor a warning

vars == <<st, tls, alert, recvcb, seq, held, refs, answer, got, asked, passed, starved, refused>>
stream == <<seq, held, answer, got, passed, starved, refused>>

\* st: "none", "dns", "connecting", "open", "left", "closing", "freed" as in Ota,
\* or "lost": nobody will ever call back.
\* tls: a server answers in two flights. SERVER_HELLO stands for the states up to
\* SERVER_HELLO_DONE, SERVER_FINISHED for the two that end the handshake.
Init ==
    /\ st = [c \in Conns |-> "none"]
    /\ tls = [c \in Conns |-> "none"]
    /\ alert = [c \in Conns |-> FALSE]
    /\ recvcb = [c \in Conns |-> "none"]
    /\ seq = [c \in Conns |-> 0]
    /\ held = [c \in Conns |-> 0]
    /\ refs = 0
    /\ answer \in [Conns -> Answers]
    /\ got = [c \in Conns |-> 0]
    /\ asked = [c \in Conns |-> 0]
    /\ passed = [c \in Conns |-> << >>]
    /\ starved = [c \in Conns |-> FALSE]
    /\ refused = [c \in Conns |-> FALSE]

-----------------------------------------------------------------------------
(***************************************************************************)
(* The TLS client while it shakes hands.  A call returns no buffer, an     *)
(* empty one, a flight or an alert, and says whether it needs more data.   *)
(***************************************************************************)
Return(state, out, more) == [state |-> state, out |-> out, more |-> more]

\* The state after the flight a client in state s is waiting for.
Flown(s) == IF s = "SERVER_HELLO" THEN "SERVER_FINISHED" ELSE "ESTABLISHED"

\* ... and what it answers.
Reply(s) == IF s = "SERVER_HELLO" THEN "flight" ELSE "empty"

\* What tlsv1_client_handshake may do with a segment, or with no input.
tlsv1_client_handshake(s, input) ==
    CASE s = "CLIENT_HELLO" /\ ~ input ->
            {Return("SERVER_HELLO", "flight", FALSE), Return(s, "NULL", FALSE)}
      [] s = "CLIENT_HELLO" /\ input ->
            {Return(s, "NULL", FALSE)}
      [] s \in {"SERVER_HELLO", "SERVER_FINISHED"} ->
            {Return(s, "NULL", TRUE),              \* a record is incomplete
             Return(s, "NULL", FALSE),             \* no memory
             Return(s, "empty", FALSE),            \* the flight goes on
             Return(Flown(s), Reply(s), FALSE),    \* the flight is complete
             Return(Flown(s), "NULL", FALSE),      \* ... and no memory
             Return("FAILED", "alert", FALSE),     \* something is wrong with it
             Return("FAILED", "NULL", FALSE),      \* ... and no memory
             Return("FAILED", "empty", FALSE)}     \* the server sent an alert
      [] s \in {"ESTABLISHED", "FAILED"} ->
            {Return(s, "NULL", TRUE), Return(s, "NULL", FALSE), Return(s, "empty", FALSE),
             Return("FAILED", "alert", FALSE)}     \* an alert is sent again and again

tls_connection_established(s) == s = "ESTABLISHED"

\* Only a server's failure is reported.
tls_connection_get_failed(s) == FALSE

-----------------------------------------------------------------------------
\* A url that is not https changes nothing.  The result of the lookup is not
\* looked at.
https_connect(c) ==
    /\ st[c] = "none"
    /\ st' = [st EXCEPT ![c] = "dns"]
    /\ UNCHANGED <<tls, alert, recvcb, refs, asked, stream>>

\* The address was known already: the lookup returns it and never calls back.
LookupIsCached(c) ==
    /\ st[c] = "dns"
    /\ st' = [st EXCEPT ![c] = "lost"]
    /\ UNCHANGED <<tls, alert, recvcb, refs, asked, stream>>

\* (Releases the library also when it was never taken.)
ReleaseAlways(c) ==
    /\ st' = [st EXCEPT ![c] = "freed"]
    /\ tls' = [tls EXCEPT ![c] = "none"]
    /\ refs' = refs - 1

\* The application is told, then everything is released.
Release(c) ==
    /\ st' = [st EXCEPT ![c] = "freed"]
    /\ tls' = [tls EXCEPT ![c] = "none"]
    /\ refs' = IF tls[c] # "none" THEN refs - 1 ELSE refs

https_discon(c) ==
    /\ st[c] \in {"left", "closing"}
    /\ Release(c)
    /\ UNCHANGED <<alert, recvcb, asked, stream>>

https_dns_found(c) ==
    /\ st[c] = "dns"
    /\ \/ /\ st' = [st EXCEPT ![c] = "connecting"]
          /\ recvcb' = [recvcb EXCEPT ![c] = "https_tls_recv"]
          /\ UNCHANGED <<tls, refs>>
       \/ Release(c) /\ UNCHANGED recvcb
    /\ UNCHANGED <<alert, asked, stream>>

\* The handshake is over: send the request, receive with https_recv.
Ask(c) ==
    /\ asked' = [asked EXCEPT ![c] = @ + 1]
    /\ recvcb' = [recvcb EXCEPT ![c] = "https_recv"]

\* Whether https_tls_recv gives up.
HangsUp(r) == IF r.out = "NULL" THEN ~ r.more ELSE tls_connection_get_failed(r.state)

\* https_tls_recv with what the TLS client returned: give up, send the request,
\* or send the flight (if there is one) and wait.
Handle(c, r) ==
    /\ alert' = [alert EXCEPT ![c] = @ \/ r.out = "alert"]
    /\ st' = [st EXCEPT ![c] = IF HangsUp(r) THEN "closing" ELSE "open"]
    /\ IF r.out # "NULL" /\ ~ HangsUp(r) /\ tls_connection_established(r.state)
       THEN Ask(c)
       ELSE UNCHANGED <<recvcb, asked>>

\* Connected.  tls_init counts before it allocates; each of the two
\* allocations may fail; otherwise the handshake begins without input.
https_tls_connect(c) ==
    /\ st[c] = "connecting"
    /\ refs' = refs + 1
    /\ \/ /\ tls' \in {[tls EXCEPT ![c] = "none"], [tls EXCEPT ![c] = "global"]}
          /\ st' = [st EXCEPT ![c] = "closing"]
          /\ UNCHANGED <<alert, recvcb, asked>>
       \/ \E r \in tlsv1_client_handshake("CLIENT_HELLO", FALSE) :
             /\ tls' = [tls EXCEPT ![c] = r.state]
             /\ Handle(c, r)
    /\ UNCHANGED stream

\* A segment of the handshake.
https_tls_recv(c) ==
    /\ st[c] = "open"
    /\ recvcb[c] = "https_tls_recv"
    /\ \E r \in tlsv1_client_handshake(tls[c], TRUE) :
          /\ tls' = [tls EXCEPT ![c] = r.state]
          /\ Handle(c, r)
    /\ UNCHANGED <<refs, stream>>

-----------------------------------------------------------------------------
(***************************************************************************)
(* The TLS client once the handshake is over.  What it works on starts     *)
(* with the cells it has kept.                                             *)
(***************************************************************************)
Start(c) == got[c] - held[c]

\* (The MAC does not depend on the record's number.)
AlignedOnly(c) == Start(c) % L = 0

\* tlsv1_record_receive accepts what starts with a record, if it is the one
\* whose number the MAC was computed with.
tlsv1_record_receive(c) == Start(c) % L = 0 /\ Start(c) \div L = seq[c]

\* The complete records there are after m more cells, counted from the start,
\* and what they are.
Complete(c, m) == 1 .. ((held[c] + m) \div L)
Kind(c, i) == answer[c][Start(c) \div L + i]

\* Data and warnings let the loop go on, everything else ends the call.
GoesOn(c, i) == Kind(c, i) \in {"data", "warning"}

\* (The beginning of a record is forgotten.)
DropPartial(c, m) ==
    /\ \A i \in Complete(c, m) : GoesOn(c, i)
    /\ seq' = [seq EXCEPT ![c] = @ + (held[c] + m) \div L]
    /\ held' = [held EXCEPT ![c] = 0]
    /\ UNCHANGED <<starved, refused>>

\* All complete records are decrypted, the rest is kept.
DecryptAll(c, m) ==
    /\ \A i \in Complete(c, m) : GoesOn(c, i)
    /\ seq' = [seq EXCEPT ![c] = @ + (held[c] + m) \div L]
    /\ held' = [held EXCEPT ![c] = (held[c] + m) % L]
    /\ UNCHANGED <<starved, refused>>

\* The records such a call takes.
Decrypted(c, m) == [i \in Complete(c, m) |-> Start(c) \div L + i]

\* No memory after j records, with something left: all is thrown away.
DecryptStarved(c, m) ==
    /\ \E j \in {0} \cup Complete(c, m) :
          /\ \A i \in 1 .. j : GoesOn(c, i)
          /\ j * L < held[c] + m
          /\ seq' = [seq EXCEPT ![c] = @ + j]
    /\ held' = [held EXCEPT ![c] = 0]
    /\ starved' = [starved EXCEPT ![c] = TRUE]
    /\ UNCHANGED refused

\* The j-th is a fatal alert or of another type: it is counted, and all is thrown
\* away, what was decrypted before it too.
DecryptEnded(c, m) ==
    /\ \E j \in Complete(c, m) :
          /\ \A i \in 1 .. (j - 1) : GoesOn(c, i)
          /\ ~ GoesOn(c, j)
          /\ seq' = [seq EXCEPT ![c] = @ + j]
    /\ held' = [held EXCEPT ![c] = 0]
    /\ refused' = [refused EXCEPT ![c] = TRUE]
    /\ UNCHANGED starved

\* Not a record, or the MAC is wrong: thrown away, unless it looks like the
\* beginning of a long record.
DecryptRefused(c, m) ==
    /\ \E h \in {0, held[c] + m} : held' = [held EXCEPT ![c] = h]
    /\ UNCHANGED <<seq, starved, refused>>

\* A segment of m cells.  A failure to decrypt is not noticed; the application
\* may call https_disconnect when it is given something.
https_recv(c, m) ==
    /\ st[c] = "open"
    /\ recvcb[c] = "https_recv"
    /\ got[c] + m <= Len(answer[c]) * L
    /\ got' = [got EXCEPT ![c] = @ + m]
    /\ \/ /\ tlsv1_record_receive(c)
          /\ DecryptAll(c, m)
          /\ passed' = [passed EXCEPT ![c] = @ \o Decrypted(c, m)]
          /\ \/ UNCHANGED st
             \/ /\ \E i \in Complete(c, m) : Kind(c, i) = "data"
                /\ st' = [st EXCEPT ![c] = "closing"]
       \/ /\ tlsv1_record_receive(c)
          /\ DecryptStarved(c, m) \/ DecryptEnded(c, m)
          /\ UNCHANGED <<passed, st>>
       \/ /\ ~ tlsv1_record_receive(c)
          /\ DecryptRefused(c, m)
          /\ UNCHANGED <<passed, st>>
    /\ UNCHANGED <<tls, alert, recvcb, refs, answer, asked>>

PeerCloses(c) ==
    /\ st[c] = "open"
    /\ st' = [st EXCEPT ![c] = "left"]
    /\ UNCHANGED <<tls, alert, recvcb, refs, asked, stream>>

\* No callback is registered for a connection that fails.
Aborted(c) ==
    /\ st[c] \in {"connecting", "open", "left", "closing"}
    /\ st' = [st EXCEPT ![c] = "lost"]
    /\ UNCHANGED <<tls, alert, recvcb, refs, asked, stream>>

Next ==
    \E c \in Conns :
        \/ https_connect(c)
        \/ LookupIsCached(c)
        \/ https_dns_found(c)
        \/ https_tls_connect(c)
        \/ https_tls_recv(c)
        \/ \E m \in 1 .. MaxSeg : https_recv(c, m)
        \/ PeerCloses(c)
        \/ https_discon(c)
        \/ Aborted(c)

Spec == Init /\ [][Next]_vars

-----------------------------------------------------------------------------
\* The server does not ask for another handshake.
KeepsToData(c) == \A i \in 1 .. Len(answer[c]) : answer[c][i] # "handshake"

(***************************************************************************)
(* The library is not shut down under a connection: the count covers every *)
(* TLS context there is, whichever connection ends first and at whichever  *)
(* step its set-up failed.                                                 *)
(***************************************************************************)
LibraryStaysUp == Cardinality({c \in Conns : tls[c] # "none"}) <= refs

(***************************************************************************)
(* The application sees the beginning of the answer, in order and without  *)
(* a gap, even after an allocation has failed and data was thrown away:    *)
(* nothing that comes after the gap is accepted as a record.  Only if the  *)
(* server asks for another handshake may a call's data be missing in the   *)
(* middle; still nothing is out of order or comes twice.  Nothing is seen  *)
(* before the request was sent, which happens once.                        *)
(***************************************************************************)
AppSeesPrefix ==
    \A c \in Conns :
        /\ \A i, j \in DOMAIN passed[c] : i < j => passed[c][i] < passed[c][j]
        /\ KeepsToData(c) => passed[c] = [k \in 1 .. Len(passed[c]) |-> k]
        /\ passed[c] # << >> => asked[c] = 1

(***************************************************************************)
(* While memory suffices, and until the server sends a fatal alert or      *)
(* another type of record, the application has every complete record,      *)
(* however TCP cut the stream.  (The call that meets such a record loses   *)
(* the data decrypted before it.)                                          *)
(***************************************************************************)
NothingIsLost ==
    \A c \in Conns : ~ starved[c] /\ ~ refused[c] => Len(passed[c]) = got[c] \div L

(***************************************************************************)
(* tls.h of the alert that handshake2 returns: "In this case,              *)
(* tls_connection_get_failed() must return failure".  https.c relies on it *)
(* to hang up.                                                             *)
(***************************************************************************)
AlertIsReported ==
    \A c \in Conns : alert[c] /\ tls[c] # "none" => tls_connection_get_failed(tls[c])

-----------------------------------------------------------------------------
(***************************************************************************)
(* The inductive invariant behind the three.                               *)
(***************************************************************************)
Handshaking == {"CLIENT_HELLO", "SERVER_HELLO", "SERVER_FINISHED", "ESTABLISHED", "FAILED"}

TypeOK ==
    /\ st \in [Conns -> {"none", "dns", "connecting", "open", "left", "closing", "freed", "lost"}]
    /\ tls \in [Conns -> {"none", "global"} \cup Handshaking]
    /\ alert \in [Conns -> BOOLEAN]
    /\ recvcb \in [Conns -> {"none", "https_tls_recv", "https_recv"}]
    /\ seq \in [Conns -> Nat]
    /\ held \in [Conns -> Nat]
    /\ refs \in Nat
    /\ answer \in [Conns -> Answers]
    /\ got \in [Conns -> Nat]
    /\ asked \in [Conns -> Nat]
    /\ passed \in [Conns -> Seq(Nat)]
    /\ starved \in [Conns -> BOOLEAN]
    /\ refused \in [Conns -> BOOLEAN]

\* Whoever can be called with a segment has a TLS connection.
ContextInv == \A c \in Conns : st[c] = "open" => tls[c] \in Handshaking

\* Until the request is sent, once, nothing is decrypted.
RequestInv ==
    \A c \in Conns :
        /\ asked[c] = IF recvcb[c] = "https_recv" THEN 1 ELSE 0
        /\ st[c] \in {"none", "dns"} => recvcb[c] = "none"
        /\ st[c] = "connecting" => recvcb[c] = "https_tls_recv"
        /\ recvcb[c] # "https_recv" => passed[c] = << >>

\* The records taken are among those decrypted, in order.  Until something is
\* thrown away they are all of them, and what is kept starts where they end and is
\* less than a record.  After an allocation failed the start is past the records
\* decrypted, and nothing there has the number expected; after a refused record it
\* may still be where they end.  A fatal alert is the last record.
StreamInv ==
    \A c \in Conns :
        /\ held[c] <= got[c] /\ got[c] <= Len(answer[c]) * L
        /\ \A i, j \in DOMAIN passed[c] : i < j => passed[c][i] < passed[c][j]
        /\ \A i \in DOMAIN passed[c] : passed[c][i] <= seq[c]
        /\ KeepsToData(c) \/ ~ refused[c] => passed[c] = [k \in 1 .. Len(passed[c]) |-> k]
        /\ Start(c) >= seq[c] * L
        /\ starved[c] => Start(c) > seq[c] * L
        /\ Start(c) = seq[c] * L => held[c] < L
        /\ ~ starved[c] /\ ~ refused[c] => Start(c) = seq[c] * L /\ Len(passed[c]) = seq[c]
        /\ refused[c] /\ KeepsToData(c) => got[c] = Len(answer[c]) * L

HttpsInv == LibraryStaysUp /\ ContextInv /\ RequestInv /\ StreamInv
=============================================================================
