---------------------------- MODULE TlsHandshake ----------------------------
(****************************************************************************)
(* The TLS client and the TLS server of this repository, connected by two   *)
(* byte streams. A stream is a sequence of records, each of two halves, so  *)
(* that a call may get whole records or the beginning of one. The network   *)
(* may damage, lose, repeat or exchange records, and memory or the random   *)
(* number generator may fail during a call; `trouble` says whether that has *)
(* happened in the current handshake. The ciphers are those of the firmware:*)
(* where a suite with AES-256 is chosen the handshake fails.                *)
(****************************************************************************)
EXTENDS TlsCommon, FiniteSets

CONSTANTS
  Scenarios      \* how client and server are configured, and the bounds below

(****************************************************************************)
(* Bounds, in each scenario: `faults` is what may fail in a call,           *)
(* `troubles` how many faults and disturbances there may be, `halves`       *)
(* whether the server is called with half a record, `rounds` how many       *)
(* handshakes there are, `data` how many records of application data each   *)
(* side sends.                                                              *)
(****************************************************************************)

C == INSTANCE TlsClient
S == INSTANCE TlsServer

\* The suites of a client of another make: none of them is for plain text, and
\* none is anonymous unless the user allows it.
PeerSuites(suites, anonymous) ==
  /\ NullSuite \notin ToSet(suites)
  /\ ~anonymous =>
       \A x \in ToSet(suites) : tls_get_cipher_suite(x).key_exchange \in {"RSA", "DHE_RSA"}

ASSUME ScenariosAreSound ==
  \A s \in Scenarios :
    /\ s.flags \subseteq C!ClientFlags
    /\ s.client_cred \in C!Credentials \cup {NULL}
    /\ s.client_suites # NULL => PeerSuites(s.client_suites, s.client_anonymous)
    /\ s.server_cred.verdict \in {"ok"} \cup Alerts
    /\ "none" \in s.faults /\ s.faults \subseteq Faults

VARIABLES
  scenario, client, server,
  toServer, toClient,   \* the two streams
  sent, got,            \* application data: sent, received, per side
  trouble, troubles     \* has there been trouble in this handshake, and how often

vars == <<scenario, client, server, toServer, toClient, sent, got,
          trouble, troubles>>

(****************************************************************************)
(* The users of the two ends. One of them may be of another make, which     *)
(* behaves as this library does but has suites of its own.                  *)
(****************************************************************************)
OfAnotherMake(conn, suites) ==
  IF suites = NULL THEN conn ELSE [conn EXCEPT !.cipher_suites = suites]

ClientOf(s) ==
  C!tlsv1_client_set_session_ticket_cb(
    C!tlsv1_client_hello_ext(
      OfAnotherMake(
        C!tlsv1_client_set_cipher_list(
          C!tlsv1_client_set_flags(
            C!tlsv1_client_set_cred(C!tlsv1_client_init, s.client_cred), s.flags),
          s.client_anonymous),
        s.client_suites),
      s.ticket),
    s.client_cb)

ServerOf(s, round) ==
  LET conn == S!tlsv1_server_set_session_ticket_cb(
                S!tlsv1_server_set_verify(
                  OfAnotherMake(
                    S!tlsv1_server_set_cipher_list(S!tlsv1_server_init(s.server_cred),
                                                   s.server_anonymous),
                    s.server_suites),
                  s.verify_peer),
                s.server_cb)
  IN  [conn EXCEPT !.round = round]

Init ==
  /\ scenario \in Scenarios
  /\ client = ClientOf(scenario)
  /\ server = ServerOf(scenario, 1)
  /\ toServer = <<>> /\ toClient = <<>>
  /\ sent = [c |-> <<>>, s |-> <<>>] /\ got = [c |-> <<>>, s |-> <<>>]
  /\ trouble = FALSE /\ troubles = 0

\* What is left of a stream from which a call took `used` halves and still
\* holds back `held` of them. A record that has lost its first half is noise.
Damaged(stream) ==
  IF stream = <<>> THEN <<>> ELSE << [Head(stream) EXCEPT !.hdr = "version"] >> \o Tail(stream)

Rest(stream, used, held) ==
  LET left == SubSeq(stream, (used - held) \div 2 + 1, Len(stream))
  IN  IF held = 0 /\ used % 2 = 1 THEN Damaged(left) ELSE left

\* A fault in a call counts as trouble.
MayFail(fault) ==
  /\ fault # "none" => troubles < scenario.troubles
  /\ trouble' = (trouble \/ fault # "none")
  /\ troubles' = troubles + (IF fault = "none" THEN 0 ELSE 1)

\* The client's user: starts the handshake, then gives the library what has
\* arrived until the connection is established.
ClientHandshake(n, fault) ==
  /\ client.state # "ESTABLISHED"
  /\ IF client.state = "CLIENT_HELLO" THEN n = 0
     ELSE n \in 1 .. 2 * Len(toClient) - client.partial_input
  /\ toClient # <<>> /\ Head(toClient).hdr = "stale" /\ n # 0 => Len(toClient) > 1
  /\ MayFail(fault)
  /\ LET c == C!tlsv1_client_handshake(client, fault, toClient, n)
     IN  /\ client' = [c EXCEPT !.out = <<>>, !.appl_data = NULL, !.fault = "none"]
         /\ toServer' = toServer \o c.out
         /\ toClient' = Rest(toClient, client.partial_input + n, c.partial_input)
         /\ got' = IF c.appl_data = NULL THEN got
                   ELSE [got EXCEPT !.c = Append(@, c.appl_data.data)]
  /\ UNCHANGED <<scenario, server, sent>>

ServerHandshake(n, fault) ==
  /\ server.state # "ESTABLISHED"
  /\ n \in 1 .. 2 * Len(toServer)
  /\ scenario.halves \/ n % 2 = 0
  /\ MayFail(fault)
  /\ LET s == S!tlsv1_server_handshake(server, fault, toServer, n)
     IN  /\ server' = [s EXCEPT !.out = <<>>, !.fault = "none"]
         /\ toClient' = toClient \o s.out
         /\ toServer' = Rest(toServer, n, 0)
  /\ UNCHANGED <<scenario, client, sent, got>>

Data(n) == [type |-> "data", fmt |-> "ok", data |-> n]

ClientEncrypt ==
  /\ C!tlsv1_client_established(client)
  /\ Len(sent.c) < scenario.data
  /\ LET c == C!tlsv1_client_encrypt(client, Data(Len(sent.c) + 1))
     IN  client' = [c EXCEPT !.out = <<>>] /\ toServer' = toServer \o c.out
  /\ sent' = [sent EXCEPT !.c = Append(@, Len(@) + 1)]
  /\ UNCHANGED <<scenario, server, toClient, got, trouble, troubles>>

ServerEncrypt ==
  /\ S!tlsv1_server_established(server)
  /\ Len(sent.s) < scenario.data
  /\ LET s == S!tlsv1_server_encrypt(server, Data(Len(sent.s) + 1))
     IN  server' = [s EXCEPT !.out = <<>>] /\ toClient' = toClient \o s.out
  /\ sent' = [sent EXCEPT !.s = Append(@, Len(@) + 1)]
  /\ UNCHANGED <<scenario, client, toServer, got, trouble, troubles>>

DataOf(messages) == [i \in DOMAIN messages |-> messages[i].data]

\* A user that gets an error does not read on: the alert is set.
ClientDecrypt(n, fault) ==
  /\ C!tlsv1_client_established(client) /\ client.alert = NULL
  /\ n \in 1 .. 2 * Len(toClient) - client.partial_input
  /\ MayFail(fault)
  /\ LET c == C!tlsv1_client_decrypt(client, fault, toClient, n)
     IN  /\ client' = [c EXCEPT !.out = <<>>, !.fault = "none"]
         /\ toClient' = Rest(toClient, client.partial_input + n, c.partial_input)
         /\ got' = [got EXCEPT !.c = @ \o DataOf(c.out)]
  /\ UNCHANGED <<scenario, server, toServer, sent>>

ServerDecrypt(n) ==
  /\ S!tlsv1_server_established(server) /\ server.alert = NULL
  /\ n \in 1 .. 2 * Len(toServer)
  /\ scenario.halves \/ n % 2 = 0
  /\ \E uninitialized \in {"CLOSE_NOTIFY", "INTERNAL_ERROR"} :
       LET s == S!tlsv1_server_decrypt(server, toServer, n, uninitialized)
       IN  /\ server' = [s EXCEPT !.out = <<>>]
           /\ toServer' = Rest(toServer, n, 0)
           /\ got' = [got EXCEPT !.s = @ \o DataOf(s.out)]
  /\ UNCHANGED <<scenario, client, toClient, sent, trouble, troubles>>

\* Both users shut down and start again on new streams. The server's user may
\* keep its connection or take a new one. The half record that the client holds
\* stays; the beginning of the new stream completes it to noise.
Reconnect ==
  /\ client.round < scenario.rounds
  /\ client.state \in {"ESTABLISHED", "FAILED"} \/ server.state = "FAILED"
  /\ client' = C!tlsv1_client_shutdown(client)
  /\ \/ server' = ServerOf(scenario, server.round + 1)
     \/ server' = S!tlsv1_server_shutdown(server)
  /\ toServer' = <<>>
  /\ toClient' = IF client.partial_input = 0 THEN <<>> ELSE << [Head(toClient) EXCEPT !.hdr = "stale"] >>
  /\ sent' = [c |-> <<>>, s |-> <<>>] /\ got' = [c |-> <<>>, s |-> <<>>]
  /\ trouble' = FALSE
  /\ UNCHANGED <<scenario, troubles>>

(****************************************************************************)
(* The network                                                              *)
(****************************************************************************)

\* Other forms a record may arrive in. What is protected can be changed only
\* into something that is not what the key and the number promise.
Changed(r) ==
  { [r EXCEPT !.hdr = "version"], [r EXCEPT !.hdr = "overflow"],
    [r EXCEPT !.ct = "unknown"] }
  \cup (IF r.key # NoKey THEN { [r EXCEPT !.key = NoKey] }
        ELSE { [r EXCEPT !.m.fmt = f] : f \in {"short", "tail"} }
             \cup (IF r.m.type = "client_hello"
                   THEN { [r EXCEPT !.m.version = v] : v \in {9, TLS_VERSION_1} }
                        \cup { [r EXCEPT !.m.cipher_suites = Tail(@)],
                               [r EXCEPT !.m.compression = FALSE] }
                   ELSE {})
             \cup (IF r.m.type = "server_hello"
                   THEN { [r EXCEPT !.m.version = TLS_VERSION_1],
                          [r EXCEPT !.m.random = <<"server", 0>>],
                          [r EXCEPT !.m.session_id = 0],
                          [r EXCEPT !.m.cipher_suite = <<"RSA", 1>>],
                          [r EXCEPT !.m.compression = TRUE] }
                   ELSE {})
             \cup (IF r.m.type = "server_key_exchange"
                   THEN { [r EXCEPT !.m.dh.ys = <<"server_dh", 0>>],
                          [r EXCEPT !.m.dh.p = "small"], [r EXCEPT !.m.alg = "MD5"] }
                   ELSE {}))

Disturbances(stream) ==
  UNION { {RemoveAt(stream, i), InsertAt(stream, i, stream[i])}
          \cup { [stream EXCEPT ![i] = r] : r \in Changed(stream[i]) }
          \cup (IF i < Len(stream)
                THEN { [stream EXCEPT ![i] = stream[i + 1], ![i + 1] = stream[i]] } ELSE {})
          : i \in DOMAIN stream }

Disturb ==
  /\ troubles < scenario.troubles
  /\ trouble' = TRUE /\ troubles' = troubles + 1
  /\ \/ /\ client.partial_input = 0
        /\ toClient' \in Disturbances(toClient) /\ UNCHANGED toServer
     \/ toServer' \in Disturbances(toServer) /\ UNCHANGED toClient
  /\ UNCHANGED <<scenario, client, server, sent, got>>

Halves == 0 .. 2 * (Len(toClient) + Len(toServer))

Next ==
  \/ \E fault \in scenario.faults, n \in Halves : ClientHandshake(n, fault)
  \/ \E fault \in scenario.faults, n \in Halves : ServerHandshake(n, fault)
  \/ ClientEncrypt \/ ServerEncrypt
  \/ \E fault \in scenario.faults \ {"input", "random", "crypto"}, n \in Halves :
       ClientDecrypt(n, fault)
  \/ \E n \in Halves : ServerDecrypt(n)
  \/ Reconnect
  \/ Disturb

Spec == Init /\ [][Next]_vars

\* Each user goes on as long as something has arrived; TCP delivers it. This is
\* weak fairness of the two calls, with what enables them written out.
ClientCanGo ==
  \/ client.state = "CLIENT_HELLO"
  \/ client.state # "ESTABLISHED" /\ 2 * Len(toClient) > client.partial_input

ServerCanGo == server.state # "ESTABLISHED" /\ toServer # <<>>

Fairness ==
  /\ <>[]ClientCanGo => []<><<\E n \in Halves : ClientHandshake(n, "none")>>_vars
  /\ <>[]ServerCanGo => []<><<\E n \in Halves : ServerHandshake(n, "none")>>_vars

FairSpec == Spec /\ Fairness

(****************************************************************************)
(* Properties                                                               *)
(****************************************************************************)
\* Each side's keys and the material both may export belong together.
SameSession ==
  /\ client.rl.version = server.rl.version
  /\ client.rl.suite = server.rl.suite
  /\ client.master_secret = server.master_secret
  /\ C!tlsv1_client_get_random(client) = S!tlsv1_server_get_random(server)
  /\ client.rl.write.key = server.rl.rkey /\ client.rl.write.key # NoKey
  /\ client.rl.read.key = server.rl.write.key /\ client.rl.read.key # NoKey

\* A client that believes the handshake is over agrees with the server about
\* the version, the suite, the secrets and the keys, and the server has sent its
\* Finished, whatever the network did to the messages.
ClientAgrees ==
  C!tlsv1_client_established(client) =>
    /\ SameSession
    /\ server.state \in {"ESTABLISHED", "FAILED"}
         \cup IF client.use_session_ticket
              THEN {"CHANGE_CIPHER_SPEC", "CLIENT_FINISHED"} ELSE {}

\* A server that believes the handshake is over agrees with the client, which
\* has sent its Finished.
ServerAgrees ==
  S!tlsv1_server_established(server) =>
    /\ client.state \in {"SERVER_CHANGE_CIPHER_SPEC", "SERVER_FINISHED", "ACK_FINISHED",
                         "ESTABLISHED", "FAILED"}
    /\ client.master_secret = server.master_secret
    /\ client.rl.suite = server.rl.suite
    /\ client.rl.version = server.rl.version
    /\ C!tlsv1_client_established(client) =>
         C!tlsv1_client_prf(client, "key") = S!tlsv1_server_prf(server, "key")

\* Nobody between the two can make them settle for a suite or a version other
\* than the best both have: the hellos are part of both Finished messages.
NoDowngrade ==
  C!tlsv1_client_established(client) =>
    /\ client.rl.suite = S!ChosenSuite(server, client.cipher_suites)
    /\ client.rl.version = S!NegotiatedVersion(C!tls_client_highest_ver(client.flags))

\* The client's user gets a connection only to a server whose certificate
\* passed the check that the user configured, and whose key was used; with a
\* ticket the secret behind the ticket takes the place of the certificate, and
\* a user who allows anonymous suites asks for none.
ServerIsAuthenticated ==
  /\ C!tlsv1_client_established(client)
  /\ ~client.use_session_ticket /\ ~scenario.client_anonymous
  /\ scenario.client_cred # NULL
  => CASE scenario.client_cred.verify = "ca" ->
            scenario.server_cred.verdict = "ok" /\ scenario.server_cred.server_auth
       [] scenario.client_cred.verify = "hash" -> scenario.server_cred.pinned
       [] scenario.client_cred.verify = "probe" -> FALSE
       [] OTHER -> TRUE

\* A server that asks for a certificate completes the handshake only with a
\* client that sent one and proved that it has the key.
ClientIsAuthenticated ==
  /\ S!tlsv1_server_established(server)
  /\ server.verify_peer
  /\ ~server.use_session_ticket
  => /\ client.cred # NULL /\ client.cred.cert /\ client.cred.key
     /\ server.client_rsa_key = "client_key"
     /\ "cert" \notin server.verify.open

IsSubsequence(s, t) ==
  \E pick \in SUBSET DOMAIN t :
    s = SelectSeq([i \in DOMAIN t |-> IF i \in pick THEN t[i] ELSE 0], LAMBDA x : x # 0)

\* What a side receives was sent by the other one, in this order and nothing
\* twice, although the network may repeat and exchange records.
DataInOrder ==
  /\ IsSubsequence(got.c, sent.s)
  /\ IsSubsequence(got.s, sent.c)

\* Without trouble a handshake between two ends that fit does not fail.
HonestNeverFails ==
  scenario.fit /\ ~trouble => client.state # "FAILED" /\ server.state # "FAILED"

\* Without trouble both get there: nobody waits for a message that the other
\* one will not send.
HandshakeCompletes ==
  (scenario.fit /\ scenario.troubles = 0) =>
    <>(C!tlsv1_client_established(client) /\ S!tlsv1_server_established(server))
==============================================================================
