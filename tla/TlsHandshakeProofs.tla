------------------------- MODULE TlsHandshakeProofs -------------------------
(***************************************************************************)
(* The client's side of a handshake, as TlsServerProofs has the server's,  *)
(* and the two together: the network may damage, lose, repeat and exchange *)
(* records, memory and the random number generator may fail in any call,   *)
(* and for every set of scenarios, any number of rounds and streams of any *)
(* length each side that believes the handshake is over agrees with the    *)
(* other one.                                                              *)
(***************************************************************************)
EXTENDS TlsServerProofs

USE DEF IsConnection, LayerFields, DirectionFields

(***************************************************************************)
(* What each function of the client that reads a message leaves            *)
(***************************************************************************)

\* What the client's user configured, and the number of the handshake.
SameClient(c, d) ==
  /\ d.cred = c.cred /\ d.flags = c.flags
  /\ d.cipher_suites = c.cipher_suites /\ d.round = c.round

\* What a client leaves alone while it reads.
ClientReads(c, d) ==
  /\ IsClient(d) /\ SameClient(c, d)
  /\ d.out = c.out /\ d.rl.write = c.rl.write /\ d.client_random = c.client_random
  /\ d.partial_input = c.partial_input

\* What only the server's hello changes, besides the secrets.
SameHello(c, d) ==
  /\ d.session_id = c.session_id /\ d.server_random = c.server_random
  /\ d.session_resumed = c.session_resumed

\* A handler that returns -1.
ClientFails(c, d) ==
  ~d.ok /\ d.alert # NULL /\ d.state = c.state

USE DEF IsClient, ClientFields, ClientReads, SameClient

\* The functions of the four states in which certificates and keys come.
ClientAsked(c, d) ==
  /\ ClientReads(c, d) /\ SameKeys(c, d) /\ SameHello(c, d) /\ d.verify = c.verify
  /\ d.rl.read = c.rl.read /\ d.use_session_ticket = c.use_session_ticket
  /\ d.ok => d.state \in ClientAsks
  /\ ~d.ok => ClientFails(c, d)

\* tls_process_server_hello_done().
LEMMA ClientReadDone ==
  ASSUME NEW c, IsClient(c), c.ok, NEW ct, NEW m
  PROVE  ClientAsked(c, C!tls_process_server_hello_done(c, ct, m))
<1> DEFINE d == C!tls_process_server_hello_done(c, ct, m)
<1>1. \/ \E a : a # NULL /\ d = C!FailAlert(c, a)
      \/ d = [c EXCEPT !.state = "CLIENT_KEY_EXCHANGE"]
  BY AlertIsSet DEF C!tls_process_server_hello_done, Alerts
<1> SUFFICES ClientAsked(c, d)
  OBVIOUS
<1> HIDE DEF d
<1>2. ASSUME NEW a, a # NULL, d = C!FailAlert(c, a) PROVE ClientAsked(c, d)
  BY <1>2 DEF C!FailAlert, ClientAsked, SameKeys, SameHello, ClientFails
<1>3. CASE d = [c EXCEPT !.state = "CLIENT_KEY_EXCHANGE"]
  BY <1>3 DEF ClientAsked, SameKeys, SameHello, ClientFails, ClientAsks
<1> QED  BY <1>1, <1>2, <1>3

\* tls_process_certificate_request().
LEMMA ClientReadRequest ==
  ASSUME NEW c, IsClient(c), c.ok, NEW ct, NEW m
  PROVE  ClientAsked(c, C!tls_process_certificate_request(c, ct, m))
<1> DEFINE d == C!tls_process_certificate_request(c, ct, m)
<1>1. \/ \E a : a # NULL /\ d = C!FailAlert(c, a)
      \/ d = C!tls_process_server_hello_done(c, ct, m)
      \/ d = [c EXCEPT !.certificate_requested = TRUE, !.state = "SERVER_HELLO_DONE"]
  BY AlertIsSet DEF C!tls_process_certificate_request, Alerts
<1> SUFFICES ClientAsked(c, d)
  OBVIOUS
<1> HIDE DEF d
<1>2. ASSUME NEW a, a # NULL, d = C!FailAlert(c, a) PROVE ClientAsked(c, d)
  BY <1>2 DEF C!FailAlert, ClientAsked, SameKeys, SameHello, ClientFails
<1>3. CASE d = [c EXCEPT !.certificate_requested = TRUE, !.state = "SERVER_HELLO_DONE"]
  BY <1>3 DEF ClientAsked, SameKeys, SameHello, ClientFails, ClientAsks
<1>4. CASE d = C!tls_process_server_hello_done(c, ct, m)
  BY <1>4, ClientReadDone
<1> QED  BY <1>1, <1>2, <1>3, <1>4

\* tls_process_certificate_status().
LEMMA ClientReadStatus ==
  ASSUME NEW c, IsClient(c), c.ok, NEW ct, NEW m
  PROVE  ClientAsked(c, C!tls_process_certificate_status(c, ct, m))
<1> DEFINE d == C!tls_process_certificate_status(c, ct, m)
           e == IF m.kind = "ocsp" /\ m.fmt = "tail" THEN [c EXCEPT !.alert = "DECODE_ERROR"] ELSE c
<1>1. \/ \E a : a # NULL /\ d = C!FailAlert(c, a)
      \/ \E a : a # NULL /\ d = C!FailAlert(e, a)
      \/ d = [c EXCEPT !.state = "SERVER_KEY_EXCHANGE"]
      \/ d = [e EXCEPT !.ocsp_resp_received = TRUE, !.state = "SERVER_KEY_EXCHANGE"]
  <2> HIDE DEF e
  <2> QED  BY AlertIsSet DEF C!tls_process_certificate_status, Alerts, e
<1>5. /\ IsClient(e) /\ ClientReads(c, e) /\ SameKeys(c, e) /\ SameHello(c, e) /\ e.verify = c.verify
      /\ e.rl.read = c.rl.read /\ e.use_session_ticket = c.use_session_ticket /\ e.ok /\ e.state = c.state
  BY DEF SameKeys, SameHello
<1> SUFFICES ClientAsked(c, d)
  OBVIOUS
<1> HIDE DEF d, e
<1>2. ASSUME NEW a, a # NULL, d = C!FailAlert(c, a) PROVE ClientAsked(c, d)
  BY <1>2 DEF C!FailAlert, ClientAsked, SameKeys, SameHello, ClientFails
<1>3. ASSUME NEW a, a # NULL, d = C!FailAlert(e, a) PROVE ClientAsked(c, d)
  BY <1>3, <1>5 DEF C!FailAlert, ClientAsked, SameKeys, SameHello, ClientFails
<1>4. CASE d = [c EXCEPT !.state = "SERVER_KEY_EXCHANGE"]
  BY <1>4 DEF ClientAsked, SameKeys, SameHello, ClientFails, ClientAsks
<1>6. CASE d = [e EXCEPT !.ocsp_resp_received = TRUE, !.state = "SERVER_KEY_EXCHANGE"]
  BY <1>5, <1>6 DEF ClientAsked, SameKeys, SameHello, ClientFails, ClientAsks
<1> QED  BY <1>1, <1>2, <1>3, <1>4, <1>6

\* tls_process_server_key_exchange().
LEMMA ClientReadKeyExchange ==
  ASSUME NEW c, IsClient(c), c.ok, NEW ct, NEW m
  PROVE  ClientAsked(c, C!tls_process_server_key_exchange(c, ct, m))
<1> DEFINE d == C!tls_process_server_key_exchange(c, ct, m)
           f == C!tlsv1_process_diffie_hellman(c, m)
           e == [c EXCEPT !.dh = NULL]
<1>1. \/ \E a : a # NULL /\ d = C!FailAlert(c, a)
      \/ d = C!tls_process_certificate_status(c, ct, m)
      \/ d = C!tls_process_certificate_request(c, ct, m)
      \/ d = C!tls_process_server_hello_done(c, ct, m)
      \/ f.ok /\ d = [f EXCEPT !.state = "SERVER_CERTIFICATE_REQUEST"]
      \/ ~f.ok /\ d = f
  <2> HIDE DEF f
  <2> QED  BY AlertIsSet DEF C!tls_process_server_key_exchange, Alerts, f
<1>2. f = [e EXCEPT !.dh = m.dh] \/ f = C!FailAlert(e, "DECODE_ERROR")
  <2> HIDE DEF e
  <2> QED  BY DEF C!tlsv1_process_diffie_hellman, C!tlsv1_client_free_dh, e
<1>5. /\ IsClient(e) /\ ClientReads(c, e) /\ SameKeys(c, e) /\ SameHello(c, e) /\ e.verify = c.verify
      /\ e.rl.read = c.rl.read /\ e.use_session_ticket = c.use_session_ticket /\ e.ok /\ e.state = c.state
  BY DEF SameKeys, SameHello
<1> SUFFICES ClientAsked(c, d)
  OBVIOUS
<1> HIDE DEF d, e, f
<1>6. /\ IsClient(f) /\ ClientReads(c, f) /\ SameKeys(c, f) /\ SameHello(c, f) /\ f.verify = c.verify
      /\ f.rl.read = c.rl.read /\ f.use_session_ticket = c.use_session_ticket /\ f.state = c.state
      /\ ~f.ok => f.alert # NULL
  <2>1. CASE f = [e EXCEPT !.dh = m.dh]
    BY <1>5, <2>1 DEF SameKeys, SameHello
  <2>2. CASE f = C!FailAlert(e, "DECODE_ERROR")
    BY <1>5, <2>2, AlertIsSet DEF SameKeys, SameHello, C!FailAlert, Alerts
  <2> QED  BY <1>2, <2>1, <2>2
<1>7. ASSUME NEW a, a # NULL, d = C!FailAlert(c, a) PROVE ClientAsked(c, d)
  BY <1>7 DEF C!FailAlert, ClientAsked, SameKeys, SameHello, ClientFails
<1>8. CASE f.ok /\ d = [f EXCEPT !.state = "SERVER_CERTIFICATE_REQUEST"]
  BY <1>6, <1>8 DEF ClientAsked, SameKeys, SameHello, ClientFails, ClientAsks
<1>9. CASE ~f.ok /\ d = f
  BY <1>6, <1>9 DEF ClientAsked, ClientFails
<1> HIDE DEF IsClient
<1> QED  BY <1>1, <1>7, <1>8, <1>9, ClientReadStatus, ClientReadRequest, ClientReadDone

\* tls_process_certificate().
LEMMA ClientReadCertificate ==
  ASSUME NEW c, IsClient(c), c.ok, NEW ct, NEW m
  PROVE  ClientAsked(c, C!tls_process_certificate(c, ct, m))
<1> DEFINE d == C!tls_process_certificate(c, ct, m)
           e == [c EXCEPT !.server_rsa_key =
                  IF m.chain = <<>> THEN @
                  ELSE IF m.chain[1] = "unreadable" THEN NULL ELSE m.chain[1]]
<1>1. \/ \E a : a # NULL /\ d = C!FailAlert(c, a)
      \/ \E a : a # NULL /\ d = C!FailAlert(e, a)
      \/ d = C!tls_process_server_key_exchange(c, ct, m)
      \/ d = C!tls_process_certificate_request(c, ct, m)
      \/ d = C!tls_process_server_hello_done(c, ct, m)
      \/ d = [e EXCEPT !.state = "SERVER_KEY_EXCHANGE"]
  <2> HIDE DEF e
  <2> QED  BY AlertIsSet DEF C!tls_process_certificate, Alerts, e
<1>5. /\ IsClient(e) /\ ClientReads(c, e) /\ SameKeys(c, e) /\ SameHello(c, e) /\ e.verify = c.verify
      /\ e.rl.read = c.rl.read /\ e.use_session_ticket = c.use_session_ticket /\ e.ok /\ e.state = c.state
  BY DEF SameKeys, SameHello
<1> SUFFICES ClientAsked(c, d)
  OBVIOUS
<1> HIDE DEF d, e
<1>6. ASSUME NEW a, a # NULL, d = C!FailAlert(c, a) PROVE ClientAsked(c, d)
  BY <1>6 DEF C!FailAlert, ClientAsked, SameKeys, SameHello, ClientFails
<1>7. ASSUME NEW a, a # NULL, d = C!FailAlert(e, a) PROVE ClientAsked(c, d)
  BY <1>7, <1>5 DEF C!FailAlert, ClientAsked, SameKeys, SameHello, ClientFails
<1>8. CASE d = [e EXCEPT !.state = "SERVER_KEY_EXCHANGE"]
  BY <1>5, <1>8 DEF ClientAsked, SameKeys, SameHello, ClientFails, ClientAsks
<1> HIDE DEF IsClient
<1> QED  BY <1>1, <1>6, <1>7, <1>8, ClientReadKeyExchange, ClientReadRequest, ClientReadDone

\* Keys for which there is a secret.
ClientDerives(c, d) ==
  /\ ClientReads(c, d) /\ SameHello(c, d) /\ d.verify = c.verify /\ d.state = c.state
  /\ d.rl.version = c.rl.version /\ d.rl.suite = c.rl.suite /\ d.rl.read = c.rl.read
  /\ d.use_session_ticket = c.use_session_ticket /\ d.fault = c.fault
  /\ d.certificate_requested = c.certificate_requested
  /\ d.ok => ClientKeyed(d)
  /\ ~d.ok => d.alert # NULL

\* tls_derive_keys(): the keys, or an alert.
LEMMA ClientDerive ==
  ASSUME NEW c, IsClient(c), c.ok, NEW pms
  PROVE  ClientDerives(c, C!tls_derive_keys(c, pms))
  BY AlertIsSet DEF Alerts, ClientDerives, C!tls_derive_keys, C!FailAlert, ClientKeyed, Block, tls_prf,
     C!tls_prf, SameHello

\* The session, the suite and the ticket of the server's hello.
ClientGreets(c, m, d) ==
  /\ ClientReads(c, d) /\ d.verify = c.verify /\ d.state = c.state
  /\ d.rl.version = m.version /\ d.server_random = m.random
  /\ d.session_id = m.session_id /\ ~d.session_resumed
  /\ d.rl.suite = m.cipher_suite /\ d.rl.read = c.rl.read

\* tls_process_server_hello(): version, suite and random number are what the
\* hello says. No session is resumed, for the server never sends the number
\* of an earlier handshake; with a ticket the keys are made of the ticket's
\* secret.
LEMMA ClientReadHello ==
  ASSUME NEW c, IsClient(c), c.ok, c.session_id \in Nat, c.round \in Nat, c.session_id < c.round,
         ~c.session_resumed, NullSuite \notin ToSet(c.cipher_suites), c.state = "SERVER_HELLO",
         NEW ct, NEW m, m.type = "server_hello" => m.session_id \in {0, c.round},
         NEW d, d = C!tls_process_server_hello(c, ct, m)
  PROVE  /\ ClientReads(c, d) /\ d.verify = c.verify /\ ~d.session_resumed /\ d.rl.read = c.rl.read
         /\ d.session_id \in Nat /\ d.session_id <= d.round
         /\ d.ok => /\ d.rl.version = m.version /\ d.server_random = m.random
                    /\ d.rl.suite = m.cipher_suite /\ d.rl.suite # NullSuite
                    /\ ct = "handshake"
                    /\ \/ d.state = "SERVER_CERTIFICATE" /\ ~d.use_session_ticket
                       \/ /\ d.state = "SERVER_CHANGE_CIPHER_SPEC" /\ d.use_session_ticket
                          /\ ClientKeyed(d)
         /\ ~d.ok => ClientFails(c, d)
<1> DEFINE versioned == [c EXCEPT !.rl.version = m.version, !.server_random = m.random]
           session == C!HelloSession(versioned, m)
           suited == C!HelloSuite(session, m)
           ticket == C!HelloTicket(suited)
           keys == C!HelloKeys(ticket)
<1>1. \/ \E a : a # NULL /\ d = C!FailAlert(c, a)
      \/ \E a : a # NULL /\ m.type = "server_hello" /\ d = C!FailAlert(session, a)
      \/ \E a : a # NULL /\ m.type = "server_hello" /\ d = C!FailAlert(suited, a)
      \/ /\ d = keys /\ m.type = "server_hello" /\ ct = "handshake"
         /\ m.cipher_suite \in C!ToSet(c.cipher_suites)
  <2> HIDE DEF session, suited, keys
  <2>1. C!HeaderAlert(ct, m) = NULL => ct = "handshake"
    BY AlertIsSet DEF C!HeaderAlert, Alerts
  <2> QED  BY <2>1, AlertIsSet DEF C!tls_process_server_hello, Alerts, versioned, session, suited, ticket, keys
<1>2. /\ IsClient(versioned) /\ ClientReads(c, versioned) /\ versioned.verify = c.verify
      /\ versioned.state = c.state /\ versioned.rl.version = m.version
      /\ versioned.server_random = m.random /\ versioned.session_id = c.session_id
      /\ ~versioned.session_resumed /\ versioned.ok /\ versioned.rl.read = c.rl.read
  OBVIOUS
<1> HIDE DEF versioned
<1>3. m.type = "server_hello" =>
        /\ session = [versioned EXCEPT !.session_id = m.session_id]
        /\ m.session_id \in Nat /\ m.session_id <= c.round
  BY <1>2 DEF C!HelloSession
<1> HIDE DEF session
<1>4. m.type = "server_hello" =>
        /\ ClientReads(c, session) /\ session.verify = c.verify
        /\ session.state = c.state /\ session.rl.version = m.version
        /\ session.server_random = m.random /\ session.session_id = m.session_id
        /\ ~session.session_resumed /\ session.ok /\ session.rl.read = c.rl.read
  BY <1>2, <1>3
<1>5. m.type = "server_hello" => ClientGreets(c, m, suited) /\ suited.ok
  BY <1>4 DEF C!HelloSuite, C!tlsv1_record_set_cipher_suite, ClientGreets
<1> HIDE DEF suited
<1>6. m.type = "server_hello" =>
        ClientGreets(c, m, ticket) /\ (~ticket.ok => ticket.alert # NULL)
  <2>1. \/ ticket = suited
        \/ ticket = C!FailAlert(suited, "HANDSHAKE_FAILURE")
        \/ ticket = [suited EXCEPT !.use_session_ticket = TRUE,
                                   !.master_secret = C!tls_prf(NULL, "ticket", <<>>)]
        \/ ticket = [suited EXCEPT !.use_session_ticket = FALSE]
    BY DEF C!HelloTicket
  <2> HIDE DEF ticket
  <2>2. CASE ticket = suited
    BY <1>5, <2>2
  <2>3. CASE ticket = C!FailAlert(suited, "HANDSHAKE_FAILURE")
    BY <1>5, <2>3, AlertIsSet DEF C!FailAlert, Alerts, ClientGreets
  <2>4. CASE ticket = [suited EXCEPT !.use_session_ticket = TRUE,
                                   !.master_secret = C!tls_prf(NULL, "ticket", <<>>)]
    BY <1>5, <2>4 DEF ClientGreets
  <2>5. CASE ticket = [suited EXCEPT !.use_session_ticket = FALSE]
    BY <1>5, <2>5 DEF ClientGreets
  <2> QED  BY <2>1, <2>2, <2>3, <2>4, <2>5
<1> HIDE DEF ticket
<1> DEFINE e == C!tls_derive_keys(ticket, NULL)
<1>7. m.type = "server_hello" /\ ticket.ok => ClientDerives(ticket, e)
  <2>1. m.type = "server_hello" => IsClient(ticket)
    BY <1>6 DEF ClientGreets
  <2> HIDE DEF IsClient, IsConnection
  <2> QED  BY <2>1, ClientDerive
<1> HIDE DEF e
<1>8. ASSUME m.type = "server_hello"
      PROVE  /\ ClientGreets(c, m, [keys EXCEPT !.state = c.state])
             /\ keys.ok => \/ keys.state = "SERVER_CERTIFICATE" /\ ~keys.use_session_ticket
                           \/ /\ keys.state = "SERVER_CHANGE_CIPHER_SPEC" /\ keys.use_session_ticket
                              /\ ClientKeyed(keys)
             /\ ~keys.ok => keys.alert # NULL /\ keys.state = c.state
             /\ IsClient(keys)
  <2>0. \/ ticket.ok /\ ticket.use_session_ticket /\ e.ok /\ keys = [e EXCEPT !.state = "SERVER_CHANGE_CIPHER_SPEC"]
        \/ ticket.ok /\ ticket.use_session_ticket /\ ~e.ok /\ keys = e
        \/ ticket.ok /\ ~ticket.use_session_ticket /\ keys = [ticket EXCEPT !.state = "SERVER_CERTIFICATE"]
        \/ ~ticket.ok /\ keys = ticket
    BY <1>6, <1>8 DEF C!HelloKeys, ClientGreets, e
  <2> HIDE DEF keys
  <2>1. CASE ticket.ok /\ ticket.use_session_ticket /\ e.ok /\ keys = [e EXCEPT !.state = "SERVER_CHANGE_CIPHER_SPEC"]
    <3>6. ClientDerives(ticket, e) /\ ClientGreets(c, m, ticket)
      BY <1>6, <1>7, <1>8, <2>1
    <3>7. ticket.use_session_ticket
      BY <2>1
    <3>8. e.use_session_ticket
      BY <3>6, <3>7 DEF ClientDerives
    <3>9. ClientGreets(c, m, e) /\ IsClient(e)
      BY <3>6 DEF ClientDerives, ClientGreets, SameHello
    <3>4. ClientGreets(c, m, e) /\ e.use_session_ticket /\ IsClient(e)
      BY <3>8, <3>9
    <3>5. IsClient(keys) /\ keys.use_session_ticket
          /\ keys.state = "SERVER_CHANGE_CIPHER_SPEC" /\ keys.ok
      BY <2>1, <3>4
    <3>1. ClientGreets(c, m, [keys EXCEPT !.state = c.state])
      BY <2>1, <3>4 DEF ClientGreets
    <3>2. ClientKeyed(e) => ClientKeyed(keys)
      BY <1>7, <1>8, <2>1 DEF ClientKeyed, Block, tls_prf, ClientDerives
    <3>3. ClientKeyed(e)
      BY <1>7, <1>8, <2>1 DEF ClientDerives
    <3> QED  BY <3>1, <3>2, <3>3, <3>5
  <2>2. CASE ticket.ok /\ ticket.use_session_ticket /\ ~e.ok /\ keys = e
    BY <1>6, <1>7, <1>8, <2>2 DEF ClientDerives, ClientGreets, SameHello
  <2>3. CASE ticket.ok /\ ~ticket.use_session_ticket /\ keys = [ticket EXCEPT !.state = "SERVER_CERTIFICATE"]
    BY <1>6, <1>8, <2>3 DEF ClientGreets
  <2>4. CASE ~ticket.ok /\ keys = ticket
    BY <1>6, <1>8, <2>4 DEF ClientGreets
  <2> QED  BY <2>0, <2>1, <2>2, <2>3, <2>4
<1> HIDE DEF keys
<1>10. ASSUME NEW a, a # NULL, d = C!FailAlert(c, a)
       PROVE  /\ ClientReads(c, d) /\ d.verify = c.verify /\ ~d.session_resumed /\ d.rl.read = c.rl.read
              /\ d.session_id \in Nat /\ d.session_id <= d.round /\ ClientFails(c, d)
  <2>1. /\ ClientReads(c, d) /\ d.verify = c.verify /\ ~d.session_resumed /\ d.rl.read = c.rl.read
        /\ d.session_id = c.session_id /\ d.round = c.round
    BY <1>10 DEF C!FailAlert
  <2>2. ClientFails(c, d)
    BY <1>10 DEF C!FailAlert, ClientFails
  <2> QED  BY <2>1, <2>2
<1>11. ASSUME NEW a, NEW e2, a # NULL, d = C!FailAlert(e2, a), m.type = "server_hello",
              ClientReads(c, e2), e2.verify = c.verify, ~e2.session_resumed, e2.rl.read = c.rl.read,
              e2.session_id = m.session_id, e2.state = c.state
       PROVE  /\ ClientReads(c, d) /\ d.verify = c.verify /\ ~d.session_resumed /\ d.rl.read = c.rl.read
              /\ d.session_id \in Nat /\ d.session_id <= d.round /\ ClientFails(c, d)
  <2>1. /\ ClientReads(c, d) /\ d.verify = c.verify /\ ~d.session_resumed /\ d.rl.read = c.rl.read
        /\ d.session_id = m.session_id /\ d.round = c.round
    BY <1>11 DEF C!FailAlert
  <2>2. ClientFails(c, d)
    BY <1>11 DEF C!FailAlert, ClientFails
  <2> QED  BY <1>3, <1>11, <2>1, <2>2
<1>12. CASE d = keys /\ m.type = "server_hello" /\ ct = "handshake"
            /\ m.cipher_suite \in C!ToSet(c.cipher_suites)
  <2>1. m.cipher_suite # NullSuite
    BY <1>12 DEF C!ToSet, ToSet
  <2>2. /\ ClientReads(c, d) /\ d.verify = c.verify /\ ~d.session_resumed /\ d.rl.read = c.rl.read
        /\ d.session_id = m.session_id /\ d.round = c.round
        /\ d.rl.version = m.version /\ d.server_random = m.random /\ d.rl.suite = m.cipher_suite
    BY <1>8, <1>12 DEF ClientGreets
  <2>3. ~d.ok => ClientFails(c, d)
    BY <1>8, <1>12 DEF ClientFails
  <2>4. d.session_id \in Nat /\ d.session_id <= d.round
    BY <1>3, <1>12, <2>2
  <2> HIDE DEF IsClient, IsConnection, ClientReads
  <2>5. d.ok => \/ d.state = "SERVER_CERTIFICATE" /\ ~d.use_session_ticket
                \/ /\ d.state = "SERVER_CHANGE_CIPHER_SPEC" /\ d.use_session_ticket
                   /\ ClientKeyed(d)
    BY <1>8, <1>12
  <2> QED  BY <1>12, <2>1, <2>2, <2>3, <2>4, <2>5
<1>13. ASSUME ClientFails(c, d) PROVE ~d.ok
  BY <1>13 DEF ClientFails
<1> HIDE DEF IsClient, IsConnection
<1>14. /\ \A a : a # NULL /\ m.type = "server_hello" /\ d = C!FailAlert(session, a) =>
            /\ ClientReads(c, d) /\ d.verify = c.verify /\ ~d.session_resumed /\ d.rl.read = c.rl.read
            /\ d.session_id \in Nat /\ d.session_id <= d.round /\ ClientFails(c, d)
       /\ \A a : a # NULL /\ m.type = "server_hello" /\ d = C!FailAlert(suited, a) =>
            /\ ClientReads(c, d) /\ d.verify = c.verify /\ ~d.session_resumed /\ d.rl.read = c.rl.read
            /\ d.session_id \in Nat /\ d.session_id <= d.round /\ ClientFails(c, d)
  BY <1>4, <1>5, <1>11 DEF ClientGreets
<1> HIDE DEF ClientReads
<1> QED  BY <1>1, <1>10, <1>12, <1>13, <1>14

\* tls_process_server_change_cipher_spec(): from now on the client reads with
\* the key that the server writes with, unless the server refused the ticket
\* and goes on with its certificate.
LEMMA ClientReadChange ==
  ASSUME NEW c, IsClient(c), c.ok, NEW ct, NEW m,
         NEW d, d = C!tls_process_server_change_cipher_spec(c, ct, m)
  PROVE  /\ ClientReads(c, d) /\ SameKeys(c, d) /\ SameHello(c, d) /\ d.verify = c.verify
         /\ d.ok => \/ c.use_session_ticket /\ ~d.use_session_ticket /\ d.state \in ClientAsks
                    \/ /\ d.state = "SERVER_FINISHED" /\ d.use_session_ticket = c.use_session_ticket
                       /\ d.rl.read.suite = d.rl.suite
                       /\ c.rl.suite # NullSuite => d.rl.read.key = d.rl.rkey
                       /\ ct = "change_cipher_spec"
         /\ ~d.ok => /\ d.alert # NULL
                     /\ ~c.use_session_ticket => d.state = c.state /\ ~d.use_session_ticket
<1> DEFINE a1 == [c EXCEPT !.use_session_ticket = FALSE]
           a2 == [a1 EXCEPT !.state = "SERVER_CERTIFICATE"]
           a3 == C!tls_process_certificate(a2, ct, m)
           b == [c EXCEPT !.rl = C!tlsv1_record_change_read_cipher(@)]
<1>1. \/ c.use_session_ticket /\ d = C!FailAlert(a1, "HANDSHAKE_FAILURE")
      \/ c.use_session_ticket /\ d = a3
      \/ \E a : a # NULL /\ d = C!FailAlert(c, a)
      \/ \E a : a # NULL /\ d = C!FailAlert(b, a)
      \/ ct = "change_cipher_spec" /\ d = [b EXCEPT !.state = "SERVER_FINISHED"]
  <2> HIDE DEF a2, a3, b
  <2> QED  BY AlertIsSet DEF C!tls_process_server_change_cipher_spec, Alerts, a1, a2, a3, b
<1>2. /\ IsClient(a1) /\ ClientReads(c, a1) /\ SameKeys(c, a1) /\ SameHello(c, a1)
      /\ a1.verify = c.verify /\ a1.ok
  BY DEF SameKeys, SameHello
<1>3. /\ IsClient(a2) /\ ClientReads(c, a2) /\ SameKeys(c, a2) /\ SameHello(c, a2)
      /\ a2.verify = c.verify /\ a2.ok /\ ~a2.use_session_ticket
  BY DEF SameKeys, SameHello
<1>4. /\ IsClient(b) /\ ClientReads(c, b) /\ SameKeys(c, b) /\ SameHello(c, b)
      /\ b.verify = c.verify /\ b.ok /\ b.use_session_ticket = c.use_session_ticket
      /\ b.rl.read.suite = b.rl.suite /\ b.state = c.state
      /\ c.rl.suite # NullSuite => b.rl.read.key = b.rl.rkey
  BY SameNames DEF SameKeys, SameHello, C!tlsv1_record_change_read_cipher, C!Direction
<1> HIDE DEF a2
<1>5. ClientAsked(a2, a3)
  <2> HIDE DEF IsClient, IsConnection
  <2> QED  BY <1>3, ClientReadCertificate
<1> HIDE DEF a1, a3, b
<1>6. CASE c.use_session_ticket /\ d = C!FailAlert(a1, "HANDSHAKE_FAILURE")
  BY <1>2, <1>6, AlertIsSet DEF C!FailAlert, Alerts, SameKeys, SameHello
<1>7. CASE c.use_session_ticket /\ d = a3
  <2>1. ClientReads(a2, d) /\ SameKeys(a2, d) /\ SameHello(a2, d) /\ d.verify = a2.verify
        /\ ~d.use_session_ticket /\ (d.ok => d.state \in ClientAsks) /\ (~d.ok => d.alert # NULL)
    BY <1>3, <1>5, <1>7 DEF ClientAsked, ClientFails
  <2>2. ClientReads(c, d) /\ SameKeys(c, d) /\ SameHello(c, d) /\ d.verify = c.verify
    BY <2>1, <1>3 DEF SameKeys, SameHello
  <2> HIDE DEF ClientReads
  <2> QED  BY <2>1, <2>2, <1>7
<1>8. ASSUME NEW a, a # NULL, d = C!FailAlert(c, a)
      PROVE  /\ ClientReads(c, d) /\ SameKeys(c, d) /\ SameHello(c, d) /\ d.verify = c.verify
             /\ ~d.ok /\ d.alert # NULL /\ d.state = c.state /\ d.use_session_ticket = c.use_session_ticket
  BY <1>8 DEF C!FailAlert, SameKeys, SameHello
<1>9. ASSUME NEW a, a # NULL, d = C!FailAlert(b, a)
      PROVE  /\ ClientReads(c, d) /\ SameKeys(c, d) /\ SameHello(c, d) /\ d.verify = c.verify
             /\ ~d.ok /\ d.alert # NULL /\ d.state = c.state /\ d.use_session_ticket = c.use_session_ticket
  BY <1>4, <1>9 DEF C!FailAlert, SameKeys, SameHello
<1>10. CASE ct = "change_cipher_spec" /\ d = [b EXCEPT !.state = "SERVER_FINISHED"]
  BY <1>4, <1>10 DEF SameKeys, SameHello
<1> HIDE DEF ClientReads, IsClient, IsConnection
<1> QED  BY <1>1, <1>6, <1>7, <1>8, <1>9, <1>10

\* tls_process_server_finished(): the client goes on only after a Finished
\* over what it has read and sent itself.
LEMMA ClientReadFinished ==
  ASSUME NEW c, IsClient(c), c.ok, NEW ct, NEW m,
         NEW d, d = C!tls_process_server_finished(c, ct, m)
  PROVE  /\ ClientReads(c, d) /\ SameKeys(c, d) /\ SameHello(c, d) /\ d.verify.log = c.verify.log
         /\ d.use_session_ticket = c.use_session_ticket /\ d.rl.read = c.rl.read
         /\ d.ok => /\ d.state = IF c.session_resumed \/ c.use_session_ticket
                                 THEN "CHANGE_CIPHER_SPEC" ELSE "ACK_FINISHED"
                    /\ m.type = "finished"
                    /\ m.verify_data = tls_prf(c.master_secret, "server_finished", c.verify.log)
         /\ ~d.ok => ClientFails(c, d)
<1> DEFINE e == [c EXCEPT !.verify = C!HashFinish(@, "server")]
           next == IF c.session_resumed \/ c.use_session_ticket THEN "CHANGE_CIPHER_SPEC" ELSE "ACK_FINISHED"
<1>1. \/ \E a : a # NULL /\ d = C!FailAlert(c, a)
      \/ \E a : a # NULL /\ d = C!FailAlert(e, a)
      \/ /\ d = [e EXCEPT !.state = next] /\ m.type = "finished"
         /\ m.verify_data = tls_prf(c.master_secret, "server_finished", c.verify.log)
  <2> HIDE DEF e, next
  <2> QED  BY AlertIsSet DEF C!tls_process_server_finished, C!ServerFinishedMatches, C!tls_prf, tls_prf,
              Alerts, e, next
<1>2. /\ IsClient(e) /\ ClientReads(c, e) /\ SameKeys(c, e) /\ SameHello(c, e)
      /\ e.verify.log = c.verify.log /\ e.ok /\ e.state = c.state
      /\ e.use_session_ticket = c.use_session_ticket /\ e.rl.read = c.rl.read
  BY DEF SameKeys, SameHello, C!HashFinish
<1> HIDE DEF e, next
<1>3. ASSUME NEW a, a # NULL, d = C!FailAlert(c, a)
      PROVE  /\ ClientReads(c, d) /\ SameKeys(c, d) /\ SameHello(c, d) /\ d.verify.log = c.verify.log
             /\ d.use_session_ticket = c.use_session_ticket /\ d.rl.read = c.rl.read /\ ClientFails(c, d)
  BY <1>3 DEF C!FailAlert, SameKeys, SameHello, ClientFails
<1>4. ASSUME NEW a, a # NULL, d = C!FailAlert(e, a)
      PROVE  /\ ClientReads(c, d) /\ SameKeys(c, d) /\ SameHello(c, d) /\ d.verify.log = c.verify.log
             /\ d.use_session_ticket = c.use_session_ticket /\ d.rl.read = c.rl.read /\ ClientFails(c, d)
  BY <1>2, <1>4 DEF C!FailAlert, SameKeys, SameHello, ClientFails
<1>5. ASSUME ClientFails(c, d) PROVE ~d.ok
  BY <1>5 DEF ClientFails
<1>6. CASE /\ d = [e EXCEPT !.state = next] /\ m.type = "finished"
           /\ m.verify_data = tls_prf(c.master_secret, "server_finished", c.verify.log)
  <2>1. /\ ClientReads(c, d) /\ SameKeys(c, d) /\ SameHello(c, d) /\ d.verify.log = c.verify.log
        /\ d.use_session_ticket = c.use_session_ticket /\ d.rl.read = c.rl.read /\ d.ok
        /\ d.state = next
    BY <1>2, <1>6 DEF SameKeys, SameHello
  <2> HIDE DEF ClientReads
  <2> QED  BY <1>6, <2>1 DEF next
<1> HIDE DEF ClientReads, IsClient, IsConnection
<1> QED  BY <1>1, <1>3, <1>4, <1>5, <1>6

\* Nothing but the application data that came with it.
ClientTakes(c, d) ==
  /\ ClientReads(c, d) /\ SameKeys(c, d) /\ SameHello(c, d) /\ d.verify = c.verify
  /\ d.use_session_ticket = c.use_session_ticket /\ d.rl.read = c.rl.read
  /\ d.state = c.state

\* tls_process_application_data().
LEMMA ClientReadData ==
  ASSUME NEW c, IsClient(c), c.ok, NEW ct, NEW m,
         NEW d, d = C!tls_process_application_data(c, ct, m)
  PROVE  /\ ClientTakes(c, d)
         /\ d.ok => ct # "handshake"
         /\ ~d.ok => ClientFails(c, d)
<1>1. \/ \E a : a # NULL /\ d = C!FailAlert(c, a)
      \/ ct # "handshake" /\ d = c
      \/ ct # "handshake" /\ d = [c EXCEPT !.appl_data = m]
  BY AlertIsSet DEF C!tls_process_application_data, Alerts
<1>2. ASSUME NEW a, a # NULL, d = C!FailAlert(c, a) PROVE ClientTakes(c, d) /\ ClientFails(c, d)
  BY <1>2 DEF C!FailAlert, SameKeys, SameHello, ClientFails, ClientTakes
<1>3. CASE ct # "handshake" /\ d = c
  BY <1>3 DEF SameKeys, SameHello, ClientTakes
<1>4. CASE ct # "handshake" /\ d = [c EXCEPT !.appl_data = m]
  BY <1>4 DEF SameKeys, SameHello, ClientTakes
<1>5. ASSUME ClientFails(c, d) PROVE ~d.ok
  BY <1>5 DEF ClientFails
<1> HIDE DEF IsClient, IsConnection
<1> QED  BY <1>1, <1>2, <1>3, <1>4, <1>5

\* What a message does, apart from alerts and from the hash of the handshake.
ClientStep(c, ct, m) ==
  CASE c.state = "SERVER_HELLO" -> C!tls_process_server_hello(c, ct, m)
    [] c.state = "SERVER_CERTIFICATE" -> C!tls_process_certificate(c, ct, m)
    [] c.state = "SERVER_KEY_EXCHANGE" -> C!tls_process_server_key_exchange(c, ct, m)
    [] c.state = "SERVER_CERTIFICATE_REQUEST" -> C!tls_process_certificate_request(c, ct, m)
    [] c.state = "SERVER_HELLO_DONE" -> C!tls_process_server_hello_done(c, ct, m)
    [] c.state = "SERVER_CHANGE_CIPHER_SPEC" -> C!tls_process_server_change_cipher_spec(c, ct, m)
    [] c.state = "SERVER_FINISHED" -> C!tls_process_server_finished(c, ct, m)
    [] c.state = "ACK_FINISHED" -> C!tls_process_application_data(c, ct, m)
    [] OTHER -> C!Fail(c)

\* The states in which a client waits for something.
ClientReading ==
  {"SERVER_HELLO", "SERVER_CERTIFICATE", "SERVER_KEY_EXCHANGE", "SERVER_CERTIFICATE_REQUEST",
   "SERVER_HELLO_DONE", "SERVER_CHANGE_CIPHER_SPEC", "SERVER_FINISHED", "ACK_FINISHED"}

\* The step in each state.
LEMMA ClientStepIs ==
  ASSUME NEW c, NEW ct, NEW m
  PROVE  /\ c.state = "SERVER_HELLO" => ClientStep(c, ct, m) = C!tls_process_server_hello(c, ct, m)
         /\ c.state = "SERVER_CERTIFICATE" => ClientStep(c, ct, m) = C!tls_process_certificate(c, ct, m)
         /\ c.state = "SERVER_KEY_EXCHANGE" =>
              ClientStep(c, ct, m) = C!tls_process_server_key_exchange(c, ct, m)
         /\ c.state = "SERVER_CERTIFICATE_REQUEST" =>
              ClientStep(c, ct, m) = C!tls_process_certificate_request(c, ct, m)
         /\ c.state = "SERVER_HELLO_DONE" =>
              ClientStep(c, ct, m) = C!tls_process_server_hello_done(c, ct, m)
         /\ c.state = "SERVER_CHANGE_CIPHER_SPEC" =>
              ClientStep(c, ct, m) = C!tls_process_server_change_cipher_spec(c, ct, m)
         /\ c.state = "SERVER_FINISHED" => ClientStep(c, ct, m) = C!tls_process_server_finished(c, ct, m)
         /\ c.state = "ACK_FINISHED" => ClientStep(c, ct, m) = C!tls_process_application_data(c, ct, m)
         /\ c.state \notin ClientReading => ClientStep(c, ct, m) = C!Fail(c)
  BY DEF ClientStep, ClientReading

\* A message is an alert, or is ignored, or is a step whose message is added
\* to the hash if it was a handshake message that the step took.
LEMMA ClientMessageIs ==
  ASSUME NEW c, IsClient(c), c.ok, NEW ct, NEW m,
         NEW d, d = C!tlsv1_client_process_handshake(c, ct, m),
         NEW s, s = ClientStep(c, ct, m)
  PROVE  \/ \E a : a # NULL /\ d = C!FailAlert(c, a)
         \/ d = C!Fail([c EXCEPT !.state = "FAILED"])
         \/ d = c
         \/ ct = "handshake" /\ s.ok /\ d = [s EXCEPT !.verify = C!tls_verify_hash_add(@, m)]
         \/ ~(ct = "handshake" /\ s.ok) /\ d = s
  BY AlertIsSet DEF C!tlsv1_client_process_handshake, ClientStep, Alerts

HIDE DEF IsConnection, LayerFields, DirectionFields, IsClient, ClientFields, ClientReads, SameClient

(***************************************************************************)
(* A message as a whole: the state it came in, and what it leaves          *)
(***************************************************************************)

\* What no message changes once the keys are known.
ClientKeeps(c, d) ==
  /\ SameKeys(c, d) /\ d.server_random = c.server_random
  /\ d.use_session_ticket = c.use_session_ticket

\* What the client may take a message for that it got in state c.
FromServer(c, s, m) ==
  /\ m.type = "server_hello" => m.session_id \in {0, c.round}
  /\ c.rl.read.suite # NullSuite /\ c.rl.read.key # NoKey /\ m.type = "finished" =>
       ServerSent(s) /\ c.rl.read.key = s.rl.write.key /\ ServerFinishes(m, s)

\* What is known of a client without its state.
ClientIs(c) ==
  /\ IsClient(c) /\ c.round \in Nat /\ c.session_id \in Nat /\ c.session_id <= c.round
  /\ NullSuite \notin ToSet(c.cipher_suites)

\* The ways a step goes on.
HelloCame(c, ct, m, s) ==
  /\ c.state = "SERVER_HELLO" /\ ct = "handshake"
  /\ s.rl.version = m.version /\ s.server_random = m.random
  /\ s.rl.suite = m.cipher_suite /\ s.rl.suite # NullSuite
  /\ ~s.session_resumed
  /\ \/ s.state = "SERVER_CERTIFICATE" /\ ~s.use_session_ticket
     \/ s.state = "SERVER_CHANGE_CIPHER_SPEC" /\ s.use_session_ticket /\ ClientKeyed(s)

\* Which steps a message can be: one of the server's flight,
AskedOn(c, s) ==
  /\ c.state \in {"SERVER_CERTIFICATE", "SERVER_KEY_EXCHANGE", "SERVER_CERTIFICATE_REQUEST",
                  "SERVER_HELLO_DONE"}
  /\ SameKeys(c, s) /\ SameHello(c, s) /\ s.use_session_ticket = c.use_session_ticket
  /\ s.state \in ClientAsks

\* the first message of a whole flight, from a server that did not take the
\* ticket,
TicketRefused(c, s) ==
  /\ c.state = "SERVER_CHANGE_CIPHER_SPEC" /\ c.use_session_ticket /\ ~s.use_session_ticket
  /\ SameKeys(c, s) /\ SameHello(c, s) /\ s.state \in ClientAsks

\* a ChangeCipherSpec,
ChangeCame(c, s) ==
  /\ c.state = "SERVER_CHANGE_CIPHER_SPEC" /\ s.state = "SERVER_FINISHED"
  /\ SameKeys(c, s) /\ SameHello(c, s) /\ s.use_session_ticket = c.use_session_ticket
  /\ s.rl.read.suite = s.rl.suite
  /\ c.rl.suite # NullSuite => s.rl.read.key = s.rl.rkey

\* a Finished, over what the client has read and sent itself,
FinishedCame(c, m, s) ==
  /\ c.state = "SERVER_FINISHED"
  /\ SameKeys(c, s) /\ SameHello(c, s) /\ s.use_session_ticket = c.use_session_ticket
  /\ s.rl.read = c.rl.read
  /\ s.state = IF c.session_resumed \/ c.use_session_ticket
               THEN "CHANGE_CIPHER_SPEC" ELSE "ACK_FINISHED"
  /\ m.type = "finished"
  /\ m.verify_data = tls_prf(c.master_secret, "server_finished", c.verify.log)

\* or data, which says that the server has read the client's Finished.
DataCame(c, s) == c.state = "ACK_FINISHED" /\ ClientTakes(c, s)

\* One of them, or a ServerHello.
StepCame(c, ct, m, s) ==
  \/ HelloCame(c, ct, m, s) \/ AskedOn(c, s) \/ TicketRefused(c, s)
  \/ ChangeCame(c, s) \/ FinishedCame(c, m, s) \/ DataCame(c, s)

\* After an error.
StepFails(c, s) ==
  /\ s.alert # NULL \/ s = C!Fail(c)
  /\ \/ s.state = c.state
     \/ /\ c.state = "SERVER_CHANGE_CIPHER_SPEC" /\ c.use_session_ticket
        /\ s.state \notin {"CHANGE_CIPHER_SPEC", "ACK_FINISHED", "ESTABLISHED"}

\* And what all of them leave alone.
StepReads(c, s) ==
  /\ ClientReads(c, s) /\ s.verify.log = c.verify.log
  /\ s.session_id \in Nat /\ s.session_id <= s.round

\* Without a ticket there is nothing to refuse.
LEMMA TicketKept ==
  ASSUME NEW c, IsClient(c), ~c.use_session_ticket, NEW ct, NEW m
  PROVE  C!tls_process_server_change_cipher_spec(c, ct, m).use_session_ticket = c.use_session_ticket
<1> DEFINE d == C!tls_process_server_change_cipher_spec(c, ct, m)
           b == [c EXCEPT !.rl = C!tlsv1_record_change_read_cipher(@)]
<1>1. \/ \E a : d = C!FailAlert(c, a)
      \/ \E a : d = C!FailAlert(b, a)
      \/ d = [b EXCEPT !.state = "SERVER_FINISHED"]
  <2> HIDE DEF b
  <2> QED  BY DEF C!tls_process_server_change_cipher_spec, b
<1>2. DOMAIN b = ClientFields /\ b.use_session_ticket = c.use_session_ticket
  BY DEF IsClient, IsConnection, ClientFields
<1>7. DOMAIN c = ClientFields
  BY DEF IsClient, IsConnection
<1> HIDE DEF b, d
<1>3. ASSUME NEW a, d = C!FailAlert(c, a) PROVE d.use_session_ticket = c.use_session_ticket
  <2>1. d.use_session_ticket = c.use_session_ticket
    BY <1>3, <1>7 DEF C!FailAlert, ClientFields
  <2> QED  BY <2>1
<1>4. ASSUME NEW a, d = C!FailAlert(b, a) PROVE d.use_session_ticket = c.use_session_ticket
  <2>1. d.use_session_ticket = b.use_session_ticket
    BY <1>2, <1>4 DEF C!FailAlert, ClientFields
  <2> QED  BY <1>2, <2>1
<1>5. ASSUME d = [b EXCEPT !.state = "SERVER_FINISHED"] PROVE d.use_session_ticket = c.use_session_ticket
  <2>1. d.use_session_ticket = b.use_session_ticket
    BY <1>2, <1>5 DEF ClientFields
  <2> QED  BY <1>2, <2>1
<1>6. d.use_session_ticket = c.use_session_ticket
  BY <1>1, <1>3, <1>4, <1>5
<1> QED  BY <1>6 DEF d

\* What a step that leaves the hello alone has in common with every other
\* one.
LEMMA StepReadsAre ==
  ASSUME NEW c, ClientIs(c), NEW s, ClientReads(c, s), s.verify.log = c.verify.log, SameHello(c, s)
  PROVE  StepReads(c, s)
  BY DEF ClientIs, StepReads, SameHello, ClientReads, SameClient

\* The ways a step goes on, and what the client has after it; once the client
\* has sent its Finished no step changes the secrets.
LEMMA ClientStepGoesOn ==
  ASSUME NEW c, ClientIs(c), c.ok, ClientStates(c), NEW ct, NEW m,
         m.type = "server_hello" => m.session_id \in {0, c.round},
         NEW s, s = ClientStep(c, ct, m)
  PROVE  /\ StepReads(c, s)
         /\ s.ok => StepCame(c, ct, m, s)
         /\ ~s.ok => StepFails(c, s)
         /\ ClientSent(c) \/ c.state = "CHANGE_CIPHER_SPEC" => ClientKeeps(c, s)
<1>0. IsClient(c) /\ c.round \in Nat /\ c.session_id \in Nat /\ c.session_id <= c.round
      /\ NullSuite \notin ToSet(c.cipher_suites)
  BY DEF ClientIs
<1> HIDE DEF ClientReads, SameClient, IsClient, IsConnection
<1>8. ASSUME ClientFails(c, s) PROVE StepFails(c, s)
  BY <1>8 DEF ClientFails, StepFails
<1>1. CASE c.state = "SERVER_HELLO"
  <2>1. s = C!tls_process_server_hello(c, ct, m)
    BY <1>1, ClientStepIs
  <2>2. c.session_id < c.round /\ ~c.session_resumed
    BY <1>1 DEF ClientStates
  <2>4. ~ClientSent(c)
    BY <1>1 DEF ClientSent
  <2>3. /\ ClientReads(c, s) /\ s.verify = c.verify /\ ~s.session_resumed
        /\ s.session_id \in Nat /\ s.session_id <= s.round
        /\ s.ok => /\ s.rl.version = m.version /\ s.server_random = m.random
                   /\ s.rl.suite = m.cipher_suite /\ s.rl.suite # NullSuite
                   /\ ct = "handshake"
                   /\ \/ s.state = "SERVER_CERTIFICATE" /\ ~s.use_session_ticket
                      \/ /\ s.state = "SERVER_CHANGE_CIPHER_SPEC" /\ s.use_session_ticket
                         /\ ClientKeyed(s)
        /\ ~s.ok => ClientFails(c, s)
    BY <1>0, <1>1, <2>1, <2>2, ClientReadHello
  <2>5. s.ok => HelloCame(c, ct, m, s)
    BY <1>1, <2>3 DEF HelloCame
  <2>6. StepReads(c, s)
    BY <2>3 DEF StepReads
  <2>7. ~s.ok => StepFails(c, s)
    BY <1>8, <2>3
  <2>8. ~(ClientSent(c) \/ c.state = "CHANGE_CIPHER_SPEC")
    BY <1>1, <2>4
  <2>9. s.ok => StepCame(c, ct, m, s)
    BY <2>5 DEF StepCame
  <2> QED  BY <2>6, <2>7, <2>8, <2>9
<1>2. ASSUME c.state \in {"SERVER_CERTIFICATE", "SERVER_KEY_EXCHANGE", "SERVER_CERTIFICATE_REQUEST",
                  "SERVER_HELLO_DONE"}, ClientAsked(c, s)
      PROVE  /\ StepReads(c, s)
             /\ s.ok => AskedOn(c, s)
             /\ ~s.ok => ClientFails(c, s)
             /\ ~ClientSent(c)
  <2>1. ~ClientSent(c)
    BY <1>2 DEF ClientSent
  <2>2. StepReads(c, s)
    BY <1>2, StepReadsAre DEF ClientAsked
  <2>3. /\ s.ok => AskedOn(c, s)
        /\ ~s.ok => ClientFails(c, s)
    BY <1>2 DEF ClientAsked, AskedOn
  <2> QED  BY <2>1, <2>2, <2>3
<1>3. CASE c.state \in {"SERVER_CERTIFICATE", "SERVER_KEY_EXCHANGE", "SERVER_CERTIFICATE_REQUEST",
                  "SERVER_HELLO_DONE"}
  <2>1. ClientAsked(c, s)
    BY <1>0, <1>3, ClientStepIs, ClientReadCertificate, ClientReadKeyExchange, ClientReadRequest, ClientReadDone
  <2> QED  BY <1>2, <1>3, <1>8, <2>1 DEF StepCame
<1>4. CASE c.state = "SERVER_CHANGE_CIPHER_SPEC"
  <2>1. s = C!tls_process_server_change_cipher_spec(c, ct, m)
    BY <1>4, ClientStepIs
  <2>2. /\ ClientReads(c, s) /\ SameKeys(c, s) /\ SameHello(c, s) /\ s.verify = c.verify
        /\ s.ok => \/ c.use_session_ticket /\ ~s.use_session_ticket /\ s.state \in ClientAsks
                   \/ /\ s.state = "SERVER_FINISHED" /\ s.use_session_ticket = c.use_session_ticket
                      /\ s.rl.read.suite = s.rl.suite
                      /\ c.rl.suite # NullSuite => s.rl.read.key = s.rl.rkey
        /\ ~s.ok => s.alert # NULL
        /\ ~s.ok /\ ~c.use_session_ticket => s.state = c.state
    BY <1>0, <2>1, ClientReadChange
  <2>3. StepReads(c, s)
    BY <2>2, StepReadsAre
  <2>4. ~s.ok /\ c.use_session_ticket => s.state \in {"SERVER_CHANGE_CIPHER_SPEC", "SERVER_CERTIFICATE"}
    <3> DEFINE a1 == [c EXCEPT !.use_session_ticket = FALSE]
               a2 == [a1 EXCEPT !.state = "SERVER_CERTIFICATE"]
               a3 == C!tls_process_certificate(a2, ct, m)
               b == [c EXCEPT !.rl = C!tlsv1_record_change_read_cipher(@)]
    <3>1. IsClient(a2) /\ a2.ok /\ a2.state = "SERVER_CERTIFICATE"
      BY <1>0 DEF IsClient, IsConnection, ClientFields
    <3>2. \/ s = C!FailAlert(a1, "HANDSHAKE_FAILURE")
          \/ s = a3
          \/ \E a : s = C!FailAlert(c, a)
          \/ \E a : s = C!FailAlert(b, a)
          \/ s = [b EXCEPT !.state = "SERVER_FINISHED"]
      <4> HIDE DEF a2, a3, b
      <4> QED  BY <2>1 DEF C!tls_process_server_change_cipher_spec, a1, a2, a3, b
    <3>5. /\ DOMAIN a1 = ClientFields /\ a1.state = c.state
      BY <1>0 DEF IsClient, IsConnection, ClientFields
    <3>8. DOMAIN b = ClientFields /\ b.state = c.state /\ b.ok
      BY <1>0 DEF IsClient, IsConnection, ClientFields
    <3> HIDE DEF a2
    <3>3. ClientAsked(a2, a3)
      BY <3>1, ClientReadCertificate
    <3>4. ~a3.ok => a3.state = "SERVER_CERTIFICATE"
      BY <3>1, <3>3 DEF ClientAsked, ClientFails
    <3> HIDE DEF a3, b, a1
    <3>6. [b EXCEPT !.state = "SERVER_FINISHED"].ok
      BY <3>8 DEF ClientFields
    <3>7. /\ C!FailAlert(a1, "HANDSHAKE_FAILURE").state = c.state
          /\ \A a : C!FailAlert(b, a).state = c.state
      BY <3>5, <3>8 DEF C!FailAlert, ClientFields
    <3>9. \A a : C!FailAlert(c, a).state = c.state
      BY <1>0 DEF C!FailAlert, IsClient, IsConnection, ClientFields
    <3> QED  BY <1>4, <3>2, <3>4, <3>6, <3>7, <3>9
  <2>5. ClientSent(c) => ~c.use_session_ticket
    BY <1>4 DEF ClientSent
  <2>6. s.ok => TicketRefused(c, s) \/ ChangeCame(c, s)
    BY <1>4, <2>2 DEF TicketRefused, ChangeCame
  <2>7. ~s.ok => StepFails(c, s)
    BY <1>4, <2>2, <2>4 DEF StepFails
  <2>9. ASSUME ~c.use_session_ticket PROVE ClientKeeps(c, s)
    <3>1. s.use_session_ticket = c.use_session_ticket
      BY <2>1, <2>9, <1>0, TicketKept
    <3> QED  BY <2>2, <3>1 DEF ClientKeeps, SameHello
  <2>10. ClientSent(c) \/ c.state = "CHANGE_CIPHER_SPEC" => ClientKeeps(c, s)
    BY <1>4, <2>5, <2>9
  <2>11. s.ok => StepCame(c, ct, m, s)
    BY <2>6 DEF StepCame
  <2> QED  BY <2>3, <2>7, <2>10, <2>11
<1>5. CASE c.state = "SERVER_FINISHED"
  <2>1. s = C!tls_process_server_finished(c, ct, m)
    BY <1>5, ClientStepIs
  <2>2. StepReads(c, s)
    BY <1>0, <2>1, ClientReadFinished, StepReadsAre
  <2>3. s.ok => FinishedCame(c, m, s)
    BY <1>0, <1>5, <2>1, ClientReadFinished DEF FinishedCame
  <2>4. (~s.ok => ClientFails(c, s)) /\ ClientKeeps(c, s)
    BY <1>0, <2>1, ClientReadFinished DEF ClientKeeps, SameHello
  <2> QED  BY <1>8, <2>2, <2>3, <2>4 DEF StepCame
<1>6. CASE c.state = "ACK_FINISHED"
  <2>1. s = C!tls_process_application_data(c, ct, m)
    BY <1>6, ClientStepIs
  <2>2. ClientTakes(c, s) /\ (~s.ok => ClientFails(c, s))
    BY <1>0, <2>1, ClientReadData
  <2>3. StepReads(c, s)
    BY <2>2, StepReadsAre DEF ClientTakes
  <2>4. DataCame(c, s) /\ ClientKeeps(c, s)
    BY <1>6, <2>2 DEF ClientTakes, DataCame, ClientKeeps, SameHello
  <2> QED  BY <1>8, <2>2, <2>3, <2>4 DEF StepCame
<1>7. CASE c.state \notin ClientReading
  <2>1. s = C!Fail(c)
    BY <1>7, ClientStepIs
  <2>2. /\ ClientReads(c, s) /\ s.verify.log = c.verify.log /\ ~s.ok /\ s.state = c.state
        /\ SameHello(c, s) /\ ClientKeeps(c, s)
    BY <1>0, <2>1 DEF C!Fail, ClientKeeps, SameHello, SameKeys, IsClient, IsConnection, ClientFields, ClientReads, SameClient
  <2>3. StepReads(c, s) /\ StepFails(c, s)
    BY <2>1, <2>2, StepReadsAre DEF StepFails
  <2> QED  BY <2>2, <2>3
<1> QED  BY <1>1, <1>3, <1>4, <1>5, <1>6, <1>7 DEF ClientReading

\* What the hellos say stays true as long as nothing of this changes.
LEMMA ClientHellosMove ==
  ASSUME NEW c, NEW d, Len(c.verify.log) \in Nat, Grown(c.verify.log, d.verify.log),
         d.client_random = c.client_random, d.flags = c.flags, d.cipher_suites = c.cipher_suites
  PROVE  /\ Len(c.verify.log) >= 1 /\ ClientSaid(c) => ClientSaid(d)
         /\ /\ Len(c.verify.log) >= 2 /\ ClientHeard(c) /\ d.rl.version = c.rl.version
            /\ d.rl.suite = c.rl.suite /\ d.server_random = c.server_random
            => ClientHeard(d)
<1>1. ASSUME Len(c.verify.log) >= 1 PROVE d.verify.log[1] = c.verify.log[1]
  <2>1. 1 \in 1 .. Len(c.verify.log)
    BY <1>1
  <2> QED  BY <2>1 DEF Grown
<1>2. ASSUME Len(c.verify.log) >= 2 PROVE d.verify.log[2] = c.verify.log[2]
  <2>1. 2 \in 1 .. Len(c.verify.log)
    BY <1>2
  <2> QED  BY <2>1 DEF Grown
<1>3. Len(c.verify.log) >= 1 /\ ClientSaid(c) => ClientSaid(d)
  BY <1>1, Zenon DEF ClientSaid
<1>4. /\ Len(c.verify.log) >= 2 /\ ClientHeard(c) /\ d.rl.version = c.rl.version
      /\ d.rl.suite = c.rl.suite /\ d.server_random = c.server_random
      => ClientHeard(d)
  BY <1>2, Zenon DEF ClientHeard
<1> QED  BY <1>3, <1>4

\* Keys are good as long as nothing changes that they are made of.
LEMMA ClientKeysMove ==
  ASSUME NEW c, NEW d, SameKeys(c, d), d.server_random = c.server_random
  PROVE  ClientKeyed(c) => ClientKeyed(d)
  BY DEF SameKeys, ClientKeyed, Block

\* d is s, perhaps with another message in its hash.
ClientLogged(c, s, d) ==
  /\ ClientReads(c, d) /\ Grown(c.verify.log, d.verify.log)
  /\ SameKeys(s, d) /\ SameHello(s, d) /\ d.state = s.state /\ d.rl = s.rl
  /\ d.use_session_ticket = s.use_session_ticket

\* What a client has that reads on.
LEMMA ReadsOn ==
  ASSUME NEW c, ClientIs(c), NEW d, ClientReads(c, d), Grown(c.verify.log, d.verify.log)
  PROVE  /\ Len(c.verify.log) \in Nat /\ Len(d.verify.log) \in Nat
         /\ Len(c.verify.log) <= Len(d.verify.log)
         /\ d.client_random = c.client_random /\ d.flags = c.flags
         /\ d.cipher_suites = c.cipher_suites /\ d.round = c.round /\ d.rl.write = c.rl.write
         /\ Len(c.verify.log) >= 2 => Len(c.verify.log) >= 1
         /\ Len(c.verify.log) >= 2 => Len(d.verify.log) >= 2
         /\ Len(c.verify.log) >= 3 => Len(d.verify.log) >= 3
<1>1. IsSeq(c.verify.log) /\ IsSeq(d.verify.log)
  BY DEF ClientIs, ClientReads, IsClient, IsConnection
<1>2. Len(c.verify.log) \in Nat /\ Len(d.verify.log) \in Nat
  BY <1>1, AppendFacts
<1>3. Len(c.verify.log) <= Len(d.verify.log)
  BY DEF Grown
<1> QED  BY <1>2, <1>3 DEF ClientReads, SameClient

\* The second of two.
LEMMA SecondAppended ==
  ASSUME NEW s, IsSeq(s), Len(s) = 1, NEW e
  PROVE  Len(Append(s, e)) = 2 /\ Append(s, e)[2] = e
<1>1. /\ Len(Append(s, e)) = Len(s) + 1
      /\ Append(s, e)[Len(s) + 1] = e
  BY AppendFacts
<1>2. Len(s) + 1 = 2
  OBVIOUS
<1> QED  BY <1>1, <1>2

\* The server's hello leaves a client that has heard it.
LEMMA HelloStates ==
  ASSUME NEW c, ClientIs(c), ClientStates(c), NEW m, NEW ct, NEW s, StepReads(c, s), HelloCame(c, ct, m, s),
         NEW d, ClientLogged(c, s, d), d.verify.log = Append(c.verify.log, m)
  PROVE  ClientStates(d)
<1>1. /\ Len(c.verify.log) = 1 /\ ClientSaid(c) /\ c.rl.write.key = NoKey
  BY DEF HelloCame, ClientStates
<1>2. Len(d.verify.log) = 2 /\ d.verify.log[2] = m
  <2>1. IsSeq(c.verify.log)
    BY DEF ClientIs, IsClient, IsConnection
  <2> QED  BY <1>1, <2>1, SecondAppended
<1>3. /\ d.client_random = c.client_random /\ d.flags = c.flags /\ d.rl.write = c.rl.write
      /\ d.cipher_suites = c.cipher_suites /\ Len(c.verify.log) \in Nat
  BY ReadsOn DEF ClientLogged
<1>4. ClientSaid(d)
  <2>1. Grown(c.verify.log, d.verify.log)
    BY DEF ClientLogged
  <2>2. Len(c.verify.log) >= 1 /\ ClientSaid(c) => ClientSaid(d)
    BY <1>3, <2>1, ClientHellosMove
  <2>3. \A n : n = 1 => n >= 1
    OBVIOUS
  <2> QED  BY <1>1, <2>2, <2>3, Zenon
<1>5. ClientHeard(d)
  BY <1>2 DEF ClientHeard, HelloCame, ClientLogged, SameHello
<1>6. d.session_id \in Nat /\ d.session_id <= d.round /\ ~d.session_resumed
  <2>1. d.session_id = s.session_id /\ d.session_resumed = s.session_resumed
    BY DEF ClientLogged, SameHello
  <2>3. d.round = s.round
    BY DEF ClientLogged, ClientReads, SameClient, StepReads
  <2>2. ~s.session_resumed
    BY DEF HelloCame
  <2>4. ~d.session_resumed
    BY <2>1, <2>2
  <2> QED  BY <2>1, <2>3, <2>4 DEF StepReads
<1>7. d.rl.write.key = NoKey
  BY <1>1, <1>3
<1>8. Len(d.verify.log) >= 2
  <2>1. \A n : n = 2 => n >= 2
    OBVIOUS
  <2> QED  BY <1>2, <2>1, Zenon
<1>9. \/ d.state = "SERVER_CERTIFICATE" /\ ~d.use_session_ticket
      \/ d.state = "SERVER_CHANGE_CIPHER_SPEC" /\ d.use_session_ticket /\ ClientKeyed(d)
  <2>1. ClientKeyed(s) => ClientKeyed(d)
    BY ClientKeysMove DEF ClientLogged, SameHello
  <2> QED  BY <2>1 DEF HelloCame, ClientLogged
<1>10. CASE d.state = "SERVER_CERTIFICATE" /\ ~d.use_session_ticket
  BY <1>4, <1>5, <1>6, <1>7, <1>8, <1>10 DEF ClientStates, ClientAsks, ClientKnows
<1>11. CASE d.state = "SERVER_CHANGE_CIPHER_SPEC" /\ d.use_session_ticket /\ ClientKeyed(d)
  BY <1>4, <1>5, <1>6, <1>7, <1>8, <1>11 DEF ClientStates, ClientAsks, ClientKnows
<1> QED  BY <1>9, <1>10, <1>11

\* From the hello on.
LEMMA LaterStates ==
  ASSUME NEW c, ClientIs(c), ClientStates(c), c.state \in ClientAsks \cup ClientKnows,
         NEW s, StepReads(c, s), SameKeys(c, s), SameHello(c, s),
         NEW d, ClientLogged(c, s, d)
  PROVE  /\ d.session_id \in Nat /\ d.session_id <= d.round
         /\ Len(d.verify.log) >= 2 /\ ClientSaid(d) /\ ClientHeard(d)
         /\ ClientKeyed(c) => ClientKeyed(d)
         /\ SameKeys(c, d) /\ d.rl.write = c.rl.write
         /\ Len(c.verify.log) >= 3 => Len(d.verify.log) >= 3
         /\ c.rl.suite # NullSuite
         /\ d.session_resumed = c.session_resumed
<1>1. /\ d.client_random = c.client_random /\ d.flags = c.flags /\ d.rl.write = c.rl.write
      /\ d.cipher_suites = c.cipher_suites /\ Len(c.verify.log) \in Nat
      /\ Len(c.verify.log) >= 2 => Len(c.verify.log) >= 1
      /\ Len(c.verify.log) >= 2 => Len(d.verify.log) >= 2
      /\ Len(c.verify.log) >= 3 => Len(d.verify.log) >= 3
  BY ReadsOn DEF ClientLogged
<1>2. SameKeys(c, d) /\ d.server_random = c.server_random /\ d.session_resumed = c.session_resumed
  BY DEF SameKeys, SameHello, ClientLogged
<1>3. Len(c.verify.log) >= 2 /\ ClientSaid(c) /\ ClientHeard(c)
  BY DEF ClientStates
<1>4. Grown(c.verify.log, d.verify.log)
  BY DEF ClientLogged
<1>5. ClientSaid(d)
  BY <1>1, <1>3, <1>4, ClientHellosMove
<1>6. ClientHeard(d)
  BY <1>1, <1>2, <1>3, <1>4, ClientHellosMove DEF SameKeys
<1>7. ClientKeyed(c) => ClientKeyed(d)
  BY <1>2, ClientKeysMove
<1>8. d.session_id \in Nat /\ d.session_id <= d.round
  BY DEF ClientLogged, SameHello, ClientReads, SameClient, StepReads
<1> QED  BY <1>1, <1>2, <1>3, <1>5, <1>6, <1>7, <1>8 DEF ClientHeard

\* A certificate, a request or a key exchange, or the refusal of a ticket,
\* leaves a client that waits for the next one.
LEMMA AskedStates ==
  ASSUME NEW c, ClientIs(c), ClientStates(c), NEW s, StepReads(c, s), AskedOn(c, s) \/ TicketRefused(c, s),
         NEW d, ClientLogged(c, s, d)
  PROVE  ClientStates(d)
<1>1. c.state \in ClientAsks \cup ClientKnows /\ SameKeys(c, s) /\ SameHello(c, s) /\ s.state \in ClientAsks
  BY DEF AskedOn, TicketRefused, ClientAsks, ClientKnows
<1>2. c.rl.write.key = NoKey
  <2>1. CASE AskedOn(c, s)
    BY <2>1 DEF AskedOn, ClientStates, ClientAsks
  <2>2. CASE TicketRefused(c, s)
    BY <2>2 DEF TicketRefused, ClientStates
  <2> QED  BY <2>1, <2>2
<1>3. ~s.use_session_ticket
  <2>1. CASE AskedOn(c, s)
    BY <2>1 DEF AskedOn, ClientStates, ClientAsks
  <2>2. CASE TicketRefused(c, s)
    BY <2>2 DEF TicketRefused
  <2> QED  BY <2>1, <2>2
<1>4. ~d.use_session_ticket /\ d.state \in ClientAsks
  BY <1>1, <1>3 DEF ClientLogged
<1>5. ~c.session_resumed
  BY DEF ClientStates, AskedOn, TicketRefused
<1>6. /\ d.session_id \in Nat /\ d.session_id <= d.round
      /\ Len(d.verify.log) >= 2 /\ ClientSaid(d) /\ ClientHeard(d)
      /\ d.rl.write = c.rl.write
      /\ d.session_resumed = c.session_resumed
  BY <1>1, LaterStates
<1> QED  BY <1>2, <1>4, <1>5, <1>6 DEF ClientStates, ClientAsks, ClientKnows

\* A ChangeCipherSpec leaves a client that reads with the key of the server.
LEMMA ChangeStates ==
  ASSUME NEW c, ClientIs(c), ClientStates(c), NEW s, StepReads(c, s), ChangeCame(c, s),
         NEW d, ClientLogged(c, s, d)
  PROVE  ClientStates(d)
<1>1. c.state = "SERVER_CHANGE_CIPHER_SPEC" /\ SameKeys(c, s) /\ SameHello(c, s)
      /\ s.use_session_ticket = c.use_session_ticket /\ s.state = "SERVER_FINISHED"
  BY DEF ChangeCame
<1>6. /\ d.session_id \in Nat /\ d.session_id <= d.round
      /\ Len(d.verify.log) >= 2 /\ ClientSaid(d) /\ ClientHeard(d)
      /\ ClientKeyed(c) => ClientKeyed(d)
      /\ SameKeys(c, d) /\ d.rl.write = c.rl.write
      /\ Len(c.verify.log) >= 3 => Len(d.verify.log) >= 3
      /\ c.rl.suite # NullSuite
      /\ d.session_resumed = c.session_resumed
  BY <1>1, LaterStates DEF ClientKnows
<1>2. ClientKeyed(c) /\ ~c.session_resumed
      /\ c.rl.write.key = (IF c.use_session_ticket THEN NoKey ELSE c.rl.wkey)
      /\ (~c.use_session_ticket => Len(c.verify.log) >= 3)
  BY <1>1 DEF ClientStates, ClientKnows
<1>3. d.rl.read.suite = d.rl.suite /\ d.rl.read.key = d.rl.rkey
  BY <1>6 DEF ChangeCame, ClientLogged
<1>4. d.use_session_ticket = c.use_session_ticket
  BY <1>1 DEF ClientLogged
<1>5. d.state = "SERVER_FINISHED"
  BY <1>1 DEF ClientLogged
<1>7. d.rl.write.key = (IF d.use_session_ticket THEN NoKey ELSE d.rl.wkey)
  BY <1>2, <1>4, <1>6 DEF SameKeys
<1>8. ~d.use_session_ticket => Len(d.verify.log) >= 3
  BY <1>2, <1>4, <1>6
<1> QED  BY <1>2, <1>3, <1>5, <1>6, <1>7, <1>8 DEF ClientStates, ClientAsks, ClientKnows

\* A Finished leaves a client that has something to say itself, or nothing
\* more.
LEMMA FinishedStates ==
  ASSUME NEW c, ClientIs(c), ClientStates(c), NEW m, NEW s, StepReads(c, s), FinishedCame(c, m, s),
         NEW d, ClientLogged(c, s, d)
  PROVE  ClientStates(d)
<1>1. c.state = "SERVER_FINISHED" /\ SameKeys(c, s) /\ SameHello(c, s)
      /\ s.use_session_ticket = c.use_session_ticket /\ s.rl.read = c.rl.read
  BY DEF FinishedCame
<1>6. /\ d.session_id \in Nat /\ d.session_id <= d.round
      /\ Len(d.verify.log) >= 2 /\ ClientSaid(d) /\ ClientHeard(d)
      /\ ClientKeyed(c) => ClientKeyed(d)
      /\ SameKeys(c, d) /\ d.rl.write = c.rl.write
      /\ Len(c.verify.log) >= 3 => Len(d.verify.log) >= 3
      /\ d.session_resumed = c.session_resumed
  BY <1>1, LaterStates DEF ClientKnows
<1>2. ClientKeyed(c) /\ ~c.session_resumed
      /\ c.rl.write.key = (IF c.use_session_ticket THEN NoKey ELSE c.rl.wkey)
      /\ (~c.use_session_ticket => Len(c.verify.log) >= 3)
      /\ c.rl.read.suite = c.rl.suite /\ c.rl.read.key = c.rl.rkey
  BY <1>1 DEF ClientStates, ClientKnows
<1>3. d.rl.read.suite = d.rl.suite /\ d.rl.read.key = d.rl.rkey
  BY <1>1, <1>2, <1>6 DEF ClientLogged, SameKeys
<1>4. d.use_session_ticket = c.use_session_ticket
  BY <1>1 DEF ClientLogged
<1>5. d.state = IF c.use_session_ticket THEN "CHANGE_CIPHER_SPEC" ELSE "ACK_FINISHED"
  BY <1>2 DEF ClientLogged, FinishedCame
<1>8. ~d.use_session_ticket => Len(d.verify.log) >= 3
  BY <1>2, <1>4, <1>6
<1>9. CASE c.use_session_ticket
  <2>1. d.state = "CHANGE_CIPHER_SPEC" /\ d.rl.write.key = NoKey /\ d.use_session_ticket
    BY <1>2, <1>4, <1>5, <1>6, <1>9
  <2> QED  BY <1>2, <1>3, <1>6, <2>1 DEF ClientStates, ClientAsks, ClientKnows
<1>10. CASE ~c.use_session_ticket
  <2>1. d.state = "ACK_FINISHED" /\ d.rl.write.key = c.rl.wkey /\ ~d.use_session_ticket
    BY <1>2, <1>4, <1>5, <1>6, <1>10
  <2>2. d.rl.wkey = c.rl.wkey
    BY <1>6 DEF SameKeys
  <2> QED  BY <1>2, <1>3, <1>6, <1>8, <2>1, <2>2 DEF ClientStates, ClientAsks, ClientKnows
<1> QED  BY <1>9, <1>10

\* Nothing has happened.
LEMMA ClientStatesMove ==
  ASSUME NEW c, ClientIs(c), ClientStates(c), NEW d, ClientReads(c, d), SameKeys(c, d), SameHello(c, d),
         Grown(c.verify.log, d.verify.log), d.state = c.state,
         d.state \in {"CLIENT_HELLO", "SERVER_HELLO"} => d.verify.log = c.verify.log,
         d.use_session_ticket = c.use_session_ticket,
         d.rl.read.key = c.rl.read.key, d.rl.read.suite = c.rl.read.suite
  PROVE  ClientStates(d)
<1>1. /\ d.client_random = c.client_random /\ d.flags = c.flags /\ d.rl.write = c.rl.write
      /\ d.cipher_suites = c.cipher_suites /\ Len(c.verify.log) \in Nat /\ d.round = c.round
      /\ Len(c.verify.log) >= 2 => Len(c.verify.log) >= 1
      /\ Len(c.verify.log) >= 2 => Len(d.verify.log) >= 2
      /\ Len(c.verify.log) >= 3 => Len(d.verify.log) >= 3
  BY ReadsOn
<1>2. d.server_random = c.server_random /\ d.session_resumed = c.session_resumed /\ d.session_id = c.session_id
  BY DEF SameHello
<1>3. /\ Len(c.verify.log) >= 1 /\ ClientSaid(c) => ClientSaid(d)
      /\ Len(c.verify.log) >= 2 /\ ClientHeard(c) => ClientHeard(d)
  BY <1>1, <1>2, ClientHellosMove DEF SameKeys
<1>4. ClientKeyed(c) => ClientKeyed(d)
  BY <1>2, ClientKeysMove
<1>5. d.session_id \in Nat /\ d.session_id <= d.round
  BY <1>1, <1>2 DEF ClientIs
<1>6. CASE c.state \in {"CLIENT_HELLO", "SERVER_HELLO"}
  <2>1. /\ c.session_id < c.round /\ c.rl.write.key = NoKey /\ ~c.session_resumed
        /\ c.state = "CLIENT_HELLO" => Len(c.verify.log) = 0
        /\ c.state = "SERVER_HELLO" => Len(c.verify.log) = 1 /\ ClientSaid(c)
    BY <1>6 DEF ClientStates
  <2>2. Len(c.verify.log) = 1 => Len(c.verify.log) >= 1
    OBVIOUS
  <2>3. /\ d.session_id < d.round /\ d.rl.write.key = NoKey /\ ~d.session_resumed
        /\ d.state = "CLIENT_HELLO" => Len(d.verify.log) = 0
        /\ d.state = "SERVER_HELLO" => Len(d.verify.log) = 1 /\ ClientSaid(d)
    BY <1>1, <1>2, <1>3, <1>6, <2>1, <2>2
  <2> QED  BY <1>5, <1>6, <2>3 DEF ClientStates, ClientAsks, ClientKnows
<1>7. CASE c.state \in ClientAsks \cup ClientKnows
  <2>1. Len(d.verify.log) >= 2 /\ ClientSaid(d) /\ ClientHeard(d)
    BY <1>1, <1>3, <1>7 DEF ClientStates
  <2>2. d.rl.wkey = c.rl.wkey /\ d.rl.rkey = c.rl.rkey /\ d.rl.suite = c.rl.suite
    BY DEF SameKeys
  <2> HIDE DEF SameKeys, ClientReads
  <2> QED  BY <1>1, <1>2, <1>4, <1>5, <1>7, <2>1, <2>2 DEF ClientStates, ClientAsks, ClientKnows
<1>8. CASE c.state \notin {"CLIENT_HELLO", "SERVER_HELLO"} \cup ClientAsks \cup ClientKnows
  BY <1>2, <1>5, <1>8 DEF ClientStates, ClientAsks, ClientKnows
<1> QED  BY <1>6, <1>7, <1>8

(***************************************************************************)
(* What the server's messages say to the client                            *)
(***************************************************************************)

\* A client that has sent its Finished still has when it has moved on.
LEMMA ClientSentMoves ==
  ASSUME NEW c, NEW d, Len(c.verify.log) \in Nat, Len(d.verify.log) \in Nat,
         Grown(c.verify.log, d.verify.log), ClientKeeps(c, d),
         d.flags = c.flags, d.cipher_suites = c.cipher_suites,
         d.rl.write.key = c.rl.write.key, ClientSent(c),
         d.state \in {"SERVER_CHANGE_CIPHER_SPEC", "SERVER_FINISHED", "ACK_FINISHED", "ESTABLISHED", "FAILED"},
         d.state \in {"SERVER_CHANGE_CIPHER_SPEC", "SERVER_FINISHED"} =>
           c.state \in {"SERVER_CHANGE_CIPHER_SPEC", "SERVER_FINISHED"}
  PROVE  ClientSent(d)
<1>1. Len(c.verify.log) >= 2 /\ Len(c.verify.log) >= 1 /\ Len(d.verify.log) >= 2
  BY DEF ClientSent, Grown
<1>2. /\ d.client_random = c.client_random /\ d.rl.version = c.rl.version /\ d.rl.suite = c.rl.suite
      /\ d.server_random = c.server_random /\ d.rl.wkey = c.rl.wkey
  BY DEF ClientKeeps, SameKeys
<1>3. ClientSaid(d) /\ ClientHeard(d)
  BY <1>1, <1>2, ClientHellosMove DEF ClientSent
<1>4. ClientKeyed(d)
  BY ClientKeysMove DEF ClientSent, ClientKeeps
<1>5. d.state \in {"SERVER_CHANGE_CIPHER_SPEC", "SERVER_FINISHED"} => ~d.use_session_ticket
  BY DEF ClientSent, ClientKeeps
<1> QED  BY <1>1, <1>2, <1>3, <1>4, <1>5 DEF ClientSent

\* Two ends that agree still do when the client has moved on.
LEMMA ClientAgreeMoves ==
  ASSUME NEW c, NEW d, NEW s, Len(c.verify.log) \in Nat, Len(c.verify.log) >= 2,
         Grown(c.verify.log, d.verify.log), ClientKeeps(c, d), Agree(c, s)
  PROVE  Agree(d, s)
<1>1. 1 \in 1 .. Len(c.verify.log) /\ 2 \in 1 .. Len(c.verify.log)
  OBVIOUS
<1>2. d.verify.log[1] = c.verify.log[1] /\ d.verify.log[2] = c.verify.log[2]
  BY <1>1 DEF Grown
<1> QED  BY <1>2 DEF Agree, ClientKeeps, SameKeys

\* A client that has taken the Finished of the server knows its keys.
LEMMA AcceptedKnows ==
  ASSUME NEW c, ClientStates(c), c.state \in {"CHANGE_CIPHER_SPEC", "ACK_FINISHED", "ESTABLISHED"}
  PROVE  /\ Len(c.verify.log) >= 2 /\ ClientSaid(c) /\ ClientHeard(c) /\ ClientKeyed(c)
         /\ c.state # "CHANGE_CIPHER_SPEC" => ClientSent(c)
  BY DEF ClientStates, ClientKnows, ClientSent

\* A Finished that the client takes means that the server is with it.
LEMMA ServerFinishedAgrees ==
  ASSUME NEW c, NEW s, NEW m, IsSeq(c.verify.log), Len(c.verify.log) >= 2,
         ClientHeard(c), ClientKeyed(c),
         ServerSent(s), c.rl.rkey = s.rl.write.key, ServerFinishes(m, s),
         ~c.use_session_ticket => Len(c.verify.log) >= 3,
         m.verify_data = tls_prf(c.master_secret, "server_finished", c.verify.log)
  PROVE  Agree(c, s) /\ (~c.use_session_ticket => ~s.use_session_ticket)
<1>1. Block(c) = Block(s)
  BY KeysDiffer DEF ServerKeyed, ServerSent, ClientKeyed
<1>2. /\ c.master_secret = s.master_secret /\ c.rl.suite = s.rl.suite
      /\ c.client_random = s.client_random /\ c.server_random = s.server_random
  BY <1>1, SameBlocks
<1>3. m.verify_data.seed = c.verify.log
  BY DEF tls_prf
<1>4. c.verify.log[1] = s.verify.log[1] /\ c.verify.log[2] = s.verify.log[2]
  BY <1>3 DEF ServerFinishes, SameHellos
<1>5. s.verify.log[2].version = s.rl.version
  BY DEF ServerSent, ServerSaid, S!HelloMessage
<1>6. c.verify.log[2].version = c.rl.version
  BY DEF ClientHeard
<1>7. s.use_session_ticket => Len(c.verify.log) = 2
  BY <1>3 DEF ServerFinishes
<1>10. \A n : n >= 3 => n # 2
  OBVIOUS
<1>8. ~c.use_session_ticket => Len(c.verify.log) # 2
  BY <1>10, Zenon
<1>9. ~c.use_session_ticket => ~s.use_session_ticket
  BY <1>7, <1>8
<1> QED  BY <1>2, <1>4, <1>5, <1>6, <1>9 DEF Agree

\* The whole of a message.
ClientMoves(c, s, d) ==
  /\ ClientReads(c, d) /\ Grown(c.verify.log, d.verify.log)
  /\ d.session_id \in Nat /\ d.session_id <= d.round
  /\ d.ok \/ d.alert = NULL => ClientStates(d)
  /\ ClientSent(c) => ClientSent(d) /\ ClientKeeps(c, d)
  /\ ClientAccepts(c, s) => ClientAccepts(d, s)

\* The state is the same or the end.
LEMMA ClientStaysOrEnds ==
  ASSUME NEW c, ClientIs(c), ClientStates(c), NEW s, NEW d, ClientReads(c, d), d.verify.log = c.verify.log,
         SameKeys(c, d), SameHello(c, d), d.use_session_ticket = c.use_session_ticket,
         d.state \in {c.state, "FAILED"}, d.rl.read.key = c.rl.read.key, d.rl.read.suite = c.rl.read.suite
  PROVE  ClientMoves(c, s, d)
<1>1. Grown(c.verify.log, d.verify.log)
  BY GrownFacts DEF ClientIs, IsClient, IsConnection
<1>2. /\ Len(c.verify.log) \in Nat /\ Len(d.verify.log) \in Nat
      /\ d.flags = c.flags /\ d.round = c.round
      /\ d.cipher_suites = c.cipher_suites /\ d.rl.write = c.rl.write
  BY <1>1, ReadsOn
<1>3. d.session_id \in Nat /\ d.session_id <= d.round
  BY <1>2 DEF SameHello, ClientIs
<1>4. ClientKeeps(c, d)
  BY DEF ClientKeeps, SameHello
<1>5. ClientStates(d)
  <2>1. CASE d.state = c.state
    BY <1>1, <2>1, ClientStatesMove
  <2>2. CASE d.state = "FAILED"
    BY <1>3, <2>2 DEF ClientStates, ClientAsks, ClientKnows
  <2> QED  BY <2>1, <2>2
<1>6. ClientSent(c) => ClientSent(d)
  <2>1. ASSUME ClientSent(c) PROVE ClientSent(d)
    <3>1. c.state \in {"SERVER_CHANGE_CIPHER_SPEC", "SERVER_FINISHED", "ACK_FINISHED", "ESTABLISHED", "FAILED"}
      BY <2>1 DEF ClientSent
    <3>2. /\ d.state \in {"SERVER_CHANGE_CIPHER_SPEC", "SERVER_FINISHED", "ACK_FINISHED", "ESTABLISHED", "FAILED"}
          /\ d.state \in {"SERVER_CHANGE_CIPHER_SPEC", "SERVER_FINISHED"} =>
               c.state \in {"SERVER_CHANGE_CIPHER_SPEC", "SERVER_FINISHED"}
      BY <3>1
    <3> QED  BY <1>1, <1>2, <1>4, <2>1, <3>2, ClientSentMoves
  <2> QED  BY <2>1
<1>7. ClientAccepts(c, s) => ClientAccepts(d, s)
  <2>1. SUFFICES ASSUME ClientAccepts(c, s), d.state \in {"CHANGE_CIPHER_SPEC", "ACK_FINISHED", "ESTABLISHED"}
                 PROVE /\ ServerSent(s) /\ Agree(d, s)
                       /\ ~d.use_session_ticket => ~s.use_session_ticket
    BY DEF ClientAccepts
  <2>2. c.state = d.state
    BY <2>1
  <2>3. ServerSent(s) /\ Agree(c, s) /\ (~c.use_session_ticket => ~s.use_session_ticket)
    BY <2>1, <2>2 DEF ClientAccepts
  <2>4. Agree(d, s)
    BY <1>1, <1>2, <1>4, <2>1, <2>2, <2>3, ClientAgreeMoves, AcceptedKnows
  <2> QED  BY <2>3, <2>4
<1> QED  BY <1>1, <1>3, <1>4, <1>5, <1>6, <1>7 DEF ClientMoves

\* A message that says no more than the server may have meant keeps the two
\* ends in agreement, and what the client knows true.
LEMMA ClientMessageMoves ==
  ASSUME NEW c, ClientIs(c), c.ok, ClientStates(c), NEW s, NEW ct, NEW m, FromServer(c, s, m),
         NEW d, d = C!tlsv1_client_process_handshake(c, ct, m)
  PROVE  ClientMoves(c, s, d)
<1> DEFINE e == ClientStep(c, ct, m)
           t == [e EXCEPT !.verify = C!tls_verify_hash_add(@, m)]
<1>0. IsClient(c) /\ IsSeq(c.verify.log) /\ Len(c.verify.log) \in Nat
  BY AppendFacts DEF ClientIs, IsClient, IsConnection
<1>1. \/ \E a : a # NULL /\ d = C!FailAlert(c, a)
      \/ d = C!Fail([c EXCEPT !.state = "FAILED"])
      \/ d = c
      \/ ct = "handshake" /\ e.ok /\ d = t
      \/ ~(ct = "handshake" /\ e.ok) /\ d = e
  <2> HIDE DEF e
  <2> QED  BY <1>0, ClientMessageIs DEF e
<1>2. /\ StepReads(c, e)
      /\ e.ok => StepCame(c, ct, m, e)
      /\ ~e.ok => StepFails(c, e)
      /\ ClientSent(c) \/ c.state = "CHANGE_CIPHER_SPEC" => ClientKeeps(c, e)
  <2>1. m.type = "server_hello" => m.session_id \in {0, c.round}
    BY DEF FromServer
  <2> HIDE DEF t
  <2> QED  BY <2>1, ClientStepGoesOn
<1> HIDE DEF e
<1>3. /\ ClientReads(c, t) /\ t.verify.log = Append(c.verify.log, m) /\ Grown(c.verify.log, t.verify.log)
      /\ SameKeys(e, t) /\ SameHello(e, t) /\ t.state = e.state /\ t.rl = e.rl
      /\ t.use_session_ticket = e.use_session_ticket /\ t.ok = e.ok
  <2>1. DOMAIN e = ClientFields /\ DOMAIN e.verify = {"log", "open"} /\ e.verify.log = c.verify.log
    BY <1>2 DEF StepReads, ClientReads, IsClient, IsConnection
  <2>2. t.verify.log = Append(c.verify.log, m) /\ DOMAIN t.verify = {"log", "open"} /\ DOMAIN t = ClientFields
    BY <2>1 DEF C!tls_verify_hash_add, ClientFields
  <2>9. IsSeq(Append(c.verify.log, m)) /\ Grown(c.verify.log, Append(c.verify.log, m))
    BY <1>0, AppendFacts, GrownFacts
  <2>3. IsSeq(t.verify.log) /\ Grown(c.verify.log, t.verify.log)
    <3> HIDE DEF t
    <3> QED  BY <2>2, <2>9
  <2>4. SameKeys(e, t) /\ SameHello(e, t) /\ t.state = e.state /\ t.rl = e.rl
    BY <2>1 DEF SameKeys, SameHello, ClientFields
  <2>5. t.use_session_ticket = e.use_session_ticket
    BY <2>1 DEF ClientFields
  <2>6. t.ok = e.ok
    BY <2>1 DEF ClientFields
  <2>7. SameClient(e, t) /\ t.out = e.out /\ t.client_random = e.client_random /\ t.partial_input = e.partial_input
    BY <2>1 DEF SameClient, ClientFields
  <2>8. ClientReads(c, t)
    <3>1. ClientReads(c, e)
      BY <1>2 DEF StepReads
    <3> HIDE DEF t
    <3> QED  BY <2>2, <2>3, <2>4, <2>7, <3>1 DEF ClientReads, SameClient, IsClient, IsConnection
  <2> QED  BY <2>2, <2>3, <2>4, <2>5, <2>6, <2>8
<1> HIDE DEF t
<1>4. ASSUME NEW a, a # NULL, d = C!FailAlert(c, a) PROVE ClientMoves(c, s, d)
  <2>1. /\ ClientReads(c, d) /\ d.verify.log = c.verify.log /\ SameKeys(c, d) /\ SameHello(c, d)
        /\ d.use_session_ticket = c.use_session_ticket /\ d.state = c.state
        /\ d.rl.read.key = c.rl.read.key /\ d.rl.read.suite = c.rl.read.suite
    BY <1>0, <1>4 DEF C!FailAlert, ClientReads, SameClient, SameKeys, SameHello, IsClient, IsConnection, ClientFields
  <2> QED  BY <2>1, ClientStaysOrEnds
<1>5. CASE d = C!Fail([c EXCEPT !.state = "FAILED"])
  <2>1. /\ ClientReads(c, d) /\ d.verify.log = c.verify.log /\ SameKeys(c, d) /\ SameHello(c, d)
        /\ d.use_session_ticket = c.use_session_ticket /\ d.state = "FAILED"
        /\ d.rl.read.key = c.rl.read.key /\ d.rl.read.suite = c.rl.read.suite
    BY <1>0, <1>5 DEF C!Fail, ClientReads, SameClient, SameKeys, SameHello, IsClient, IsConnection, ClientFields
  <2> QED  BY <2>1, ClientStaysOrEnds
<1>6. CASE d = c
  <2>1. ClientReads(c, d) /\ SameKeys(c, d) /\ SameHello(c, d)
    BY <1>0, <1>6 DEF ClientReads, SameClient, SameKeys, SameHello
  <2> QED  BY <1>6, <2>1, ClientStaysOrEnds
<1>7. CASE ~e.ok /\ d = e
  <2>1. StepFails(c, e) /\ ClientReads(c, d) /\ d.verify.log = c.verify.log
        /\ d.session_id \in Nat /\ d.session_id <= d.round
    BY <1>2, <1>7 DEF StepReads
  <2>2. CASE e = C!Fail(c)
    <3>1. /\ ClientReads(c, d) /\ d.verify.log = c.verify.log /\ SameKeys(c, d) /\ SameHello(c, d)
          /\ d.use_session_ticket = c.use_session_ticket /\ d.state = c.state
          /\ d.rl.read.key = c.rl.read.key /\ d.rl.read.suite = c.rl.read.suite
      BY <1>0, <1>7, <2>2 DEF C!Fail, ClientReads, SameClient, SameKeys, SameHello, IsClient, IsConnection, ClientFields
    <3> QED  BY <3>1, ClientStaysOrEnds
  <2>3. CASE e.alert # NULL
    <3>1. Grown(c.verify.log, d.verify.log)
      BY <1>0, <2>1, GrownFacts
    <3>2. /\ Len(c.verify.log) \in Nat /\ Len(d.verify.log) \in Nat
          /\ d.flags = c.flags /\ d.round = c.round
          /\ d.cipher_suites = c.cipher_suites /\ d.rl.write = c.rl.write
      BY <2>1, <3>1, ReadsOn
    <3>3. \/ d.state = c.state
          \/ /\ c.state = "SERVER_CHANGE_CIPHER_SPEC" /\ c.use_session_ticket
             /\ d.state \notin {"CHANGE_CIPHER_SPEC", "ACK_FINISHED", "ESTABLISHED"}
      BY <1>7, <2>1 DEF StepFails
    <3>4. ClientSent(c) => ClientSent(d) /\ ClientKeeps(c, d)
      <4>1. ASSUME ClientSent(c) PROVE ClientSent(d) /\ ClientKeeps(c, d)
        <5>1. ClientKeeps(c, d)
          BY <1>2, <1>7, <4>1
        <5>2. c.state \in {"SERVER_CHANGE_CIPHER_SPEC", "SERVER_FINISHED", "ACK_FINISHED", "ESTABLISHED", "FAILED"}
              /\ (c.state = "SERVER_CHANGE_CIPHER_SPEC" => ~c.use_session_ticket)
          BY <4>1 DEF ClientSent
        <5>3. d.state = c.state
          BY <3>3, <5>2
        <5>4. /\ d.state \in {"SERVER_CHANGE_CIPHER_SPEC", "SERVER_FINISHED", "ACK_FINISHED", "ESTABLISHED", "FAILED"}
              /\ d.state \in {"SERVER_CHANGE_CIPHER_SPEC", "SERVER_FINISHED"} =>
                   c.state \in {"SERVER_CHANGE_CIPHER_SPEC", "SERVER_FINISHED"}
          BY <5>2, <5>3
        <5> QED  BY <3>1, <3>2, <4>1, <5>1, <5>4, ClientSentMoves
      <4> QED  BY <4>1
    <3>5. ClientAccepts(c, s) => ClientAccepts(d, s)
      <4>1. SUFFICES ASSUME ClientAccepts(c, s), d.state \in {"CHANGE_CIPHER_SPEC", "ACK_FINISHED", "ESTABLISHED"}
                     PROVE /\ ServerSent(s) /\ Agree(d, s)
                           /\ ~d.use_session_ticket => ~s.use_session_ticket
        BY DEF ClientAccepts
      <4>2. c.state = d.state
        BY <3>3, <4>1
      <4>3. ServerSent(s) /\ Agree(c, s) /\ (~c.use_session_ticket => ~s.use_session_ticket)
        BY <4>1, <4>2 DEF ClientAccepts
      <4>4. Len(c.verify.log) >= 2 /\ (c.state # "CHANGE_CIPHER_SPEC" => ClientSent(c))
        BY <4>1, <4>2, AcceptedKnows
      <4>5. ClientKeeps(c, d)
        BY <1>2, <1>7, <4>4
      <4>6. Agree(d, s)
        BY <3>1, <3>2, <4>3, <4>4, <4>5, ClientAgreeMoves
      <4>7. d.use_session_ticket = c.use_session_ticket
        BY <4>5 DEF ClientKeeps
      <4> QED  BY <4>3, <4>6, <4>7
    <3> QED  BY <1>7, <2>1, <2>3, <3>1, <3>4, <3>5 DEF ClientMoves
  <2> QED  BY <2>1, <2>2, <2>3 DEF StepFails
<1>8. ASSUME e.ok, d \in {e, t}, ct = "handshake" => d = t
      PROVE  ClientMoves(c, s, d)
  <2>0. StepReads(c, e) /\ StepCame(c, ct, m, e)
    BY <1>2, <1>8
  <2>1. ClientLogged(c, e, d)
    <3>1. CASE d = t
      BY <1>3, <3>1 DEF ClientLogged
    <3>2. CASE d = e
      <4>1. Grown(c.verify.log, d.verify.log)
        BY <1>0, <2>0, <3>2, GrownFacts DEF StepReads
      <4> QED  BY <2>0, <3>2, <4>1 DEF ClientLogged, StepReads, SameKeys, SameHello
    <3> QED  BY <1>8, <3>1, <3>2
  <2>2. ClientStates(d)
    <3>1. CASE HelloCame(c, ct, m, e)
      <4>1. d.verify.log = Append(c.verify.log, m)
        BY <1>3, <1>8, <3>1 DEF HelloCame
      <4> QED  BY <2>0, <2>1, <3>1, <4>1, HelloStates
    <3>2. CASE AskedOn(c, e) \/ TicketRefused(c, e)
      BY <2>0, <2>1, <3>2, AskedStates
    <3>3. CASE ChangeCame(c, e)
      BY <2>0, <2>1, <3>3, ChangeStates
    <3>4. CASE FinishedCame(c, m, e)
      BY <2>0, <2>1, <3>4, FinishedStates
    <3>5. CASE DataCame(c, e)
      <4>1. /\ SameKeys(c, d) /\ SameHello(c, d) /\ d.use_session_ticket = c.use_session_ticket
            /\ d.state = "ACK_FINISHED" /\ c.state = "ACK_FINISHED"
            /\ d.rl.read.key = c.rl.read.key /\ d.rl.read.suite = c.rl.read.suite
        BY <2>1, <3>5 DEF ClientLogged, DataCame, ClientTakes, SameKeys, SameHello
      <4>2. ClientReads(c, d) /\ Grown(c.verify.log, d.verify.log)
        BY <2>1 DEF ClientLogged
      <4> QED  BY <4>1, <4>2, ClientStatesMove
    <3> QED  BY <2>0, <3>1, <3>2, <3>3, <3>4, <3>5 DEF StepCame
  <2>3. ClientReads(c, d) /\ Grown(c.verify.log, d.verify.log)
    BY <2>1 DEF ClientLogged
  <2>4. /\ Len(c.verify.log) \in Nat /\ Len(d.verify.log) \in Nat
        /\ d.flags = c.flags /\ d.round = c.round
        /\ d.cipher_suites = c.cipher_suites /\ d.rl.write = c.rl.write
    BY <2>3, ReadsOn
  <2>5. ClientSent(c) => ClientSent(d) /\ ClientKeeps(c, d)
    <3>1. ASSUME ClientSent(c) PROVE ClientSent(d) /\ ClientKeeps(c, d)
      <4>1. ClientKeeps(c, e)
        BY <1>2, <3>1
      <4>2. ClientKeeps(c, d)
        BY <2>1, <4>1 DEF ClientKeeps, ClientLogged, SameKeys, SameHello
      <4>3. /\ c.state \in {"SERVER_CHANGE_CIPHER_SPEC", "SERVER_FINISHED", "ACK_FINISHED", "ESTABLISHED", "FAILED"}
            /\ c.state \in {"SERVER_CHANGE_CIPHER_SPEC", "SERVER_FINISHED"} => ~c.use_session_ticket
        BY <3>1 DEF ClientSent
      <4>4. ~c.session_resumed \/ c.state \in {"ESTABLISHED", "FAILED"}
        BY DEF ClientStates
      <4>5. \/ e.state = "SERVER_FINISHED" /\ c.state = "SERVER_CHANGE_CIPHER_SPEC"
            \/ e.state = "ACK_FINISHED"
        <5>1. ~HelloCame(c, ct, m, e) /\ ~AskedOn(c, e)
          BY <4>3 DEF HelloCame, AskedOn
        <5>2. ~TicketRefused(c, e)
          BY <4>3 DEF TicketRefused
        <5>3. ChangeCame(c, e) => e.state = "SERVER_FINISHED" /\ c.state = "SERVER_CHANGE_CIPHER_SPEC"
          BY DEF ChangeCame
        <5>4. FinishedCame(c, m, e) => e.state = "ACK_FINISHED"
          BY <4>3, <4>4 DEF FinishedCame
        <5>5. DataCame(c, e) => e.state = "ACK_FINISHED"
          BY DEF DataCame, ClientTakes
        <5> QED  BY <2>0, <5>1, <5>2, <5>3, <5>4, <5>5 DEF StepCame
      <4>6. d.state = e.state
        BY <2>1 DEF ClientLogged
      <4>7. /\ d.state \in {"SERVER_CHANGE_CIPHER_SPEC", "SERVER_FINISHED", "ACK_FINISHED", "ESTABLISHED", "FAILED"}
            /\ d.state \in {"SERVER_CHANGE_CIPHER_SPEC", "SERVER_FINISHED"} =>
                 c.state \in {"SERVER_CHANGE_CIPHER_SPEC", "SERVER_FINISHED"}
        BY <4>5, <4>6
      <4> QED  BY <2>3, <2>4, <3>1, <4>2, <4>7, ClientSentMoves
    <3> QED  BY <3>1
  <2>6. ClientAccepts(c, s) => ClientAccepts(d, s)
    <3>1. SUFFICES ASSUME ClientAccepts(c, s), d.state \in {"CHANGE_CIPHER_SPEC", "ACK_FINISHED", "ESTABLISHED"}
                   PROVE /\ ServerSent(s) /\ Agree(d, s)
                         /\ ~d.use_session_ticket => ~s.use_session_ticket
      BY DEF ClientAccepts
    <3>2. e.state \in {"CHANGE_CIPHER_SPEC", "ACK_FINISHED", "ESTABLISHED"}
      BY <2>1, <3>1 DEF ClientLogged
    <3>3. FinishedCame(c, m, e) \/ DataCame(c, e)
      BY <2>0, <3>2 DEF StepCame, HelloCame, AskedOn, TicketRefused, ChangeCame, ClientAsks
    <3>4. ClientKeeps(c, d)
      <4>1. SameKeys(c, e) /\ SameHello(c, e) /\ e.use_session_ticket = c.use_session_ticket
        BY <3>3 DEF FinishedCame, DataCame, ClientTakes
      <4>2. ClientKeeps(c, e)
        BY <4>1 DEF ClientKeeps, SameHello
      <4> QED  BY <2>1, <4>2 DEF ClientKeeps, ClientLogged, SameKeys, SameHello
    <3>5. CASE DataCame(c, e)
      <4>1. c.state = "ACK_FINISHED"
        BY <3>5 DEF DataCame
      <4>2. ServerSent(s) /\ Agree(c, s) /\ (~c.use_session_ticket => ~s.use_session_ticket)
            /\ Len(c.verify.log) >= 2
        BY <3>1, <4>1, AcceptedKnows DEF ClientAccepts
      <4>3. Agree(d, s)
        BY <2>3, <2>4, <3>4, <4>2, ClientAgreeMoves
      <4>4. d.use_session_ticket = c.use_session_ticket
        BY <3>4 DEF ClientKeeps
      <4> QED  BY <4>2, <4>3, <4>4
    <3>6. CASE FinishedCame(c, m, e)
      <4>1. /\ c.state = "SERVER_FINISHED" /\ m.type = "finished"
            /\ m.verify_data = tls_prf(c.master_secret, "server_finished", c.verify.log)
        BY <3>6 DEF FinishedCame
      <4>2. /\ Len(c.verify.log) >= 2 /\ ClientHeard(c) /\ ClientKeyed(c)
            /\ ~c.use_session_ticket => Len(c.verify.log) >= 3
            /\ c.rl.read.suite = c.rl.suite /\ c.rl.read.key = c.rl.rkey
        BY <4>1 DEF ClientStates, ClientKnows
      <4>3. c.rl.read.suite # NullSuite /\ c.rl.read.key # NoKey
        BY <4>2, KeysDiffer DEF ClientHeard, ClientKeyed
      <4>4. ServerSent(s) /\ c.rl.rkey = s.rl.write.key /\ ServerFinishes(m, s)
        BY <4>1, <4>2, <4>3 DEF FromServer
      <4>5. Agree(c, s) /\ (~c.use_session_ticket => ~s.use_session_ticket)
        BY <1>0, <4>1, <4>2, <4>4, ServerFinishedAgrees
      <4>6. Agree(d, s)
        BY <2>3, <2>4, <3>4, <4>2, <4>5, ClientAgreeMoves
      <4>7. d.use_session_ticket = c.use_session_ticket
        BY <3>4 DEF ClientKeeps
      <4> QED  BY <4>4, <4>5, <4>6, <4>7
    <3> QED  BY <3>3, <3>5, <3>6
  <2>7. d.session_id \in Nat /\ d.session_id <= d.round
    BY <2>2 DEF ClientStates
  <2> QED  BY <2>2, <2>3, <2>5, <2>6, <2>7 DEF ClientMoves
<1> QED  BY <1>1, <1>4, <1>5, <1>6, <1>7, <1>8

(***************************************************************************)
(* A call that reads: any number of records                                *)
(***************************************************************************)

\* What is known of a client without its state stays true.
LEMMA MovesKeepIs ==
  ASSUME NEW c, ClientIs(c), NEW s, NEW d, ClientMoves(c, s, d)
  PROVE  /\ ClientIs(d) /\ d.round = c.round
         /\ Len(c.verify.log) \in Nat /\ Len(d.verify.log) \in Nat
<1>1. IsClient(c) /\ IsClient(d) /\ SameClient(c, d)
  BY DEF ClientIs, ClientMoves, ClientReads
<1>2. IsSeq(c.verify.log) /\ IsSeq(d.verify.log)
  BY <1>1 DEF IsClient, IsConnection
<1>3. Len(c.verify.log) \in Nat /\ Len(d.verify.log) \in Nat
  BY <1>2, AppendFacts
<1> HIDE DEF IsClient, IsConnection, ClientReads
<1>4. d.round = c.round /\ d.cipher_suites = c.cipher_suites
  BY <1>1 DEF SameClient
<1> QED  BY <1>1, <1>3, <1>4 DEF ClientIs, ClientMoves

\* Two messages are one.
LEMMA ClientMovesFurther ==
  ASSUME NEW c, ClientIs(c), NEW s, NEW d, ClientMoves(c, s, d), NEW e, ClientMoves(d, s, e)
  PROVE  ClientMoves(c, s, e)
<1>0. ClientIs(d) /\ Len(c.verify.log) \in Nat /\ Len(d.verify.log) \in Nat
  BY MovesKeepIs
<1>1. Len(e.verify.log) \in Nat
  BY <1>0, MovesKeepIs
<1> HIDE DEF IsClient, IsConnection
<1>2. ClientReads(c, e)
  <2>1. ClientReads(c, d) /\ ClientReads(d, e)
    BY DEF ClientMoves
  <2> QED  BY <2>1 DEF ClientReads, SameClient
<1> HIDE DEF ClientReads, SameClient
<1>3. Grown(c.verify.log, e.verify.log)
  <2>1. Grown(c.verify.log, d.verify.log) /\ Grown(d.verify.log, e.verify.log)
    BY DEF ClientMoves
  <2> QED  BY <1>0, <1>1, <2>1, GrownFurther
<1>4. ASSUME ClientSent(c) PROVE ClientSent(e) /\ ClientKeeps(c, e)
  <2>1. ClientSent(d) /\ ClientKeeps(c, d) /\ ClientSent(e) /\ ClientKeeps(d, e)
    BY <1>4 DEF ClientMoves
  <2> QED  BY <2>1 DEF ClientKeeps, SameKeys
<1>5. /\ e.session_id \in Nat /\ e.session_id <= e.round
      /\ ClientAccepts(c, s) => ClientAccepts(e, s)
  BY DEF ClientMoves
<1>6. e.ok \/ e.alert = NULL => ClientStates(e)
  BY DEF ClientMoves
<1>7. ClientSent(c) => ClientSent(e) /\ ClientKeeps(c, e)
  BY <1>4
<1> QED  BY <1>2, <1>3, <1>5, <1>6, <1>7, Zenon DEF ClientMoves

\* Or none.
LEMMA ClientMovesNothing ==
  ASSUME NEW c, ClientIs(c), ClientStates(c), NEW s
  PROVE  ClientMoves(c, s, c)
<1>1. /\ ClientReads(c, c) /\ SameKeys(c, c) /\ SameHello(c, c)
  BY DEF ClientIs, SameKeys, SameHello, ClientReads, SameClient
<1> HIDE DEF ClientReads, SameClient, IsClient, IsConnection
<1> QED  BY <1>1, ClientStaysOrEnds

\* A record that is not refused.
LEMMA ClientRecordReceived ==
  ASSUME NEW rl, NEW r, NEW s, ToClientOk(r, s), NEW c, c.rl.read.key = rl.read.key,
         c.rl.read.suite = rl.read.suite, c.round = s.round,
         C!tlsv1_record_receive(rl, r).alert = NULL
  PROVE  FromServer(c, s, C!tlsv1_record_receive(rl, r).m)
<1> DEFINE g == C!tlsv1_record_receive(rl, r)
<1>1. /\ r.hdr = "ok" /\ g.m = (IF r.key = rl.read.key THEN r.m ELSE C!Noise)
      /\ rl.read.suite # NullSuite => r.key = rl.read.key
  <2>1. \A a \in Alerts : a # NULL
    BY NullAssumption
  <2> QED  BY <2>1, SameNames DEF C!tlsv1_record_receive, ToClientOk, Headers, C!Authentic, Alerts
<1>2. C!Noise.type = "noise"
  BY DEF C!Noise
<1> HIDE DEF g
<1>3. CASE r.key = rl.read.key
  BY <1>1, <1>3 DEF FromServer, ToClientOk, g
<1>4. CASE r.key # rl.read.key
  BY <1>1, <1>2, <1>4 DEF FromServer, g
<1> QED  BY <1>3, <1>4

\* Reading a record only counts it.
LEMMA CountedClient ==
  ASSUME NEW c, IsClient(c), NEW e, e = [c EXCEPT !.rl = C!RecordRead(@)]
  PROVE  /\ ClientReads(c, e) /\ e.verify.log = c.verify.log /\ e.state = c.state
         /\ SameKeys(c, e) /\ SameHello(c, e)
         /\ e.rl.read.key = c.rl.read.key /\ e.rl.read.suite = c.rl.read.suite
<1>1. IsClient(e)
  BY DEF C!RecordRead, IsClient, IsConnection, ClientFields, LayerFields, DirectionFields
<1> QED  BY <1>1 DEF C!RecordRead, SameKeys, SameHello, IsClient, IsConnection, ClientFields,
    LayerFields, DirectionFields, ClientReads, SameClient

\* Nor does it change the flags.
LEMMA CountedFlags ==
  ASSUME NEW c, IsClient(c), NEW e, e = [c EXCEPT !.rl = C!RecordRead(@)]
  PROVE  e.ok = c.ok /\ e.use_session_ticket = c.use_session_ticket
<1>1. e.ok = c.ok
  BY DEF IsClient, IsConnection, ClientFields
<1>2. e.use_session_ticket = c.use_session_ticket
  BY DEF IsClient, IsConnection, ClientFields
<1> QED  BY <1>1, <1>2

\* A record, unless an earlier one has failed.
LEMMA ClientReceives ==
  ASSUME NEW c, ClientIs(c), c.ok => ClientStates(c), NEW s, c.round = s.round, NEW r, ToClientOk(r, s)
  PROVE  (C!ReceiveRecord(c, r) = c /\ ~c.ok) \/ ClientMoves(c, s, C!ReceiveRecord(c, r))
<1> DEFINE g == C!tlsv1_record_receive(c.rl, r)
           e == [c EXCEPT !.rl = C!RecordRead(@)]
           d == C!tlsv1_client_process_handshake(e, r.ct, g.m)
           f == C!FailAlert(c, g.alert)
<1>0. IsClient(c)
  BY DEF ClientIs
<1>1. CASE ~c.ok
  <2>1. C!ReceiveRecord(c, r) = c
    BY <1>1 DEF C!ReceiveRecord
  <2> QED  BY <1>1, <2>1
<1>2. CASE c.ok /\ g.alert # NULL
  <2>1. C!ReceiveRecord(c, r) = f
    BY <1>2 DEF C!ReceiveRecord
  <2>2. /\ ClientReads(c, f) /\ f.verify.log = c.verify.log /\ SameKeys(c, f) /\ SameHello(c, f)
        /\ f.state = c.state
        /\ f.rl.read.key = c.rl.read.key /\ f.rl.read.suite = c.rl.read.suite
    <3> HIDE DEF g
    <3> QED  BY <1>0 DEF C!FailAlert, SameKeys, SameHello, IsClient, IsConnection, ClientFields,
        ClientReads, SameClient
  <2>3. f.use_session_ticket = c.use_session_ticket
    <3> HIDE DEF g
    <3> QED  BY <1>0 DEF C!FailAlert, IsClient, IsConnection, ClientFields
  <2> HIDE DEF f, g, ClientReads, SameClient, IsClient, IsConnection
  <2> QED  BY <1>2, <2>1, <2>2, <2>3, ClientStaysOrEnds
<1>3. CASE c.ok /\ g.alert = NULL
  <2>1. C!ReceiveRecord(c, r) = d
    BY <1>3 DEF C!ReceiveRecord
  <2>2. /\ ClientReads(c, e) /\ e.verify.log = c.verify.log /\ e.state = c.state
        /\ SameKeys(c, e) /\ SameHello(c, e)
        /\ e.rl.read.key = c.rl.read.key /\ e.rl.read.suite = c.rl.read.suite
        /\ e.ok = c.ok /\ e.use_session_ticket = c.use_session_ticket
    <3> HIDE DEF ClientReads, SameClient, IsClient, IsConnection
    <3> QED  BY <1>0, CountedClient, CountedFlags
  <2> HIDE DEF e
  <2>3. ClientMoves(c, s, e)
    <3> HIDE DEF ClientReads, SameClient, IsClient, IsConnection
    <3> QED  BY <1>3, <2>2, ClientStaysOrEnds
  <2>4. ClientIs(e) /\ e.round = c.round
    BY <2>3, MovesKeepIs
  <2>5. FromServer(e, s, g.m)
    BY <1>3, <2>2, <2>4, ClientRecordReceived
  <2> HIDE DEF g
  <2>6. PICK m : m = g.m
    OBVIOUS
  <2>7. PICK ct : ct = r.ct
    OBVIOUS
  <2> HIDE DEF d, ClientReads, SameClient, IsClient, IsConnection
  <2>8. d = C!tlsv1_client_process_handshake(e, ct, m)
    BY <2>6, <2>7 DEF d
  <2>9. e.ok /\ ClientStates(e)
    BY <1>3, <2>2, <2>3 DEF ClientMoves
  <2>10. ClientMoves(e, s, d)
    BY <2>4, <2>5, <2>6, <2>8, <2>9, ClientMessageMoves
  <2> QED  BY <2>1, <2>3, <2>10, ClientMovesFurther
<1> QED  BY <1>1, <1>2, <1>3

\* The records are read one after the other.
LEMMA ClientStages ==
  ASSUME NEW c, ClientIs(c), ClientStates(c), NEW s, c.round = s.round, NEW seq, IsSeq(seq),
         \A i \in DOMAIN seq : ToClientOk(seq[i], s)
  PROVE  ClientMoves(c, s, C!FoldLeft(C!ReceiveRecord, c, seq))
<1>0. Len(seq) \in Nat /\ DOMAIN seq = 1 .. Len(seq)
  BY DEF IsSeq
<1>1. PICK h : Chain(h, "client handshake", c, seq) /\ h[Len(seq)] = C!FoldLeft(C!ReceiveRecord, c, seq)
  BY ClientHandshakeChain
<1> DEFINE T == {i \in 0 .. Len(seq) : ClientMoves(c, s, h[i])}
<1> HIDE DEF IsClient, IsConnection, ClientReads, SameClient
<1>2. 0 \in T
  <2>1. h[0] = c
    BY <1>1 DEF Chain
  <2>2. ClientMoves(c, s, h[0])
    BY <2>1, ClientMovesNothing
  <2>3. 0 \in 0 .. Len(seq)
    BY <1>0
  <2> QED  BY <2>2, <2>3, Zenon
<1>3. ASSUME NEW i \in 0 .. Len(seq) - 1, i \in T PROVE i + 1 \in T
  <2>1. i + 1 \in 1 .. Len(seq) /\ i + 1 - 1 = i /\ i \in Nat
    BY <1>0
  <2>2. h[i + 1] = C!ReceiveRecord(h[i], seq[i + 1])
    BY <1>1, <2>1 DEF Chain, Step
  <2>3. ClientMoves(c, s, h[i])
    BY <1>3
  <2>4. ToClientOk(seq[i + 1], s)
    BY <1>0, <2>1
  <2>5. ClientIs(h[i]) /\ h[i].round = s.round
    BY <2>3, MovesKeepIs
  <2>6. h[i].ok => ClientStates(h[i])
    BY <2>3 DEF ClientMoves
  <2>7. h[i + 1] = h[i] \/ ClientMoves(h[i], s, h[i + 1])
    BY <2>2, <2>4, <2>5, <2>6, ClientReceives
  <2>8. ClientMoves(c, s, h[i + 1])
    BY <2>3, <2>7, ClientMovesFurther
  <2> QED  BY <1>0, <2>1, <2>8
<1> HIDE DEF T
<1>4. Len(seq) \in T
  BY <1>0, <1>2, <1>3, UpTo
<1> QED  BY <1>1, <1>4 DEF T

USE DEF IsClient, IsConnection, ClientFields, LayerFields, DirectionFields, SameClient

(***************************************************************************)
(* A call that writes. The messages before the ChangeCipherSpec            *)
(***************************************************************************)

\* What a client leaves alone while it writes.
ClientWrites(c, d) ==
  /\ IsClient(d) /\ SameClient(c, d) /\ SameHello(c, d) /\ Grown(c.verify.log, d.verify.log)
  /\ d.state = c.state /\ d.use_session_ticket = c.use_session_ticket
  /\ d.rl.read = c.rl.read /\ d.rl.version = c.rl.version /\ d.rl.suite = c.rl.suite
  /\ d.client_random = c.client_random
  /\ c.alert # NULL => d.alert # NULL

\* Nor does it touch the keys, but for the message that makes them.
ClientWritesOn(c, d) == ClientWrites(c, d) /\ SameKeys(c, d)

\* Messages that need no protection.
Innocent(m, k) ==
  /\ "type" \in DOMAIN m
  /\ m.type = "certificate" =>
       /\ "chain" \in DOMAIN m
       /\ m.chain # <<>> => HasCertificate(k) /\ m.chain = <<"client_key">>
  /\ m.type = "certificate_verify" => HasKey(k)

\* A record without protection that claims nothing of the client but what is
\* so.
PlainToServer(r, k) ==
  DOMAIN r = RecordFields /\ r.hdr = "ok" /\ r.key = NoKey /\ Innocent(r.m, k)

\* A client that has not turned on its key yet writes such records only.
ClientPlain(c) ==
  c.rl.write.key = NoKey /\ \A i \in DOMAIN c.out : PlainToServer(c.out[i], c)

\* Two functions that write are one.
LEMMA ClientWritesFurther ==
  ASSUME NEW c, IsClient(c), NEW d, NEW e, ClientWrites(c, d), ClientWrites(d, e)
  PROVE  /\ ClientWrites(c, e)
         /\ ClientWritesOn(c, d) /\ ClientWritesOn(d, e) => ClientWritesOn(c, e)
<1>1. /\ Len(c.verify.log) \in Nat /\ Len(d.verify.log) \in Nat /\ Len(e.verify.log) \in Nat
  BY AppendFacts DEF ClientWrites
<1>2. Grown(c.verify.log, e.verify.log)
  BY <1>1, GrownFurther DEF ClientWrites
<1> HIDE DEF IsClient, IsConnection
<1>3. SameHello(c, e)
  BY DEF ClientWrites, SameHello
<1>4. SameClient(c, e)
  BY DEF ClientWrites
<1>5. e.use_session_ticket = c.use_session_ticket
  BY DEF ClientWrites
<1> HIDE DEF SameClient
<1>6. ClientWrites(c, e)
  BY <1>2, <1>3, <1>4, <1>5 DEF ClientWrites
<1> QED  BY <1>6 DEF ClientWritesOn, SameKeys

\* A function that writes nothing.
LEMMA ClientWritesNothing ==
  ASSUME NEW c, IsClient(c)
  PROVE  ClientWritesOn(c, c)
  BY GrownFacts DEF ClientWritesOn, ClientWrites, SameKeys, SameHello

\* An alert instead of a message.
LEMMA ClientFailsPlainly ==
  ASSUME NEW c, IsClient(c), NEW a, NEW d, d = C!FailAlert(c, a)
  PROVE  a # NULL => ClientWritesOn(c, d) /\ ~d.ok /\ d.alert # NULL
  BY GrownFacts DEF ClientWritesOn, ClientWrites, SameKeys, SameHello, C!FailAlert

\* A message that is sent is appended to the hash and, in a record, to the
\* output.
LEMMA ClientSendIs ==
  ASSUME NEW c, IsClient(c), NEW m, NEW d, d = C!SendHandshake(c, m)
  PROVE  /\ ClientWritesOn(c, d) /\ d.alert = c.alert
         /\ d.verify.log = Append(c.verify.log, m)
         /\ d.out = Append(c.out, C!Record(c.rl, "handshake", m))
         /\ d.rl.write.key = c.rl.write.key /\ d.rl.write.suite = c.rl.write.suite
         /\ d.verify.open = c.verify.open
<1> DEFINE r == C!Record(c.rl, "handshake", m)
<1>1. /\ IsSeq(Append(c.out, r)) /\ IsSeq(Append(c.verify.log, m))
      /\ Grown(c.verify.log, Append(c.verify.log, m))
  BY AppendFacts, GrownFacts
<1> HIDE DEF r
<1>2. /\ d.verify.log = Append(c.verify.log, m) /\ d.out = Append(c.out, r)
      /\ d.verify.open = c.verify.open
      /\ DOMAIN d.verify = {"log", "open"} /\ DOMAIN d = ClientFields
  BY DEF r, C!SendHandshake, C!tlsv1_record_send, C!tls_verify_hash_add
<1>3. /\ DOMAIN d.rl = LayerFields /\ DOMAIN d.rl.write = DirectionFields
      /\ DOMAIN d.rl.read = DirectionFields /\ SameClient(c, d) /\ SameKeys(c, d)
      /\ d.state = c.state /\ d.rl.read = c.rl.read
      /\ d.alert = c.alert
      /\ d.rl.write.key = c.rl.write.key /\ d.rl.write.suite = c.rl.write.suite
  BY DEF C!SendHandshake, C!tlsv1_record_send, C!tls_verify_hash_add, SameKeys
<1>4. SameHello(c, d)
  BY DEF C!SendHandshake, C!tlsv1_record_send, C!tls_verify_hash_add, SameHello
<1>5. d.use_session_ticket = c.use_session_ticket
  BY DEF C!SendHandshake, C!tlsv1_record_send, C!tls_verify_hash_add
<1>6. IsClient(d)
  BY <1>1, <1>2, <1>3
<1> HIDE DEF IsClient, IsConnection, SameClient
<1> QED  BY <1>1, <1>2, <1>3, <1>4, <1>5, <1>6 DEF ClientWritesOn, ClientWrites, SameKeys, r

\* Sending in itself does not fail.
LEMMA ClientSendOk ==
  ASSUME NEW c, IsClient(c), NEW m, NEW d, d = C!SendHandshake(c, m)
  PROVE  d.ok = c.ok
  BY DEF C!SendHandshake, C!tlsv1_record_send, C!tls_verify_hash_add

\* Output in the clear and another record in the clear.
LEMMA ClientPlainAppended ==
  ASSUME NEW c, IsClient(c), NEW d, NEW r, ClientPlain(c), PlainToServer(r, c),
         d.cred = c.cred, d.rl.write.key = c.rl.write.key, d.out = Append(c.out, r)
  PROVE  ClientPlain(d)
<1>1. IsSeq(c.out)
  OBVIOUS
<1>2. PICK T : c.out \in Seq(T)
  BY <1>1 DEF IsSeq
<1>3. Append(c.out, r) \in Seq(T \cup {r}) /\ DOMAIN c.out = 1 .. Len(c.out) /\ Len(c.out) \in Nat
  BY <1>2
<1>4. ASSUME NEW i \in DOMAIN d.out PROVE PlainToServer(d.out[i], d)
  <2>1. i \in 1 .. Len(c.out) + 1
    BY <1>1, AppendFacts
  <2>4. ASSUME NEW q, PlainToServer(q, c) PROVE PlainToServer(q, d)
    BY <2>4 DEF PlainToServer, Innocent, HasCertificate, HasKey
  <2>2. CASE i = Len(c.out) + 1
    <3>1. d.out[i] = r
      BY <2>2, <1>1, AppendFacts
    <3> QED  BY <3>1, <2>4
  <2>3. CASE i \in 1 .. Len(c.out)
    <3>1. d.out[i] = c.out[i]
      BY <2>3, <1>1, <1>3, AppendFacts
    <3>2. PlainToServer(c.out[i], c)
      BY <2>3, <1>3 DEF ClientPlain
    <3> QED  BY <3>1, <3>2, <2>4
  <2> QED  BY <2>1, <2>2, <2>3, <1>3
<1> QED  BY <1>4 DEF ClientPlain

\* A function that writes messages in the clear, or fails with an alert.
ClientWritesPlainly(c, d) ==
  /\ ClientWrites(c, d)
  /\ d.ok => c.ok
  /\ c.ok /\ ~d.ok => d.alert # NULL
  /\ ClientPlain(c) /\ d.ok => ClientPlain(d)

\* A message in the clear.
LEMMA ClientSendPlainly ==
  ASSUME NEW c, IsClient(c), NEW m, Innocent(m, c)
  PROVE  ClientWritesPlainly(c, C!SendHandshake(c, m))
<1> DEFINE d == C!SendHandshake(c, m)
           r == C!Record(c.rl, "handshake", m)
<1>0. d.ok = c.ok
  BY ClientSendOk
<1>1. /\ ClientWritesOn(c, d) /\ d.out = Append(c.out, r) /\ d.rl.write.key = c.rl.write.key
  <2> HIDE DEF IsClient
  <2> QED  BY ClientSendIs
<1>2. r = [hdr |-> "ok", ct |-> "handshake", key |-> c.rl.write.key, seq |-> c.rl.write.seq, m |-> m]
  BY DEF C!Record
<1> HIDE DEF d, r
<1>3. ClientPlain(c) => PlainToServer(r, c)
  BY <1>2 DEF ClientPlain, PlainToServer, RecordFields
<1>4. ClientPlain(c) => ClientPlain(d)
  BY <1>1, <1>3, ClientPlainAppended DEF ClientWritesOn, ClientWrites
<1> HIDE DEF IsClient, SameClient
<1> QED  BY <1>0, <1>1, <1>4 DEF ClientWritesPlainly, ClientWritesOn, d

\* Two functions that write in the clear are one.
LEMMA ClientPlainlyFurther ==
  ASSUME NEW c, IsClient(c), NEW d, NEW e, ClientWritesPlainly(c, d), ClientWritesPlainly(d, e)
  PROVE  ClientWritesPlainly(c, e)
<1>1. ClientWrites(c, d) /\ ClientWrites(d, e)
  BY DEF ClientWritesPlainly
<1> HIDE DEF IsClient, SameClient
<1>2. ClientWrites(c, e)
  BY <1>1, ClientWritesFurther
<1>3. /\ e.ok => c.ok
      /\ ClientPlain(c) /\ e.ok => ClientPlain(e)
  BY DEF ClientWritesPlainly
<1>4. c.ok /\ ~e.ok => e.alert # NULL
  BY DEF ClientWritesPlainly, ClientWrites
<1> QED  BY <1>2, <1>3, <1>4 DEF ClientWritesPlainly

\* A function that writes nothing, again.
LEMMA ClientPlainlyNothing ==
  ASSUME NEW c, IsClient(c)
  PROVE  ClientWritesPlainly(c, c)
<1> HIDE DEF IsClient
<1> QED  BY ClientWritesNothing DEF ClientWritesPlainly, ClientWritesOn

\* tls_write_client_certificate(): its own certificate, or none.
LEMMA ClientWriteCertificate ==
  ASSUME NEW c, IsClient(c)
  PROVE  ClientWritesPlainly(c, C!tls_write_client_certificate(c))
<1> DEFINE chain == IF c.cred # NULL /\ c.cred.cert THEN <<"client_key">> ELSE <<>>
           m == [type |-> "certificate", fmt |-> "ok", chain |-> chain,
                 verdict |-> "ok", client_auth |-> TRUE]
<1>1. chain # <<>> => HasCertificate(c) /\ chain = <<"client_key">>
  BY DEF HasCertificate
<1> HIDE DEF chain
<1>2. Innocent(m, c)
  BY <1>1 DEF Innocent
<1>3. C!tls_write_client_certificate(c) = C!SendHandshake(c, m)
  BY DEF C!tls_write_client_certificate, chain
<1> HIDE DEF m, IsClient
<1> QED  BY <1>2, <1>3, ClientSendPlainly

\* The key exchange itself: new keys, or an alert.
LEMMA ExchangeDerives ==
  ASSUME NEW c, IsClient(c), c.ok, NEW x, x \in {C!tlsv1_key_x_dh(c), C!tlsv1_key_x_rsa(c)}
  PROVE  /\ ClientWrites(c, x.conn) /\ x.conn.rl.write = c.rl.write /\ x.conn.out = c.out
         /\ x.conn.ok => ClientKeyed(x.conn)
         /\ ~x.conn.ok => x.conn.alert # NULL
         /\ x.conn.verify = c.verify
<1> DEFINE Made(e) == /\ ClientWrites(c, e) /\ e.rl.write = c.rl.write /\ e.out = c.out
                      /\ e.ok => ClientKeyed(e)
                      /\ ~e.ok => e.alert # NULL
                      /\ e.verify = c.verify
<1>1. ASSUME NEW pms PROVE ClientDerives(c, C!tls_derive_keys(c, pms))
  <2> HIDE DEF IsClient
  <2> QED  BY ClientDerive
<1>2. ASSUME NEW e, ClientDerives(c, e), c.alert # NULL => e.alert # NULL
      PROVE  /\ IsClient(e) /\ Made(e)
  <2>1. IsClient(e) /\ e.rl.write = c.rl.write /\ e.out = c.out /\ e.client_random = c.client_random
        /\ SameClient(c, e)
    BY <1>2 DEF ClientDerives, ClientReads
  <2>2. Grown(c.verify.log, e.verify.log)
    BY <1>2, GrownFacts DEF ClientDerives
  <2>3. ClientWrites(c, e)
    <3> HIDE DEF IsClient, SameClient
    <3> QED  BY <1>2, <2>1, <2>2 DEF ClientWrites, ClientDerives
  <2> HIDE DEF IsClient, SameClient
  <2> QED  BY <1>2, <2>1, <2>3 DEF ClientDerives
<1>3. ASSUME NEW pms PROVE c.alert # NULL => C!tls_derive_keys(c, pms).alert # NULL
  BY AlertIsSet DEF C!tls_derive_keys, C!FailAlert, Alerts
<1>4. ASSUME NEW e, IsClient(e), Made(e), NEW f, f = C!FailAlert(e, "INTERNAL_ERROR")
      PROVE  Made(f)
  <2>1. /\ ClientWritesOn(e, f) /\ ~f.ok /\ f.alert # NULL
    <3> HIDE DEF IsClient, Made
    <3> QED  BY <1>4, ClientFailsPlainly, AlertIsSet DEF Alerts
  <2>2. f.rl = e.rl /\ f.out = e.out /\ f.verify = e.verify
    BY <1>4 DEF C!FailAlert
  <2>3. ClientWrites(c, f)
    <3> HIDE DEF IsClient
    <3> QED  BY <1>4, <2>1, ClientWritesFurther DEF ClientWritesOn
  <2> HIDE DEF IsClient, SameClient
  <2> QED  BY <1>4, <2>1, <2>2, <2>3
<1>5. ASSUME NEW e, IsClient(e), Made(e), NEW f, f = C!tlsv1_client_free_dh(e)
      PROVE  Made(f)
  <2>1. /\ f.rl = e.rl /\ f.out = e.out /\ f.verify = e.verify /\ f.alert = e.alert
        /\ SameKeys(e, f) /\ IsClient(f) /\ SameClient(e, f) /\ SameHello(e, f) /\ f.state = e.state
    BY <1>5 DEF C!tlsv1_client_free_dh, SameKeys, SameHello
  <2>2. f.use_session_ticket = e.use_session_ticket
    BY <1>5 DEF C!tlsv1_client_free_dh
  <2>3. f.ok = e.ok
    BY <1>5 DEF C!tlsv1_client_free_dh
  <2>4. Grown(e.verify.log, f.verify.log)
    BY <1>5, <2>1, GrownFacts
  <2> HIDE DEF IsClient, SameClient
  <2>5. ClientWrites(e, f)
    BY <2>1, <2>2, <2>4 DEF ClientWrites, SameKeys
  <2>6. ClientWrites(c, f)
    BY <1>5, <2>5, ClientWritesFurther
  <2>7. ClientKeyed(e) => ClientKeyed(f)
    BY <2>1, ClientKeysMove DEF SameHello
  <2> QED  BY <1>5, <2>1, <2>3, <2>6, <2>7
<1>6. ASSUME NEW pms, NEW e, e = C!tls_derive_keys(c, pms) PROVE IsClient(e) /\ Made(e)
  <2> HIDE DEF IsClient, Made
  <2> QED  BY <1>1, <1>2, <1>3, <1>6
<1>7. C!FailAlert(c, "INTERNAL_ERROR").rl = c.rl /\ Made(C!FailAlert(c, "INTERNAL_ERROR"))
  <2> DEFINE f == C!FailAlert(c, "INTERNAL_ERROR")
  <2>1. ClientWritesOn(c, f) /\ ~f.ok /\ f.alert # NULL
    <3> HIDE DEF IsClient, f
    <3> QED  BY ClientFailsPlainly, AlertIsSet DEF Alerts, f
  <2>2. f.rl = c.rl /\ f.out = c.out /\ f.verify = c.verify
    BY DEF C!FailAlert
  <2> HIDE DEF f, IsClient, SameClient
  <2> QED  BY <2>1, <2>2 DEF ClientWritesOn, f
<1>8. Made(x.conn)
  <2> HIDE DEF Made, IsClient
  <2>1. CASE x = C!tlsv1_key_x_dh(c)
    <3> DEFINE e == C!tls_derive_keys(c, [dh |-> {<<"client_dh", c.round>>, c.dh.ys}])
    <3>1. x.conn \in {C!FailAlert(c, "INTERNAL_ERROR"), C!tlsv1_client_free_dh(e), e}
      <4> HIDE DEF e
      <4> QED  BY <2>1 DEF C!tlsv1_key_x_dh, e
    <3>2. IsClient(e) /\ Made(e)
      <4> DEFINE pms == [dh |-> {<<"client_dh", c.round>>, c.dh.ys}]
      <4> HIDE DEF pms
      <4>1. IsClient(C!tls_derive_keys(c, pms)) /\ Made(C!tls_derive_keys(c, pms))
        BY <1>6
      <4> QED  BY <4>1 DEF pms
    <3> HIDE DEF e
    <3> QED  BY <1>5, <1>7, <3>1, <3>2
  <2>2. CASE x = C!tlsv1_key_x_rsa(c)
    <3> DEFINE pms == C!tls_derive_pre_master_secret(c)
               e == C!tls_derive_keys(c, pms)
    <3>1. x.conn \in {C!FailAlert(c, "INTERNAL_ERROR"), C!FailAlert(e, "INTERNAL_ERROR"), e}
      <4> HIDE DEF e, pms
      <4> QED  BY <2>2 DEF C!tlsv1_key_x_rsa, e, pms
    <3>2. IsClient(e) /\ Made(e)
      <4> HIDE DEF pms
      <4> QED  BY <1>6
    <3> HIDE DEF e
    <3> QED  BY <1>4, <1>7, <3>1, <3>2
  <2> QED  BY <2>1, <2>2
<1> QED  BY <1>8

\* tls_write_client_key_exchange(): the keys, before the message is added to
\* the hash.
LEMMA ClientWriteExchange ==
  ASSUME NEW c, IsClient(c), c.ok, NEW d, d = C!tls_write_client_key_exchange(c)
  PROVE  /\ ClientWritesPlainly(c, d)
         /\ d.ok => ClientKeyed(d) /\ Len(d.verify.log) = Len(c.verify.log) + 1
<1> DEFINE x == IF C!tls_get_cipher_suite(c.rl.suite).key_exchange \in {"DH_anon", "DHE_RSA"}
                THEN C!tlsv1_key_x_dh(c) ELSE C!tlsv1_key_x_rsa(c)
           m == [type |-> "client_key_exchange", fmt |-> "ok", value |-> x.value]
<1>1. /\ ClientWrites(c, x.conn) /\ x.conn.rl.write = c.rl.write /\ x.conn.out = c.out
      /\ x.conn.ok => ClientKeyed(x.conn)
      /\ ~x.conn.ok => x.conn.alert # NULL
      /\ x.conn.verify = c.verify
  <2> HIDE DEF IsClient
  <2>1. x \in {C!tlsv1_key_x_dh(c), C!tlsv1_key_x_rsa(c)}
    OBVIOUS
  <2> HIDE DEF x
  <2> QED  BY <2>1, ExchangeDerives
<1>2. d = IF ~x.conn.ok THEN x.conn ELSE C!SendHandshake(x.conn, m)
  BY DEF C!tls_write_client_key_exchange
<1> HIDE DEF x
<1>3. Innocent(m, x.conn)
  BY DEF Innocent
<1> HIDE DEF m
<1>4. ClientWritesPlainly(c, x.conn)
  <2>1. ClientPlain(c) => ClientPlain(x.conn)
    BY <1>1 DEF ClientPlain, PlainToServer, Innocent, HasCertificate, HasKey, ClientWrites
  <2> HIDE DEF IsClient, SameClient
  <2> QED  BY <1>1, <2>1 DEF ClientWritesPlainly
<1>5. IsClient(x.conn)
  BY <1>1 DEF ClientWrites
<1>6. CASE ~x.conn.ok
  <2> HIDE DEF IsClient, SameClient
  <2> QED  BY <1>2, <1>4, <1>6
<1>7. CASE x.conn.ok
  <2>1. d = C!SendHandshake(x.conn, m)
    BY <1>2, <1>7
  <2> HIDE DEF IsClient, SameClient
  <2>2. ClientWritesPlainly(c, d)
    BY <1>3, <1>4, <1>5, <2>1, ClientSendPlainly, ClientPlainlyFurther
  <2>3. ClientWritesOn(x.conn, d) /\ d.verify.log = Append(x.conn.verify.log, m)
    <3>1. PICK y : y = x.conn
      OBVIOUS
    <3>2. IsClient(y) /\ d = C!SendHandshake(y, m)
      BY <1>5, <2>1, <3>1
    <3>3. ClientWritesOn(y, d)
      BY <3>2, ClientSendIs
    <3>4. d.verify.log = Append(y.verify.log, m)
      BY <3>2, ClientSendIs
    <3> QED  BY <3>1, <3>3, <3>4
  <2>4. ClientKeyed(d)
    <3>1. SameKeys(x.conn, d) /\ d.server_random = x.conn.server_random
      BY <2>3 DEF ClientWritesOn, ClientWrites, SameHello
    <3>2. ClientKeyed(x.conn)
      BY <1>1, <1>7
    <3> QED  BY <3>1, <3>2, ClientKeysMove
  <2>5. Len(d.verify.log) = Len(c.verify.log) + 1
    <3>1. IsSeq(x.conn.verify.log)
      BY <1>5 DEF IsClient, IsConnection
    <3>2. Len(Append(x.conn.verify.log, m)) = Len(x.conn.verify.log) + 1
      BY <3>1, AppendFacts
    <3>3. x.conn.verify = c.verify
      BY <1>1
    <3>4. Len(d.verify.log) = Len(x.conn.verify.log) + 1
      BY <2>3, <3>2, Zenon
    <3> QED  BY <3>3, <3>4, Zenon
  <2> QED  BY <2>2, <2>4, <2>5
<1> QED  BY <1>6, <1>7

\* tls_write_client_certificate_verify(): only a client that has the key
\* signs.
LEMMA ClientWriteVerify ==
  ASSUME NEW c, IsClient(c), c.ok, HasKey(c), NEW d, d = C!tls_write_client_certificate_verify(c)
  PROVE  /\ ClientWritesPlainly(c, d) /\ ClientWritesOn(c, d)
<1> DEFINE e == [c EXCEPT !.verify = C!HashFinish(@, "cert")]
           m == [type |-> "certificate_verify", fmt |-> "ok", alg |-> "SHA256",
                 sig |-> [by |-> "client_key", over |-> c.verify.log]]
<1>1. /\ IsClient(e) /\ e.rl = c.rl /\ e.out = c.out /\ SameClient(c, e) /\ SameHello(c, e) /\ SameKeys(c, e)
      /\ e.verify.log = c.verify.log /\ e.state = c.state /\ e.alert = c.alert
  BY DEF SameKeys, SameHello, C!HashFinish
<1>2. e.ok = c.ok
  OBVIOUS
<1>3. e.use_session_ticket = c.use_session_ticket
  OBVIOUS
<1>4. Grown(c.verify.log, e.verify.log)
  BY <1>1, GrownFacts
<1>5. Innocent(m, e)
  BY <1>1 DEF Innocent, HasKey
<1>6. d \in {C!FailAlert(e, "INTERNAL_ERROR"), C!SendHandshake(e, m)}
  <2> HIDE DEF e, m
  <2> QED  BY DEF C!tls_write_client_certificate_verify, e, m
<1>7. ClientPlain(c) => ClientPlain(e)
  BY <1>1 DEF ClientPlain, PlainToServer, Innocent, HasCertificate, HasKey
<1> HIDE DEF e, m, IsClient, SameClient
<1>8. ClientWritesOn(c, e)
  BY <1>1, <1>3, <1>4 DEF ClientWritesOn, ClientWrites, SameKeys
<1>9. ClientWritesPlainly(c, e)
  BY <1>2, <1>7, <1>8 DEF ClientWritesPlainly, ClientWritesOn
<1>10. CASE d = C!SendHandshake(e, m)
  <2>1. ClientWritesPlainly(e, d) /\ ClientWritesOn(e, d)
    BY <1>1, <1>5, <1>10, ClientSendPlainly, ClientSendIs
  <2>2. ClientWritesPlainly(c, d)
    BY <1>1, <1>9, <2>1, ClientPlainlyFurther
  <2> QED  BY <1>1, <1>8, <2>1, <2>2, ClientWritesFurther DEF ClientWritesOn
<1>11. CASE d = C!FailAlert(e, "INTERNAL_ERROR")
  <2>1. ClientWritesOn(e, d) /\ ~d.ok /\ d.alert # NULL
    BY <1>1, <1>11, ClientFailsPlainly, AlertIsSet DEF Alerts
  <2>2. ClientWritesOn(c, d)
    BY <1>1, <1>8, <2>1, ClientWritesFurther DEF ClientWritesOn
  <2> QED  BY <2>1, <2>2 DEF ClientWritesPlainly, ClientWritesOn
<1> QED  BY <1>6, <1>10, <1>11

(***************************************************************************)
(* ChangeCipherSpec and Finished                                           *)
(***************************************************************************)

\* tls_write_client_change_cipher_spec(): the record itself goes in the
\* clear, what follows is written with the new key.
LEMMA ClientWriteChange ==
  ASSUME NEW c, IsClient(c), c.ok, c.rl.suite # NullSuite, ClientPlain(c),
         NEW d, d = C!tls_write_client_change_cipher_spec(c)
  PROVE  /\ ClientWritesOn(c, d) /\ d.verify = c.verify
         /\ ~d.ok => d.alert # NULL
         /\ d.ok => /\ d.rl.write.key = d.rl.wkey
                    /\ \A i \in DOMAIN d.out : PlainToServer(d.out[i], c)
<1> DEFINE m == [type |-> "change_cipher_spec", fmt |-> "ok"]
           r == C!Record(c.rl, "change_cipher_spec", m)
           e == C!tlsv1_record_send(c, "change_cipher_spec", m)
<1>1. r = [hdr |-> "ok", ct |-> "change_cipher_spec", key |-> c.rl.write.key, seq |-> c.rl.write.seq, m |-> m]
  BY DEF C!Record
<1>2. Innocent(m, c)
  BY DEF Innocent
<1> HIDE DEF r, m
<1>3. PlainToServer(r, c)
  BY <1>1, <1>2 DEF ClientPlain, PlainToServer, RecordFields
<1>4. IsSeq(Append(c.out, r)) /\ Grown(c.verify.log, c.verify.log)
  BY AppendFacts, GrownFacts
<1>5. /\ e.out = Append(c.out, r) /\ e.verify = c.verify /\ e.rl.write.key = c.rl.write.key
      /\ e.cred = c.cred /\ e.rl.suite = c.rl.suite /\ e.rl.wkey = c.rl.wkey
  BY DEF C!tlsv1_record_send, r
<1>6. ClientPlain(e)
  BY <1>3, <1>5, ClientPlainAppended
<1>7. /\ DOMAIN e = ClientFields /\ DOMAIN e.rl = LayerFields /\ DOMAIN e.rl.read = DirectionFields
      /\ DOMAIN e.rl.write = DirectionFields
      /\ SameClient(c, e) /\ SameKeys(c, e) /\ SameHello(c, e) /\ e.state = c.state
      /\ e.rl.read = c.rl.read /\ e.alert = c.alert
  BY DEF C!tlsv1_record_send, SameKeys, SameHello
<1>8. e.ok = c.ok
  BY DEF C!tlsv1_record_send
<1>9. e.use_session_ticket = c.use_session_ticket
  BY DEF C!tlsv1_record_send
<1> HIDE DEF e
<1> DEFINE f == [e EXCEPT !.rl = C!tlsv1_record_change_write_cipher(@)]
<1>10. f.ok = c.ok
  BY <1>7, <1>8
<1>11. /\ ClientWritesOn(c, f) /\ f.verify = c.verify /\ f.out = e.out
       /\ f.rl.write.key = f.rl.wkey
  <2>1. IsClient(f)
    BY <1>4, <1>5, <1>7 DEF C!tlsv1_record_change_write_cipher, C!Direction
  <2>2. f.rl.write.key = f.rl.wkey
    BY <1>5, <1>7, SameNames DEF C!tlsv1_record_change_write_cipher, C!Direction
  <2>3. /\ SameClient(c, f) /\ SameKeys(c, f) /\ SameHello(c, f) /\ f.state = c.state
        /\ f.rl.read = c.rl.read /\ f.alert = c.alert
        /\ f.verify = c.verify /\ f.out = e.out
    BY <1>5, <1>7 DEF C!tlsv1_record_change_write_cipher, SameKeys, SameHello
  <2>4. f.use_session_ticket = c.use_session_ticket
    BY <1>7, <1>9
  <2> HIDE DEF f, IsClient, IsConnection, SameClient
  <2> QED  BY <1>4, <2>1, <2>2, <2>3, <2>4 DEF ClientWritesOn, ClientWrites, SameKeys
<1> HIDE DEF f
<1>12. IsClient(f)
  BY <1>11 DEF ClientWritesOn, ClientWrites
<1>13. d \in {f, C!FailAlert(f, "INTERNAL_ERROR")}
  BY DEF C!tls_write_client_change_cipher_spec, e, f, m
<1>14. CASE d = f
  <2>1. \A i \in DOMAIN e.out : PlainToServer(e.out[i], c)
    BY <1>5, <1>6 DEF ClientPlain, PlainToServer, Innocent, HasCertificate, HasKey
  <2> HIDE DEF IsClient, IsConnection, SameClient
  <2> QED  BY <1>10, <1>11, <1>14, <2>1
<1>15. CASE d = C!FailAlert(f, "INTERNAL_ERROR")
  <2>1. d.verify = f.verify
    BY <1>12, <1>15 DEF C!FailAlert
  <2> HIDE DEF IsClient, IsConnection, SameClient
  <2>2. ClientWritesOn(f, d) /\ ~d.ok /\ d.alert # NULL
    BY <1>12, <1>15, ClientFailsPlainly, AlertIsSet DEF Alerts
  <2>3. ClientWritesOn(c, d)
    BY <1>11, <2>2, ClientWritesFurther DEF ClientWritesOn
  <2> QED  BY <1>11, <2>1, <2>2, <2>3
<1> QED  BY <1>13, <1>14, <1>15

\* tls_write_client_finished(): its contents are computed from the secret and
\* the hash as they are before it.
LEMMA ClientWriteFinished ==
  ASSUME NEW c, IsClient(c), c.ok, NEW d, d = C!tls_write_client_finished(c)
  PROVE  /\ ClientWritesOn(c, d) /\ d.rl.write.key = c.rl.write.key
         /\ ~d.ok => d.alert # NULL
         /\ d.ok => \E r : /\ d.out = Append(c.out, r)
                           /\ DOMAIN r = RecordFields /\ r.hdr = "ok" /\ "type" \in DOMAIN r.m
                           /\ r.key = c.rl.write.key /\ r.m.type = "finished"
                           /\ r.m.verify_data = tls_prf(c.master_secret, "client_finished", c.verify.log)
<1> DEFINE e == [c EXCEPT !.verify = C!HashFinish(@, "client")]
           m == [type |-> "finished", fmt |-> "ok",
                 verify_data |-> C!tls_prf(c.master_secret, "client_finished", c.verify.log)]
           r == C!Record(e.rl, "handshake", m)
<1>1. /\ IsClient(e) /\ e.rl = c.rl /\ e.out = c.out /\ SameClient(c, e) /\ SameHello(c, e) /\ SameKeys(c, e)
      /\ e.verify.log = c.verify.log /\ e.state = c.state /\ e.alert = c.alert
  BY DEF SameKeys, SameHello, C!HashFinish
<1>2. e.ok
  OBVIOUS
<1>3. e.use_session_ticket = c.use_session_ticket
  OBVIOUS
<1>4. Grown(c.verify.log, e.verify.log)
  BY <1>1, GrownFacts
<1>5. /\ DOMAIN r = RecordFields /\ r.hdr = "ok" /\ "type" \in DOMAIN r.m
      /\ r.key = c.rl.write.key /\ r.m.type = "finished"
      /\ r.m.verify_data = tls_prf(c.master_secret, "client_finished", c.verify.log)
  BY <1>1 DEF C!Record, RecordFields, tls_prf, C!tls_prf
<1>6. d \in {C!FailAlert(e, "INTERNAL_ERROR"), C!SendHandshake(e, m)}
  <2> HIDE DEF e, m
  <2> QED  BY DEF C!tls_write_client_finished, e, m
<1> HIDE DEF e, m, r
<1>7. ClientWritesOn(c, e)
  <2> HIDE DEF IsClient, IsConnection, SameClient
  <2> QED  BY <1>1, <1>3, <1>4 DEF ClientWritesOn, ClientWrites, SameKeys
<1> HIDE DEF IsClient, IsConnection, SameClient
<1>8. CASE d = C!SendHandshake(e, m)
  <2>1. /\ ClientWritesOn(e, d) /\ d.rl.write.key = e.rl.write.key
        /\ d.out = Append(e.out, r)
    BY <1>1, <1>8, ClientSendIs DEF r
  <2>2. d.ok = e.ok
    BY <1>1, <1>8, ClientSendOk
  <2>3. ClientWritesOn(c, d)
    BY <1>1, <1>7, <2>1, ClientWritesFurther DEF ClientWritesOn
  <2> QED  BY <1>1, <1>2, <1>5, <2>1, <2>2, <2>3
<1>9. CASE d = C!FailAlert(e, "INTERNAL_ERROR")
  <2>1. ClientWritesOn(e, d) /\ ~d.ok /\ d.alert # NULL
    BY <1>1, <1>9, ClientFailsPlainly, AlertIsSet DEF Alerts
  <2>2. d.rl.write.key = e.rl.write.key
    BY <1>1, <1>9 DEF C!FailAlert, IsClient, IsConnection
  <2>3. ClientWritesOn(c, d)
    BY <1>1, <1>7, <2>1, ClientWritesFurther DEF ClientWritesOn
  <2> QED  BY <1>1, <2>1, <2>2, <2>3
<1> QED  BY <1>6, <1>8, <1>9

\* A protected Finished of the client.
ClientFinishedRecord(r, d) ==
  /\ DOMAIN r = RecordFields /\ r.hdr = "ok" /\ "type" \in DOMAIN r.m
  /\ r.key = d.rl.write.key /\ r.m.type = "finished" /\ ClientFinishes(r.m, d)

\* ChangeCipherSpec and Finished.
LEMMA ClientWriteEnd ==
  ASSUME NEW c, IsClient(c), c.ok, c.rl.suite # NullSuite, ClientPlain(c), Len(c.verify.log) >= 2,
         NEW d, d = C!tls_write_client_finished(C!tls_write_client_change_cipher_spec(c))
  PROVE  /\ ClientWritesOn(c, d)
         /\ ~d.ok => d.alert # NULL
         /\ d.ok => /\ d.rl.write.key = d.rl.wkey
                    /\ \A i \in DOMAIN d.out : PlainToServer(d.out[i], d) \/ ClientFinishedRecord(d.out[i], d)
<1> DEFINE e == C!tls_write_client_change_cipher_spec(c)
<1>0. IsSeq(c.verify.log)
  OBVIOUS
<1> HIDE DEF IsClient, IsConnection, SameClient
<1>1. /\ ClientWritesOn(c, e) /\ e.verify = c.verify
      /\ ~e.ok => e.alert # NULL
      /\ e.ok => /\ e.rl.write.key = e.rl.wkey
                 /\ \A i \in DOMAIN e.out : PlainToServer(e.out[i], c)
  BY ClientWriteChange
<1> HIDE DEF e
<1>2. CASE ~e.ok
  <2>1. d = e
    BY <1>2 DEF C!tls_write_client_finished, e
  <2> QED  BY <1>1, <1>2, <2>1
<1>3. CASE e.ok
  <2>0. IsClient(e)
    BY <1>1 DEF ClientWritesOn, ClientWrites
  <2>1. /\ ClientWritesOn(e, d) /\ d.rl.write.key = e.rl.write.key
        /\ ~d.ok => d.alert # NULL
        /\ d.ok => \E r : /\ d.out = Append(e.out, r)
                           /\ DOMAIN r = RecordFields /\ r.hdr = "ok" /\ "type" \in DOMAIN r.m
                           /\ r.key = e.rl.write.key /\ r.m.type = "finished"
                           /\ r.m.verify_data = tls_prf(e.master_secret, "client_finished", e.verify.log)
    BY <1>3, <2>0, ClientWriteFinished DEF e
  <2>2. ClientWritesOn(c, d)
    BY <1>1, <2>1, ClientWritesFurther DEF ClientWritesOn
  <2>3. ASSUME d.ok
        PROVE /\ d.rl.write.key = d.rl.wkey
              /\ \A i \in DOMAIN d.out : PlainToServer(d.out[i], d) \/ ClientFinishedRecord(d.out[i], d)
    <3>1. PICK r : /\ d.out = Append(e.out, r)
                   /\ DOMAIN r = RecordFields /\ r.hdr = "ok" /\ "type" \in DOMAIN r.m
                   /\ r.key = e.rl.write.key /\ r.m.type = "finished"
                   /\ r.m.verify_data = tls_prf(e.master_secret, "client_finished", e.verify.log)
      BY <2>1, <2>3
    <3>2. d.rl.wkey = e.rl.wkey /\ d.master_secret = e.master_secret /\ d.cred = c.cred
          /\ Grown(c.verify.log, d.verify.log)
      BY <1>1, <2>1, <2>2 DEF ClientWritesOn, ClientWrites, SameKeys, SameClient
    <3>3. d.verify.log[1] = e.verify.log[1] /\ d.verify.log[2] = e.verify.log[2]
      <4>1. Len(c.verify.log) \in Nat
        BY <1>0, AppendFacts
      <4>2. 1 \in 1 .. Len(c.verify.log) /\ 2 \in 1 .. Len(c.verify.log)
        BY <4>1
      <4> QED  BY <1>1, <3>2, <4>2 DEF Grown
    <3>4. r.m.verify_data.secret = e.master_secret /\ r.m.verify_data.label = "client_finished"
          /\ r.m.verify_data.seed = e.verify.log
      BY <3>1 DEF tls_prf
    <3>5. ClientFinishes(r.m, d)
      BY <3>2, <3>3, <3>4 DEF ClientFinishes, SameHellos
    <3>6. ClientFinishedRecord(r, d)
      BY <2>1, <3>1, <3>5 DEF ClientFinishedRecord
    <3>7. ASSUME NEW i \in DOMAIN d.out PROVE PlainToServer(d.out[i], d) \/ ClientFinishedRecord(d.out[i], d)
      <4>1. IsSeq(e.out)
        BY <2>0 DEF IsClient, IsConnection
      <4>2. /\ Len(e.out) \in Nat /\ DOMAIN d.out = 1 .. Len(e.out) + 1
            /\ \A j \in 1 .. Len(e.out) : d.out[j] = e.out[j]
            /\ d.out[Len(e.out) + 1] = r
        BY <3>1, <4>1, AppendFacts
      <4>3. DOMAIN e.out = 1 .. Len(e.out)
        BY <4>1 DEF IsSeq
      <4>4. \A j \in DOMAIN e.out : PlainToServer(e.out[j], d)
        BY <1>1, <1>3, <3>2 DEF PlainToServer, Innocent, HasCertificate, HasKey
      <4>5. CASE i = Len(e.out) + 1
        BY <3>6, <4>2, <4>5
      <4>6. CASE i # Len(e.out) + 1
        <5>1. i \in DOMAIN e.out /\ d.out[i] = e.out[i]
          BY <4>2, <4>3, <4>6
        <5> QED  BY <4>4, <5>1
      <4> QED  BY <4>5, <4>6
    <3>8. d.rl.write.key = d.rl.wkey
      BY <1>1, <1>3, <2>1, <3>2
    <3> QED  BY <3>7, <3>8
  <2> QED  BY <2>1, <2>2, <2>3
<1> QED  BY <1>2, <1>3

(***************************************************************************)
(* The flights of the client                                               *)
(***************************************************************************)

\* What a call that writes leaves, before its end.
ClientFlies(c, s, d) ==
  /\ ClientIs(d) /\ SameClient(c, d)
  /\ d.alert = NULL =>
       /\ ClientStates(d) /\ ClientAccepts(d, s)
       /\ \A i \in DOMAIN d.out : ToServerOk(d.out[i], d)

\* A record in the clear promises nothing but what certificates say.
LEMMA PlainToServerIsOk ==
  ASSUME NEW r, NEW d, PlainToServer(r, d)
  PROVE  ToServerOk(r, d)
  BY DEF PlainToServer, Innocent, ToServerOk, Headers

\* A Finished of a client that has sent it.
LEMMA ClientFinishedIsOk ==
  ASSUME NEW r, NEW d, ClientFinishedRecord(r, d), ClientSent(d)
  PROVE  ToServerOk(r, d)
  BY DEF ClientFinishedRecord, ToServerOk, Headers

\* What is known of a client without its state stays true when it writes.
LEMMA WritesKeepIs ==
  ASSUME NEW c, ClientIs(c), NEW d, ClientWrites(c, d)
  PROVE  ClientIs(d) /\ SameClient(c, d)
<1>1. d.round = c.round /\ d.cipher_suites = c.cipher_suites /\ SameClient(c, d) /\ IsClient(d)
      /\ d.session_id = c.session_id
  BY DEF ClientWrites, SameHello
<1> HIDE DEF IsClient, SameClient
<1> QED  BY <1>1 DEF ClientIs

\* And when it does anything else but take a session.
LEMMA IsClientWith ==
  ASSUME NEW c, ClientIs(c), NEW d, IsClient(d), SameClient(c, d), d.session_id = c.session_id
  PROVE  ClientIs(d)
<1>1. d.round = c.round /\ d.cipher_suites = c.cipher_suites
  OBVIOUS
<1> HIDE DEF IsClient, SameClient
<1> QED  BY <1>1 DEF ClientIs

\* An error that tells the peer nothing.
LEMMA ClientFliesWithError ==
  ASSUME NEW c, ClientIs(c), ClientStates(c), NEW s, ClientAccepts(c, s), c.out = <<>>
  PROVE  ClientFlies(c, s, C!Fail(c))
<1> DEFINE d == C!Fail(c)
<1>0. IsClient(c)
  BY DEF ClientIs
<1>1. /\ ClientReads(c, d) /\ d.verify.log = c.verify.log /\ SameKeys(c, d) /\ SameHello(c, d)
      /\ d.state = c.state /\ d.rl.read = c.rl.read /\ d.alert = c.alert /\ d.out = <<>>
  BY <1>0 DEF C!Fail, SameKeys, SameHello, ClientReads
<1>2. d.use_session_ticket = c.use_session_ticket
  BY <1>0 DEF C!Fail
<1> HIDE DEF d, IsClient, IsConnection, SameClient
<1>3. ClientMoves(c, s, d)
  BY <1>1, <1>2, ClientStaysOrEnds
<1>4. ClientIs(d)
  BY <1>3, MovesKeepIs
<1>5. SameClient(c, d)
  BY <1>1 DEF ClientReads
<1>6. d.alert = NULL => ClientStates(d) /\ ClientAccepts(d, s)
  BY <1>3 DEF ClientMoves
<1>7. \A i \in DOMAIN d.out : ToServerOk(d.out[i], d)
  BY <1>1
<1> QED  BY <1>4, <1>5, <1>6, <1>7 DEF ClientFlies, d

\* After an error that set an alert the call sends nothing else.
LEMMA ClientFliesAlerted ==
  ASSUME NEW c, ClientIs(c), NEW s, NEW e, ClientWrites(c, e), e.alert # NULL,
         NEW d, d = [e EXCEPT !.out = <<>>]
  PROVE  ClientFlies(c, s, d)
<1>1. IsSeq(<<>>)
  <2>1. <<>> \in Seq({})
    OBVIOUS
  <2> QED  BY <2>1 DEF IsSeq
<1>2. ClientIs(e) /\ SameClient(c, e)
  <2> HIDE DEF IsClient, SameClient
  <2> QED  BY WritesKeepIs
<1>3. IsClient(d) /\ SameClient(e, d) /\ d.session_id = e.session_id /\ d.alert = e.alert
  BY <1>1, <1>2 DEF ClientIs
<1>4. SameClient(c, d)
  BY <1>2, <1>3
<1> HIDE DEF IsClient, SameClient
<1>5. ClientIs(d)
  BY <1>2, <1>3, IsClientWith
<1> QED  BY <1>3, <1>4, <1>5 DEF ClientFlies

\* A client that has sent its Finished and waits for the server's.
LEMMA ClientWaits ==
  ASSUME NEW d, d.state = "SERVER_CHANGE_CIPHER_SPEC",
         d.use_session_ticket = FALSE, d.session_resumed = FALSE,
         d.session_id \in Nat, d.session_id <= d.round,
         ClientSaid(d), ClientHeard(d), ClientKeyed(d),
         Len(d.verify.log) >= 2, Len(d.verify.log) >= 3, d.rl.write.key = d.rl.wkey
  PROVE  ClientStates(d)
<1>1. d.state \in ClientKnows /\ d.state \notin ClientAsks
  BY DEF ClientAsks, ClientKnows
<1> QED  BY ONLY <1>1, d.state = "SERVER_CHANGE_CIPHER_SPEC",
         d.use_session_ticket = FALSE, d.session_resumed = FALSE,
         d.session_id \in Nat, d.session_id <= d.round,
         ClientSaid(d), ClientHeard(d), ClientKeyed(d),
         Len(d.verify.log) >= 2, Len(d.verify.log) >= 3, d.rl.write.key = d.rl.wkey
         DEF ClientStates

\* With the two hellos and one message more the hash is of three.
LEMMA LengthsAddUp ==
  ASSUME NEW a, NEW b, NEW c, NEW d, a \in Nat, b \in Nat, c \in Nat, d \in Nat,
         a >= 2, b >= a, c = b + 1, d >= c
  PROVE  d >= 3 /\ d >= 2
  OBVIOUS

\* tls_send_client_key_exchange(): certificate, keys, proof and Finished; or
\* an alert and nothing of it.
LEMMA SendExchange ==
  ASSUME NEW c, ClientIs(c), NEW s, c.ok, ClientStates(c), ClientAccepts(c, s),
         c.state = "CLIENT_KEY_EXCHANGE", c.out = <<>>
  PROVE  ClientFlies(c, s, C!tls_send_client_key_exchange(c))
<1> DEFINE certificate == IF c.certificate_requested THEN C!tls_write_client_certificate(c) ELSE c
           exchange == C!tls_write_client_key_exchange(certificate)
           verify == IF c.certificate_requested /\ c.cred # NULL /\ c.cred.key
                     THEN C!tls_write_client_certificate_verify(exchange) ELSE exchange
           done == C!tls_write_client_finished(C!tls_write_client_change_cipher_spec(verify))
           d == C!tls_send_client_key_exchange(c)
<1>1. d = IF c.fault = "output" THEN C!Fail(c)
          ELSE IF done.ok THEN [done EXCEPT !.state = "SERVER_CHANGE_CIPHER_SPEC"]
          ELSE [done EXCEPT !.out = <<>>]
  BY DEF C!tls_send_client_key_exchange
<1> HIDE DEF IsClient, IsConnection, SameClient
<1>2. IsClient(c) /\ ClientPlain(c) /\ Len(c.verify.log) >= 2 /\ ClientSaid(c) /\ ClientHeard(c)
      /\ c.rl.suite # NullSuite
  BY DEF ClientIs, ClientStates, ClientAsks, ClientPlain, ClientHeard
<1>3. ~c.session_resumed
  BY DEF ClientStates
<1>4. ~c.use_session_ticket
  BY DEF ClientStates, ClientAsks
<1>5. ClientWritesPlainly(c, certificate)
  BY <1>2, ClientWriteCertificate, ClientPlainlyNothing
<1>6. certificate.ok
  <2>1. CASE c.certificate_requested
    BY <1>2, <2>1, ClientSendOk DEF C!tls_write_client_certificate
  <2>2. CASE ~c.certificate_requested
    BY <2>2
  <2> QED  BY <2>1, <2>2
<1>7. IsClient(certificate)
  BY <1>5 DEF ClientWritesPlainly, ClientWrites
<1> HIDE DEF certificate
<1>8. /\ ClientWritesPlainly(certificate, exchange)
      /\ exchange.ok => ClientKeyed(exchange) /\ Len(exchange.verify.log) = Len(certificate.verify.log) + 1
  BY <1>6, <1>7, ClientWriteExchange
<1> HIDE DEF exchange
<1>9. ClientWritesPlainly(c, exchange) /\ IsClient(exchange)
  <2>1. ClientWritesPlainly(c, exchange)
    BY <1>2, <1>5, <1>8, ClientPlainlyFurther
  <2> QED  BY <2>1 DEF ClientWritesPlainly, ClientWrites
<1>10. CASE c.fault = "output"
  BY <1>1, <1>10, ClientFliesWithError
<1>11. CASE c.fault # "output" /\ ~exchange.ok
  <2>1. verify = exchange
    BY <1>11 DEF C!tls_write_client_certificate_verify
  <2> HIDE DEF verify
  <2>2. C!tls_write_client_change_cipher_spec(exchange) = exchange
    BY <1>11 DEF C!tls_write_client_change_cipher_spec
  <2>3. C!tls_write_client_finished(exchange) = exchange
    BY <1>11 DEF C!tls_write_client_finished
  <2>4. done = exchange
    BY <2>1, <2>2, <2>3
  <2> HIDE DEF done, d
  <2>5. d = [exchange EXCEPT !.out = <<>>]
    BY <1>1, <1>11, <2>4
  <2>6. ClientWrites(c, exchange) /\ exchange.alert # NULL
    BY <1>9, <1>11 DEF ClientWritesPlainly
  <2>7. ClientFlies(c, s, d)
    BY <2>5, <2>6, ClientFliesAlerted
  <2> QED  BY <2>7 DEF d
<1>12. CASE c.fault # "output" /\ exchange.ok
  <2>1. HasKey(c) => HasKey(exchange)
    BY <1>9 DEF HasKey, ClientWritesPlainly, ClientWrites, SameClient
  <2>2. ClientWritesPlainly(exchange, verify) /\ ClientWritesOn(exchange, verify)
    <3>1. CASE c.certificate_requested /\ c.cred # NULL /\ c.cred.key
      <4>1. HasKey(exchange)
        BY <2>1, <3>1 DEF HasKey
      <4>2. verify = C!tls_write_client_certificate_verify(exchange)
        BY <3>1
      <4> HIDE DEF verify
      <4> QED  BY <1>9, <1>12, <4>1, <4>2, ClientWriteVerify
    <3>2. CASE ~(c.certificate_requested /\ c.cred # NULL /\ c.cred.key)
      <4>1. verify = exchange
        BY <3>2
      <4> HIDE DEF verify
      <4> QED  BY <1>9, <4>1, ClientPlainlyNothing, ClientWritesNothing
    <3> QED  BY <3>1, <3>2
  <2> HIDE DEF verify
  <2>3. IsClient(verify) /\ ClientWritesPlainly(c, verify)
    BY <1>2, <1>9, <2>2, ClientPlainlyFurther DEF ClientWritesPlainly, ClientWrites
  <2>4. CASE ~verify.ok
    <3>1. C!tls_write_client_change_cipher_spec(verify) = verify
      BY <2>4 DEF C!tls_write_client_change_cipher_spec
    <3>2. C!tls_write_client_finished(verify) = verify
      BY <2>4 DEF C!tls_write_client_finished
    <3>3. done = verify
      BY <3>1, <3>2
    <3> HIDE DEF done, d
    <3>4. d = [verify EXCEPT !.out = <<>>]
      BY <1>1, <1>12, <2>4, <3>3
    <3>5. ClientWrites(c, verify) /\ verify.alert # NULL
      BY <2>3, <2>4 DEF ClientWritesPlainly
    <3>6. ClientFlies(c, s, d)
      BY <3>4, <3>5, ClientFliesAlerted
    <3> QED  BY <3>6 DEF d
  <2>5. CASE verify.ok
    <3>1. ClientWrites(c, verify) /\ ClientPlain(verify)
      BY <1>2, <2>3, <2>5 DEF ClientWritesPlainly
    <3>2. verify.rl.suite = c.rl.suite /\ Grown(c.verify.log, verify.verify.log)
      BY <3>1 DEF ClientWrites
    <3>3. /\ Len(c.verify.log) \in Nat /\ Len(certificate.verify.log) \in Nat
          /\ Len(exchange.verify.log) \in Nat /\ Len(verify.verify.log) \in Nat
      BY <1>2, <1>7, <1>9, <2>3, AppendFacts DEF IsClient, IsConnection
    <3>4. Len(verify.verify.log) >= 2
      BY <1>2, <3>2, <3>3 DEF Grown
    <3>5. /\ ClientWritesOn(verify, done)
          /\ ~done.ok => done.alert # NULL
          /\ done.ok => /\ done.rl.write.key = done.rl.wkey
                        /\ \A i \in DOMAIN done.out :
                             PlainToServer(done.out[i], done) \/ ClientFinishedRecord(done.out[i], done)
      BY <1>2, <2>3, <2>5, <3>1, <3>2, <3>4, ClientWriteEnd
    <3> HIDE DEF done, d
    <3>6. ClientWrites(c, done) /\ IsClient(done) /\ ClientWritesOn(exchange, done)
      BY <1>2, <1>9, <2>2, <3>1, <3>5, ClientWritesFurther DEF ClientWritesOn, ClientWrites
    <3>7. CASE ~done.ok
      <4>1. d = [done EXCEPT !.out = <<>>]
        BY <1>1, <1>12, <3>7
      <4>2. ClientFlies(c, s, d)
        BY <3>5, <3>6, <3>7, <4>1, ClientFliesAlerted
      <4> QED  BY <4>2 DEF d
    <3>8. CASE done.ok
      <4>1. d = [done EXCEPT !.state = "SERVER_CHANGE_CIPHER_SPEC"]
        BY <1>1, <1>12, <3>8
      <4>2. ClientIs(done) /\ SameClient(c, done)
        BY <3>6, WritesKeepIs
      <4>3. /\ IsClient(d) /\ SameClient(done, d) /\ SameKeys(done, d) /\ SameHello(done, d)
            /\ d.verify = done.verify /\ d.rl = done.rl /\ d.out = done.out
            /\ d.state = "SERVER_CHANGE_CIPHER_SPEC"
        BY <3>6, <4>1 DEF IsClient, IsConnection, SameClient, SameKeys, SameHello
      <4>4. d.use_session_ticket = done.use_session_ticket
        BY <3>6, <4>1 DEF IsClient, IsConnection
      <4>5. ~d.use_session_ticket
        BY <1>4, <3>6, <4>4 DEF ClientWrites
      <4>6. ~d.session_resumed
        BY <1>3, <3>6, <4>3 DEF ClientWrites, SameHello
      <4>7. ClientIs(d)
        BY <4>2, <4>3, IsClientWith DEF SameHello
      <4>8. SameClient(c, d)
        BY <4>2, <4>3 DEF SameClient
      <4>9. Grown(c.verify.log, d.verify.log) /\ Len(d.verify.log) \in Nat
        BY <3>6, <4>3, AppendFacts DEF ClientWrites, IsClient, IsConnection
      <4>10. /\ d.client_random = c.client_random /\ d.flags = c.flags
             /\ d.cipher_suites = c.cipher_suites /\ d.rl.version = c.rl.version
             /\ d.rl.suite = c.rl.suite /\ d.server_random = c.server_random
        BY <3>6, <4>3, <4>8 DEF ClientWrites, SameClient, SameKeys, SameHello
      <4>11. Len(c.verify.log) >= 1
        BY <1>2, <3>3
      <4>12. ClientSaid(d) /\ ClientHeard(d)
        BY <1>2, <3>3, <4>9, <4>10, <4>11, ClientHellosMove
      <4>13. ClientKeyed(d)
        <5>1. ClientKeyed(exchange)
          BY <1>8, <1>12
        <5>2. SameKeys(exchange, done) /\ done.server_random = exchange.server_random
          BY <3>6 DEF ClientWritesOn, ClientWrites, SameHello
        <5>3. ClientKeyed(done)
          BY <5>1, <5>2, ClientKeysMove
        <5> QED  BY <4>3, <5>3, ClientKeysMove DEF SameHello
      <4>14. Len(d.verify.log) >= 3 /\ Len(d.verify.log) >= 2
        <5>1. Len(exchange.verify.log) = Len(certificate.verify.log) + 1
          BY <1>8, <1>12
        <5>2. Len(certificate.verify.log) >= Len(c.verify.log)
          BY <1>5, <3>3 DEF ClientWritesPlainly, ClientWrites, Grown
        <5>3. Len(d.verify.log) >= Len(exchange.verify.log)
          BY <3>6, <3>3, <4>3, <4>9 DEF ClientWritesOn, ClientWrites, Grown
        <5>4. Len(c.verify.log) >= 2
          BY <1>2
        <5> HIDE DEF IsClient
        <5> QED  BY ONLY <3>3, <4>9, <5>1, <5>2, <5>3, <5>4, LengthsAddUp, Zenon
      <4>15. d.rl.write.key = d.rl.wkey
        BY <3>5, <3>8, <4>3
      <4>16. ClientSent(d)
        BY <4>3, <4>5, <4>12, <4>13, <4>14, <4>15 DEF ClientSent
      <4>17. ClientStates(d)
        <5>1. d.session_id \in Nat /\ d.session_id <= d.round
          BY <4>7 DEF ClientIs
        <5>2. d.use_session_ticket = FALSE /\ d.session_resumed = FALSE
          BY <4>5, <4>6
        <5> HIDE DEF IsClient
        <5> QED  BY <4>3, <4>12, <4>13, <4>14, <4>15, <5>1, <5>2, ClientWaits
      <4>18. ClientAccepts(d, s)
        BY <4>3 DEF ClientAccepts
      <4>19. ASSUME NEW i \in DOMAIN d.out PROVE ToServerOk(d.out[i], d)
        <5>1. PlainToServer(d.out[i], done) \/ ClientFinishedRecord(d.out[i], done)
          BY <3>5, <3>8, <4>3
        <5>2. CASE PlainToServer(d.out[i], done)
          <6>1. PlainToServer(d.out[i], d)
            BY <5>2, <4>3 DEF PlainToServer, Innocent, HasCertificate, HasKey, SameClient
          <6> QED  BY <6>1, PlainToServerIsOk
        <5>3. CASE ClientFinishedRecord(d.out[i], done)
          <6>1. ClientFinishedRecord(d.out[i], d)
            BY <5>3, <4>3 DEF ClientFinishedRecord, ClientFinishes, SameHellos, SameKeys
          <6> QED  BY <4>16, <6>1, ClientFinishedIsOk
        <5> QED  BY <5>1, <5>2, <5>3
      <4>20. ClientFlies(c, s, d)
        BY <4>7, <4>8, <4>17, <4>18, <4>19 DEF ClientFlies
      <4> QED  BY <4>20 DEF d
    <3> QED  BY <3>7, <3>8
  <2> QED  BY <2>4, <2>5
<1> QED  BY <1>10, <1>11, <1>12

HIDE DEF IsClient, IsConnection, ClientFields, LayerFields, DirectionFields, SameClient

\* A client with a ticket has sent its Finished as the last of all.
LEMMA ClientIsEstablished ==
  ASSUME NEW d, d.state = "ESTABLISHED",
         d.use_session_ticket = TRUE,
         d.session_id \in Nat, d.session_id <= d.round,
         ClientSaid(d), ClientHeard(d), ClientKeyed(d),
         Len(d.verify.log) >= 2, d.rl.write.key = d.rl.wkey,
         d.rl.read.suite = d.rl.suite, d.rl.read.key = d.rl.rkey
  PROVE  ClientStates(d)
<1>1. d.state \in ClientKnows /\ d.state \notin ClientAsks
  BY DEF ClientAsks, ClientKnows
<1> QED  BY ONLY <1>1, d.state = "ESTABLISHED", d.use_session_ticket = TRUE,
         d.session_id \in Nat, d.session_id <= d.round,
         ClientSaid(d), ClientHeard(d), ClientKeyed(d),
         Len(d.verify.log) >= 2, d.rl.write.key = d.rl.wkey,
         d.rl.read.suite = d.rl.suite, d.rl.read.key = d.rl.rkey
         DEF ClientStates

\* tls_send_change_cipher_spec(): the client's Finished after the server's.
LEMMA ClientSendEnd ==
  ASSUME NEW c, ClientIs(c), NEW s, c.ok, ClientStates(c), ClientAccepts(c, s),
         c.state = "CHANGE_CIPHER_SPEC", c.out = <<>>
  PROVE  ClientFlies(c, s, C!tls_send_change_cipher_spec(c))
<1> DEFINE done == C!tls_write_client_finished(C!tls_write_client_change_cipher_spec(c))
           resumed == done.session_resumed \/ c.use_session_ticket
           d == C!tls_send_change_cipher_spec(c)
<1>1. \/ c.fault = "output" /\ d = C!Fail(c)
      \/ done.ok /\ d = [done EXCEPT !.state = "ESTABLISHED", !.session_resumed = resumed]
      \/ ~done.ok /\ d = [done EXCEPT !.out = <<>>]
  BY DEF C!tls_send_change_cipher_spec
<1> HIDE DEF resumed
<1>2. IsClient(c) /\ ClientPlain(c) /\ Len(c.verify.log) >= 2 /\ ClientSaid(c) /\ ClientHeard(c)
      /\ ClientKeyed(c) /\ c.rl.suite # NullSuite
  BY DEF ClientIs, ClientStates, ClientKnows, ClientPlain, ClientHeard
<1>3. c.use_session_ticket
  BY DEF ClientStates
<1>4. c.rl.read.suite = c.rl.suite /\ c.rl.read.key = c.rl.rkey
  BY DEF ClientStates
<1>5. ServerSent(s) /\ Agree(c, s)
  BY DEF ClientAccepts
<1>6. /\ ClientWritesOn(c, done)
      /\ ~done.ok => done.alert # NULL
      /\ done.ok => /\ done.rl.write.key = done.rl.wkey
                    /\ \A i \in DOMAIN done.out :
                         PlainToServer(done.out[i], done) \/ ClientFinishedRecord(done.out[i], done)
  BY <1>2, ClientWriteEnd
<1> HIDE DEF done, d
<1>7. CASE c.fault = "output" /\ d = C!Fail(c)
  <2>1. ClientFlies(c, s, d)
    BY <1>7, ClientFliesWithError
  <2> QED  BY <2>1 DEF d
<1>8. CASE ~done.ok /\ d = [done EXCEPT !.out = <<>>]
  <2>1. ClientFlies(c, s, d)
    BY <1>6, <1>8, ClientFliesAlerted DEF ClientWritesOn
  <2> QED  BY <2>1 DEF d
<1>9. CASE done.ok /\ d = [done EXCEPT !.state = "ESTABLISHED", !.session_resumed = resumed]
  <2>1. ClientWrites(c, done) /\ SameKeys(c, done)
    BY <1>6 DEF ClientWritesOn
  <2>2. ClientIs(done) /\ SameClient(c, done)
    BY <2>1, WritesKeepIs
  <2>3. IsClient(done) /\ done.use_session_ticket = c.use_session_ticket
    BY <2>1 DEF ClientWrites
  <2>4. /\ IsClient(d) /\ SameClient(done, d) /\ SameKeys(done, d)
        /\ d.verify = done.verify /\ d.rl = done.rl /\ d.out = done.out
        /\ d.session_id = done.session_id /\ d.server_random = done.server_random
        /\ d.state = "ESTABLISHED"
    BY <1>9, <2>3 DEF IsClient, IsConnection, SameClient, SameKeys
  <2>5. d.use_session_ticket = done.use_session_ticket
    BY <1>9, <2>3 DEF IsClient, IsConnection
  <2>6. d.use_session_ticket = c.use_session_ticket
    BY <2>3, <2>5, Zenon
  <2>7. ClientIs(d)
    BY <2>2, <2>4, IsClientWith
  <2>8. SameClient(c, d)
    BY <2>2, <2>4 DEF SameClient
  <2> HIDE DEF IsClient, IsConnection, SameClient
  <2>9. Grown(c.verify.log, d.verify.log)
    BY <2>1, <2>4 DEF ClientWrites
  <2>10. Len(c.verify.log) \in Nat /\ Len(d.verify.log) \in Nat
    BY <1>2, <2>4, AppendFacts DEF IsClient, IsConnection
  <2>11. /\ SameKeys(c, d) /\ d.server_random = c.server_random
         /\ d.flags = c.flags /\ d.cipher_suites = c.cipher_suites
    BY <2>1, <2>4, <2>8 DEF ClientWrites, SameKeys, SameHello, SameClient
  <2>12. ClientKeeps(c, d)
    BY <2>6, <2>11 DEF ClientKeeps
  <2>13. Len(c.verify.log) >= 1 /\ Len(d.verify.log) >= 2
    BY <1>2, <2>9, <2>10 DEF Grown
  <2>14. ClientSaid(d) /\ ClientHeard(d)
    BY <1>2, <2>9, <2>10, <2>11, <2>13, ClientHellosMove DEF SameKeys
  <2>15. ClientKeyed(d)
    BY <1>2, <2>11, ClientKeysMove
  <2>16. d.rl.write.key = d.rl.wkey /\ d.rl.read.suite = d.rl.suite /\ d.rl.read.key = d.rl.rkey
    BY <1>4, <1>6, <1>9, <2>1, <2>4 DEF ClientWrites, SameKeys
  <2>17. ClientStates(d)
    <3>1. d.session_id \in Nat /\ d.session_id <= d.round
      BY <2>7 DEF ClientIs
    <3>2. d.use_session_ticket = TRUE
      <4>1. c.use_session_ticket = TRUE
        BY <1>3
      <4> QED  BY <2>6, <4>1, Zenon
    <3> QED  BY <2>4, <2>13, <2>14, <2>15, <2>16, <3>1, <3>2, ClientIsEstablished
  <2>18. ClientSent(d)
    BY <2>4, <2>13, <2>14, <2>15, <2>16 DEF ClientSent
  <2>19. ClientAccepts(d, s)
    <3>1. Agree(d, s)
      BY <1>2, <1>5, <2>9, <2>10, <2>12, ClientAgreeMoves
    <3>2. d.use_session_ticket
      BY <1>3, <2>6
    <3> QED  BY <1>5, <3>1, <3>2 DEF ClientAccepts
  <2>20. ASSUME NEW i \in DOMAIN d.out PROVE ToServerOk(d.out[i], d)
    <3>1. PlainToServer(d.out[i], done) \/ ClientFinishedRecord(d.out[i], done)
      BY <1>6, <1>9, <2>4
    <3>2. CASE PlainToServer(d.out[i], done)
      <4>1. PlainToServer(d.out[i], d)
        BY <3>2, <2>4 DEF PlainToServer, Innocent, HasCertificate, HasKey, SameClient
      <4> QED  BY <4>1, PlainToServerIsOk
    <3>3. CASE ClientFinishedRecord(d.out[i], done)
      <4>1. ClientFinishedRecord(d.out[i], d)
        BY <3>3, <2>4 DEF ClientFinishedRecord, ClientFinishes, SameHellos, SameKeys
      <4> QED  BY <2>18, <4>1, ClientFinishedIsOk
    <3> QED  BY <3>1, <3>2, <3>3
  <2>21. ClientFlies(c, s, d)
    BY <2>7, <2>8, <2>17, <2>19, <2>20 DEF ClientFlies
  <2> QED  BY <2>21 DEF d
<1> QED  BY <1>1, <1>7, <1>8, <1>9

USE DEF IsClient, IsConnection, ClientFields, LayerFields, DirectionFields, SameClient

(***************************************************************************)
(* A call of tlsv1_client_handshake() as a whole                           *)
(***************************************************************************)

\* What nobody changes once the client has sent its Finished.
ClientFrozen(c, d) ==
  ClientSent(c) =>
    /\ ClientSent(d) /\ ClientKeeps(c, d) /\ Grown(c.verify.log, d.verify.log)
    /\ d.rl.write.key = c.rl.write.key

\* A call, before its end.
ClientCalled(c, s, d) == ClientFlies(c, s, d) /\ ClientFrozen(c, d)

\* A call as a whole.
ClientLeaves(c, s, d) ==
  /\ ClientIs(d) /\ SameClient(c, d) /\ ClientFrozen(c, d)
  /\ ClientStates(d) /\ ClientAccepts(d, s)
  /\ \A i \in DOMAIN d.out : ToServerOk(d.out[i], d)

\* What the end of a call and the preparation of one leave.
ClientSame(c, d) ==
  /\ IsClient(d) /\ SameClient(c, d) /\ SameKeys(c, d) /\ SameHello(c, d) /\ d.verify = c.verify
  /\ d.rl = c.rl /\ d.use_session_ticket = c.use_session_ticket

\* An error changes nothing of this.
LEMMA ClientSameFrozen ==
  ASSUME NEW c, ClientIs(c), NEW d, ClientSame(c, d), d.state \in {c.state, "FAILED"}
  PROVE  ClientFrozen(c, d) /\ ClientIs(d)
<1>1. /\ Grown(c.verify.log, d.verify.log) /\ Len(c.verify.log) \in Nat /\ Len(d.verify.log) \in Nat
  BY GrownFacts, AppendFacts DEF ClientIs, ClientSame
<1>2. d.flags = c.flags /\ d.cipher_suites = c.cipher_suites
  BY DEF ClientSame
<1>3. ClientIs(d)
  BY IsClientWith DEF ClientSame, SameHello
<1> HIDE DEF IsClient, IsConnection, SameClient
<1>4. ClientKeeps(c, d) /\ d.rl.write.key = c.rl.write.key
  BY DEF ClientSame, ClientKeeps, SameHello
<1>5. ASSUME ClientSent(c) PROVE ClientSent(d)
  <2>1. /\ d.state \in {"SERVER_CHANGE_CIPHER_SPEC", "SERVER_FINISHED", "ACK_FINISHED",
                  "ESTABLISHED", "FAILED"}
        /\ d.state \in {"SERVER_CHANGE_CIPHER_SPEC", "SERVER_FINISHED"} =>
           c.state \in {"SERVER_CHANGE_CIPHER_SPEC", "SERVER_FINISHED"}
    BY <1>5 DEF ClientSent
  <2> QED  BY <1>1, <1>2, <1>4, <1>5, <2>1, ClientSentMoves
<1> QED  BY <1>1, <1>3, <1>4, <1>5 DEF ClientFrozen

\* Nor do two steps that change nothing of it.
LEMMA ClientFrozenFurther ==
  ASSUME NEW c, NEW d, NEW e, IsClient(c), IsClient(d), IsClient(e),
         ClientFrozen(c, d), ClientFrozen(d, e)
  PROVE  ClientFrozen(c, e)
<1>1. Len(c.verify.log) \in Nat /\ Len(d.verify.log) \in Nat /\ Len(e.verify.log) \in Nat
  BY AppendFacts
<1>2. Grown(c.verify.log, d.verify.log) /\ Grown(d.verify.log, e.verify.log) =>
        Grown(c.verify.log, e.verify.log)
  BY <1>1, GrownFurther
<1> HIDE DEF IsClient, IsConnection
<1>3. ClientKeeps(c, d) /\ ClientKeeps(d, e) => ClientKeeps(c, e)
  <2> SUFFICES ASSUME ClientKeeps(c, d), ClientKeeps(d, e) PROVE ClientKeeps(c, e)
    OBVIOUS
  <2>1. SameKeys(c, e) /\ e.server_random = c.server_random
    BY DEF ClientKeeps, SameKeys
  <2>2. e.use_session_ticket = c.use_session_ticket
    BY Zenon DEF ClientKeeps
  <2> QED  BY <2>1, <2>2, Zenon DEF ClientKeeps
<1> QED  BY <1>2, <1>3 DEF ClientFrozen

\* Nor does reading any number of records.
LEMMA ClientMovesFrozen ==
  ASSUME NEW c, NEW s, NEW d, ClientMoves(c, s, d)
  PROVE  ClientFrozen(c, d)
<1> HIDE DEF IsClient, IsConnection, SameClient
<1> QED  BY DEF ClientMoves, ClientFrozen, ClientReads

\* A client that is the same knows the same.
LEMMA ClientSameStates ==
  ASSUME NEW c, ClientIs(c), NEW d, ClientSame(c, d), d.state = c.state, NEW s
  PROVE  /\ ClientStates(c) => ClientStates(d)
         /\ ClientAccepts(c, s) => ClientAccepts(d, s)
<1>1. /\ SameKeys(c, d) /\ SameHello(c, d) /\ SameClient(c, d) /\ d.verify = c.verify /\ d.rl = c.rl
  BY DEF ClientSame
<1>2. d.use_session_ticket <=> c.use_session_ticket
  <2> HIDE DEF IsClient, SameClient
  <2>1. d.use_session_ticket = c.use_session_ticket
    BY Zenon DEF ClientSame
  <2> QED  BY <2>1
<1>3. d.session_resumed <=> c.session_resumed
  BY <1>1 DEF SameHello
<1>4. /\ d.flags = c.flags /\ d.cipher_suites = c.cipher_suites /\ d.round = c.round
      /\ d.client_random = c.client_random /\ d.server_random = c.server_random
      /\ d.master_secret = c.master_secret /\ d.session_id = c.session_id
  BY <1>1 DEF SameKeys, SameHello
<1> HIDE DEF IsClient, SameClient
<1>5. /\ ClientSaid(c) => ClientSaid(d)
      /\ ClientHeard(c) => ClientHeard(d)
      /\ ClientKeyed(c) => ClientKeyed(d)
  BY <1>1, <1>4 DEF ClientSaid, ClientHeard, ClientKeyed, Block
<1>6. ASSUME ClientStates(c) PROVE ClientStates(d)
  BY <1>1, <1>2, <1>3, <1>4, <1>5, <1>6 DEF ClientStates
<1>7. Agree(c, s) => Agree(d, s)
  BY <1>1, <1>4 DEF Agree
<1> QED  BY <1>2, <1>6, <1>7 DEF ClientAccepts

\* The end of a call: an alert that is set replaces what would have been
\* sent, and ends the connection.
LEMMA ClientEnds ==
  ASSUME NEW c, IsClient(c), NEW s, NEW d, ClientCalled(c, s, d)
  PROVE  ClientLeaves(c, s, C!FinishCall(d)) /\ C!FinishCall(d).partial_input = 0
<1> DEFINE failed == [d EXCEPT !.state = "FAILED", !.partial_input = 0]
           r == [hdr |-> "ok", ct |-> "alert", key |-> C!NoKey, seq |-> 0,
                 m |-> [type |-> "fatal", fmt |-> "ok", alert |-> d.alert]]
           e == C!FinishCall(d)
<1>0. ClientIs(d) /\ IsClient(d) /\ SameClient(c, d) /\ ClientFrozen(c, d)
  <2> HIDE DEF IsClient, SameClient
  <2> QED  BY DEF ClientCalled, ClientFlies, ClientIs
<1>1. /\ IsSeq(<<r>>)
      /\ ToServerOk(r, e)
  <2>1. <<r>> \in Seq({r})
    OBVIOUS
  <2>2. DOMAIN r = RecordFields /\ r.hdr \in Headers /\ r.key = NoKey
        /\ "type" \in DOMAIN r.m /\ r.m.type = "fatal"
    BY SameNames DEF RecordFields, Headers
  <2> HIDE DEF r, e
  <2> QED  BY <2>1, <2>2 DEF IsSeq, ToServerOk
<1> HIDE DEF r
<1>2. \/ d.alert = NULL /\ e = [d EXCEPT !.partial_input = 0]
      \/ d.alert # NULL /\ e = [failed EXCEPT !.out = <<r>>]
  <2>1. failed.alert = d.alert
    BY <1>0
  <2> HIDE DEF failed
  <2> QED  BY <2>1 DEF C!FinishCall, C!tlsv1_client_send_alert, failed, r
<1> HIDE DEF e
<1>3. /\ IsClient(e) /\ SameClient(d, e) /\ SameKeys(d, e) /\ SameHello(d, e) /\ e.verify = d.verify
      /\ e.rl = d.rl /\ e.state \in {d.state, "FAILED"} /\ e.partial_input = 0
      /\ d.alert = NULL => e.state = d.state /\ e.out = d.out
      /\ d.alert # NULL => e.state = "FAILED" /\ e.out = <<r>>
  <2>1. CASE d.alert = NULL
    BY <1>0, <1>2, <2>1 DEF SameKeys, SameHello
  <2>2. CASE d.alert # NULL
    <3>1. e = [[d EXCEPT !.state = "FAILED", !.partial_input = 0] EXCEPT !.out = <<r>>]
      BY <1>2, <2>2
    <3> HIDE DEF failed
    <3> QED  BY <1>0, <1>1, <2>2, <3>1 DEF SameKeys, SameHello
  <2> QED  BY <2>1, <2>2
<1>4. e.use_session_ticket = d.use_session_ticket
  BY <1>0, <1>2
<1>5. ClientSame(d, e)
  BY <1>3, <1>4 DEF ClientSame
<1>6. SameClient(c, e)
  BY <1>0, <1>3
<1> HIDE DEF IsClient, IsConnection, SameClient, failed
<1>7. ClientFrozen(d, e) /\ ClientIs(e)
  BY <1>0, <1>3, <1>5, ClientSameFrozen
<1>8. ClientFrozen(c, e)
  BY <1>0, <1>3, <1>7, ClientFrozenFurther
<1>9. ClientStates(e) /\ ClientAccepts(e, s)
  <2>1. CASE d.alert = NULL
    <3>1. ClientStates(d) /\ ClientAccepts(d, s)
      BY <2>1 DEF ClientCalled, ClientFlies
    <3> QED  BY <1>0, <1>3, <1>5, <2>1, <3>1, ClientSameStates
  <2>2. CASE d.alert # NULL
    <3>1. e.session_id \in Nat /\ e.session_id <= e.round /\ e.state = "FAILED"
      BY <1>3, <1>7, <2>2 DEF ClientIs
    <3> QED  BY <3>1 DEF ClientStates, ClientAccepts, ClientAsks, ClientKnows
  <2> QED  BY <2>1, <2>2
<1>10. ASSUME NEW i \in DOMAIN e.out PROVE ToServerOk(e.out[i], e)
  <2>1. CASE d.alert = NULL
    <3>1. ToServerOk(d.out[i], d)
      BY <1>3, <1>10, <2>1 DEF ClientCalled, ClientFlies
    <3>2. ClientSent(d) => ClientSent(e)
      BY <1>7 DEF ClientFrozen
    <3>3. /\ e.cred = d.cred /\ e.rl = d.rl /\ e.master_secret = d.master_secret /\ e.verify = d.verify
      BY <1>3 DEF SameClient, SameKeys
    <3> QED  BY <1>3, <2>1, <3>1, <3>2, <3>3
             DEF ToServerOk, HasCertificate, HasKey, ClientFinishes, SameHellos
  <2>2. CASE d.alert # NULL
    BY <1>1, <1>3, <1>10, <2>2
  <2> QED  BY <2>1, <2>2
<1>11. ClientLeaves(c, s, e)
  BY <1>6, <1>7, <1>8, <1>9, <1>10 DEF ClientLeaves
<1> QED  BY <1>3, <1>11 DEF e

\* tls_send_client_hello(): the client says what it can do.
LEMMA ClientSendHello ==
  ASSUME NEW c, ClientIs(c), ClientStates(c), c.state = "CLIENT_HELLO", c.out = <<>>, NEW s,
         NEW d, d = C!tls_send_client_hello(c)
  PROVE  ClientLeaves(c, s, d) /\ d.partial_input = c.partial_input
<1> DEFINE hello == [type |-> "client_hello", fmt |-> "ok",
                     version |-> C!tls_client_highest_ver(c.flags),
                     random |-> <<"client", c.round>>,
                     session_id |-> c.session_id,
                     cipher_suites |-> c.cipher_suites, compression |-> TRUE,
                     ticket |-> c.session_ticket_included,
                     status_request |-> C!StatusRequestExtensions(c)]
           greeting == [c EXCEPT !.client_random = hello.random]
<1>1. /\ hello.type = "client_hello" /\ DOMAIN hello = {"type", "fmt", "version", "random", "session_id",
                    "cipher_suites", "compression", "ticket", "status_request"}
      /\ hello.version = C!tls_client_highest_ver(c.flags) /\ hello.cipher_suites = c.cipher_suites
  OBVIOUS
<1>2. \/ d = c
      \/ d = greeting
      \/ d = [C!SendHandshake(greeting, hello) EXCEPT !.state = "SERVER_HELLO"]
  <2> HIDE DEF hello, greeting
  <2> QED  BY DEF C!tls_send_client_hello, hello, greeting
<1> HIDE DEF hello
<1>3. /\ IsClient(c) /\ Len(c.verify.log) = 0 /\ c.rl.write.key = NoKey /\ IsSeq(c.verify.log)
      /\ c.session_id \in Nat /\ c.session_id <= c.round /\ c.session_id < c.round
  BY DEF ClientIs, ClientStates
<1>4. ~ClientSent(c) /\ ~c.session_resumed
  BY DEF ClientSent, ClientStates
<1>5. ClientFrozen(c, d)
  BY <1>4 DEF ClientFrozen
<1>6. /\ IsClient(greeting) /\ SameClient(c, greeting) /\ SameHello(c, greeting)
      /\ greeting.verify = c.verify /\ greeting.rl = c.rl /\ greeting.out = <<>>
      /\ greeting.state = c.state /\ greeting.client_random = hello.random
      /\ greeting.partial_input = c.partial_input
  BY <1>3 DEF SameHello
<1> HIDE DEF greeting
<1>7. CASE d = c
  <2> HIDE DEF IsClient, IsConnection, SameClient
  <2>1. SameClient(c, c)
    BY DEF SameClient
  <2> QED  BY <1>3, <1>5, <1>7, <2>1 DEF ClientLeaves, ClientAccepts
<1>8. CASE d = greeting
  <2>1. ClientIs(d)
    BY <1>6, <1>8, IsClientWith DEF SameHello
  <2>2. d.round = c.round
    BY <1>6, <1>8
  <2> HIDE DEF IsClient, IsConnection, SameClient
  <2>3. ClientStates(d)
    BY <1>3, <1>4, <1>6, <1>8, <2>2 DEF ClientStates, SameHello, ClientAsks, ClientKnows
  <2> QED  BY <1>5, <1>6, <1>8, <2>1, <2>3 DEF ClientLeaves, ClientAccepts
<1>9. CASE d = [C!SendHandshake(greeting, hello) EXCEPT !.state = "SERVER_HELLO"]
  <2> DEFINE e == C!SendHandshake(greeting, hello)
  <2>1. /\ ClientWritesOn(greeting, e)
        /\ e.verify.log = Append(c.verify.log, hello)
        /\ e.out = Append(<<>>, C!Record(greeting.rl, "handshake", hello))
        /\ e.rl.write.key = c.rl.write.key
    BY <1>6, ClientSendIs
  <2>2. e.partial_input = c.partial_input
    BY <1>6 DEF C!SendHandshake, C!tlsv1_record_send
  <2> HIDE DEF e
  <2>3. IsClient(e) /\ SameClient(greeting, e) /\ SameHello(greeting, e) /\ SameKeys(greeting, e)
    <3> HIDE DEF IsClient, SameClient
    <3> QED  BY <2>1 DEF ClientWritesOn, ClientWrites
  <2>4. d = [e EXCEPT !.state = "SERVER_HELLO"]
    BY <1>9 DEF e
  <2>5. /\ IsClient(d) /\ SameClient(c, d) /\ SameHello(e, d) /\ d.verify = e.verify /\ d.rl = e.rl
        /\ d.out = e.out /\ d.state = "SERVER_HELLO" /\ d.client_random = e.client_random
        /\ d.partial_input = c.partial_input
    BY <1>6, <2>2, <2>3, <2>4 DEF SameHello
  <2>6. SameHello(c, d)
    BY <1>6, <2>3, <2>5 DEF SameHello
  <2>7. ClientIs(d)
    BY <2>5, <2>6, IsClientWith DEF SameHello
  <2>8. d.round = c.round /\ d.flags = c.flags /\ d.cipher_suites = c.cipher_suites
    BY <2>5
  <2>9. Len(d.verify.log) = 1 /\ d.verify.log[1] = hello
    <3>1. 0 + 1 = 1
      OBVIOUS
    <3> QED  BY <1>3, <2>1, <2>5, <3>1, AppendFacts
  <2> HIDE DEF IsClient, IsConnection, SameClient
  <2>10. ClientSaid(d)
    <3>1. d.client_random = hello.random
      BY <1>6, <2>3, <2>5 DEF SameKeys
    <3> QED  BY <1>1, <2>8, <2>9, <3>1 DEF ClientSaid
  <2>11. ClientStates(d)
    <3>1. d.session_id = c.session_id /\ d.rl.write.key = NoKey
      BY <1>3, <2>1, <2>5, <2>6 DEF SameHello
    <3>2. ~d.session_resumed
      <4>1. d.session_resumed = c.session_resumed
        BY <2>6, Zenon DEF SameHello
      <4> QED  BY <1>4, <4>1
    <3> QED  BY <1>3, <2>5, <2>8, <2>9, <2>10, <3>1, <3>2 DEF ClientStates, ClientAsks, ClientKnows
  <2>12. \A i \in DOMAIN d.out : ToServerOk(d.out[i], d)
    <3> DEFINE r == C!Record(greeting.rl, "handshake", hello)
    <3>1. DOMAIN r = RecordFields /\ r.hdr = "ok" /\ r.m = hello /\ r.key = NoKey
      BY <1>3, <1>6 DEF C!Record, RecordFields
    <3> HIDE DEF r
    <3>2. ToServerOk(r, d)
      BY <1>1, <3>1 DEF ToServerOk, Headers
    <3>3. d.out = Append(<<>>, r)
      BY <2>1, <2>5 DEF r
    <3>4. \A i \in DOMAIN d.out : d.out[i] = r
      BY <3>3
    <3> QED  BY <3>2, <3>4
  <2> QED  BY <1>5, <2>5, <2>7, <2>11, <2>12 DEF ClientLeaves, ClientAccepts
<1> QED  BY <1>2, <1>7, <1>8, <1>9

\* Another number of halves held back.
LEMMA ClientHolds ==
  ASSUME NEW c, IsClient(c), NEW s, NEW e, ClientLeaves(c, s, e), NEW p,
         NEW d, d = [e EXCEPT !.partial_input = p]
  PROVE  ClientLeaves(c, s, d) /\ d.partial_input = p
<1>1. ClientIs(e) /\ SameClient(c, e) /\ ClientFrozen(c, e) /\ ClientStates(e) /\ ClientAccepts(e, s)
      /\ IsClient(e)
  BY DEF ClientLeaves, ClientIs
<1>2. /\ IsClient(d) /\ SameClient(e, d) /\ SameKeys(e, d) /\ SameHello(e, d) /\ d.verify = e.verify
      /\ d.rl = e.rl /\ d.state = e.state /\ d.partial_input = p /\ d.out = e.out
      /\ SameClient(c, d)
  BY <1>1 DEF SameKeys, SameHello
<1>3. d.use_session_ticket = e.use_session_ticket
  BY <1>1
<1>4. ClientSame(e, d)
  BY <1>2, <1>3 DEF ClientSame
<1> HIDE DEF IsClient, SameClient
<1>5. ClientFrozen(e, d) /\ ClientIs(d)
  BY <1>1, <1>2, <1>4, ClientSameFrozen
<1>6. ClientStates(d) /\ ClientAccepts(d, s)
  BY <1>1, <1>2, <1>4, ClientSameStates
<1>7. ClientFrozen(c, d)
  BY <1>1, <1>2, <1>5, ClientFrozenFurther
<1>8. ASSUME NEW i \in DOMAIN d.out PROVE ToServerOk(d.out[i], d)
  <2>1. ToServerOk(d.out[i], e)
    BY <1>2, <1>8 DEF ClientLeaves
  <2>2. ClientSent(e) => ClientSent(d)
    BY <1>5 DEF ClientFrozen
  <2>3. /\ d.cred = e.cred /\ d.rl = e.rl /\ d.master_secret = e.master_secret /\ d.verify = e.verify
    BY <1>2 DEF SameClient, SameKeys
  <2> QED  BY <2>1, <2>2, <2>3 DEF ToServerOk, HasCertificate, HasKey, ClientFinishes, SameHellos
<1> QED  BY <1>2, <1>5, <1>6, <1>7, <1>8 DEF ClientLeaves

\* The same of the connection written out.
LEMMA ClientHoldsStill ==
  ASSUME NEW c, IsClient(c), NEW s, NEW e, ClientLeaves(c, s, e), NEW p
  PROVE  ClientLeaves(c, s, [e EXCEPT !.partial_input = p])
<1> HIDE DEF IsClient
<1>1. PICK d : d = [e EXCEPT !.partial_input = p]
  OBVIOUS
<1>2. ClientLeaves(c, s, d)
  BY <1>1, ClientHolds
<1> QED  BY <1>1, <1>2

\* An alert that is set is sent at the end of the call.
LEMMA ClientEndsAlerted ==
  ASSUME NEW c, ClientIs(c), NEW s, NEW e, ClientIs(e), SameClient(c, e), ClientFrozen(c, e),
         NEW a, a # NULL
  PROVE  ClientCalled(c, s, C!FailAlert(e, a))
<1> DEFINE d == C!FailAlert(e, a)
<1>0. IsClient(e) /\ IsClient(c)
  BY DEF ClientIs
<1>1. /\ IsClient(d) /\ SameClient(e, d) /\ SameKeys(e, d) /\ SameHello(e, d) /\ d.verify = e.verify
      /\ d.rl = e.rl /\ d.state = e.state /\ d.alert = a
      /\ SameClient(c, d)
  BY <1>0 DEF SameKeys, SameHello, C!FailAlert
<1>2. d.use_session_ticket = e.use_session_ticket
  BY <1>0 DEF C!FailAlert
<1> HIDE DEF d
<1>3. ClientSame(e, d)
  BY <1>1, <1>2 DEF ClientSame
<1> HIDE DEF IsClient, SameClient
<1>4. ClientFrozen(e, d) /\ ClientIs(d)
  BY <1>1, <1>3, ClientSameFrozen
<1>5. ClientFrozen(c, d)
  BY <1>0, <1>1, <1>4, ClientFrozenFurther
<1>6. ClientCalled(c, s, d)
  BY <1>1, <1>4, <1>5 DEF ClientCalled, ClientFlies
<1> QED  BY <1>6 DEF d

\* What a write leaves that follows what has been read.
LEMMA ClientFliesCalled ==
  ASSUME NEW c, ClientIs(c), NEW s, NEW e, ClientIs(e), SameClient(c, e), ClientFrozen(c, e),
         e.state \in {"CLIENT_KEY_EXCHANGE", "CHANGE_CIPHER_SPEC"},
         NEW d, ClientFlies(e, s, d)
  PROVE  ClientCalled(c, s, d)
<1>1. ~ClientSent(e)
  BY DEF ClientSent
<1>2. ClientFrozen(c, d)
  BY <1>1 DEF ClientFrozen
<1>3. SameClient(c, d)
  BY DEF ClientFlies
<1> HIDE DEF IsClient, SameClient
<1> QED  BY <1>2, <1>3 DEF ClientCalled, ClientFlies

\* The last step of a handshake without a ticket.
LEMMA ClientAcknowledges ==
  ASSUME NEW c, ClientIs(c), ClientStates(c), c.state = "ACK_FINISHED", c.out = <<>>, NEW s,
         ClientAccepts(c, s), NEW d, d = [c EXCEPT !.state = "ESTABLISHED"]
  PROVE  ClientFlies(c, s, d) /\ ClientFrozen(c, d)
<1>0. IsClient(c)
  BY DEF ClientIs
<1>1. /\ IsClient(d) /\ SameClient(c, d) /\ SameKeys(c, d) /\ SameHello(c, d) /\ d.verify = c.verify
      /\ d.rl = c.rl /\ d.state = "ESTABLISHED" /\ d.out = <<>>
  BY <1>0 DEF SameKeys, SameHello
<1>2. d.use_session_ticket = c.use_session_ticket
  BY <1>0
<1>3. d.flags = c.flags /\ d.cipher_suites = c.cipher_suites
  BY <1>1
<1>4. /\ Grown(c.verify.log, d.verify.log) /\ Len(c.verify.log) \in Nat /\ d.verify.log = c.verify.log
  BY <1>0, <1>1, GrownFacts, AppendFacts
<1>5. ClientIs(d)
  BY <1>1, IsClientWith DEF SameHello
<1> HIDE DEF IsClient, SameClient
<1>6. ClientKeeps(c, d)
  BY <1>1, <1>2 DEF ClientKeeps, SameHello
<1>7. /\ Len(c.verify.log) >= 2 /\ ClientSaid(c) /\ ClientHeard(c) /\ ClientKeyed(c) /\ ClientSent(c)
  BY AcceptedKnows
<1>8. ClientSent(d)
  BY <1>1, <1>3, <1>4, <1>6, <1>7, ClientSentMoves
<1>9. ClientStates(d)
  <2>1. d.session_id \in Nat /\ d.session_id <= d.round
    BY <1>5 DEF ClientIs
  <2>2. Len(d.verify.log) >= 2 /\ ClientSaid(d) /\ ClientHeard(d) /\ ClientKeyed(d)
        /\ d.rl.write.key = d.rl.wkey
    BY <1>8 DEF ClientSent
  <2>3. Len(d.verify.log) >= 3 /\ d.rl.read.suite = d.rl.suite /\ d.rl.read.key = d.rl.rkey
    <3>1. /\ ~c.use_session_ticket => Len(c.verify.log) >= 3
          /\ c.rl.read.suite = c.rl.suite /\ c.rl.read.key = c.rl.rkey
      BY DEF ClientStates, ClientKnows
    <3>2. ~c.use_session_ticket
      BY DEF ClientStates
    <3> QED  BY <1>1, <1>4, <3>1, <3>2
  <2>4. d.state \in ClientKnows /\ d.state \notin ClientAsks
    BY <1>1 DEF ClientKnows, ClientAsks
  <2> QED  BY <1>1, <2>1, <2>2, <2>3, <2>4 DEF ClientStates
<1>10. ClientAccepts(d, s)
  <2>1. ServerSent(s) /\ Agree(c, s) /\ (~c.use_session_ticket => ~s.use_session_ticket)
    BY DEF ClientAccepts
  <2>2. Agree(d, s)
    BY <1>4, <1>6, <1>7, <2>1, ClientAgreeMoves
  <2> QED  BY <1>2, <2>1, <2>2 DEF ClientAccepts
<1> QED  BY <1>1, <1>4, <1>5, <1>6, <1>8, <1>9, <1>10 DEF ClientFlies, ClientFrozen

\* The beginning of a stream.
LEMMA BeginningIs ==
  ASSUME NEW stream, IsSeq(stream), NEW p \in 0 .. Len(stream)
  PROVE  /\ IsSeq(SubSeq(stream, 1, p)) /\ Len(SubSeq(stream, 1, p)) = p
         /\ \A i \in DOMAIN SubSeq(stream, 1, p) :
              i \in DOMAIN stream /\ SubSeq(stream, 1, p)[i] = stream[i]
<1>1. PICK T : stream \in Seq(T)
  BY DEF IsSeq
<1>2. Len(stream) \in Nat /\ DOMAIN stream = 1 .. Len(stream)
  BY <1>1
<1> DEFINE seq == SubSeq(stream, 1, p)
<1>3. seq \in Seq(T) /\ Len(seq) = p /\ DOMAIN seq = 1 .. p /\ \A i \in 1 .. p : seq[i] = stream[i]
  BY <1>1, <1>2
<1> HIDE DEF seq
<1>4. IsSeq(seq)
  BY <1>3 DEF IsSeq
<1>5. \A i \in DOMAIN seq : i \in DOMAIN stream /\ seq[i] = stream[i]
  BY <1>2, <1>3
<1> QED  BY <1>3, <1>4, <1>5 DEF seq

\* One call of tlsv1_client_handshake(), whatever part of the stream it gets
\* and whatever fails: the client knows what its state says, agrees with the
\* server where its state says so, sends only records that say what is true
\* of it, and holds back no more than it was given.
LEMMA ClientCall ==
  ASSUME NEW c, ClientIs(c), ClientStates(c), NEW s, ClientAccepts(c, s), c.round = s.round,
         c.partial_input \in Nat, NEW fault, NEW stream, IsSeq(stream),
         \A i \in DOMAIN stream : ToClientOk(stream[i], s),
         NEW n \in Nat, c.state = "CLIENT_HELLO" \/ c.partial_input + n <= 2 * Len(stream),
         NEW d, d = C!tlsv1_client_handshake(c, fault, stream, n)
  PROVE  /\ ClientLeaves(c, s, d)
         /\ d.partial_input \in Nat /\ d.partial_input <= c.partial_input + n
         /\ c.state = "CLIENT_HELLO" => d.partial_input = c.partial_input
<1> DEFINE halves == c.partial_input + n
           start == [c EXCEPT !.fault = fault, !.ok = TRUE, !.out = <<>>, !.appl_data = NULL]
           seq == SubSeq(stream, 1, halves \div 2)
           read == C!FoldLeft(C!ReceiveRecord, start, seq)
           held == IF start.partial_input = 0 THEN 0 ELSE halves
           lost == C!FinishCall(C!FailAlert(start, "INTERNAL_ERROR"))
           late == C!FinishCall(C!FailAlert(read, "INTERNAL_ERROR"))
           hello == C!tls_send_client_hello(start)
           written == C!tlsv1_client_handshake_write(read)
<1>1. \/ c.state = "CLIENT_HELLO" /\ d = hello
      \/ d = start
      \/ c.state # "CLIENT_HELLO" /\ d = lost
      \/ c.state # "CLIENT_HELLO" /\ d = [start EXCEPT !.partial_input = held]
      \/ c.state # "CLIENT_HELLO" /\ d = C!FinishCall(read)
      \/ c.state # "CLIENT_HELLO" /\ d = late
      \/ /\ c.state # "CLIENT_HELLO" /\ halves % 2 = 1 /\ read.ok
         /\ d = [read EXCEPT !.partial_input = 1]
      \/ c.state # "CLIENT_HELLO" /\ read.ok /\ d = C!FinishCall(written)
  <2> HIDE DEF start, read, halves, hello, lost, late, written
  <2> QED  BY DEF C!tlsv1_client_handshake, start, read, seq, halves, hello, lost, late, written
<1>2. halves \in Nat /\ halves >= c.partial_input /\ (halves % 2 = 1 => 1 <= halves)
  OBVIOUS
<1> HIDE DEF halves
<1>3. IsSeq(<<>>)
  <2>1. <<>> \in Seq({})
    OBVIOUS
  <2> QED  BY <2>1 DEF IsSeq
<1>4. /\ IsClient(start) /\ SameClient(c, start) /\ SameKeys(c, start) /\ SameHello(c, start)
      /\ start.verify = c.verify /\ start.rl = c.rl /\ start.state = c.state /\ start.out = <<>>
      /\ start.partial_input = c.partial_input /\ start.round = c.round
  BY <1>3 DEF SameKeys, SameHello, ClientIs
<1>5. start.use_session_ticket = c.use_session_ticket /\ IsClient(c)
  BY DEF ClientIs
<1> HIDE DEF start
<1>6. ClientSame(c, start)
  BY <1>4, <1>5 DEF ClientSame
<1> HIDE DEF IsClient, IsConnection, SameClient
<1>7. /\ ClientFrozen(c, start) /\ ClientIs(start) /\ ClientStates(start) /\ ClientAccepts(start, s)
  BY <1>4, <1>6, ClientSameFrozen, ClientSameStates
<1>8. ClientLeaves(c, s, start)
  BY <1>4, <1>7 DEF ClientLeaves
<1>9. CASE c.state = "CLIENT_HELLO" /\ d = hello
  <2>1. ClientLeaves(start, s, hello) /\ hello.partial_input = start.partial_input
    BY <1>4, <1>7, <1>9, ClientSendHello
  <2> HIDE DEF hello
  <2>2. IsClient(hello) /\ SameClient(c, hello) /\ ClientFrozen(c, hello)
    BY <1>4, <1>5, <1>7, <2>1, ClientFrozenFurther DEF ClientLeaves, ClientIs, SameClient
  <2>3. ClientLeaves(c, s, hello)
    BY <2>1, <2>2 DEF ClientLeaves
  <2> QED  BY <1>2, <1>4, <1>9, <2>1, <2>3 DEF halves
<1>10. CASE d = start
  BY <1>2, <1>4, <1>8, <1>10 DEF halves
<1>11. "INTERNAL_ERROR" # NULL
  BY AlertIsSet DEF Alerts
<1>12. CASE c.state # "CLIENT_HELLO" /\ d = lost
  <2>1. ClientCalled(c, s, C!FailAlert(start, "INTERNAL_ERROR"))
    BY <1>4, <1>7, <1>11, ClientEndsAlerted
  <2> QED  BY <1>2, <1>5, <1>12, <2>1, ClientEnds DEF halves
<1>13. CASE c.state # "CLIENT_HELLO" /\ d = [start EXCEPT !.partial_input = held]
  <2>1. held \in Nat /\ held <= halves
    BY <1>2
  <2> HIDE DEF held
  <2>2. ClientLeaves(c, s, d) /\ d.partial_input = held
    <3>1. ClientLeaves(c, s, [start EXCEPT !.partial_input = held])
      BY <1>5, <1>8, ClientHoldsStill, Zenon
    <3>2. d.partial_input = held
      BY <1>4, <1>13 DEF IsClient, IsConnection
    <3> QED  BY <1>13, <3>1, <3>2
  <2> QED  BY <1>13, <2>1, <2>2 DEF halves
<1> HIDE DEF hello, held
<1>14. CASE c.state # "CLIENT_HELLO"
  <2>1. halves \div 2 \in 0 .. Len(stream)
    <3>1. Len(stream) \in Nat
      BY DEF IsSeq
    <3>2. halves <= 2 * Len(stream)
      BY <1>14 DEF halves
    <3> QED  BY <1>2, <3>1, <3>2
  <2>2. IsSeq(seq) /\ \A i \in DOMAIN seq : ToClientOk(seq[i], s)
    BY <2>1, BeginningIs
  <2> HIDE DEF seq
  <2>3. ClientMoves(start, s, read)
    BY <1>4, <1>7, <2>2, ClientStages
  <2> HIDE DEF read
  <2>4. ClientIs(read) /\ IsClient(read)
    BY <1>7, <2>3, MovesKeepIs DEF ClientIs
  <2>5. SameClient(c, read) /\ read.out = <<>>
    BY <1>4, <2>3 DEF ClientMoves, ClientReads, SameClient
  <2>6. ClientFrozen(c, read)
    BY <1>4, <1>5, <1>7, <2>3, <2>4, ClientMovesFrozen, ClientFrozenFurther
  <2>7. ClientAccepts(read, s) /\ (read.ok \/ read.alert = NULL => ClientStates(read))
    BY <1>7, <2>3 DEF ClientMoves
  <2>8. ClientCalled(c, s, read)
    BY <2>4, <2>5, <2>6, <2>7 DEF ClientCalled, ClientFlies
  <2>9. CASE d = C!FinishCall(read)
    BY <1>2, <1>5, <1>14, <2>8, <2>9, ClientEnds DEF halves
  <2>10. CASE d = late
    <3>1. ClientCalled(c, s, C!FailAlert(read, "INTERNAL_ERROR"))
      BY <2>4, <2>5, <2>6, <1>11, ClientEndsAlerted
    <3> QED  BY <1>2, <1>5, <1>14, <2>10, <3>1, ClientEnds DEF halves
  <2>11. CASE halves % 2 = 1 /\ read.ok /\ d = [read EXCEPT !.partial_input = 1]
    <3>1. ClientLeaves(c, s, read)
      BY <2>4, <2>5, <2>6, <2>7, <2>11 DEF ClientLeaves
    <3>2. ClientLeaves(c, s, d) /\ d.partial_input = 1
      <4>1. ClientLeaves(c, s, [read EXCEPT !.partial_input = 1])
        BY <1>5, <3>1, ClientHoldsStill, Zenon
      <4>2. d.partial_input = 1
        BY <2>4, <2>11 DEF IsClient, IsConnection
      <4> QED  BY <2>11, <4>1, <4>2
    <3> QED  BY <1>2, <1>14, <2>11, <3>2 DEF halves
  <2>12. CASE read.ok /\ d = C!FinishCall(written)
    <3>1. ClientCalled(c, s, written)
      <4>1. CASE read.state = "CLIENT_KEY_EXCHANGE"
        <5>1. written = C!tls_send_client_key_exchange(read)
          BY <4>1 DEF C!tlsv1_client_handshake_write
        <5>2. ClientFlies(read, s, written)
          BY <2>4, <2>5, <2>7, <2>12, <4>1, <5>1, SendExchange
        <5> HIDE DEF written
        <5> QED  BY <2>4, <2>5, <2>6, <4>1, <5>2, ClientFliesCalled
      <4>2. CASE read.state = "CHANGE_CIPHER_SPEC"
        <5>1. written = C!tls_send_change_cipher_spec(read)
          BY <4>2 DEF C!tlsv1_client_handshake_write
        <5>2. ClientFlies(read, s, written)
          BY <2>4, <2>5, <2>7, <2>12, <4>2, <5>1, ClientSendEnd
        <5> HIDE DEF written
        <5> QED  BY <2>4, <2>5, <2>6, <4>2, <5>2, ClientFliesCalled
      <4>3. CASE read.state = "ACK_FINISHED"
        <5>1. written = [read EXCEPT !.state = "ESTABLISHED"]
          BY <4>3 DEF C!tlsv1_client_handshake_write
        <5> HIDE DEF written
        <5>2. ClientFlies(read, s, written) /\ ClientFrozen(read, written)
          BY <2>4, <2>5, <2>7, <2>12, <4>3, <5>1, ClientAcknowledges
        <5>3. ClientIs(written) /\ IsClient(written) /\ SameClient(c, written)
          BY <2>5, <5>2 DEF ClientFlies, ClientIs, SameClient
        <5>4. ClientFrozen(c, written)
          BY <1>5, <2>4, <2>6, <5>2, <5>3, ClientFrozenFurther
        <5> QED  BY <5>2, <5>3, <5>4 DEF ClientCalled, ClientFlies
      <4>4. CASE read.state \notin {"CLIENT_KEY_EXCHANGE", "CHANGE_CIPHER_SPEC", "ACK_FINISHED"}
        <5>1. written = read
          BY <4>4 DEF C!tlsv1_client_handshake_write
        <5> QED  BY <2>8, <5>1
      <4> QED  BY <4>1, <4>2, <4>3, <4>4
    <3> HIDE DEF written
    <3> QED  BY <1>2, <1>5, <1>14, <2>12, <3>1, ClientEnds DEF halves
  <2> HIDE DEF late, written
  <2> QED  BY <1>1, <1>10, <1>12, <1>13, <1>14, <2>9, <2>10, <2>11, <2>12
<1> HIDE DEF lost, late, written, read
<1> QED  BY <1>1, <1>9, <1>10, <1>12, <1>13, <1>14

(***************************************************************************)
(* Application data, and the beginning                                     *)
(***************************************************************************)

\* What application data leaves as it was.
ClientCounts(c, d) ==
  /\ IsClient(d) /\ SameClient(c, d) /\ SameKeys(c, d) /\ SameHello(c, d)
  /\ d.verify = c.verify /\ d.state = c.state
  /\ d.rl.write.key = c.rl.write.key
  /\ d.rl.read.key = c.rl.read.key /\ d.rl.read.suite = c.rl.read.suite
  /\ d.use_session_ticket = c.use_session_ticket

\* Two steps that only count are one.
LEMMA ClientCountsFurther ==
  ASSUME NEW c, NEW d, NEW e, ClientCounts(c, d), ClientCounts(d, e)
  PROVE  ClientCounts(c, e)
<1>1. SameClient(c, e)
  BY DEF ClientCounts
<1> HIDE DEF IsClient, SameClient
<1>2. e.use_session_ticket = c.use_session_ticket
  BY Zenon DEF ClientCounts
<1>3. e.session_resumed = c.session_resumed
  BY Zenon DEF ClientCounts, SameHello
<1> QED  BY <1>1, <1>2, <1>3 DEF ClientCounts, SameKeys, SameHello

\* Or none.
LEMMA ClientCountsNothing ==
  ASSUME NEW c, IsClient(c)
  PROVE  ClientCounts(c, c)
  BY DEF ClientCounts, SameKeys, SameHello

\* Application data changes nothing of what the client knows.
LEMMA ClientCountsStates ==
  ASSUME NEW c, ClientIs(c), ClientStates(c), NEW s, ClientAccepts(c, s), NEW d, ClientCounts(c, d)
  PROVE  ClientIs(d) /\ ClientStates(d) /\ ClientAccepts(d, s) /\ ClientFrozen(c, d)
<1>1. /\ SameKeys(c, d) /\ SameHello(c, d) /\ SameClient(c, d) /\ d.verify = c.verify
      /\ IsClient(c) /\ IsClient(d)
  <2> HIDE DEF IsClient, SameClient
  <2> QED  BY DEF ClientCounts, ClientIs
<1>2. d.use_session_ticket = c.use_session_ticket
  <2> HIDE DEF IsClient, SameClient
  <2> QED  BY Zenon DEF ClientCounts
<1>3. d.session_resumed <=> c.session_resumed
  BY <1>1 DEF SameHello
<1>4. /\ d.flags = c.flags /\ d.cipher_suites = c.cipher_suites /\ d.round = c.round
      /\ d.client_random = c.client_random /\ d.server_random = c.server_random
      /\ d.master_secret = c.master_secret /\ d.session_id = c.session_id
      /\ d.rl.suite = c.rl.suite /\ d.rl.version = c.rl.version
      /\ d.rl.wkey = c.rl.wkey /\ d.rl.rkey = c.rl.rkey
  BY <1>1 DEF SameKeys, SameHello
<1>5. /\ Grown(c.verify.log, d.verify.log) /\ Len(c.verify.log) \in Nat /\ Len(d.verify.log) \in Nat
  BY <1>1, GrownFacts, AppendFacts
<1>6. ClientIs(d)
  BY <1>1, IsClientWith DEF SameHello
<1> HIDE DEF IsClient, SameClient
<1>7. /\ ClientSaid(c) => ClientSaid(d)
      /\ ClientHeard(c) => ClientHeard(d)
      /\ ClientKeyed(c) => ClientKeyed(d)
  BY <1>1, <1>4 DEF ClientSaid, ClientHeard, ClientKeyed, Block
<1>8. /\ d.state = c.state /\ d.rl.write.key = c.rl.write.key
      /\ d.rl.read.key = c.rl.read.key /\ d.rl.read.suite = c.rl.read.suite
  BY DEF ClientCounts
<1>9. d.use_session_ticket <=> c.use_session_ticket
  BY <1>2
<1>10. ClientStates(d)
  BY <1>1, <1>3, <1>4, <1>7, <1>8, <1>9 DEF ClientStates
<1>11. ClientAccepts(d, s)
  <2>1. Agree(c, s) => Agree(d, s)
    BY <1>1, <1>4 DEF Agree
  <2> QED  BY <1>8, <1>9, <2>1 DEF ClientAccepts
<1>12. ClientKeeps(c, d)
  BY <1>1, <1>2, <1>4 DEF ClientKeeps
<1>13. ASSUME ClientSent(c) PROVE ClientSent(d)
  BY <1>1, <1>4, <1>7, <1>8, <1>9, <1>13 DEF ClientSent
<1> QED  BY <1>5, <1>6, <1>8, <1>10, <1>11, <1>12, <1>13 DEF ClientFrozen

\* One call of tlsv1_client_encrypt().
LEMMA ClientEncryptLeaves ==
  ASSUME NEW c, ClientIs(c), ClientStates(c), NEW s, ClientAccepts(c, s),
         c.state = "ESTABLISHED", NEW data,
         NEW d, d = C!tlsv1_client_encrypt(c, Data(data))
  PROVE  ClientLeaves(c, s, d) /\ d.partial_input = c.partial_input
<1> DEFINE r == C!Record(c.rl, "application_data", Data(data))
<1>0. IsClient(c)
  BY DEF ClientIs
<1>1. /\ IsClient(d) /\ d.out = <<r>> /\ ClientCounts(c, d) /\ d.partial_input = c.partial_input
  <2>1. <<r>> \in Seq({r}) /\ Append(<<>>, r) = <<r>>
    OBVIOUS
  <2>2. IsSeq(<<r>>)
    BY <2>1 DEF IsSeq
  <2>3. d.out = Append(<<>>, C!Record(c.rl, "application_data", Data(data)))
    BY <1>0 DEF C!tlsv1_client_encrypt, C!tlsv1_record_send
  <2> HIDE DEF r
  <2>4. d.out = <<r>>
    BY <2>1, <2>3 DEF r
  <2>5. IsClient(d) /\ d.partial_input = c.partial_input
    BY <1>0, <2>2, <2>4 DEF C!tlsv1_client_encrypt, C!tlsv1_record_send
  <2>6. d.use_session_ticket = c.use_session_ticket
    BY <1>0 DEF C!tlsv1_client_encrypt, C!tlsv1_record_send
  <2>7. SameClient(c, d) /\ SameKeys(c, d) /\ SameHello(c, d)
    BY <1>0 DEF C!tlsv1_client_encrypt, C!tlsv1_record_send, SameKeys, SameHello
  <2>8. /\ d.verify = c.verify /\ d.state = c.state
        /\ d.rl.write.key = c.rl.write.key
        /\ d.rl.read.key = c.rl.read.key /\ d.rl.read.suite = c.rl.read.suite
    BY <1>0 DEF C!tlsv1_client_encrypt, C!tlsv1_record_send
  <2> HIDE DEF IsClient, SameClient
  <2> QED  BY <2>4, <2>5, <2>6, <2>7, <2>8 DEF ClientCounts
<1>2. /\ DOMAIN r = RecordFields /\ r.hdr = "ok" /\ "type" \in DOMAIN r.m /\ r.m.type = "data"
      /\ r.key = c.rl.write.key
  BY DEF C!Record, Data, RecordFields
<1> HIDE DEF r, IsClient, IsConnection, SameClient
<1>3. ClientIs(d) /\ ClientStates(d) /\ ClientAccepts(d, s) /\ ClientFrozen(c, d)
  BY <1>1, ClientCountsStates
<1>4. ToServerOk(r, d)
  <2>1. ClientSent(c)
    BY AcceptedKnows
  <2>2. ClientSent(d) /\ d.rl.write.key = c.rl.write.key
    BY <1>3, <2>1 DEF ClientFrozen
  <2> QED  BY <1>2, <2>2 DEF ToServerOk, Headers
<1>5. \A i \in DOMAIN d.out : d.out[i] = r
  BY <1>1
<1> QED  BY <1>1, <1>3, <1>4, <1>5 DEF ClientLeaves, ClientCounts

\* A record of application data changes the numbers of the records, the alert
\* and the output, and nothing else.
LEMMA ClientDecryptCounts ==
  ASSUME NEW c, IsClient(c), NEW r
  PROVE  ClientCounts(c, C!DecryptRecord(c, r))
<1> DEFINE g == C!tlsv1_record_receive(c.rl, r)
           e == [c EXCEPT !.rl = C!RecordRead(@)]
           d == C!DecryptRecord(c, r)
<1>1. \/ d = c
      \/ d = C!FailAlert(c, g.alert)
      \/ \E a : d = C!FailAlert(e, a)
      \/ d = e
      \/ d = [e EXCEPT !.out = Append(@, g.m)]
  <2> HIDE DEF e, g
  <2> QED  BY DEF C!DecryptRecord, e, g
<1>2. ClientCounts(c, e) /\ IsClient(e) /\ e.out = c.out
  <2>1. ClientReads(c, e) /\ e.verify = c.verify /\ e.state = c.state
        /\ SameKeys(c, e) /\ SameHello(c, e)
        /\ e.rl.read.key = c.rl.read.key /\ e.rl.read.suite = c.rl.read.suite
    BY CountedClient
  <2>2. e.use_session_ticket = c.use_session_ticket
    BY CountedFlags
  <2> HIDE DEF e, IsClient, SameClient
  <2> QED  BY <2>1, <2>2 DEF ClientCounts, ClientReads
<1>3. IsSeq(Append(c.out, g.m))
  BY AppendFacts
<1> SUFFICES ClientCounts(c, d)
  OBVIOUS
<1> HIDE DEF g, d, e
<1>4. ASSUME NEW f, IsClient(f), NEW a PROVE ClientCounts(f, C!FailAlert(f, a))
  BY <1>4 DEF C!FailAlert, ClientCounts, SameKeys, SameHello
<1>5. ClientCounts(e, [e EXCEPT !.out = Append(@, g.m)])
  BY <1>2, <1>3 DEF ClientCounts, SameKeys, SameHello
<1> HIDE DEF IsClient, SameClient
<1>6. CASE d = c
  BY <1>6, ClientCountsNothing
<1>7. CASE d = C!FailAlert(c, g.alert)
  BY <1>4, <1>7
<1>8. ASSUME NEW a, d = C!FailAlert(e, a) PROVE ClientCounts(c, d)
  BY <1>2, <1>4, <1>8, ClientCountsFurther
<1>9. CASE d = [e EXCEPT !.out = Append(@, g.m)]
  BY <1>2, <1>5, <1>9, ClientCountsFurther
<1> QED  BY <1>1, <1>2, <1>6, <1>7, <1>8, <1>9

\* One call of tlsv1_client_decrypt(): it holds back no more than it was
\* given.
LEMMA ClientDecryptLeaves ==
  ASSUME NEW c, IsClient(c), NEW stream, IsSeq(stream), c.partial_input \in Nat, NEW n \in Nat,
         c.partial_input + n <= 2 * Len(stream), NEW fault,
         NEW d, d = C!tlsv1_client_decrypt(c, fault, stream, n)
  PROVE  ClientCounts(c, d) /\ d.partial_input \in Nat /\ d.partial_input <= c.partial_input + n
<1> DEFINE halves == c.partial_input + n
           seq == SubSeq(stream, 1, halves \div 2)
           start == [c EXCEPT !.fault = fault, !.ok = TRUE, !.out = <<>>]
           read == C!FoldLeft(C!DecryptRecord, start, seq)
           rest == halves % 2
           lost == \/ fault = "partial" /\ (c.partial_input # 0 \/ rest = 1)
                   \/ fault = "output"
           e == IF lost /\ read.ok THEN C!FailAlert(read, "INTERNAL_ERROR") ELSE read
<1>1. d = IF e.ok THEN [e EXCEPT !.partial_input = rest]
          ELSE [e EXCEPT !.out = <<>>, !.partial_input = 0]
  <2> HIDE DEF start, read
  <2> QED  BY DEF C!tlsv1_client_decrypt, start, read, seq, halves
<1>2. halves \in Nat /\ rest \in Nat /\ 0 \in Nat /\ 0 <= halves /\ rest <= halves
  OBVIOUS
<1>3. halves \div 2 \in 0 .. Len(stream)
  <2>1. Len(stream) \in Nat
    BY DEF IsSeq
  <2> QED  BY <1>2, <2>1
<1>4. IsSeq(seq)
  BY <1>3, BeginningIs
<1>5. IsSeq(<<>>)
  <2>1. <<>> \in Seq({})
    OBVIOUS
  <2> QED  BY <2>1 DEF IsSeq
<1>6. ClientCounts(c, start)
  BY <1>5 DEF ClientCounts, SameKeys, SameHello
<1>7. Len(seq) \in Nat /\ DOMAIN seq = 1 .. Len(seq)
  BY <1>4 DEF IsSeq
<1> HIDE DEF seq, start, rest, lost
<1>8. PICK h : Chain(h, "client data", start, seq) /\ h[Len(seq)] = read
  BY <1>4, ClientDataChain
<1> HIDE DEF read
<1> DEFINE T == {i \in 0 .. Len(seq) : ClientCounts(c, h[i])}
<1> HIDE DEF IsClient, IsConnection, SameClient
<1>9. 0 \in T
  <2>1. h[0] = start
    BY <1>8 DEF Chain
  <2>2. ClientCounts(c, h[0])
    BY <1>6, <2>1, Zenon
  <2> QED  BY <1>7, <2>2
<1>10. ASSUME NEW i \in 0 .. Len(seq) - 1, i \in T PROVE i + 1 \in T
  <2>1. i + 1 \in 1 .. Len(seq) /\ i + 1 - 1 = i
    BY <1>7
  <2>2. h[i + 1] = C!DecryptRecord(h[i], seq[i + 1])
    BY <1>8, <2>1 DEF Chain, Step
  <2>3. ClientCounts(c, h[i])
    BY <1>10
  <2>4. IsClient(h[i])
    BY <2>3 DEF ClientCounts
  <2>5. ClientCounts(h[i], h[i + 1])
    BY <2>2, <2>4, ClientDecryptCounts
  <2>6. ClientCounts(c, h[i + 1])
    BY <2>3, <2>5, ClientCountsFurther
  <2>7. i + 1 \in 0 .. Len(seq)
    BY <2>1
  <2> QED  BY <2>6, <2>7
<1> HIDE DEF T
<1>11. Len(seq) \in T
  BY <1>7, <1>9, <1>10, UpTo
<1>12. ClientCounts(c, read) /\ IsClient(read)
  BY <1>8, <1>11 DEF T, ClientCounts
<1>13. ClientCounts(read, C!FailAlert(read, "INTERNAL_ERROR"))
  BY <1>12 DEF C!FailAlert, ClientCounts, SameKeys, SameHello, IsClient, IsConnection, SameClient
<1>14. ClientCounts(c, C!FailAlert(read, "INTERNAL_ERROR"))
  BY <1>12, <1>13, ClientCountsFurther
<1>15. ClientCounts(c, e) /\ IsClient(e)
  BY <1>12, <1>14 DEF ClientCounts
<1> HIDE DEF e
<1>16. /\ ClientCounts(e, d)
       /\ d.partial_input \in {rest, 0}
  BY <1>1, <1>5, <1>15 DEF ClientCounts, SameKeys, SameHello, IsClient, IsConnection, SameClient
<1>17. ClientCounts(c, d)
  BY <1>15, <1>16, ClientCountsFurther
<1>18. d.partial_input \in Nat /\ d.partial_input <= halves
  BY <1>2, <1>16
<1> QED  BY <1>17, <1>18 DEF halves

\* A client that has not begun.
ClientFresh(d, round) ==
  /\ ClientIs(d) /\ ClientStates(d) /\ d.state = "CLIENT_HELLO"
  /\ d.round = round /\ d.out = <<>>

\* A new client, as the user configures it, has not begun and holds nothing
\* back.
LEMMA ClientOfIsFresh ==
  ASSUME NEW s \in Scenarios
  PROVE  ClientFresh(ClientOf(s), 1) /\ ClientOf(s).partial_input = 0
<1> DEFINE Good(c) ==
      /\ IsClient(c) /\ c.state = "CLIENT_HELLO" /\ c.out = <<>> /\ c.round = 1 /\ c.session_id = 0
      /\ c.verify.log = <<>> /\ c.rl.write.key = NoKey /\ c.session_resumed = FALSE
      /\ c.partial_input = 0
      /\ c.cipher_suites = C!DefaultSuites
<1> DEFINE c == C!tlsv1_client_init
<1>1. IsSeq(<<>>) /\ Len(<<>>) = 0
  <2>1. <<>> \in Seq({})
    OBVIOUS
  <2> QED  BY <2>1 DEF IsSeq
<1>2. Good(c)
  BY <1>1, SameNames DEF C!tlsv1_client_init, C!tls_verify_hash_init, C!NewRecordLayer, C!Plain
<1> HIDE DEF c
<1> DEFINE c1 == C!tlsv1_client_set_flags(C!tlsv1_client_set_cred(c, s.client_cred), s.flags)
<1>3. Good(c1)
  BY <1>2 DEF C!tlsv1_client_set_flags, C!tlsv1_client_set_cred
<1> HIDE DEF c1
<1> DEFINE anonymous == << <<"DH_anon", 3>>, <<"DH_anon", 2>>, <<"DH_anon", 1>> >>
           c2 == C!tlsv1_client_set_cipher_list(c1, s.client_anonymous)
<1>4. /\ IsClient(c2) /\ c2.state = "CLIENT_HELLO" /\ c2.out = <<>> /\ c2.round = 1 /\ c2.session_id = 0
      /\ c2.verify.log = <<>> /\ c2.rl.write.key = NoKey /\ c2.session_resumed = FALSE
      /\ c2.partial_input = 0
      /\ c2.cipher_suites \in {C!DefaultSuites, anonymous}
  <2> HIDE DEF anonymous
  <2> QED  BY <1>3 DEF C!tlsv1_client_set_cipher_list, anonymous
<1> HIDE DEF c2
<1> DEFINE c3 == OfAnotherMake(c2, s.client_suites)
<1>5. /\ IsClient(c3) /\ c3.state = "CLIENT_HELLO" /\ c3.out = <<>> /\ c3.round = 1 /\ c3.session_id = 0
       /\ c3.verify.log = <<>> /\ c3.rl.write.key = NoKey /\ c3.session_resumed = FALSE
       /\ c3.partial_input = 0
       /\ c3.cipher_suites = IF s.client_suites = NULL THEN c2.cipher_suites ELSE s.client_suites
  <2> HIDE DEF anonymous
  <2> QED  BY <1>4 DEF OfAnotherMake
<1> HIDE DEF c3
<1> DEFINE d == C!tlsv1_client_set_session_ticket_cb(C!tlsv1_client_hello_ext(c3, s.ticket), s.client_cb)
<1>6. /\ IsClient(d) /\ d.state = "CLIENT_HELLO" /\ d.out = <<>> /\ d.round = 1 /\ d.session_id = 0
      /\ d.verify.log = <<>> /\ d.rl.write.key = NoKey /\ d.session_resumed = FALSE
      /\ d.partial_input = 0
      /\ d.cipher_suites = c3.cipher_suites
  <2> HIDE DEF anonymous
  <2> QED  BY <1>5 DEF C!tlsv1_client_set_session_ticket_cb, C!tlsv1_client_hello_ext
<1>7. d = ClientOf(s)
  BY DEF ClientOf, c, c1, c2, c3
<1> HIDE DEF d, IsClient
<1>8. NullSuite \notin ToSet(anonymous) /\ NullSuite \notin ToSet(C!DefaultSuites)
  BY DEF ToSet, NullSuite, C!DefaultSuites
<1> HIDE DEF anonymous
<1>9. s.client_suites # NULL => NullSuite \notin ToSet(s.client_suites)
  BY ScenariosAreSound DEF PeerSuites
<1>10. NullSuite \notin ToSet(d.cipher_suites)
  BY <1>4, <1>6, <1>8, <1>5, <1>9
<1>11. ClientIs(d)
  BY <1>6, <1>10 DEF ClientIs
<1>12. ClientStates(d)
  BY <1>1, <1>6 DEF ClientStates, ClientAsks, ClientKnows
<1> QED  BY <1>6, <1>7, <1>11, <1>12 DEF ClientFresh

\* Nor has one after tlsv1_client_shutdown(), which forgets all of the
\* handshake but the half record it holds back and the parameters of the key
\* exchange.
LEMMA ClientShutdownIsFresh ==
  ASSUME NEW c, ClientIs(c), c.out = <<>>
  PROVE  /\ ClientFresh(C!tlsv1_client_shutdown(c), c.round + 1)
         /\ C!tlsv1_client_shutdown(c).partial_input = c.partial_input
         /\ C!tlsv1_client_shutdown(c).cred = c.cred
<1> DEFINE d == C!tlsv1_client_shutdown(c)
<1>1. IsSeq(<<>>) /\ Len(<<>>) = 0
  <2>1. <<>> \in Seq({})
    OBVIOUS
  <2> QED  BY <2>1 DEF IsSeq
<1> DEFINE rl == C!tlsv1_record_change_read_cipher(
                     C!tlsv1_record_change_write_cipher(
                        C!tlsv1_record_set_cipher_suite(c.rl, C!NullSuite)))
<1>2. IsClient(c)
  BY DEF ClientIs
<1>3. /\ DOMAIN rl = LayerFields /\ DOMAIN rl.write = DirectionFields /\ DOMAIN rl.read = DirectionFields
      /\ rl.write.key = NoKey
  BY <1>2, SameNames DEF C!tlsv1_record_change_read_cipher, C!tlsv1_record_change_write_cipher,
     C!tlsv1_record_set_cipher_suite, C!Direction
<1> HIDE DEF rl
<1>4. d = [c EXCEPT !.state = "CLIENT_HELLO", !.verify = C!tls_verify_hash_init, !.rl = rl,
                   !.certificate_requested = FALSE, !.server_rsa_key = NULL,
                   !.session_resumed = FALSE, !.round = @ + 1]
  BY DEF C!tlsv1_client_shutdown, rl
<1> HIDE DEF d
<1>5. /\ IsClient(d) /\ d.state = "CLIENT_HELLO" /\ d.out = <<>> /\ d.verify.log = <<>>
      /\ d.rl.write.key = NoKey /\ d.session_resumed = FALSE
      /\ d.round = c.round + 1 /\ d.session_id = c.session_id /\ d.partial_input = c.partial_input
      /\ d.cred = c.cred /\ d.cipher_suites = c.cipher_suites
  BY <1>1, <1>2, <1>3, <1>4 DEF C!tls_verify_hash_init
<1> HIDE DEF IsClient
<1>6. d.session_id \in Nat /\ d.round \in Nat /\ d.session_id <= d.round /\ d.session_id < d.round
  BY <1>5 DEF ClientIs
<1>7. ClientIs(d)
  BY <1>5, <1>6 DEF ClientIs
<1>8. ClientStates(d)
  BY <1>1, <1>5, <1>6 DEF ClientStates, ClientAsks, ClientKnows
<1> QED  BY <1>5, <1>7, <1>8 DEF ClientFresh, d

HIDE DEF IsClient, IsConnection, ClientFields, LayerFields, DirectionFields, SameClient

(***************************************************************************)
(* Streams: parts of them, what the network makes of them, and what a call *)
(* leaves                                                                  *)
(***************************************************************************)

\* x is an element of s, t is made of elements of s.
Of(x, s) == \E j \in DOMAIN s : x = s[j]

\* A stream of what an end has sent.
From(t, s) == IsSeq(t) /\ \A i \in DOMAIN t : Of(t[i], s)

\* What the length of a stream is.
LEMMA SeqIs ==
  ASSUME NEW s, IsSeq(s)
  PROVE  /\ Len(s) \in Nat /\ DOMAIN s = 1 .. Len(s)
         /\ \E T : s \in Seq(T)
  BY DEF IsSeq

\* A part of a stream is made of its records.
LEMMA PartFrom ==
  ASSUME NEW s, IsSeq(s), NEW a \in Nat \ {0}, NEW b \in Int, b <= Len(s)
  PROVE  From(SubSeq(s, a, b), s)
<1>1. PICK T : s \in Seq(T)
  BY DEF IsSeq
<1>2. Len(s) \in Nat /\ DOMAIN s = 1 .. Len(s)
  BY <1>1
<1> DEFINE t == SubSeq(s, a, b)
<1>3. /\ DOMAIN t = 1 .. IF a <= b THEN b - a + 1 ELSE 0
      /\ \A i \in DOMAIN t : t[i] = s[a + i - 1]
      /\ Len(t) \in Nat
      /\ t \in Seq(T)
  <2>1. CASE a <= b
    <3>1. a \in 1 .. Len(s) /\ b \in 1 .. Len(s) /\ \A i \in a .. b : i \in 1 .. Len(s)
      BY <1>2, <2>1
    <3> QED  BY <1>1, <2>1, <3>1, SubSeqProperties
  <2>2. CASE ~(a <= b)
    <3>1. b < a
      BY <2>2
    <3> QED  BY <1>1, <3>1, <2>2, SubSeqProperties
  <2> QED  BY <2>1, <2>2
<1> HIDE DEF t
<1>4. ASSUME NEW i \in DOMAIN t PROVE Of(t[i], s)
  <2>1. a + i - 1 \in DOMAIN s
    BY <1>2, <1>3, <1>4
  <2> QED  BY <1>3, <1>4, <2>1 DEF Of
<1>5. IsSeq(t)
  BY <1>3 DEF IsSeq
<1> QED  BY <1>4, <1>5 DEF From, t

\* Two streams one after the other are made of the records of both.
LEMMA JoinedFrom ==
  ASSUME NEW s, IsSeq(s), NEW t, IsSeq(t), NEW u, u = s \o t
  PROVE  /\ IsSeq(u)
         /\ \A i \in DOMAIN u : Of(u[i], s) \/ Of(u[i], t)
<1>1. PICK T : s \in Seq(T)
  BY DEF IsSeq
<1>2. PICK U : t \in Seq(U)
  BY DEF IsSeq
<1>3. s \in Seq(T \cup U) /\ t \in Seq(T \cup U)
  BY <1>1, <1>2
<1>4. s \o t \in Seq(T \cup U) /\ Len(s \o t) = Len(s) + Len(t)
      /\ \A i \in 1 .. Len(s) + Len(t) : (s \o t)[i] = IF i <= Len(s) THEN s[i] ELSE t[i - Len(s)]
  BY <1>3, ConcatProperties
<1>5. Len(s) \in Nat /\ Len(t) \in Nat /\ DOMAIN s = 1 .. Len(s) /\ DOMAIN t = 1 .. Len(t)
  BY <1>3
<1>6. DOMAIN u = 1 .. Len(s) + Len(t)
  BY <1>4
<1>7. ASSUME NEW i \in DOMAIN u
      PROVE  Of(u[i], s) \/ Of(u[i], t)
  <2>1. i \in 1 .. Len(s) + Len(t)
    BY <1>6
  <2>2. CASE i <= Len(s)
    <3>1. i \in DOMAIN s
      BY <1>5, <2>1, <2>2
    <3> QED  BY <1>4, <2>1, <2>2, <3>1 DEF Of
  <2>3. CASE ~(i <= Len(s))
    <3>1. i - Len(s) \in DOMAIN t
      BY <1>5, <2>1, <2>3
    <3> QED  BY <1>4, <2>1, <2>3, <3>1 DEF Of
  <2> QED  BY <2>2, <2>3
<1>8. IsSeq(u)
  BY <1>4 DEF IsSeq
<1> QED  BY <1>7, <1>8

\* And of those of the stream that both are parts of.
LEMMA JoinedFromOne ==
  ASSUME NEW s, NEW t, NEW u, From(t, s), From(u, s), NEW v, v = t \o u
  PROVE  From(v, s)
<1>1. IsSeq(t) /\ IsSeq(u)
  BY DEF From
<1>2. IsSeq(v) /\ \A i \in DOMAIN v : Of(v[i], t) \/ Of(v[i], u)
  BY <1>1, JoinedFrom
<1>3. ASSUME NEW i \in DOMAIN v PROVE Of(v[i], s)
  BY <1>2, <1>3 DEF From, Of
<1> QED  BY <1>2, <1>3 DEF From

\* The first record of a stream, and the rest of it.
LEMMA TailFrom ==
  ASSUME NEW s, IsSeq(s), s # <<>>
  PROVE  From(Tail(s), s) /\ Of(Head(s), s)
<1>1. PICK T : s \in Seq(T)
  BY DEF IsSeq
<1>2. /\ Head(s) = s[1] /\ Tail(s) \in Seq(T) /\ Len(Tail(s)) = Len(s) - 1 /\ Len(s) \in Nat \ {0}
      /\ \A i \in 1 .. Len(Tail(s)) : Tail(s)[i] = s[i + 1]
      /\ DOMAIN s = 1 .. Len(s)
  BY <1>1
<1> DEFINE t == Tail(s)
<1>3. DOMAIN t = 1 .. Len(s) - 1 /\ \A i \in 1 .. Len(s) - 1 : t[i] = s[i + 1]
  BY <1>2
<1>4. IsSeq(t)
  BY <1>2 DEF IsSeq
<1> HIDE DEF t
<1>5. ASSUME NEW i \in DOMAIN t PROVE Of(t[i], s)
  <2>1. i + 1 \in DOMAIN s /\ t[i] = s[i + 1]
    BY <1>2, <1>3
  <2> QED  BY <2>1 DEF Of
<1>6. From(t, s)
  BY <1>4, <1>5 DEF From
<1>7. Of(Head(s), s)
  BY <1>2 DEF Of
<1> QED  BY <1>6, <1>7 DEF t

\* A stream of one record, and the empty one.
LEMMA OneIs ==
  ASSUME NEW x
  PROVE  /\ IsSeq(<<x>>) /\ IsSeq(<<>>) /\ DOMAIN <<x>> = {1} /\ DOMAIN <<>> = {}
         /\ \A i \in DOMAIN <<x>> : <<x>>[i] = x
<1>1. <<x>> \in Seq({x}) /\ <<>> \in Seq({})
  OBVIOUS
<1>2. DOMAIN <<x>> = {1} /\ DOMAIN <<>> = {} /\ <<x>>[1] = x
  OBVIOUS
<1>3. IsSeq(<<x>>) /\ IsSeq(<<>>)
  BY <1>1 DEF IsSeq
<1> QED  BY <1>2, <1>3

\* x is an element of s whose header has been spoilt.
Spoilt(x, s) == \E j \in DOMAIN s : x = [s[j] EXCEPT !.hdr = "version"]

\* What a call leaves of a stream is made of its records, of which the first
\* may be spoilt.
LEMMA RestIs ==
  ASSUME NEW s, IsSeq(s), NEW used \in Nat, NEW held \in Nat, held <= used,
         NEW t, t = Rest(s, used, held)
  PROVE  IsSeq(t) /\ \A i \in DOMAIN t : Of(t[i], s) \/ Spoilt(t[i], s)
<1> DEFINE left == SubSeq(s, (used - held) \div 2 + 1, Len(s))
<1>1. From(left, s)
  <2>1. (used - held) \div 2 + 1 \in Nat \ {0} /\ Len(s) \in Int /\ Len(s) <= Len(s)
    BY SeqIs
  <2> QED  BY <2>1, PartFrom
<1>2. t = left \/ t = Damaged(left)
  BY DEF Rest
<1> HIDE DEF left
<1>3. CASE t = left
  BY <1>1, <1>3 DEF From
<1>4. CASE t = Damaged(left)
  <2>1. CASE left = <<>>
    <3>1. t = left
      BY <1>4, <2>1 DEF Damaged
    <3> QED  BY <1>3, <3>1
  <2>2. CASE left # <<>>
    <3> DEFINE x == [Head(left) EXCEPT !.hdr = "version"]
    <3>1. t = <<x>> \o Tail(left)
      BY <1>4, <2>2 DEF Damaged
    <3>2. IsSeq(left)
      BY <1>1 DEF From
    <3>3. From(Tail(left), left) /\ Of(Head(left), left)
      BY <2>2, <3>2, TailFrom
    <3>4. PICK j \in DOMAIN left : Head(left) = left[j]
      BY <3>3 DEF Of
    <3>5. Of(left[j], s)
      BY <1>1, <3>4 DEF From
    <3>6. Spoilt(x, s)
      <4>1. PICK i \in DOMAIN s : left[j] = s[i]
        BY <3>5 DEF Of
      <4>2. x = [s[i] EXCEPT !.hdr = "version"]
        BY <3>4, <4>1
      <4> QED  BY <4>2 DEF Spoilt
    <3> HIDE DEF x
    <3>7. PICK y, z : y = <<x>> /\ z = Tail(left)
      OBVIOUS
    <3>8. IsSeq(y) /\ IsSeq(z) /\ t = y \o z
      BY <3>1, <3>3, <3>7, OneIs DEF From
    <3>9. IsSeq(t) /\ \A i \in DOMAIN t : Of(t[i], y) \/ Of(t[i], z)
      BY <3>8, JoinedFrom
    <3>10. ASSUME NEW i \in DOMAIN t PROVE Of(t[i], s) \/ Spoilt(t[i], s)
      <4>1. CASE Of(t[i], y)
        <5>1. t[i] = x
          BY <3>7, <4>1, OneIs DEF Of
        <5> QED  BY <3>6, <5>1
      <4>2. CASE Of(t[i], z)
        <5>1. Of(t[i], left)
          BY <3>3, <3>7, <4>2 DEF Of, From
        <5> QED  BY <1>1, <5>1 DEF Of, From
      <4> QED  BY <3>9, <4>1, <4>2
    <3> QED  BY <3>9, <3>10
  <2> QED  BY <2>1, <2>2
<1> QED  BY <1>2, <1>3, <1>4

\* x is an element of s in another form.
Altered(x, s) == \E j \in DOMAIN s : x \in Changed(s[j])

\* A stream with one record replaced.
LEMMA ReplacedIs ==
  ASSUME NEW s, IsSeq(s), NEW i \in DOMAIN s, NEW x, NEW t, t = [s EXCEPT ![i] = x]
  PROVE  IsSeq(t) /\ DOMAIN t = DOMAIN s /\ t[i] = x /\ \A j \in DOMAIN s : j # i => t[j] = s[j]
<1>1. PICK T : s \in Seq(T)
  BY DEF IsSeq
<1>2. s \in Seq(T \cup {x}) /\ i \in 1 .. Len(s)
  BY <1>1
<1>3. t \in Seq(T \cup {x})
  BY <1>2
<1>4. IsSeq(t)
  BY <1>3 DEF IsSeq
<1> QED  BY <1>4

\* What the network makes of a stream consists of its records, or of other
\* forms of them.
LEMMA DisturbedIs ==
  ASSUME NEW s, IsSeq(s), NEW t \in Disturbances(s)
  PROVE  IsSeq(t) /\ \A i \in DOMAIN t : Of(t[i], s) \/ Altered(t[i], s)
<1>1. Len(s) \in Nat /\ DOMAIN s = 1 .. Len(s)
  BY SeqIs
<1>2. PICK i \in DOMAIN s :
        \/ t = RemoveAt(s, i)
        \/ t = InsertAt(s, i, s[i])
        \/ \E r \in Changed(s[i]) : t = [s EXCEPT ![i] = r]
        \/ i < Len(s) /\ t = [s EXCEPT ![i] = s[i + 1], ![i + 1] = s[i]]
  <2> HIDE DEF Changed, RemoveAt, InsertAt
  <2>1. PICK i \in DOMAIN s :
          t \in {RemoveAt(s, i), InsertAt(s, i, s[i])}
            \cup { [s EXCEPT ![i] = r] : r \in Changed(s[i]) }
            \cup (IF i < Len(s) THEN { [s EXCEPT ![i] = s[i + 1], ![i + 1] = s[i]] } ELSE {})
    BY DEF Disturbances
  <2> QED  BY <2>1
<1>3. i \in Nat /\ i - 1 \in Int /\ i - 1 <= Len(s) /\ i + 1 \in Nat \ {0} /\ 1 \in Nat \ {0}
      /\ i \in Nat \ {0} /\ Len(s) \in Int /\ Len(s) <= Len(s)
  BY <1>1
<1>4. From(SubSeq(s, 1, i - 1), s) /\ From(SubSeq(s, i, Len(s)), s) /\ From(SubSeq(s, i + 1, Len(s)), s)
  BY <1>3, PartFrom
<1>5. From(<<s[i]>>, s)
  <2>1. IsSeq(<<s[i]>>) /\ \A j \in DOMAIN <<s[i]>> : <<s[i]>>[j] = s[i]
    BY OneIs
  <2> QED  BY <2>1 DEF From, Of
<1>6. CASE t = RemoveAt(s, i)
  <2>1. PICK a, b : a = SubSeq(s, 1, i - 1) /\ b = SubSeq(s, i + 1, Len(s))
    OBVIOUS
  <2>2. t = a \o b
    BY <1>6, <2>1 DEF RemoveAt
  <2>3. From(t, s)
    BY <1>4, <2>1, <2>2, JoinedFromOne
  <2> QED  BY <2>3 DEF From
<1>7. CASE t = InsertAt(s, i, s[i])
  <2>1. PICK a, b, e : a = SubSeq(s, 1, i - 1) /\ b = SubSeq(s, i, Len(s)) /\ e = <<s[i]>>
    OBVIOUS
  <2>2. t = a \o e \o b
    BY <1>7, <2>1 DEF InsertAt
  <2>3. PICK f : f = a \o e
    OBVIOUS
  <2>4. From(f, s)
    BY <1>4, <1>5, <2>1, <2>3, JoinedFromOne
  <2>5. t = f \o b
    BY <2>2, <2>3
  <2>6. From(t, s)
    BY <1>4, <2>1, <2>4, <2>5, JoinedFromOne
  <2> QED  BY <2>6 DEF From
<1>8. ASSUME NEW r \in Changed(s[i]), t = [s EXCEPT ![i] = r]
      PROVE  IsSeq(t) /\ \A j \in DOMAIN t : Of(t[j], s) \/ Altered(t[j], s)
  <2>1. IsSeq(t) /\ DOMAIN t = DOMAIN s /\ t[i] = r /\ \A j \in DOMAIN s : j # i => t[j] = s[j]
    BY <1>8, ReplacedIs
  <2> QED  BY <2>1 DEF Of, Altered
<1>9. CASE i < Len(s) /\ t = [s EXCEPT ![i] = s[i + 1], ![i + 1] = s[i]]
  <2>1. i + 1 \in DOMAIN s
    BY <1>1, <1>3, <1>9
  <2>2. PICK u : u = [s EXCEPT ![i] = s[i + 1]]
    OBVIOUS
  <2>3. t = [u EXCEPT ![i + 1] = s[i]]
    BY <1>9, <2>2
  <2>4. IsSeq(u) /\ DOMAIN u = DOMAIN s /\ u[i] = s[i + 1] /\ \A j \in DOMAIN s : j # i => u[j] = s[j]
    BY <2>2, ReplacedIs
  <2>5. IsSeq(t) /\ DOMAIN t = DOMAIN u /\ t[i + 1] = s[i] /\ \A j \in DOMAIN u : j # i + 1 => t[j] = u[j]
    BY <2>1, <2>3, <2>4, ReplacedIs
  <2>6. ASSUME NEW j \in DOMAIN t PROVE Of(t[j], s)
    BY <2>1, <2>4, <2>5 DEF Of
  <2> QED  BY <2>5, <2>6
<1> QED  BY <1>2, <1>6, <1>7, <1>8, <1>9

\* What a change of a record leaves in it.
Kept(q, r) ==
  /\ DOMAIN q.m = DOMAIN r.m /\ q.m.type = r.m.type
  /\ "chain" \in DOMAIN r.m => q.m.chain = r.m.chain
  /\ "verdict" \in DOMAIN r.m => q.m.verdict = r.m.verdict
  /\ "pinned" \in DOMAIN r.m => q.m.pinned = r.m.pinned
  /\ "server_auth" \in DOMAIN r.m => q.m.server_auth = r.m.server_auth
  /\ "session_id" \in DOMAIN r.m => q.m.session_id \in {r.m.session_id, 0}
  /\ q.key # NoKey => q.key = r.key /\ q.m = r.m

\* A record whose message may have been changed, in no more than Disturb can
\* change.
Edited(q, r) ==
  DOMAIN q = RecordFields /\ q.hdr = r.hdr /\ ("type" \in DOMAIN r.m => Kept(q, r))

\* Another form of a record in the clear has the type and the certificates
\* that the record had, and a hello has its session's number or none; what
\* was protected has lost its key.
LEMMA ChangedIs ==
  ASSUME NEW r, DOMAIN r = RecordFields, r.hdr \in Headers, NEW q \in Changed(r)
  PROVE  /\ DOMAIN q = RecordFields /\ q.hdr \in Headers
         /\ q.hdr = "ok" => r.hdr = "ok" /\ ("type" \in DOMAIN r.m => Kept(q, r))
<1>1. \/ q = [r EXCEPT !.hdr = "version"]
      \/ q = [r EXCEPT !.hdr = "overflow"]
      \/ q = [r EXCEPT !.ct = "unknown"]
      \/ q = [r EXCEPT !.key = NoKey]
      \/ /\ r.key = NoKey
         /\ \/ \E f : q = [r EXCEPT !.m.fmt = f]
            \/ \E v : q = [r EXCEPT !.m.version = v]
            \/ q = [r EXCEPT !.m.cipher_suites = Tail(@)]
            \/ \E b : q = [r EXCEPT !.m.compression = b]
            \/ \E x : q = [r EXCEPT !.m.random = x]
            \/ q = [r EXCEPT !.m.session_id = 0]
            \/ \E x : q = [r EXCEPT !.m.cipher_suite = x]
            \/ \E x : q = [r EXCEPT !.m.dh.ys = x]
            \/ \E x : q = [r EXCEPT !.m.dh.p = x]
            \/ \E x : q = [r EXCEPT !.m.alg = x]
  BY DEF Changed
<1>2. CASE q = [r EXCEPT !.hdr = "version"] \/ q = [r EXCEPT !.hdr = "overflow"]
  BY <1>2 DEF RecordFields, Headers
<1>3. CASE q = [r EXCEPT !.ct = "unknown"]
  BY <1>3 DEF RecordFields, Headers, Kept
<1>4. CASE q = [r EXCEPT !.key = NoKey]
  BY <1>4 DEF RecordFields, Headers, Kept
<1>5. CASE r.key = NoKey
  <2>1. ASSUME NEW f, q = [r EXCEPT !.m.fmt = f]
       PROVE  Edited(q, r)
    BY <1>5, <2>1 DEF RecordFields, Edited, Kept
  <2>2. ASSUME NEW f, q = [r EXCEPT !.m.version = f]
       PROVE  Edited(q, r)
    BY <1>5, <2>2 DEF RecordFields, Edited, Kept
  <2>3. CASE q = [r EXCEPT !.m.cipher_suites = Tail(@)]
    <3>1. Edited(q, r)
      BY <1>5, <2>3 DEF RecordFields, Edited, Kept
    <3> QED  BY <1>5, <3>1 DEF Edited
  <2>4. ASSUME NEW f, q = [r EXCEPT !.m.compression = f]
       PROVE  Edited(q, r)
    BY <1>5, <2>4 DEF RecordFields, Edited, Kept
  <2>5. ASSUME NEW f, q = [r EXCEPT !.m.random = f]
       PROVE  Edited(q, r)
    BY <1>5, <2>5 DEF RecordFields, Edited, Kept
  <2>6. CASE q = [r EXCEPT !.m.session_id = 0]
    <3>1. Edited(q, r)
      BY <1>5, <2>6 DEF RecordFields, Edited, Kept
    <3> QED  BY <1>5, <3>1 DEF Edited
  <2>7. ASSUME NEW f, q = [r EXCEPT !.m.cipher_suite = f]
       PROVE  Edited(q, r)
    BY <1>5, <2>7 DEF RecordFields, Edited, Kept
  <2>8. ASSUME NEW f, q = [r EXCEPT !.m.dh.ys = f]
       PROVE  Edited(q, r)
    BY <1>5, <2>8 DEF RecordFields, Edited, Kept
  <2>9. ASSUME NEW f, q = [r EXCEPT !.m.dh.p = f]
       PROVE  Edited(q, r)
    BY <1>5, <2>9 DEF RecordFields, Edited, Kept
  <2>10. ASSUME NEW f, q = [r EXCEPT !.m.alg = f]
       PROVE  Edited(q, r)
    BY <1>5, <2>10 DEF RecordFields, Edited, Kept
  <2> QED  BY <1>1, <1>2, <1>3, <1>4, <1>5, <2>1, <2>2, <2>3, <2>4, <2>5, <2>6, <2>7, <2>8, <2>9, <2>10 DEF Edited
<1> QED  BY <1>1, <1>2, <1>3, <1>4, <1>5

\* All records of a stream.
ToServerAll(t, k) == IsSeq(t) /\ \A i \in DOMAIN t : ToServerOk(t[i], k)

\* And on its way to the client.
ToClientAll(t, s) == IsSeq(t) /\ \A i \in DOMAIN t : ToClientOk(t[i], s)

\* A record to the server that is true of the client is so in every other
\* form.
LEMMA AlteredToServer ==
  ASSUME NEW k, NEW r, ToServerOk(r, k), NEW q \in Changed(r)
  PROVE  ToServerOk(q, k)
<1>1. /\ DOMAIN q = RecordFields /\ q.hdr \in Headers
      /\ q.hdr = "ok" => r.hdr = "ok" /\ ("type" \in DOMAIN r.m => Kept(q, r))
  BY ChangedIs DEF ToServerOk
<1> QED  BY <1>1 DEF ToServerOk, Kept

\* A record to the client that is true of the server too.
LEMMA AlteredToClient ==
  ASSUME NEW s, NEW r, ToClientOk(r, s), NEW q \in Changed(r)
  PROVE  ToClientOk(q, s)
<1>1. /\ DOMAIN q = RecordFields /\ q.hdr \in Headers
      /\ q.hdr = "ok" => r.hdr = "ok" /\ ("type" \in DOMAIN r.m => Kept(q, r))
  BY ChangedIs DEF ToClientOk
<1> QED  BY <1>1 DEF ToClientOk, Kept

\* A record whose header is not that of a record is worth nothing.
LEMMA SpoiltIs ==
  ASSUME NEW r, DOMAIN r = RecordFields, NEW h \in Headers \ {"ok"}, NEW q, q = [r EXCEPT !.hdr = h]
  PROVE  DOMAIN q = RecordFields /\ q.hdr \in Headers /\ q.hdr # "ok"
  BY DEF RecordFields, Headers

\* So whatever the network and a call make of the stream to the server, its
\* records say what is true of the client.
LEMMA ToServerStays ==
  ASSUME NEW k, NEW t, ToServerAll(t, k), NEW u, IsSeq(u),
         \A i \in DOMAIN u : Of(u[i], t) \/ Spoilt(u[i], t) \/ Altered(u[i], t)
  PROVE  ToServerAll(u, k)
<1>1. ASSUME NEW i \in DOMAIN u PROVE ToServerOk(u[i], k)
  <2>1. CASE Of(u[i], t)
    BY <2>1 DEF Of, ToServerAll
  <2>2. CASE Spoilt(u[i], t)
    <3>1. PICK j \in DOMAIN t : u[i] = [t[j] EXCEPT !.hdr = "version"]
      BY <2>2 DEF Spoilt
    <3>2. DOMAIN t[j] = RecordFields /\ "version" \in Headers \ {"ok"}
      BY DEF ToServerAll, ToServerOk, Headers
    <3>3. DOMAIN u[i] = RecordFields /\ u[i].hdr \in Headers /\ u[i].hdr # "ok"
      BY <3>1, <3>2, SpoiltIs
    <3> QED  BY <3>3 DEF ToServerOk
  <2>3. CASE Altered(u[i], t)
    BY <2>3, AlteredToServer DEF Altered, ToServerAll
  <2> QED  BY <2>1, <2>2, <2>3
<1> QED  BY <1>1 DEF ToServerAll

\* And those of the stream to the client what is true of the server.
LEMMA ToClientStays ==
  ASSUME NEW s, NEW t, ToClientAll(t, s), NEW u, IsSeq(u),
         \A i \in DOMAIN u : Of(u[i], t) \/ Spoilt(u[i], t) \/ Altered(u[i], t)
  PROVE  ToClientAll(u, s)
<1>1. ASSUME NEW i \in DOMAIN u PROVE ToClientOk(u[i], s)
  <2>1. CASE Of(u[i], t)
    BY <2>1 DEF Of, ToClientAll
  <2>2. CASE Spoilt(u[i], t)
    <3>1. PICK j \in DOMAIN t : u[i] = [t[j] EXCEPT !.hdr = "version"]
      BY <2>2 DEF Spoilt
    <3>2. DOMAIN t[j] = RecordFields /\ "version" \in Headers \ {"ok"}
      BY DEF ToClientAll, ToClientOk, Headers
    <3>3. DOMAIN u[i] = RecordFields /\ u[i].hdr \in Headers /\ u[i].hdr # "ok"
      BY <3>1, <3>2, SpoiltIs
    <3> QED  BY <3>3 DEF ToClientOk
  <2>3. CASE Altered(u[i], t)
    BY <2>3, AlteredToClient DEF Altered, ToClientAll
  <2> QED  BY <2>1, <2>2, <2>3
<1> QED  BY <1>1 DEF ToClientAll

\* What the client sends comes after what is on its way.
LEMMA ToServerJoined ==
  ASSUME NEW k, NEW t, ToServerAll(t, k), NEW u, ToServerAll(u, k)
  PROVE  ToServerAll(t \o u, k)
<1>1. PICK v : v = t \o u
  OBVIOUS
<1>2. IsSeq(v) /\ \A i \in DOMAIN v : Of(v[i], t) \/ Of(v[i], u)
  BY <1>1, JoinedFrom DEF ToServerAll
<1>3. ToServerAll(v, k)
  BY <1>2 DEF ToServerAll, Of
<1> QED  BY <1>1, <1>3

\* So does what the server sends.
LEMMA ToClientJoined ==
  ASSUME NEW s, NEW t, ToClientAll(t, s), NEW u, ToClientAll(u, s)
  PROVE  ToClientAll(t \o u, s)
<1>1. PICK v : v = t \o u
  OBVIOUS
<1>2. IsSeq(v) /\ \A i \in DOMAIN v : Of(v[i], t) \/ Of(v[i], u)
  BY <1>1, JoinedFrom DEF ToClientAll
<1>3. ToClientAll(v, s)
  BY <1>2 DEF ToClientAll, Of
<1> QED  BY <1>1, <1>3

(***************************************************************************)
(* What one end does leaves the other one's knowledge true.                *)
(***************************************************************************)

\* What is needed of a step of the client, or of the server.
ClientGoes(k, k2) ==
  /\ IsClient(k) /\ IsClient(k2) /\ SameClient(k, k2) /\ ClientFrozen(k, k2)

\* What a call of a server leaves as it was, whichever it is.
ServerGoes(s, s2) ==
  /\ IsServer(s) /\ IsServer(s2) /\ SameServer(s, s2) /\ ServerFrozen(s, s2)

\* When the client has moved, the server still agrees with it and still knows
\* the same of its key.
LEMMA ServerGoesOnAccepting ==
  ASSUME NEW k, NEW k2, ClientGoes(k, k2), NEW s, ServerAccepts(s, k), ServerProof(s, k)
  PROVE  ServerAccepts(s, k2) /\ ServerProof(s, k2)
<1>1. Len(k.verify.log) \in Nat /\ k2.cred = k.cred
  BY AppendFacts DEF ClientGoes, IsClient, IsConnection, SameClient
<1>2. ASSUME ClientSent(k), Agree(k, s) PROVE ClientSent(k2) /\ Agree(k2, s)
  <2>1. ClientSent(k2) /\ ClientKeeps(k, k2) /\ Grown(k.verify.log, k2.verify.log)
    BY <1>2 DEF ClientGoes, ClientFrozen
  <2>2. Len(k.verify.log) >= 2
    BY <1>2 DEF ClientSent
  <2> QED  BY <1>1, <1>2, <2>1, <2>2, ClientAgreeMoves
<1>3. ServerAccepts(s, k2)
  BY <1>2 DEF ServerAccepts
<1>4. ServerProof(s, k2)
  BY <1>1 DEF ServerProof, HasCertificate, HasKey
<1> QED  BY <1>3, <1>4

\* When the client has moved, its records on their way are still true of it.
LEMMA ClientRecordsStay ==
  ASSUME NEW k, NEW k2, ClientGoes(k, k2), NEW r, ToServerOk(r, k)
  PROVE  ToServerOk(r, k2)
<1>1. Len(k.verify.log) \in Nat /\ k2.cred = k.cred
  BY AppendFacts DEF ClientGoes, IsClient, IsConnection, SameClient
<1>2. ASSUME ClientSent(k)
      PROVE  /\ ClientSent(k2) /\ k2.rl.write.key = k.rl.write.key /\ k2.master_secret = k.master_secret
             /\ k2.verify.log[1] = k.verify.log[1] /\ k2.verify.log[2] = k.verify.log[2]
  <2>1. ClientSent(k2) /\ SameKeys(k, k2) /\ Grown(k.verify.log, k2.verify.log)
        /\ k2.rl.write.key = k.rl.write.key
    BY <1>2 DEF ClientGoes, ClientFrozen, ClientKeeps
  <2>2. Len(k.verify.log) >= 2
    BY <1>2 DEF ClientSent
  <2>3. 1 \in 1 .. Len(k.verify.log) /\ 2 \in 1 .. Len(k.verify.log)
    BY <1>1, <2>2
  <2> QED  BY <2>1, <2>3 DEF SameKeys, Grown
<1> QED  BY <1>1, <1>2 DEF ToServerOk, ClientFinishes, SameHellos, HasCertificate, HasKey

\* When the server has moved, the client still agrees with it.
LEMMA ClientGoesOnAccepting ==
  ASSUME NEW s, NEW s2, ServerGoes(s, s2), NEW k, ClientStates(k), ClientAccepts(k, s)
  PROVE  ClientAccepts(k, s2)
<1>1. Len(s.verify.log) \in Nat
  BY AppendFacts DEF ServerGoes, IsServer, IsConnection
<1>2. ASSUME ServerSent(s), Agree(k, s)
      PROVE  ServerSent(s2) /\ Agree(k, s2) /\ (~s.use_session_ticket => ~s2.use_session_ticket)
  <2>1. /\ ServerSent(s2) /\ SameKeys(s, s2) /\ Grown(s.verify.log, s2.verify.log)
        /\ s2.server_random = s.server_random
    BY <1>2 DEF ServerGoes, ServerFrozen
  <2>2. s2.use_session_ticket = s.use_session_ticket
    BY <1>2, Zenon DEF ServerGoes, ServerFrozen
  <2>3. Len(s.verify.log) >= 2
    BY <1>2 DEF ServerSent
  <2>4. 1 \in 1 .. Len(s.verify.log) /\ 2 \in 1 .. Len(s.verify.log)
    BY <1>1, <2>3
  <2>5. Agree(k, s2)
    BY <1>2, <2>1, <2>4 DEF Agree, SameKeys, Grown
  <2> QED  BY <2>1, <2>2, <2>5
<1> QED  BY <1>2 DEF ClientAccepts

\* When the server has moved, its records on their way are still true of it.
LEMMA ServerRecordsStay ==
  ASSUME NEW s, NEW s2, ServerGoes(s, s2), NEW r, ToClientOk(r, s)
  PROVE  ToClientOk(r, s2)
<1>1. Len(s.verify.log) \in Nat /\ s2.round = s.round
  BY AppendFacts DEF ServerGoes, IsServer, IsConnection, SameServer
<1>2. ASSUME ServerSent(s)
      PROVE  /\ ServerSent(s2) /\ s2.rl.write.key = s.rl.write.key /\ s2.master_secret = s.master_secret
             /\ s2.verify.log[1] = s.verify.log[1] /\ s2.verify.log[2] = s.verify.log[2]
  <2>1. ServerSent(s2) /\ SameKeys(s, s2) /\ Grown(s.verify.log, s2.verify.log)
        /\ s2.rl.write.key = s.rl.write.key
    BY <1>2 DEF ServerGoes, ServerFrozen
  <2>2. Len(s.verify.log) >= 2
    BY <1>2 DEF ServerSent
  <2>3. 1 \in 1 .. Len(s.verify.log) /\ 2 \in 1 .. Len(s.verify.log)
    BY <1>1, <2>2
  <2> QED  BY <2>1, <2>3 DEF SameKeys, Grown
<1>3. ASSUME ServerSent(s) PROVE s2.use_session_ticket => s.use_session_ticket
  <2>1. s2.use_session_ticket = s.use_session_ticket
    BY <1>3, Zenon DEF ServerGoes, ServerFrozen
  <2> QED  BY <2>1
<1> QED  BY <1>1, <1>2, <1>3 DEF ToClientOk, ServerFinishes, SameHellos

(***************************************************************************)
(* The inductive invariant, as a relation of the two ends and the streams  *)
(***************************************************************************)
Consistent(k, s, up, down) ==
  /\ ClientIs(k) /\ IsServer(s) /\ k.round = s.round
  /\ k.out = <<>> /\ s.out = <<>>
  /\ k.partial_input \in Nat /\ (k.partial_input # 0 => down # <<>>)
  /\ ClientStates(k) /\ ServerStates(s)
  /\ ClientAccepts(k, s) /\ ServerAccepts(s, k) /\ ServerProof(s, k)
  /\ ToServerAll(up, k) /\ ToClientAll(down, s)

\* A step of the client after which k2 is left and c has been sent.
LEMMA ClientStep1 ==
  ASSUME NEW k, NEW s, NEW up, NEW down, Consistent(k, s, up, down),
         NEW c, ClientLeaves(k, s, c), NEW k2, ClientCounts(c, k2), k2.out = <<>>,
         k2.partial_input \in Nat,
         NEW out, IsSeq(out), \A i \in DOMAIN out : ToServerOk(out[i], c),
         NEW down2, IsSeq(down2),
         \A i \in DOMAIN down2 : Of(down2[i], down) \/ Spoilt(down2[i], down) \/ Altered(down2[i], down),
         k2.partial_input # 0 => down2 # <<>>
  PROVE  Consistent(k2, s, up \o out, down2)
<1>1. IsClient(k) /\ IsClient(c) /\ IsClient(k2) /\ SameClient(k, c) /\ SameClient(c, k2)
  BY DEF Consistent, ClientLeaves, ClientIs, ClientCounts
<1>2. ClientIs(k2) /\ ClientStates(k2) /\ ClientAccepts(k2, s) /\ ClientFrozen(c, k2)
  BY ClientCountsStates DEF ClientLeaves
<1>3. ClientGoes(k, c) /\ ClientGoes(c, k2)
  BY <1>1, <1>2 DEF ClientGoes, ClientLeaves
<1>4. ServerAccepts(s, k2) /\ ServerProof(s, k2)
  <2>1. ServerAccepts(s, c) /\ ServerProof(s, c)
    BY <1>3, ServerGoesOnAccepting DEF Consistent
  <2> QED  BY <1>3, <2>1, ServerGoesOnAccepting
<1>5. ToServerAll(up, k2) /\ ToServerAll(out, k2)
  BY <1>3, ClientRecordsStay DEF ToServerAll, Consistent
<1>6. ToServerAll(up \o out, k2)
  BY <1>5, ToServerJoined
<1>7. ToClientAll(down2, s)
  BY ToClientStays DEF Consistent
<1>8. k2.round = k.round
  BY <1>1 DEF SameClient
<1> QED  BY <1>2, <1>4, <1>6, <1>7, <1>8 DEF Consistent

\* A step of the server after which s2 is left and c has been sent.
LEMMA ServerStep1 ==
  ASSUME NEW k, NEW s, NEW up, NEW down, Consistent(k, s, up, down),
         NEW c, ServerLeaves(s, k, c), NEW s2, ServerCounts(c, s2), s2.out = <<>>,
         NEW out, IsSeq(out), \A i \in DOMAIN out : ToClientOk(out[i], c),
         NEW up2, IsSeq(up2),
         \A i \in DOMAIN up2 : Of(up2[i], up) \/ Spoilt(up2[i], up) \/ Altered(up2[i], up)
  PROVE  Consistent(k, s2, up2, down \o out)
<1>1. IsServer(s) /\ IsServer(c) /\ IsServer(s2) /\ SameServer(s, c) /\ SameServer(c, s2)
  BY DEF Consistent, ServerLeaves, ServerCounts
<1>2. ServerStates(s2) /\ ServerAccepts(s2, k) /\ ServerProof(s2, k) /\ ServerFrozen(c, s2)
  BY CountsStates DEF ServerLeaves
<1>3. ServerGoes(s, c) /\ ServerGoes(c, s2)
  BY <1>1, <1>2 DEF ServerGoes, ServerLeaves
<1>4. ClientAccepts(k, s2)
  <2>1. ClientAccepts(k, c)
    BY <1>3, ClientGoesOnAccepting DEF Consistent
  <2> QED  BY <1>3, <2>1, ClientGoesOnAccepting DEF Consistent
<1>5. ToClientAll(down, s2) /\ ToClientAll(out, s2)
  BY <1>3, ServerRecordsStay DEF ToClientAll, Consistent
<1>6. ToClientAll(down \o out, s2)
  BY <1>5, ToClientJoined
<1>7. ToServerAll(up2, k)
  BY ToServerStays DEF Consistent
<1>8. s2.round = s.round
  BY <1>1 DEF SameServer
<1>9. k.partial_input # 0 => down \o out # <<>>
  <2>1. PICK T, U : down \in Seq(T) /\ out \in Seq(U)
    BY DEF Consistent, ToClientAll, IsSeq
  <2>2. down \in Seq(T \cup U) /\ out \in Seq(T \cup U)
    BY <2>1
  <2>3. ASSUME down # <<>> PROVE down \o out # <<>>
    <3>1. Len(down) \in Nat /\ Len(out) \in Nat /\ Len(down) # 0
      BY <2>2, <2>3
    <3>2. Len(down \o out) = Len(down) + Len(out)
      BY <2>2
    <3>3. Len(<<>>) = 0
      OBVIOUS
    <3> QED  BY <3>1, <3>2, <3>3
  <2> QED  BY <2>3 DEF Consistent
<1>10. /\ ClientIs(k) /\ k.round = s.round /\ k.out = <<>> /\ k.partial_input \in Nat
       /\ ClientStates(k)
  BY DEF Consistent
<1>11. PICK v : v = down \o out
  OBVIOUS
<1>12. ToClientAll(v, s2) /\ (k.partial_input # 0 => v # <<>>)
  BY <1>6, <1>9, <1>11
<1>13. IsServer(s2) /\ k.round = s2.round
  BY <1>1, <1>8, <1>10
<1>14. Consistent(k, s2, up2, v)
  BY <1>2, <1>4, <1>7, <1>10, <1>12, <1>13 DEF Consistent
<1> QED  BY <1>11, <1>14

\* A call that holds back half a record leaves at least that record in the
\* stream.
LEMMA RestNotEmpty ==
  ASSUME NEW s, IsSeq(s), s # <<>>, NEW used \in Nat, NEW held \in Nat, held # 0, held <= used,
         used <= 2 * Len(s) \/ held = used
  PROVE  Rest(s, used, held) # <<>>
<1>1. Len(s) \in Nat /\ Len(s) > 0
  <2>1. PICK T : s \in Seq(T)
    BY DEF IsSeq
  <2> QED  BY <2>1
<1> DEFINE a == (used - held) \div 2 + 1
           t == SubSeq(s, a, Len(s))
<1>2. a \in Nat \ {0} /\ a <= Len(s)
  BY <1>1
<1>3. Rest(s, used, held) = t
  BY DEF Rest
<1> HIDE DEF a
<1>4. Len(t) = Len(s) - a + 1
  <2>1. PICK T : s \in Seq(T)
    BY DEF IsSeq
  <2>2. a \in 1 .. Len(s) /\ Len(s) \in 1 .. Len(s)
    BY <1>1, <1>2
  <2> QED  BY <1>2, <2>1, <2>2, SubSeqProperties
<1> HIDE DEF t
<1>5. Len(t) # 0
  BY <1>1, <1>2, <1>4
<1>6. Len(<<>>) = 0
  OBVIOUS
<1> QED  BY <1>3, <1>5, <1>6

(***************************************************************************)
(* Every step keeps the two ends consistent                                *)
(***************************************************************************)

\* The inductive invariant: each end is in a state that knows what it says,
\* each record on its way is one that its sender stands for, and an end that
\* has read a Finished agrees with the other one.
IInv == Consistent(client, server, toServer, toClient)

\* Emptying the output, and what else the client's user does to the
\* connection, changes nothing that matters.
LEMMA ClientLeftAlone ==
  ASSUME NEW c, IsClient(c),
         NEW d, d \in {[c EXCEPT !.out = <<>>, !.appl_data = NULL, !.fault = "none"],
                       [c EXCEPT !.out = <<>>], [c EXCEPT !.out = <<>>, !.fault = "none"]}
  PROVE  ClientCounts(c, d) /\ d.out = <<>> /\ d.partial_input = c.partial_input
<1>1. IsSeq(<<>>)
  BY OneIs
<1>2. CASE d = [c EXCEPT !.out = <<>>, !.appl_data = NULL, !.fault = "none"]
  BY <1>1, <1>2 DEF ClientCounts, SameKeys, SameHello, SameClient, IsClient,
       IsConnection, ClientFields, LayerFields, DirectionFields
<1>3. CASE d = [c EXCEPT !.out = <<>>]
  BY <1>1, <1>3 DEF ClientCounts, SameKeys, SameHello, SameClient, IsClient,
       IsConnection, ClientFields, LayerFields, DirectionFields
<1>4. CASE d = [c EXCEPT !.out = <<>>, !.fault = "none"]
  BY <1>1, <1>4 DEF ClientCounts, SameKeys, SameHello, SameClient, IsClient,
       IsConnection, ClientFields, LayerFields, DirectionFields
<1> QED  BY <1>2, <1>3, <1>4

\* So it is with the server's user.
LEMMA ServerLeftAlone ==
  ASSUME NEW c, IsServer(c),
         NEW d, d \in {[c EXCEPT !.out = <<>>], [c EXCEPT !.out = <<>>, !.fault = "none"]}
  PROVE  ServerCounts(c, d) /\ d.out = <<>>
<1>1. IsSeq(<<>>)
  BY OneIs
<1>2. CASE d = [c EXCEPT !.out = <<>>]
  BY <1>1, <1>2 DEF ServerCounts, SameKeys, SameServer, IsServer, IsConnection,
       ServerFields, LayerFields, DirectionFields
<1>3. CASE d = [c EXCEPT !.out = <<>>, !.fault = "none"]
  BY <1>1, <1>3 DEF ServerCounts, SameKeys, SameServer, IsServer, IsConnection,
       ServerFields, LayerFields, DirectionFields
<1> QED  BY <1>2, <1>3

\* Two ends that have not begun are consistent.
LEMMA InitConsistent ==
  Init => IInv
<1> SUFFICES ASSUME Init PROVE IInv
  OBVIOUS
<1>1. /\ scenario \in Scenarios
      /\ client = ClientOf(scenario) /\ server = ServerOf(scenario, 1)
      /\ toServer = <<>> /\ toClient = <<>>
  BY DEF Init
<1>2. ClientFresh(client, 1) /\ client.partial_input = 0
  BY <1>1, ClientOfIsFresh
<1>3. ServerFresh(server, 1)
  BY <1>1, ServerOfIsFresh
<1>4. ToServerAll(<<>>, client) /\ ToClientAll(<<>>, server)
  BY OneIs DEF ToServerAll, ToClientAll
<1>5. ClientAccepts(client, server) /\ ServerAccepts(server, client) /\ ServerProof(server, client)
  BY <1>2, <1>3 DEF ClientFresh, ServerFresh, ClientAccepts, ServerAccepts, ServerProof
<1> QED  BY <1>1, <1>2, <1>3, <1>4, <1>5 DEF IInv, Consistent, ClientFresh, ServerFresh

\* ClientHandshake keeps them so.
LEMMA ClientHandshakeConsistent ==
  ASSUME IInv, NEW fault, NEW n \in Nat, ClientHandshake(n, fault)
  PROVE  IInv'
<1>1. PICK c : c = C!tlsv1_client_handshake(client, fault, toClient, n)
  OBVIOUS
<1>2. /\ client' = [c EXCEPT !.out = <<>>, !.appl_data = NULL, !.fault = "none"]
      /\ toServer' = toServer \o c.out
      /\ toClient' = Rest(toClient, client.partial_input + n, c.partial_input)
      /\ server' = server
  <2> HIDE DEF Rest
  <2> QED  BY <1>1 DEF ClientHandshake
<1>3. IF client.state = "CLIENT_HELLO" THEN n = 0 ELSE n \in 1 .. 2 * Len(toClient) - client.partial_input
  BY DEF ClientHandshake
<1>4. /\ ClientIs(client) /\ ClientStates(client) /\ ClientAccepts(client, server)
      /\ client.round = server.round /\ client.partial_input \in Nat
      /\ IsSeq(toClient) /\ \A i \in DOMAIN toClient : ToClientOk(toClient[i], server)
      /\ client.partial_input # 0 => toClient # <<>>
  BY DEF IInv, Consistent, ToClientAll
<1>5. client.state = "CLIENT_HELLO" \/ client.partial_input + n <= 2 * Len(toClient)
  <2>1. Len(toClient) \in Nat
    BY <1>4, SeqIs
  <2> QED  BY <1>3, <1>4, <2>1
<1>6. /\ ClientLeaves(client, server, c)
      /\ c.partial_input \in Nat /\ c.partial_input <= client.partial_input + n
      /\ client.state = "CLIENT_HELLO" => c.partial_input = client.partial_input
  BY <1>1, <1>4, <1>5, ClientCall
<1>7. IsClient(c) /\ IsSeq(c.out) /\ \A i \in DOMAIN c.out : ToServerOk(c.out[i], c)
  BY <1>6 DEF ClientLeaves, ClientIs, IsClient, IsConnection
<1>8. ClientCounts(c, client') /\ client'.out = <<>> /\ client'.partial_input = c.partial_input
  BY <1>2, <1>7, ClientLeftAlone
<1>9. client.partial_input + n \in Nat
  BY <1>4
<1>10. /\ IsSeq(toClient')
       /\ \A i \in DOMAIN toClient' : Of(toClient'[i], toClient) \/ Spoilt(toClient'[i], toClient)
  BY <1>2, <1>4, <1>6, <1>9, RestIs
<1>11. ASSUME c.partial_input # 0 PROVE toClient' # <<>>
  <2>1. toClient # <<>>
    <3>1. CASE client.state = "CLIENT_HELLO"
      BY <1>4, <1>6, <1>11, <3>1
    <3>2. CASE client.state # "CLIENT_HELLO"
      <4>1. Len(toClient) # 0
        <5>1. Len(toClient) \in Nat
          BY <1>4, SeqIs
        <5> QED  BY <1>3, <1>4, <3>2, <5>1
      <4>2. Len(<<>>) = 0
        OBVIOUS
      <4> QED  BY <4>1, <4>2
    <3> QED  BY <3>1, <3>2
  <2>2. client.partial_input + n <= 2 * Len(toClient) \/ c.partial_input = client.partial_input + n
    BY <1>3, <1>4, <1>5, <1>6
  <2> QED  BY <1>2, <1>4, <1>6, <1>9, <1>11, <2>1, <2>2, RestNotEmpty
<1>12. Consistent(client, server, toServer, toClient)
  BY DEF IInv
<1>13. Consistent(client', server, toServer \o c.out, toClient')
  BY <1>6, <1>7, <1>8, <1>10, <1>11, <1>12, ClientStep1
<1> QED  BY <1>2, <1>13 DEF IInv

\* So does ServerHandshake.
LEMMA ServerHandshakeConsistent ==
  ASSUME IInv, NEW fault, NEW n \in Nat, ServerHandshake(n, fault)
  PROVE  IInv'
<1>1. PICK c : c = S!tlsv1_server_handshake(server, fault, toServer, n)
  OBVIOUS
<1>2. /\ server' = [c EXCEPT !.out = <<>>, !.fault = "none"]
      /\ toClient' = toClient \o c.out
      /\ toServer' = Rest(toServer, n, 0)
      /\ client' = client
      /\ n \in 0 .. 2 * Len(toServer)
  <2> HIDE DEF Rest
  <2> QED  BY <1>1 DEF ServerHandshake
<1>3. /\ IsServer(server) /\ ServerStates(server) /\ ServerAccepts(server, client)
      /\ ServerProof(server, client) /\ server.out = <<>>
      /\ IsSeq(toServer) /\ \A i \in DOMAIN toServer : ToServerOk(toServer[i], client)
  BY DEF IInv, Consistent, ToServerAll
<1>4. ServerLeaves(server, client, c)
  BY <1>1, <1>2, <1>3, ServerCall
<1>5. IsServer(c) /\ IsSeq(c.out) /\ \A i \in DOMAIN c.out : ToClientOk(c.out[i], c)
  BY <1>4 DEF ServerLeaves, IsServer, IsConnection
<1>6. ServerCounts(c, server') /\ server'.out = <<>>
  BY <1>2, <1>5, ServerLeftAlone
<1>7. /\ IsSeq(toServer')
      /\ \A i \in DOMAIN toServer' : Of(toServer'[i], toServer) \/ Spoilt(toServer'[i], toServer)
  <2>1. 0 <= n
    OBVIOUS
  <2> QED  BY <1>2, <1>3, <2>1, RestIs
<1>8. Consistent(client, server, toServer, toClient)
  BY DEF IInv
<1>9. Consistent(client, server', toServer', toClient \o c.out)
  BY <1>4, <1>5, <1>6, <1>7, <1>8, ServerStep1
<1> QED  BY <1>2, <1>9 DEF IInv

\* So does ClientEncrypt.
LEMMA ClientEncryptConsistent ==
  ASSUME IInv, ClientEncrypt
  PROVE  IInv'
<1>1. PICK c : c = C!tlsv1_client_encrypt(client, Data(Len(sent.c) + 1))
  OBVIOUS
<1>2. /\ client' = [c EXCEPT !.out = <<>>] /\ toServer' = toServer \o c.out
      /\ toClient' = toClient /\ server' = server /\ client.state = "ESTABLISHED"
  BY <1>1 DEF ClientEncrypt, C!tlsv1_client_established
<1>3. /\ ClientIs(client) /\ ClientStates(client) /\ ClientAccepts(client, server)
      /\ client.partial_input \in Nat /\ IsSeq(toClient)
      /\ client.partial_input # 0 => toClient # <<>>
  BY DEF IInv, Consistent, ToClientAll
<1>4. ClientLeaves(client, server, c) /\ c.partial_input = client.partial_input
  BY <1>1, <1>2, <1>3, ClientEncryptLeaves
<1>5. IsClient(c) /\ IsSeq(c.out) /\ \A i \in DOMAIN c.out : ToServerOk(c.out[i], c)
  BY <1>4 DEF ClientLeaves, ClientIs, IsClient, IsConnection
<1>6. ClientCounts(c, client') /\ client'.out = <<>> /\ client'.partial_input = client.partial_input
  BY <1>2, <1>4, <1>5, ClientLeftAlone
<1>7. \A i \in DOMAIN toClient : Of(toClient[i], toClient)
  BY DEF Of
<1>8. Consistent(client, server, toServer, toClient)
  BY DEF IInv
<1>9. Consistent(client', server, toServer \o c.out, toClient)
  BY <1>3, <1>4, <1>5, <1>6, <1>7, <1>8, ClientStep1
<1> QED  BY <1>2, <1>9 DEF IInv

\* So does ServerEncrypt.
LEMMA ServerEncryptConsistent ==
  ASSUME IInv, ServerEncrypt
  PROVE  IInv'
<1>1. PICK c : c = S!tlsv1_server_encrypt(server, Data(Len(sent.s) + 1))
  OBVIOUS
<1>2. /\ server' = [c EXCEPT !.out = <<>>] /\ toClient' = toClient \o c.out
      /\ toServer' = toServer /\ client' = client /\ server.state = "ESTABLISHED"
  BY <1>1 DEF ServerEncrypt, S!tlsv1_server_established
<1>3. /\ IsServer(server) /\ ServerStates(server) /\ ServerAccepts(server, client)
      /\ ServerProof(server, client) /\ IsSeq(toServer)
  BY DEF IInv, Consistent, ToServerAll
<1>4. ServerLeaves(server, client, c)
  BY <1>1, <1>2, <1>3, ServerEncryptLeaves
<1>5. IsServer(c) /\ IsSeq(c.out) /\ \A i \in DOMAIN c.out : ToClientOk(c.out[i], c)
  BY <1>4 DEF ServerLeaves, IsServer, IsConnection
<1>6. ServerCounts(c, server') /\ server'.out = <<>>
  BY <1>2, <1>5, ServerLeftAlone
<1>7. \A i \in DOMAIN toServer : Of(toServer[i], toServer)
  BY DEF Of
<1>8. Consistent(client, server, toServer, toClient)
  BY DEF IInv
<1>9. Consistent(client, server', toServer, toClient \o c.out)
  BY <1>3, <1>4, <1>5, <1>6, <1>7, <1>8, ServerStep1
<1> QED  BY <1>2, <1>9 DEF IInv

\* Who only counts sends nothing.
LEMMA JoinedNothing ==
  ASSUME NEW s, IsSeq(s)
  PROVE  s \o <<>> = s
<1>1. PICK T : s \in Seq(T)
  BY DEF IsSeq
<1> QED  BY <1>1

\* So does ClientDecrypt, which sends nothing.
LEMMA ClientDecryptConsistent ==
  ASSUME IInv, NEW fault, NEW n \in Nat, ClientDecrypt(n, fault)
  PROVE  IInv'
<1>1. PICK c : c = C!tlsv1_client_decrypt(client, fault, toClient, n)
  OBVIOUS
<1>2. /\ client' = [c EXCEPT !.out = <<>>, !.fault = "none"]
      /\ toClient' = Rest(toClient, client.partial_input + n, c.partial_input)
      /\ toServer' = toServer /\ server' = server
      /\ n \in 1 .. 2 * Len(toClient) - client.partial_input
  <2> HIDE DEF Rest
  <2> QED  BY <1>1 DEF ClientDecrypt
<1>3. /\ ClientIs(client) /\ ClientStates(client) /\ ClientAccepts(client, server)
      /\ client.partial_input \in Nat /\ IsSeq(toClient) /\ IsSeq(toServer)
      /\ client.out = <<>> /\ IsClient(client)
  BY DEF IInv, Consistent, ToClientAll, ToServerAll, ClientIs
<1>4. Len(toClient) \in Nat
  BY <1>3, SeqIs
<1>5. client.partial_input + n <= 2 * Len(toClient) /\ client.partial_input + n \in Nat /\ Len(toClient) # 0
  BY <1>2, <1>3, <1>4
<1>6. ClientCounts(client, c) /\ c.partial_input \in Nat /\ c.partial_input <= client.partial_input + n
  BY <1>1, <1>3, <1>5, ClientDecryptLeaves
<1>7. ClientCounts(c, client') /\ client'.out = <<>> /\ client'.partial_input = c.partial_input
  <2>1. IsClient(c)
    BY <1>6 DEF ClientCounts
  <2> QED  BY <1>2, <2>1, ClientLeftAlone
<1>8. ClientCounts(client, client')
  BY <1>6, <1>7, ClientCountsFurther
<1>9. ClientLeaves(client, server, client)
  <2>1. ClientCounts(client, client)
    BY <1>3, ClientCountsNothing
  <2>2. ClientFrozen(client, client)
    BY <1>3, <2>1, ClientCountsStates
  <2>3. SameClient(client, client) /\ DOMAIN client.out = {}
    BY <1>3, OneIs DEF SameClient
  <2> QED  BY <1>3, <2>2, <2>3 DEF ClientLeaves
<1>10. /\ IsSeq(toClient')
       /\ \A i \in DOMAIN toClient' : Of(toClient'[i], toClient) \/ Spoilt(toClient'[i], toClient)
  BY <1>2, <1>3, <1>5, <1>6, RestIs
<1>11. toClient # <<>>
  <2>1. Len(<<>>) = 0
    OBVIOUS
  <2> QED  BY <1>5, <2>1
<1>12. c.partial_input # 0 => toClient' # <<>>
  BY <1>2, <1>3, <1>5, <1>6, <1>11, RestNotEmpty
<1>13. IsSeq(<<>>) /\ \A i \in DOMAIN <<>> : ToServerOk(<<>>[i], client)
  BY OneIs
<1>14. Consistent(client, server, toServer, toClient)
  BY DEF IInv
<1>15. Consistent(client', server, toServer \o <<>>, toClient')
  BY <1>6, <1>7, <1>8, <1>9, <1>10, <1>12, <1>13, <1>14, ClientStep1
<1>16. toServer \o <<>> = toServer
  BY <1>3, JoinedNothing
<1> QED  BY <1>2, <1>15, <1>16 DEF IInv

\* So does ServerDecrypt, with either value of the alert that nobody set.
LEMMA ServerDecryptConsistent ==
  ASSUME IInv, NEW n \in Nat, ServerDecrypt(n)
  PROVE  IInv'
<1>1. PICK uninitialized \in {"CLOSE_NOTIFY", "INTERNAL_ERROR"} :
        /\ server' = [S!tlsv1_server_decrypt(server, toServer, n, uninitialized) EXCEPT !.out = <<>>]
        /\ toServer' = Rest(toServer, n, 0)
  <2> HIDE DEF Rest
  <2> QED  BY DEF ServerDecrypt
<1>2. client' = client /\ toClient' = toClient /\ n \in 1 .. 2 * Len(toServer)
  BY DEF ServerDecrypt
<1>3. /\ IsServer(server) /\ ServerStates(server) /\ ServerAccepts(server, client)
      /\ ServerProof(server, client) /\ IsSeq(toServer) /\ IsSeq(toClient) /\ server.out = <<>>
  BY DEF IInv, Consistent, ToServerAll, ToClientAll
<1>4. PICK c : c = S!tlsv1_server_decrypt(server, toServer, n, uninitialized)
  OBVIOUS
<1>5. server' = [c EXCEPT !.out = <<>>]
  BY <1>1, <1>4
<1>6. ServerCounts(server, server')
  BY <1>2, <1>3, <1>4, <1>5, ServerDecryptLeaves
<1>7. server'.out = <<>>
  <2>1. "out" \in DOMAIN server'
    BY <1>6 DEF ServerCounts, IsServer, IsConnection, ServerFields
  <2> QED  BY <1>5, <2>1
<1>8. ServerLeaves(server, client, server)
  <2>1. SameServer(server, server) /\ SameKeys(server, server) /\ DOMAIN server.out = {}
    BY <1>3, OneIs DEF SameServer, SameKeys
  <2>2. ServerFrozen(server, server)
    BY <1>3, <2>1, FrozenFails
  <2> QED  BY <1>3, <2>1, <2>2 DEF ServerLeaves
<1>9. /\ IsSeq(toServer')
      /\ \A i \in DOMAIN toServer' : Of(toServer'[i], toServer) \/ Spoilt(toServer'[i], toServer)
  <2>1. 0 <= n
    OBVIOUS
  <2> QED  BY <1>1, <1>3, <2>1, RestIs
<1>10. IsSeq(<<>>) /\ \A i \in DOMAIN <<>> : ToClientOk(<<>>[i], server)
  BY OneIs
<1>11. Consistent(client, server, toServer, toClient)
  BY DEF IInv
<1>12. Consistent(client, server', toServer', toClient \o <<>>)
  BY <1>6, <1>7, <1>8, <1>9, <1>10, <1>11, ServerStep1
<1>13. toClient \o <<>> = toClient
  BY <1>3, JoinedNothing
<1> QED  BY <1>2, <1>12, <1>13 DEF IInv

\* So does Reconnect: two ends that have not begun again, and in the stream
\* at most the half record that completes to noise.
LEMMA ReconnectConsistent ==
  ASSUME IInv, Reconnect
  PROVE  IInv'
<1>1. /\ client' = C!tlsv1_client_shutdown(client)
      /\ \/ server' = ServerOf(scenario, server.round + 1)
         \/ server' = S!tlsv1_server_shutdown(server)
      /\ toServer' = <<>>
      /\ toClient' = IF client.partial_input = 0 THEN <<>> ELSE << [Head(toClient) EXCEPT !.hdr = "stale"] >>
  BY DEF Reconnect
<1>2. /\ ClientIs(client) /\ client.out = <<>> /\ IsServer(server) /\ server.out = <<>>
      /\ client.round = server.round /\ client.partial_input \in Nat
      /\ client.partial_input # 0 => toClient # <<>>
      /\ ToClientAll(toClient, server)
  BY DEF IInv, Consistent
<1>3. ClientFresh(client', client.round + 1) /\ client'.partial_input = client.partial_input
  BY <1>1, <1>2, ClientShutdownIsFresh
<1>4. ServerFresh(server', client.round + 1)
  <2>1. CASE server' = ServerOf(scenario, server.round + 1)
    BY <1>2, <2>1, ServerOfIsFresh
  <2>2. CASE server' = S!tlsv1_server_shutdown(server)
    BY <1>2, <2>2, ServerShutdownIsFresh
  <2> QED  BY <1>1, <2>1, <2>2
<1>5. ToServerAll(toServer', client')
  BY <1>1, OneIs DEF ToServerAll
<1>6. ToClientAll(toClient', server') /\ (client.partial_input # 0 => toClient' # <<>>)
  <2>1. CASE client.partial_input = 0
    <3>1. toClient' = <<>>
      BY <1>1, <2>1
    <3> QED  BY <2>1, <3>1, OneIs DEF ToClientAll
  <2>2. CASE client.partial_input # 0
    <3> DEFINE x == [Head(toClient) EXCEPT !.hdr = "stale"]
    <3>1. toClient' = <<x>>
      BY <1>1, <2>2
    <3>2. IsSeq(toClient) /\ toClient # <<>>
      BY <1>2, <2>2 DEF ToClientAll
    <3>3. PICK j \in DOMAIN toClient : Head(toClient) = toClient[j]
      BY <3>2, TailFrom DEF Of
    <3>4. DOMAIN toClient[j] = RecordFields
      BY <1>2 DEF ToClientAll, ToClientOk
    <3>5. DOMAIN Head(toClient) = RecordFields /\ "stale" \in Headers \ {"ok"}
      BY <3>3, <3>4 DEF Headers
    <3>6. DOMAIN x = RecordFields /\ x.hdr \in Headers /\ x.hdr # "ok"
      BY <3>5, SpoiltIs
    <3> HIDE DEF x
    <3>7. ToClientOk(x, server')
      BY <3>6 DEF ToClientOk
    <3>8. <<x>> # <<>>
      OBVIOUS
    <3> QED  BY <3>1, <3>7, <3>8, OneIs DEF ToClientAll
  <2> QED  BY <2>1, <2>2
<1>7. ClientAccepts(client', server') /\ ServerAccepts(server', client') /\ ServerProof(server', client')
  BY <1>3, <1>4 DEF ClientFresh, ServerFresh, ClientAccepts, ServerAccepts, ServerProof
<1> QED  BY <1>2, <1>3, <1>4, <1>5, <1>6, <1>7 DEF IInv, Consistent, ClientFresh, ServerFresh

\* So does the network, which changes the streams and neither end.
LEMMA DisturbConsistent ==
  ASSUME IInv, Disturb
  PROVE  IInv'
<1>1. /\ client' = client /\ server' = server
      /\ \/ client.partial_input = 0 /\ toClient' \in Disturbances(toClient) /\ toServer' = toServer
         \/ toServer' \in Disturbances(toServer) /\ toClient' = toClient
  <2> HIDE DEF Disturbances
  <2> QED  BY DEF Disturb
<1>2. ToServerAll(toServer, client) /\ ToClientAll(toClient, server)
  BY DEF IInv, Consistent
<1>3. IsSeq(toServer) /\ IsSeq(toClient)
  BY <1>2 DEF ToServerAll, ToClientAll
<1>4. CASE client.partial_input = 0 /\ toClient' \in Disturbances(toClient) /\ toServer' = toServer
  <2>1. IsSeq(toClient') /\ \A i \in DOMAIN toClient' : Of(toClient'[i], toClient) \/ Altered(toClient'[i], toClient)
    BY <1>3, <1>4, DisturbedIs
  <2>2. ToClientAll(toClient', server)
    BY <1>2, <2>1, ToClientStays
  <2> QED  BY <1>1, <1>4, <2>2 DEF IInv, Consistent
<1>5. CASE toServer' \in Disturbances(toServer) /\ toClient' = toClient
  <2>1. IsSeq(toServer') /\ \A i \in DOMAIN toServer' : Of(toServer'[i], toServer) \/ Altered(toServer'[i], toServer)
    BY <1>3, <1>5, DisturbedIs
  <2>2. ToServerAll(toServer', client)
    BY <1>2, <2>1, ToServerStays
  <2> QED  BY <1>1, <1>5, <2>2 DEF IInv, Consistent
<1> QED  BY <1>1, <1>4, <1>5

\* So does every step.
LEMMA NextConsistent ==
  ASSUME IInv, [Next]_vars
  PROVE  IInv'
<1>1. Halves \subseteq Nat
  <2>1. IsSeq(toClient) /\ IsSeq(toServer)
    BY DEF IInv, Consistent, ToClientAll, ToServerAll
  <2>2. Len(toClient) \in Nat /\ Len(toServer) \in Nat
    BY <2>1, SeqIs
  <2> QED  BY <2>2 DEF Halves
<1>2. ASSUME NEW fault \in scenario.faults, NEW n \in Halves, ClientHandshake(n, fault) PROVE IInv'
  BY <1>1, <1>2, ClientHandshakeConsistent
<1>3. ASSUME NEW fault \in scenario.faults, NEW n \in Halves, ServerHandshake(n, fault) PROVE IInv'
  BY <1>1, <1>3, ServerHandshakeConsistent
<1>4. CASE ClientEncrypt
  BY <1>4, ClientEncryptConsistent
<1>5. CASE ServerEncrypt
  BY <1>5, ServerEncryptConsistent
<1>6. ASSUME NEW fault \in scenario.faults \ {"input", "random", "crypto"}, NEW n \in Halves,
             ClientDecrypt(n, fault)
      PROVE  IInv'
  BY <1>1, <1>6, ClientDecryptConsistent
<1>7. ASSUME NEW n \in Halves, ServerDecrypt(n) PROVE IInv'
  BY <1>1, <1>7, ServerDecryptConsistent
<1>8. CASE Reconnect
  BY <1>8, ReconnectConsistent
<1>9. CASE Disturb
  BY <1>9, DisturbConsistent
<1>10. CASE UNCHANGED vars
  BY <1>10 DEF IInv, vars
<1> QED  BY <1>2, <1>3, <1>4, <1>5, <1>6, <1>7, <1>8, <1>9, <1>10 DEF Next

\* In every reachable state the two ends and the records on their way are
\* consistent: each end knows what its state says; an end whose state says
\* that it has taken the other one's Finished agrees with it about the
\* hellos, the secrets, the suite and the version; and a record that is
\* protected comes from an end that has sent its Finished and still has the
\* key.
THEOREM SpecConsistent ==
  Spec => []IInv
<1>1. Init => IInv
  BY InitConsistent
<1>2. IInv /\ [Next]_vars => IInv'
  BY NextConsistent
<1> QED  BY <1>1, <1>2, PTL DEF Spec

\* A server that asks for a certificate (tlsv1_server_set_verify()) completes
\* the handshake only with a client that sent one and proved by its
\* CertificateVerify that it has the key, however the messages are disturbed
\* and whatever fails.
THEOREM SpecClientIsAuthenticated ==
  Spec => []ClientIsAuthenticated
<1>1. IInv => ClientIsAuthenticated
  <2> SUFFICES ASSUME IInv, S!tlsv1_server_established(server), server.verify_peer, ~server.use_session_ticket
               PROVE  /\ client.cred # NULL /\ client.cred.cert /\ client.cred.key
                      /\ server.client_rsa_key = "client_key"
                      /\ "cert" \notin server.verify.open
    BY DEF ClientIsAuthenticated
  <2>1. server.state = "ESTABLISHED"
    BY DEF S!tlsv1_server_established
  <2>2. ServerProof(server, client)
    BY DEF IInv, Consistent
  <2> QED  BY <2>1, <2>2 DEF ServerProof, HasCertificate, HasKey
<1> QED  BY <1>1, SpecConsistent, PTL

\* A client completes the handshake only with the suite that the server
\* prefers of all the client offers, and with the highest version of both: a
\* hello that somebody changed on its way never gets past the Finished.
THEOREM SpecNoDowngrade ==
  Spec => []NoDowngrade
<1>1. IInv => NoDowngrade
  <2> SUFFICES ASSUME IInv, C!tlsv1_client_established(client)
               PROVE  /\ client.rl.suite = S!ChosenSuite(server, client.cipher_suites)
                      /\ client.rl.version = S!NegotiatedVersion(C!tls_client_highest_ver(client.flags))
    BY DEF NoDowngrade
  <2>1. client.state = "ESTABLISHED"
    BY DEF C!tlsv1_client_established
  <2>2. ServerSent(server) /\ Agree(client, server)
    BY <2>1 DEF IInv, Consistent, ClientAccepts
  <2>3. ClientSaid(client)
    BY <2>1 DEF IInv, Consistent, ClientStates, ClientKnows
  <2>4. ServerHeard(server)
    BY <2>2 DEF ServerSent
  <2> QED  BY <2>2, <2>3, <2>4 DEF Agree, ClientSaid, ServerHeard
<1> QED  BY <1>1, SpecConsistent, PTL

\* A client that believes the handshake is over has the version, the suite,
\* the secret, the random numbers and both keys of the server, and the server
\* has sent its Finished.
THEOREM SpecClientAgrees ==
  Spec => []ClientAgrees
<1>1. IInv => ClientAgrees
  <2> SUFFICES ASSUME IInv, C!tlsv1_client_established(client)
               PROVE  /\ SameSession
                      /\ server.state \in {"ESTABLISHED", "FAILED"}
                           \cup IF client.use_session_ticket
                                THEN {"CHANGE_CIPHER_SPEC", "CLIENT_FINISHED"} ELSE {}
    BY DEF ClientAgrees
  <2>1. client.state = "ESTABLISHED" /\ ClientStates(client) /\ ClientAccepts(client, server)
    BY DEF C!tlsv1_client_established, IInv, Consistent
  <2>2. /\ ServerSent(server) /\ Agree(client, server)
        /\ ~client.use_session_ticket => ~server.use_session_ticket
    BY <2>1 DEF ClientAccepts
  <2>3. /\ ClientKeyed(client) /\ client.rl.write.key = client.rl.wkey
        /\ client.rl.read.key = client.rl.rkey
    BY <2>1 DEF ClientStates, ClientKnows
  <2>4. ServerKeyed(server) /\ server.rl.write.key = server.rl.wkey
    BY <2>2 DEF ServerSent
  <2>5. Block(client) = Block(server)
    BY <2>2 DEF Agree, Block
  <2>6. /\ client.rl.write.key = server.rl.rkey /\ client.rl.read.key = server.rl.write.key
        /\ client.rl.write.key # NoKey /\ client.rl.read.key # NoKey
    BY <2>3, <2>4, <2>5 DEF ClientKeyed, ServerKeyed, NoKey
  <2>7. /\ server.state \in {"CHANGE_CIPHER_SPEC", "CLIENT_FINISHED", "ESTABLISHED", "FAILED"}
        /\ server.state \in {"CHANGE_CIPHER_SPEC", "CLIENT_FINISHED"} => server.use_session_ticket
    BY <2>2 DEF ServerSent
  <2>8. C!tlsv1_client_get_random(client) = S!tlsv1_server_get_random(server)
    <3>1. client.client_random = server.client_random /\ client.server_random = server.server_random
      BY <2>2 DEF Agree
    <3>2. server.state \notin {"CLIENT_HELLO", "SERVER_HELLO"}
      BY <2>7
    <3> QED  BY <2>1, <3>1, <3>2 DEF C!tlsv1_client_get_random, S!tlsv1_server_get_random
  <2>9. SameSession
    BY <2>2, <2>6, <2>8 DEF SameSession, Agree
  <2> QED  BY <2>2, <2>7, <2>9
<1> QED  BY <1>1, SpecConsistent, PTL

\* A server that believes the handshake is over has the version, the suite
\* and the secret of a client that has sent its Finished, and both export the
\* same keys.
THEOREM SpecServerAgrees ==
  Spec => []ServerAgrees
<1>1. IInv => ServerAgrees
  <2> SUFFICES ASSUME IInv, S!tlsv1_server_established(server)
               PROVE  /\ client.state \in {"SERVER_CHANGE_CIPHER_SPEC", "SERVER_FINISHED", "ACK_FINISHED",
                                           "ESTABLISHED", "FAILED"}
                      /\ client.master_secret = server.master_secret
                      /\ client.rl.suite = server.rl.suite
                      /\ client.rl.version = server.rl.version
                      /\ C!tlsv1_client_established(client) =>
                           C!tlsv1_client_prf(client, "key") = S!tlsv1_server_prf(server, "key")
    BY DEF ServerAgrees
  <2>1. server.state = "ESTABLISHED"
    BY DEF S!tlsv1_server_established
  <2>2. ClientSent(client) /\ Agree(client, server)
    BY <2>1 DEF IInv, Consistent, ServerAccepts
  <2>3. ASSUME C!tlsv1_client_established(client)
        PROVE  C!tlsv1_client_prf(client, "key") = S!tlsv1_server_prf(server, "key")
    <3>1. client.state = "ESTABLISHED"
      BY <2>3 DEF C!tlsv1_client_established
    <3> QED  BY <2>1, <2>2, <3>1 DEF C!tlsv1_client_prf, S!tlsv1_server_prf, Agree, C!tls_prf, S!tls_prf
  <2> QED  BY <2>2, <2>3 DEF ClientSent, Agree
<1> QED  BY <1>1, SpecConsistent, PTL

(***************************************************************************)
(* What the server shows of its certificate                                *)
(***************************************************************************)

\* Of a server's certificate a record shows what the server's credentials
\* say, when it can be read.
Shows(r, cred) ==
  r.hdr = "ok" /\ r.m.type = "certificate" =>
    /\ {"chain", "verdict", "pinned", "server_auth"} \subseteq DOMAIN r.m
    /\ r.m.chain = cred.chain /\ r.m.verdict = cred.verdict
    /\ r.m.pinned = cred.pinned /\ r.m.server_auth = cred.server_auth

\* Every record of a stream does.
ShowsAll(t, cred) == \A i \in DOMAIN t : Shows(t[i], cred)

\* A function of the server keeps its credentials, and sends no certificate
\* but the one in them.
ShowsOn(c, d) ==
  IsServer(d) /\ d.cred = c.cred /\ (ShowsAll(c.out, c.cred) => ShowsAll(d.out, d.cred))

\* A stream in which every certificate is the server's stays one when a
\* record is added that shows no other.
LEMMA ShowsAppended ==
  ASSUME NEW s, IsSeq(s), NEW cred, ShowsAll(s, cred), NEW r, Shows(r, cred)
  PROVE  ShowsAll(Append(s, r), cred)
<1>1. /\ Len(s) \in Nat /\ DOMAIN Append(s, r) = 1 .. Len(s) + 1 /\ DOMAIN s = 1 .. Len(s)
      /\ \A i \in 1 .. Len(s) : Append(s, r)[i] = s[i]
      /\ Append(s, r)[Len(s) + 1] = r
  BY AppendFacts, SeqIs
<1> QED  BY <1>1 DEF ShowsAll

\* One part of a call after another.
LEMMA ShowsOnFurther ==
  ASSUME NEW c, NEW d, NEW e, ShowsOn(c, d), ShowsOn(d, e)
  PROVE  ShowsOn(c, e)
BY DEF ShowsOn

\* What sends nothing shows nothing.
LEMMA ShowsOnSame ==
  ASSUME NEW c, NEW d, IsServer(d), d.cred = c.cred, d.out = c.out
  PROVE  ShowsOn(c, d)
BY DEF ShowsOn

\* tlsv1_record_send() adds one record to the output.
LEMMA SendShows ==
  ASSUME NEW c, IsServer(c), NEW ct, NEW m, Shows([hdr |-> "ok", m |-> m], c.cred),
         NEW d, IsServer(d), d.cred = c.cred, d.out = Append(c.out, S!Record(c.rl, ct, m))
  PROVE  ShowsOn(c, d)
<1> DEFINE r == S!Record(c.rl, ct, m)
<1>1. Shows(r, c.cred)
  <2>1. r.hdr = "ok" /\ r.m = m
    BY DEF S!Record
  <2> HIDE DEF r
  <2> QED  BY <2>1 DEF Shows
<1>2. IsSeq(c.out)
  BY DEF IsServer, IsConnection
<1> HIDE DEF r
<1>3. ShowsAll(c.out, c.cred) => ShowsAll(Append(c.out, r), c.cred)
  BY <1>1, <1>2, ShowsAppended
<1> QED  BY <1>3 DEF ShowsOn, r

\* So does the sending of a handshake message.
LEMMA HandshakeShows ==
  ASSUME NEW c, IsServer(c), NEW m, Shows([hdr |-> "ok", m |-> m], c.cred)
  PROVE  ShowsOn(c, S!ServerSend(c, m))
<1> DEFINE d == S!ServerSend(c, m)
<1>1. IsServer(d) /\ d.cred = c.cred /\ d.out = Append(c.out, S!Record(c.rl, "handshake", m))
  BY SendIs DEF ServerWritesOn, ServerWrites, SameServer
<1> HIDE DEF d
<1> QED  BY <1>1, SendShows DEF d

\* A message that is no Certificate shows none.
LEMMA OtherShows ==
  ASSUME NEW c, IsServer(c), NEW m, m.type # "certificate"
  PROVE  ShowsOn(c, S!ServerSend(c, m))
<1>1. Shows([hdr |-> "ok", m |-> m], c.cred)
  BY DEF Shows
<1> QED  BY <1>1, HandshakeShows

\* An error sends nothing.
LEMMA ErrorShows ==
  ASSUME NEW c, IsServer(c), NEW a
  PROVE  ShowsOn(c, S!FailAlert(c, a)) /\ ShowsOn(c, S!Fail(c)) /\ ShowsOn(c, c)
BY DEF ShowsOn, S!FailAlert, S!Fail, IsServer, IsConnection, ServerFields

\* tls_write_server_certificate() sends the chain and what there is to say of
\* it as it is configured, or fails.
LEMMA CertificateShows ==
  ASSUME NEW c, IsServer(c)
  PROVE  ShowsOn(c, S!tls_write_server_certificate(c))
<1> DEFINE m == [type |-> "certificate", fmt |-> "ok", chain |-> c.cred.chain,
                 verdict |-> c.cred.verdict, pinned |-> c.cred.pinned,
                 server_auth |-> c.cred.server_auth]
<1>1. Shows([hdr |-> "ok", m |-> m], c.cred)
  BY DEF Shows
<1>2. ShowsOn(c, S!ServerSend(c, m))
  <2> HIDE DEF m
  <2> QED  BY <1>1, HandshakeShows
<1>3. ShowsOn(c, c)
  BY ErrorShows
<1> QED  BY <1>2, <1>3 DEF S!tls_write_server_certificate

\* tls_write_server_certificate_status() sends the OCSP response and no
\* certificate.
LEMMA StatusShows ==
  ASSUME NEW c, IsServer(c), NEW kind, NEW response
  PROVE  ShowsOn(c, S!tls_write_server_certificate_status(c, kind, response))
BY ErrorShows, OtherShows DEF S!tls_write_server_certificate_status

\* Nor does tls_write_server_key_exchange() send one.
LEMMA ExchangeShows ==
  ASSUME NEW c, IsServer(c)
  PROVE  ShowsOn(c, S!tls_write_server_key_exchange(c))
<1> DEFINE e == [c EXCEPT !.dh_secret = <<"server_dh", c.round>>]
<1>1. IsServer(e) /\ ShowsOn(c, e)
  BY DEF ShowsOn, IsServer, IsConnection, ServerFields
<1>2. ShowsOn(c, c) /\ ShowsOn(c, S!Fail(c))
  BY ErrorShows
<1>3. ShowsOn(c, S!FailAlert(e, "INTERNAL_ERROR"))
  <2> HIDE DEF e
  <2> QED  BY <1>1, ErrorShows, ShowsOnFurther
<1>4. ASSUME NEW m, m.type # "certificate"
      PROVE  ShowsOn(c, S!ServerSend(e, m))
  <2> HIDE DEF e
  <2>1. ShowsOn(e, S!ServerSend(e, m))
    BY <1>1, <1>4, OtherShows
  <2> QED  BY <1>1, <2>1, ShowsOnFurther
<1> QED  BY <1>2, <1>3, <1>4 DEF S!tls_write_server_key_exchange

\* tls_write_server_certificate_request() asks for one.
LEMMA RequestShows ==
  ASSUME NEW c, IsServer(c)
  PROVE  ShowsOn(c, S!tls_write_server_certificate_request(c))
BY ErrorShows, OtherShows DEF S!tls_write_server_certificate_request

\* tls_write_server_hello_done() sends none.
LEMMA DoneShows ==
  ASSUME NEW c, IsServer(c)
  PROVE  ShowsOn(c, S!tls_write_server_hello_done(c))
BY ErrorShows, OtherShows DEF S!tls_write_server_hello_done

\* tls_write_server_change_cipher_spec() sends a record that is no handshake
\* message, and moves the write key.
LEMMA ChangeShows ==
  ASSUME NEW c, IsServer(c)
  PROVE  ShowsOn(c, S!tls_write_server_change_cipher_spec(c))
<1> DEFINE m == [type |-> "change_cipher_spec", fmt |-> "ok"]
           e == S!tlsv1_record_send(c, "change_cipher_spec", m)
           f == [e EXCEPT !.rl = S!tlsv1_record_change_write_cipher(@)]
<1>1. Shows([hdr |-> "ok", m |-> m], c.cred)
  BY DEF Shows
<1> HIDE DEF m
<1>2. e.cred = c.cred /\ e.out = Append(c.out, S!Record(c.rl, "change_cipher_spec", m))
  BY DEF S!tlsv1_record_send, IsServer, IsConnection, ServerFields
<1>3. IsServer(e)
  <2>1. IsSeq(e.out)
    <3> HIDE DEF e
    <3> QED  BY <1>2, AppendFacts DEF IsServer, IsConnection
  <2>2. /\ DOMAIN e = ServerFields /\ e.verify = c.verify
        /\ DOMAIN e.rl = LayerFields /\ DOMAIN e.rl.read = DirectionFields
        /\ DOMAIN e.rl.write = DirectionFields
    BY DEF S!tlsv1_record_send, IsServer, IsConnection, ServerFields, LayerFields, DirectionFields
  <2> QED  BY <2>1, <2>2 DEF IsServer, IsConnection
<1>4. ShowsOn(c, e)
  <2> HIDE DEF e
  <2> QED  BY <1>1, <1>2, <1>3, SendShows
<1> HIDE DEF e
<1>5. IsServer(f) /\ f.cred = e.cred /\ f.out = e.out
  BY <1>3 DEF IsServer, IsConnection, ServerFields, LayerFields, DirectionFields,
              S!tlsv1_record_change_write_cipher, S!Direction
<1> HIDE DEF f
<1>6. ShowsOn(c, f) /\ ShowsOn(c, S!FailAlert(f, "INTERNAL_ERROR"))
  <2>1. ShowsOn(e, f) /\ ShowsOn(f, S!FailAlert(f, "INTERNAL_ERROR"))
    BY <1>5, ShowsOnSame, ErrorShows
  <2> QED  BY <1>4, <2>1, ShowsOnFurther
<1>7. ShowsOn(c, c)
  BY ErrorShows
<1> QED  BY <1>6, <1>7 DEF S!tls_write_server_change_cipher_spec, f, e, m

\* tls_write_server_finished() sends the verify data.
LEMMA FinishedShows ==
  ASSUME NEW c, IsServer(c)
  PROVE  ShowsOn(c, S!tls_write_server_finished(c))
<1> DEFINE e == [c EXCEPT !.verify = S!HashFinish(@, "server")]
<1>1. IsServer(e) /\ ShowsOn(c, e)
  BY DEF ShowsOn, IsServer, IsConnection, ServerFields, S!HashFinish
<1> HIDE DEF e
<1>2. ShowsOn(c, c)
  BY ErrorShows
<1>3. ShowsOn(c, S!FailAlert(e, "INTERNAL_ERROR"))
  BY <1>1, ErrorShows, ShowsOnFurther
<1>4. ASSUME NEW m, m.type # "certificate"
      PROVE  ShowsOn(c, S!ServerSend(e, m))
  <2>1. ShowsOn(e, S!ServerSend(e, m))
    BY <1>1, <1>4, OtherShows
  <2> QED  BY <1>1, <2>1, ShowsOnFurther
<1> QED  BY <1>2, <1>3, <1>4 DEF S!tls_write_server_finished, e

\* Where there is no record there is no other certificate.
LEMMA EmptyShows ==
  ASSUME NEW cred
  PROVE  ShowsAll(<<>>, cred)
BY DEF ShowsAll

\* What is dropped shows nothing, and the state has no part in it.
LEMMA ShowsNothingOr ==
  ASSUME NEW c, NEW d, ShowsOn(c, d), NEW st
  PROVE  /\ ShowsOn(c, [d EXCEPT !.out = <<>>])
         /\ ShowsOn(c, [d EXCEPT !.state = st])
<1>1. IsSeq(<<>>) /\ ShowsAll(<<>>, d.cred)
  BY OneIs, EmptyShows
<1> QED  BY <1>1 DEF ShowsOn, IsServer, IsConnection, ServerFields

\* The ChangeCipherSpec and the Finished of the server.
LEMMA FlightShows ==
  ASSUME NEW c, IsServer(c)
  PROVE  ShowsOn(c, S!tls_write_server_finished(S!tls_write_server_change_cipher_spec(c)))
<1> DEFINE d == S!tls_write_server_change_cipher_spec(c)
<1>1. ShowsOn(c, d) /\ IsServer(d)
  BY ChangeShows DEF ShowsOn
<1> HIDE DEF d
<1>2. ShowsOn(d, S!tls_write_server_finished(d))
  BY <1>1, FinishedShows
<1>3. ShowsOn(c, S!tls_write_server_finished(d))
  BY <1>1, <1>2, ShowsOnFurther
<1> QED  BY <1>3 DEF d

\* The keys that a server makes from a ticket.
LEMMA TicketShows ==
  ASSUME NEW c, IsServer(c), c.ok
  PROVE  ShowsOn(c, S!TicketKeys(c))
<1> DEFINE d == S!TicketKeys(c)
<1>1. ServerWrites(c, d) /\ d.out = c.out
  BY TicketIs
<1> HIDE DEF d
<1>2. ShowsOn(c, d)
  BY <1>1, ShowsOnSame DEF ServerWrites, SameServer
<1> QED  BY <1>2 DEF d

\* tls_write_server_hello() sends the hello.
LEMMA HelloShows ==
  ASSUME NEW c, IsServer(c), c.ok
  PROVE  ShowsOn(c, S!tls_write_server_hello(c))
<1> DEFINE e == [c EXCEPT !.server_random = <<"server", c.round>>, !.session_id = c.round]
           f == S!TicketKeys(e)
           m == S!HelloMessage(f)
<1>1. IsServer(e) /\ ShowsOn(c, e) /\ e.ok
  BY DEF ShowsOn, IsServer, IsConnection, ServerFields
<1> HIDE DEF e
<1>2. ShowsOn(e, f)
  BY <1>1, TicketShows
<1> HIDE DEF f
<1>3. ShowsOn(c, f) /\ IsServer(f)
  BY <1>1, <1>2, ShowsOnFurther DEF ShowsOn
<1>4. m.type # "certificate"
  BY DEF S!HelloMessage
<1> HIDE DEF m
<1>5. ShowsOn(f, S!ServerSend(f, m))
  BY <1>3, <1>4, OtherShows
<1>6. ShowsOn(c, S!ServerSend(f, m))
  BY <1>3, <1>5, ShowsOnFurther
<1>7. ShowsOn(c, S!Fail(c))
  BY ErrorShows
<1> QED  BY <1>3, <1>6, <1>7 DEF S!tls_write_server_hello, e, f, m

\* What a server without a ticket sends after its hello.
LEMMA FullFlightShows ==
  ASSUME NEW c, IsServer(c), NEW kind, NEW response
  PROVE  ShowsOn(c, S!tls_write_server_hello_done(S!tls_write_server_certificate_request(
                      S!tls_write_server_key_exchange(S!tls_write_server_certificate_status(
                        S!tls_write_server_certificate(c), kind, response)))))
<1> DEFINE certificate == S!tls_write_server_certificate(c)
           status == S!tls_write_server_certificate_status(certificate, kind, response)
           exchange == S!tls_write_server_key_exchange(status)
           request == S!tls_write_server_certificate_request(exchange)
           full == S!tls_write_server_hello_done(request)
<1>1. ShowsOn(c, certificate) /\ IsServer(certificate)
  BY CertificateShows DEF ShowsOn
<1> HIDE DEF certificate
<1>2. ShowsOn(certificate, status) /\ IsServer(status)
  BY <1>1, StatusShows DEF ShowsOn
<1> HIDE DEF status
<1>3. ShowsOn(status, exchange) /\ IsServer(exchange)
  BY <1>2, ExchangeShows DEF ShowsOn
<1> HIDE DEF exchange
<1>4. ShowsOn(exchange, request) /\ IsServer(request)
  BY <1>3, RequestShows DEF ShowsOn
<1> HIDE DEF request
<1>5. ShowsOn(request, full)
  BY <1>4, DoneShows
<1> HIDE DEF full
<1>6. ShowsOn(c, exchange)
  BY <1>1, <1>2, <1>3, ShowsOnFurther
<1>7. ShowsOn(c, full)
  BY <1>4, <1>5, <1>6, ShowsOnFurther
<1> QED  BY <1>7 DEF full, request, exchange, status, certificate

\* tls_send_server_hello(): the whole first flight.
LEMMA SendHelloShows ==
  ASSUME NEW c, IsServer(c), c.ok
  PROVE  ShowsOn(c, S!tls_send_server_hello(c))
<1> DEFINE hello == S!tls_write_server_hello(c)
           short == S!tls_write_server_finished(S!tls_write_server_change_cipher_spec(hello))
           full == S!tls_write_server_hello_done(S!tls_write_server_certificate_request(
                     S!tls_write_server_key_exchange(S!tls_write_server_certificate_status(
                       S!tls_write_server_certificate(hello), S!StatusKind(c), S!StatusResponse(c)))))
           done == IF hello.use_session_ticket THEN short ELSE full
           d == S!tls_send_server_hello(c)
<1>1. d = IF c.fault = "output" THEN S!Fail(c)
          ELSE IF ~done.ok THEN [done EXCEPT !.out = <<>>]
          ELSE [done EXCEPT !.state = IF hello.use_session_ticket THEN "CHANGE_CIPHER_SPEC"
                                      ELSE "CLIENT_CERTIFICATE"]
  BY DEF S!tls_send_server_hello
<1>2. ShowsOn(c, hello) /\ IsServer(hello)
  BY HelloShows DEF ShowsOn
<1> HIDE DEF hello, d
<1>3. ShowsOn(hello, short) /\ ShowsOn(hello, full)
  BY <1>2, FlightShows, FullFlightShows
<1> HIDE DEF short, full
<1>4. ShowsOn(c, done)
  BY <1>2, <1>3, ShowsOnFurther
<1> HIDE DEF done
<1>5. ShowsOn(c, S!Fail(c))
  BY ErrorShows
<1>6. ShowsOn(c, d)
  BY <1>1, <1>4, <1>5, ShowsNothingOr
<1> QED  BY <1>6 DEF d

\* tls_send_change_cipher_spec(): the last one.
LEMMA SendEndShows ==
  ASSUME NEW c, IsServer(c)
  PROVE  ShowsOn(c, S!tls_send_change_cipher_spec(c))
<1> DEFINE done == S!tls_write_server_finished(S!tls_write_server_change_cipher_spec(c))
<1>1. ShowsOn(c, done)
  BY FlightShows
<1>2. ShowsOn(c, S!Fail(c))
  BY ErrorShows
<1> HIDE DEF done
<1>3. ShowsOn(c, [done EXCEPT !.out = <<>>]) /\ ShowsOn(c, [done EXCEPT !.state = "ESTABLISHED"])
  BY <1>1, ShowsNothingOr
<1> QED  BY <1>2, <1>3 DEF S!tls_send_change_cipher_spec, done

\* A call that writes.
LEMMA WriteShows ==
  ASSUME NEW c, IsServer(c), c.ok
  PROVE  ShowsOn(c, S!tlsv1_server_handshake_write(c))
<1>1. ShowsOn(c, c)
  BY ErrorShows
<1> QED  BY <1>1, SendHelloShows, SendEndShows DEF S!tlsv1_server_handshake_write

\* What a call leaves when it ends.
LEMMA EndShows ==
  ASSUME NEW c, IsServer(c)
  PROVE  ShowsOn(c, S!ServerFinishCall(c))
<1> DEFINE r == [hdr |-> "ok", ct |-> "alert", key |-> S!NoKey, seq |-> 0,
                 m |-> [type |-> "fatal", fmt |-> "ok", alert |-> c.alert]]
           e == [c EXCEPT !.state = "FAILED"]
           d == S!tlsv1_server_send_alert(e)
<1>1. Shows(r, c.cred)
  BY DEF Shows
<1>2. d = [e EXCEPT !.out = <<r>>]
  BY DEF S!tlsv1_server_send_alert, IsServer, IsConnection, ServerFields
<1> HIDE DEF r
<1>3. IsSeq(<<r>>) /\ ShowsAll(<<r>>, c.cred)
  <2>1. IsSeq(<<r>>) /\ \A i \in DOMAIN <<r>> : <<r>>[i] = r
    BY OneIs
  <2> QED  BY <1>1, <2>1 DEF ShowsAll
<1> HIDE DEF d
<1>4. ShowsOn(c, d)
  BY <1>2, <1>3 DEF ShowsOn, IsServer, IsConnection, ServerFields
<1>5. ShowsOn(c, c)
  BY ErrorShows
<1>6. ShowsOn(c, [c EXCEPT !.out = <<>>])
  BY <1>5, ShowsNothingOr
<1> QED  BY <1>4, <1>5, <1>6 DEF S!ServerFinishCall, d, e

\* A call of tlsv1_server_handshake() keeps the server's credentials, and of
\* certificates sends the configured one or none.
LEMMA ServerCallShows ==
  ASSUME NEW c, IsServer(c), NEW k, ServerStates(c), ServerAccepts(c, k), ServerProof(c, k),
         c.out = <<>>, NEW fault, NEW stream, IsSeq(stream),
         \A i \in DOMAIN stream : ToServerOk(stream[i], k),
         NEW n \in 0 .. 2 * Len(stream),
         NEW d, d = S!tlsv1_server_handshake(c, fault, stream, n)
  PROVE  d.cred = c.cred /\ ShowsAll(d.out, c.cred)
<1>1. PICK start, read : ServerCallIs(c, k, n, start, read, d)
  BY ServerCallReads
<1>2. /\ \/ d = start
         \/ ~read.ok /\ d = S!ServerFinishCall(read)
         \/ read.ok /\ d = S!ServerFinishCall(S!FailAlert(read, "INTERNAL_ERROR"))
         \/ read.ok /\ d = S!ServerFinishCall(S!tlsv1_server_handshake_write(read))
      /\ start.cred = c.cred /\ start.out = <<>>
      /\ IsServer(read) /\ read.cred = c.cred /\ read.out = <<>>
  BY <1>1 DEF ServerCallIs, ServerLeaves, SameServer
<1>3. ShowsAll(start.out, c.cred) /\ ShowsAll(read.out, read.cred)
  BY <1>2, EmptyShows
<1>4. ASSUME NEW e, ShowsOn(read, e)
      PROVE  ShowsOn(read, S!ServerFinishCall(e))
  <2>1. ShowsOn(e, S!ServerFinishCall(e))
    BY <1>4, EndShows DEF ShowsOn
  <2> QED  BY <1>4, <2>1, ShowsOnFurther
<1>5. ShowsOn(read, read) /\ ShowsOn(read, S!FailAlert(read, "INTERNAL_ERROR"))
  BY <1>2, ErrorShows
<1>6. read.ok => ShowsOn(read, S!tlsv1_server_handshake_write(read))
  BY <1>2, WriteShows
<1>7. d = start \/ ShowsOn(read, d)
  BY <1>2, <1>4, <1>5, <1>6
<1> QED  BY <1>2, <1>3, <1>7 DEF ShowsOn

\* A call of tlsv1_server_encrypt() sends none.
LEMMA ServerEncryptShows ==
  ASSUME NEW c, IsServer(c), NEW data, NEW d, d = S!tlsv1_server_encrypt(c, Data(data))
  PROVE  d.cred = c.cred /\ ShowsAll(d.out, c.cred)
<1> DEFINE m == Data(data)
           r == S!Record(c.rl, "application_data", m)
<1>1. m.type # "certificate"
  BY DEF Data
<1> HIDE DEF m
<1>2. Shows(r, c.cred)
  <2>1. r.m = m
    BY DEF S!Record
  <2> HIDE DEF r
  <2> QED  BY <1>1, <2>1 DEF Shows
<1>3. d.cred = c.cred /\ d.out = Append(<<>>, r)
  BY DEF S!tlsv1_server_encrypt, S!tlsv1_record_send, IsServer, IsConnection, ServerFields, m
<1> HIDE DEF r
<1>4. ShowsAll(Append(<<>>, r), c.cred)
  BY <1>2, OneIs, EmptyShows, ShowsAppended
<1> QED  BY <1>3, <1>4

\* The network cuts a certificate short or damages the header of the record;
\* what the certificate says stays.
LEMMA ShowsChanged ==
  ASSUME NEW cred, NEW s, NEW r, ToClientOk(r, s), Shows(r, cred), NEW q \in Changed(r)
  PROVE  Shows(q, cred)
<1>1. q.hdr = "ok" => r.hdr = "ok" /\ Kept(q, r)
  BY ChangedIs DEF ToClientOk
<1> QED  BY <1>1 DEF Shows, Kept

\* So what the network makes of a stream still shows no other certificate.
LEMMA ShowsAllStays ==
  ASSUME NEW cred, NEW s, NEW t, ToClientAll(t, s), ShowsAll(t, cred), NEW u, IsSeq(u),
         \A i \in DOMAIN u : Of(u[i], t) \/ Spoilt(u[i], t) \/ Altered(u[i], t)
  PROVE  ShowsAll(u, cred)
<1> SUFFICES ASSUME NEW i \in DOMAIN u  PROVE Shows(u[i], cred)
  BY DEF ShowsAll
<1>1. CASE Of(u[i], t)
  BY <1>1 DEF Of, ShowsAll
<1>2. CASE Spoilt(u[i], t)
  <2>1. PICK j \in DOMAIN t : u[i] = [t[j] EXCEPT !.hdr = "version"]
    BY <1>2 DEF Spoilt
  <2>2. u[i].hdr = "version"
    BY <2>1 DEF ToClientAll, ToClientOk, RecordFields
  <2> QED  BY <2>2 DEF Shows
<1>3. CASE Altered(u[i], t)
  <2>1. PICK j \in DOMAIN t : u[i] \in Changed(t[j])
    BY <1>3 DEF Altered
  <2> QED  BY <2>1, ShowsChanged DEF ToClientAll, ShowsAll
<1> QED  BY <1>1, <1>2, <1>3

\* Nor does one stream behind another.
LEMMA ShowsAllJoined ==
  ASSUME NEW cred, NEW s, IsSeq(s), ShowsAll(s, cred), NEW t, IsSeq(t), ShowsAll(t, cred)
  PROVE  ShowsAll(s \o t, cred)
<1>1. \A i \in DOMAIN (s \o t) : Of((s \o t)[i], s) \/ Of((s \o t)[i], t)
  BY JoinedFrom
<1> QED  BY <1>1 DEF ShowsAll, Of

USE DEF IsClient, IsConnection, ClientFields, LayerFields, DirectionFields, SameClient

(***************************************************************************)
(* What the client takes from the server: the messages that it reads       *)
(***************************************************************************)

\* The client accepts that certificate as the server's.
Vouched(c, cred) == cred.chain # <<>> /\ C!JudgeCertificate(c, cred) = NULL

\* The same for a message.
Certified(m, cred) == Shows([hdr |-> "ok", m |-> m], cred)

\* Every suite that the client offers has a key of the server's certificate
\* in it.
Named(c) ==
  \A x \in ToSet(c.cipher_suites) : C!tls_get_cipher_suite(x).key_exchange \in {"RSA", "DHE_RSA"}

\* A client that has a public value or a key of the server's has accepted its
\* certificate.
Sure(c, cred) ==
  /\ c.dh # NULL => Vouched(c, cred)
  /\ c.server_rsa_key # NULL => Vouched(c, cred)

\* No key of the server's is taken; the public value may be forgotten.
SameTrust(c, d) ==
  d.cred = c.cred /\ d.server_rsa_key = c.server_rsa_key /\ d.dh \in {c.dh, NULL}

\* What a step learns of the server it learns from a certificate that was
\* accepted; a step that fails may leave the key of one that was not.
LearnsSurely(c, cred, d) ==
  /\ d.dh # NULL => Vouched(c, cred)
  /\ d.ok /\ d.server_rsa_key # NULL => Vouched(c, cred)

\* Whether a certificate is accepted depends on what the client's user
\* configured and on the certificate.
LEMMA VouchedSame ==
  ASSUME NEW c, NEW d, d.cred = c.cred, NEW cred
  PROVE  Vouched(d, cred) <=> Vouched(c, cred)
BY DEF Vouched, C!JudgeCertificate

\* What takes no key from the server learns nothing of it.
LEMMA SameTrustLearns ==
  ASSUME NEW c, NEW cred, Sure(c, cred), NEW d, SameTrust(c, d)
  PROVE  LearnsSurely(c, cred, d)
BY DEF Sure, SameTrust, LearnsSurely

\* tls_process_server_hello_done() takes no key.
LEMMA DoneTrust ==
  ASSUME NEW c, IsClient(c), NEW ct, NEW m
  PROVE  SameTrust(c, C!tls_process_server_hello_done(c, ct, m))
BY DEF SameTrust, C!tls_process_server_hello_done, C!FailAlert

\* tls_process_certificate_request() takes none.
LEMMA RequestTrust ==
  ASSUME NEW c, IsClient(c), NEW ct, NEW m
  PROVE  SameTrust(c, C!tls_process_certificate_request(c, ct, m))
<1> HIDE DEF IsClient
<1>1. SameTrust(c, C!tls_process_server_hello_done(c, ct, m))
  BY DoneTrust
<1> QED  BY <1>1 DEF SameTrust, C!tls_process_certificate_request, C!FailAlert, IsClient

\* tls_process_certificate_status() takes none.
LEMMA StatusTrust ==
  ASSUME NEW c, IsClient(c), NEW ct, NEW m
  PROVE  SameTrust(c, C!tls_process_certificate_status(c, ct, m))
<1> DEFINE d == C!tls_process_certificate_status(c, ct, m)
           e == IF m.kind = "ocsp" /\ m.fmt = "tail" THEN [c EXCEPT !.alert = "DECODE_ERROR"] ELSE c
<1>1. \/ \E a : d = C!FailAlert(c, a)
      \/ \E a : d = C!FailAlert(e, a)
      \/ d = [c EXCEPT !.state = "SERVER_KEY_EXCHANGE"]
      \/ d = [e EXCEPT !.ocsp_resp_received = TRUE, !.state = "SERVER_KEY_EXCHANGE"]
  <2> HIDE DEF e
  <2> QED  BY DEF C!tls_process_certificate_status, e
<1>2. IsClient(e) /\ SameTrust(c, e)
  BY DEF SameTrust
<1> HIDE DEF e, d
<1>3. ASSUME NEW a
      PROVE  SameTrust(c, C!FailAlert(c, a)) /\ SameTrust(c, C!FailAlert(e, a))
  <2>1. SameTrust(c, C!FailAlert(c, a))
    BY DEF SameTrust, C!FailAlert
  <2>2. SameTrust(c, C!FailAlert(e, a))
    BY <1>2 DEF SameTrust, C!FailAlert
  <2> QED  BY <2>1, <2>2
<1>4. SameTrust(c, [c EXCEPT !.state = "SERVER_KEY_EXCHANGE"])
  BY DEF SameTrust
<1>5. SameTrust(c, [e EXCEPT !.ocsp_resp_received = TRUE, !.state = "SERVER_KEY_EXCHANGE"])
  BY <1>2 DEF SameTrust
<1>6. SameTrust(c, d)
  BY <1>1, <1>3, <1>4, <1>5
<1> QED  BY <1>6 DEF d

\* tlsv1_process_diffie_hellman() takes a public value only with a signature
\* made by a key that the client has, so by the key of a certificate that it
\* accepted. It is the suite that says whether the value is to be signed.
LEMMA DhTrust ==
  ASSUME NEW c, IsClient(c), NEW cred, Sure(c, cred), NEW m,
         C!tls_get_cipher_suite(c.rl.suite).key_exchange \in {"RSA", "DHE_RSA"},
         C!tls_server_key_exchange_allowed(c.rl.suite),
         NEW d, d = C!tlsv1_process_diffie_hellman(c, m)
  PROVE  IsClient(d) /\ d.server_rsa_key = c.server_rsa_key /\ (d.dh # NULL => Vouched(c, cred))
<1> DEFINE e == C!tlsv1_client_free_dh(c)
<1>1. e.dh = NULL /\ e.server_rsa_key = c.server_rsa_key /\ IsClient(e)
  BY DEF C!tlsv1_client_free_dh
<1>2. C!tls_get_cipher_suite(c.rl.suite).key_exchange = "DHE_RSA"
  BY DEF C!tls_server_key_exchange_allowed
<1> HIDE DEF e
<1>3. \/ C!SignedParams(c, m) /\ d = [e EXCEPT !.dh = m.dh]
      \/ d = C!FailAlert(e, "DECODE_ERROR")
  BY <1>2 DEF C!tlsv1_process_diffie_hellman, e
<1>4. CASE C!SignedParams(c, m) /\ d = [e EXCEPT !.dh = m.dh]
  <2>1. c.server_rsa_key # NULL
    BY <1>4 DEF C!SignedParams, C!tls_verify_signature
  <2>2. Vouched(c, cred)
    BY <2>1 DEF Sure
  <2> QED  BY <1>1, <1>4, <2>2
<1>5. CASE d = C!FailAlert(e, "DECODE_ERROR")
  BY <1>1, <1>5 DEF C!FailAlert
<1> QED  BY <1>3, <1>4, <1>5

\* The suite of the handshake is one of those.
NamedSuite(c) == C!tls_get_cipher_suite(c.rl.suite).key_exchange \in {"RSA", "DHE_RSA"}

\* tls_process_server_key_exchange() takes that value, or fails.
LEMMA KeyExchangeTrust ==
  ASSUME NEW c, IsClient(c), NEW cred, Sure(c, cred), NamedSuite(c), NEW ct, NEW m
  PROVE  LearnsSurely(c, cred, C!tls_process_server_key_exchange(c, ct, m))
<1> DEFINE d == C!tls_process_server_key_exchange(c, ct, m)
           f == C!tlsv1_process_diffie_hellman(c, m)
<1>1. \/ \E a : d = C!FailAlert(c, a)
      \/ d = C!tls_process_certificate_status(c, ct, m)
      \/ d = C!tls_process_certificate_request(c, ct, m)
      \/ d = C!tls_process_server_hello_done(c, ct, m)
      \/ C!tls_server_key_exchange_allowed(c.rl.suite) /\ d = [f EXCEPT !.state = "SERVER_CERTIFICATE_REQUEST"]
      \/ C!tls_server_key_exchange_allowed(c.rl.suite) /\ d = f
  <2> HIDE DEF f
  <2> QED  BY DEF C!tls_process_server_key_exchange, f
<1>2. ASSUME C!tls_server_key_exchange_allowed(c.rl.suite)
      PROVE  IsClient(f) /\ f.server_rsa_key = c.server_rsa_key /\ (f.dh # NULL => Vouched(c, cred))
  <2> HIDE DEF f, IsClient
  <2> QED  BY <1>2, DhTrust DEF NamedSuite, f
<1> SUFFICES LearnsSurely(c, cred, d)
  OBVIOUS
<1> HIDE DEF d, f
<1>3. ASSUME NEW a, d = C!FailAlert(c, a) PROVE LearnsSurely(c, cred, d)
  <2>1. SameTrust(c, d)
    BY <1>3 DEF SameTrust, C!FailAlert
  <2> QED  BY <2>1, SameTrustLearns
<1>4. CASE d \in {C!tls_process_certificate_status(c, ct, m), C!tls_process_certificate_request(c, ct, m),
                  C!tls_process_server_hello_done(c, ct, m)}
  <2> HIDE DEF IsClient
  <2>1. SameTrust(c, d)
    BY <1>4, StatusTrust, RequestTrust, DoneTrust
  <2> QED  BY <2>1, SameTrustLearns
<1>5. CASE /\ C!tls_server_key_exchange_allowed(c.rl.suite)
           /\ d \in {f, [f EXCEPT !.state = "SERVER_CERTIFICATE_REQUEST"]}
  <2>1. IsClient(f) /\ f.server_rsa_key = c.server_rsa_key /\ (f.dh # NULL => Vouched(c, cred))
    BY <1>2, <1>5
  <2>2. d.server_rsa_key = f.server_rsa_key /\ d.dh = f.dh
    BY <1>5, <2>1
  <2> QED  BY <2>1, <2>2 DEF LearnsSurely, Sure
<1> HIDE DEF IsClient
<1> QED  BY <1>1, <1>3, <1>4, <1>5

\* tls_process_certificate() takes the server's key from a certificate that
\* it has accepted; a message that is no Certificate it passes to
\* tls_process_server_key_exchange().
LEMMA CertificateTrust ==
  ASSUME NEW c, IsClient(c), NEW cred, Sure(c, cred), NamedSuite(c), NEW ct,
         NEW m, Certified(m, cred)
  PROVE  LearnsSurely(c, cred, C!tls_process_certificate(c, ct, m))
<1> DEFINE d == C!tls_process_certificate(c, ct, m)
           key == IF m.chain = <<>> THEN c.server_rsa_key
                  ELSE IF m.chain[1] = "unreadable" THEN NULL ELSE m.chain[1]
           e == [c EXCEPT !.server_rsa_key = key]
<1>1. \/ \E a : d = C!FailAlert(c, a)
      \/ d = C!tls_process_server_key_exchange(c, ct, m)
      \/ d = C!tls_process_certificate_request(c, ct, m)
      \/ d = C!tls_process_server_hello_done(c, ct, m)
      \/ \E a : d = C!FailAlert(e, a)
      \/ m.type = "certificate" /\ C!JudgeCertificate(c, m) = NULL /\ d = [e EXCEPT !.state = "SERVER_KEY_EXCHANGE"]
  <2>1. e = [c EXCEPT !.server_rsa_key = IF m.chain = <<>> THEN @
                        ELSE IF m.chain[1] = "unreadable" THEN NULL ELSE m.chain[1]]
    OBVIOUS
  <2> HIDE DEF e
  <2> QED  BY <2>1 DEF C!tls_process_certificate
<1>2. key # NULL => m.chain # <<>> \/ c.server_rsa_key # NULL
  OBVIOUS
<1>3. m.type = "certificate" => m.chain = cred.chain /\ m.verdict = cred.verdict
                                /\ m.pinned = cred.pinned /\ m.server_auth = cred.server_auth
  BY DEF Certified, Shows
<1>4. ASSUME m.type = "certificate", C!JudgeCertificate(c, m) = NULL PROVE C!JudgeCertificate(c, cred) = NULL
  <2>1. C!JudgeCertificate(c, cred) = C!JudgeCertificate(c, m)
    BY <1>3, <1>4 DEF C!JudgeCertificate
  <2> QED  BY <1>4, <2>1
<1> SUFFICES LearnsSurely(c, cred, d)
  OBVIOUS
<1> HIDE DEF d, key
<1>5. e.dh = c.dh /\ e.server_rsa_key = key /\ IsClient(e)
  OBVIOUS
<1> HIDE DEF e
<1>6. ASSUME NEW a, d = C!FailAlert(c, a) PROVE LearnsSurely(c, cred, d)
  <2>1. SameTrust(c, d)
    BY <1>6 DEF SameTrust, C!FailAlert
  <2> QED  BY <2>1, SameTrustLearns
<1>7. CASE d \in {C!tls_process_certificate_request(c, ct, m), C!tls_process_server_hello_done(c, ct, m)}
  <2> HIDE DEF IsClient
  <2>1. SameTrust(c, d)
    BY <1>7, RequestTrust, DoneTrust
  <2> QED  BY <2>1, SameTrustLearns
<1>8. CASE d = C!tls_process_server_key_exchange(c, ct, m)
  <2> HIDE DEF IsClient
  <2> QED  BY <1>8, KeyExchangeTrust
<1>9. ASSUME NEW a, d = C!FailAlert(e, a) PROVE LearnsSurely(c, cred, d)
  <2>1. d.dh = c.dh /\ ~d.ok
    BY <1>5, <1>9 DEF C!FailAlert
  <2> QED  BY <2>1 DEF LearnsSurely, Sure
<1>10. CASE m.type = "certificate" /\ C!JudgeCertificate(c, m) = NULL
            /\ d = [e EXCEPT !.state = "SERVER_KEY_EXCHANGE"]
  <2>1. d.dh = c.dh /\ d.server_rsa_key = key
    BY <1>5, <1>10
  <2>2. key # NULL => Vouched(c, cred)
    BY <1>2, <1>3, <1>4, <1>10 DEF Vouched, Sure
  <2> QED  BY <2>1, <2>2 DEF LearnsSurely, Sure
<1> QED  BY <1>1, <1>6, <1>7, <1>8, <1>9, <1>10

\* tls_derive_keys() takes no key from the server.
LEMMA DeriveTrust ==
  ASSUME NEW c, IsClient(c), NEW pms
  PROVE  SameTrust(c, C!tls_derive_keys(c, pms))
BY DEF SameTrust, C!tls_derive_keys, C!FailAlert

\* One part of a call after another.
LEMMA SameTrustFurther ==
  ASSUME NEW c, NEW d, NEW e, SameTrust(c, d), SameTrust(d, e)
  PROVE  SameTrust(c, e)
BY DEF SameTrust

\* tls_process_server_hello() takes no key, and fails on a suite that the
\* client did not offer.
LEMMA HelloTrust ==
  ASSUME NEW c, IsClient(c), NEW ct, NEW m, NEW d, d = C!tls_process_server_hello(c, ct, m)
  PROVE  /\ SameTrust(c, d)
         /\ d.ok => m.cipher_suite \in ToSet(c.cipher_suites)
<1> DEFINE versioned == [c EXCEPT !.rl.version = m.version, !.server_random = m.random]
           session == C!HelloSession(versioned, m)
           suited == C!HelloSuite(session, m)
           ticket == C!HelloTicket(suited)
           keyed == C!HelloKeys(ticket)
<1>1. IsClient(versioned) /\ SameTrust(c, versioned) /\ versioned.cipher_suites = c.cipher_suites
  BY DEF SameTrust
<1>2. \/ \E a : d = C!FailAlert(c, a) \/ d = C!FailAlert(session, a) \/ d = C!FailAlert(suited, a)
      \/ m.cipher_suite \in ToSet(c.cipher_suites) /\ d = keyed
  <2> HIDE DEF session, suited, keyed
  <2> QED  BY DEF C!tls_process_server_hello, C!ToSet, ToSet, session, suited, keyed, ticket
<1> HIDE DEF versioned
<1>3. IsClient(session) /\ SameTrust(c, session)
  BY <1>1 DEF C!HelloSession, SameTrust
<1> HIDE DEF session
<1>4. IsClient(suited) /\ SameTrust(c, suited)
  BY <1>3 DEF C!HelloSuite, C!tlsv1_record_set_cipher_suite, SameTrust
<1> HIDE DEF suited
<1>5. IsClient(ticket) /\ SameTrust(c, ticket)
  BY <1>4 DEF C!HelloTicket, C!FailAlert, SameTrust
<1> HIDE DEF ticket
<1>6. SameTrust(c, keyed)
  <2> DEFINE e == C!tls_derive_keys(ticket, NULL)
  <2>1. keyed \in {e, [e EXCEPT !.state = "SERVER_CHANGE_CIPHER_SPEC"],
                   [ticket EXCEPT !.state = "SERVER_CERTIFICATE"], ticket}
    <3> HIDE DEF e
    <3> QED  BY DEF C!HelloKeys, e
  <2>2. SameTrust(c, e) /\ IsClient(e)
    BY <1>5 DEF SameTrust, C!tls_derive_keys, C!FailAlert
  <2> HIDE DEF e, keyed
  <2> QED  BY <1>5, <2>1, <2>2 DEF SameTrust
<1> HIDE DEF keyed
<1>7. ASSUME NEW a, NEW e, IsClient(e), SameTrust(c, e), d = C!FailAlert(e, a)
      PROVE  SameTrust(c, d) /\ ~d.ok
  BY <1>7 DEF C!FailAlert, SameTrust
<1>8. IsClient(c) /\ SameTrust(c, c)
  BY DEF SameTrust
<1> HIDE DEF IsClient
<1> QED  BY <1>2, <1>3, <1>4, <1>6, <1>7, <1>8

\* tls_process_server_change_cipher_spec() takes none, unless the server does
\* not take the ticket and its Certificate is read instead.
LEMMA ChangeTrust ==
  ASSUME NEW c, IsClient(c), NEW cred, Sure(c, cred), NamedSuite(c), NEW ct,
         NEW m, Certified(m, cred), NEW d, d = C!tls_process_server_change_cipher_spec(c, ct, m)
  PROVE  LearnsSurely(c, cred, d)
<1> DEFINE e == [c EXCEPT !.use_session_ticket = FALSE]
           f == [e EXCEPT !.state = "SERVER_CERTIFICATE"]
           g == [c EXCEPT !.rl = C!tlsv1_record_change_read_cipher(@)]
<1>1. \/ \E a : d = C!FailAlert(e, a) \/ d = C!FailAlert(c, a) \/ d = C!FailAlert(g, a)
      \/ d = C!tls_process_certificate(f, ct, m)
      \/ d = [g EXCEPT !.state = "SERVER_FINISHED"]
  <2> HIDE DEF f, g
  <2> QED  BY DEF C!tls_process_server_change_cipher_spec, e, f, g
<1>2. /\ IsClient(e) /\ SameTrust(c, e) /\ IsClient(c) /\ SameTrust(c, c)
      /\ IsClient(g) /\ SameTrust(c, g)
      /\ IsClient(f) /\ SameTrust(c, f) /\ f.rl = c.rl
  BY DEF SameTrust, C!tlsv1_record_change_read_cipher, C!Direction
<1> HIDE DEF e, f, g
<1>3. ASSUME NEW a, NEW h, IsClient(h), SameTrust(c, h),
             d \in {C!FailAlert(h, a), [h EXCEPT !.state = "SERVER_FINISHED"]}
      PROVE  LearnsSurely(c, cred, d)
  <2>1. SameTrust(c, d)
    BY <1>3 DEF C!FailAlert, SameTrust
  <2> QED  BY <2>1, SameTrustLearns
<1> HIDE DEF IsClient
<1>4. CASE d = C!tls_process_certificate(f, ct, m)
  <2>1. Sure(f, cred) /\ NamedSuite(f) /\ (Vouched(f, cred) <=> Vouched(c, cred))
    BY <1>2, VouchedSame DEF Sure, SameTrust, NamedSuite
  <2>2. LearnsSurely(f, cred, d)
    BY <1>2, <1>4, <2>1, CertificateTrust
  <2> QED  BY <2>1, <2>2 DEF LearnsSurely
<1> QED  BY <1>1, <1>2, <1>3, <1>4

\* Nor does tls_process_server_finished().
LEMMA FinishedTrust ==
  ASSUME NEW c, IsClient(c), NEW ct, NEW m
  PROVE  SameTrust(c, C!tls_process_server_finished(c, ct, m))
<1> DEFINE d == C!tls_process_server_finished(c, ct, m)
           e == [c EXCEPT !.verify = C!HashFinish(@, "server")]
<1>1. \/ \E a : d = C!FailAlert(c, a) \/ d = C!FailAlert(e, a)
      \/ \E st : d = [e EXCEPT !.state = st]
  <2> HIDE DEF e
  <2> QED  BY DEF C!tls_process_server_finished, e
<1>2. IsClient(e) /\ SameTrust(c, e)
  BY DEF SameTrust, C!HashFinish
<1> HIDE DEF d, e
<1>3. ASSUME NEW a
      PROVE  SameTrust(c, C!FailAlert(c, a)) /\ SameTrust(c, C!FailAlert(e, a))
  <2>1. SameTrust(c, C!FailAlert(c, a))
    BY DEF SameTrust, C!FailAlert
  <2>2. SameTrust(c, C!FailAlert(e, a))
    BY <1>2 DEF SameTrust, C!FailAlert
  <2> QED  BY <2>1, <2>2
<1>4. ASSUME NEW st
      PROVE  SameTrust(c, [e EXCEPT !.state = st])
  BY <1>2 DEF SameTrust
<1>5. SameTrust(c, d)
  BY <1>1, <1>3, <1>4
<1> QED  BY <1>5 DEF d

\* Nor does the reading of application data.
LEMMA DataTrust ==
  ASSUME NEW c, IsClient(c), NEW ct, NEW m
  PROVE  SameTrust(c, C!tls_process_application_data(c, ct, m))
BY DEF SameTrust, C!tls_process_application_data, C!FailAlert

HIDE DEF IsClient, IsConnection, ClientFields, LayerFields, DirectionFields, SameClient

(***************************************************************************)
(* A message as a whole, and a call that reads                             *)
(***************************************************************************)

\* What a client has of the server's in each of its states: a key only with
\* an accepted certificate, a suite that it offered, and from the key
\* exchange on an accepted certificate or a ticket.
Trusts(c, cred) ==
  /\ c.state # "FAILED" /\ c.server_rsa_key # NULL => Vouched(c, cred)
  /\ c.state \in ClientAsks \cup ClientKnows => c.rl.suite \in ToSet(c.cipher_suites)
  /\ c.state \in ClientKnows /\ ~c.use_session_ticket => Vouched(c, cred)

\* The same within a call, in which a step may have failed: the call then
\* ends with an alert, and the client in the state FAILED.
Believes(c, cred) ==
  /\ c.dh # NULL => Vouched(c, cred)
  /\ c.ok \/ c.alert = NULL => Trusts(c, cred)

\* An alert takes nothing back.
LEMMA AlertBelieved ==
  ASSUME NEW c, IsClient(c), NEW cred, Believes(c, cred), NEW a, a # NULL,
         NEW d, d = C!FailAlert(c, a)
  PROVE  Believes(d, cred)
<1>1. d.cred = c.cred /\ d.dh = c.dh /\ ~d.ok /\ d.alert = a
  BY DEF C!FailAlert, IsClient, IsConnection, ClientFields
<1>2. Vouched(d, cred) <=> Vouched(c, cred)
  BY <1>1, VouchedSame
<1> QED  BY <1>1, <1>2 DEF Believes

\* A step that fails takes nothing back either; a client in the state FAILED
\* may keep a key that it did not accept, and does nothing with it.
LEMMA FailureBelieved ==
  ASSUME NEW c, IsClient(c), c.ok, NEW cred, Believes(c, cred)
  PROVE  /\ Believes(C!Fail(c), cred)
         /\ Believes(C!Fail([c EXCEPT !.state = "FAILED"]), cred)
<1> DEFINE e == C!Fail(c)
           f == C!Fail([c EXCEPT !.state = "FAILED"])
<1>1. /\ e.cred = c.cred /\ e.dh = c.dh /\ e.state = c.state /\ e.server_rsa_key = c.server_rsa_key
      /\ e.rl = c.rl /\ e.cipher_suites = c.cipher_suites
  BY DEF C!Fail, IsClient, IsConnection, ClientFields
<1>2. e.use_session_ticket = c.use_session_ticket
  BY DEF C!Fail, IsClient, IsConnection, ClientFields
<1>3. f.cred = c.cred /\ f.dh = c.dh /\ f.state = "FAILED"
  BY DEF C!Fail, IsClient, IsConnection, ClientFields
<1> HIDE DEF e, f
<1>4. (Vouched(e, cred) <=> Vouched(c, cred)) /\ (Vouched(f, cred) <=> Vouched(c, cred))
  BY <1>1, <1>3, VouchedSame
<1>5. Trusts(c, cred) => Trusts(e, cred)
  BY <1>1, <1>2, <1>4 DEF Trusts
<1>6. Trusts(f, cred)
  BY <1>3 DEF Trusts, ClientAsks, ClientKnows
<1> QED  BY <1>1, <1>3, <1>4, <1>5, <1>6 DEF Believes, e, f

\* No step takes a key from the server unless the certificate has been
\* accepted, and the hello that is taken has a suite that the client offered.
LEMMA StepTrust ==
  ASSUME NEW c, ClientIs(c), c.ok, NEW cred, Believes(c, cred), Named(c), NEW ct,
         NEW m, Certified(m, cred), NEW s, s = ClientStep(c, ct, m)
  PROVE  /\ s.dh # NULL => Vouched(c, cred)
         /\ s.ok /\ s.server_rsa_key # NULL => Vouched(c, cred)
         /\ c.state = "SERVER_HELLO" /\ s.ok => m.cipher_suite \in ToSet(c.cipher_suites)
<1>1. IsClient(c) /\ Trusts(c, cred)
  BY DEF ClientIs, Believes
<1>2. c.state # "FAILED" => Sure(c, cred)
  BY <1>1 DEF Sure, Believes, Trusts
<1>3. c.state \in ClientAsks \cup ClientKnows => NamedSuite(c)
  BY <1>1 DEF Trusts, Named, NamedSuite
<1>4. ASSUME SameTrust(c, s), c.state # "FAILED" \/ ~s.ok
      PROVE  /\ s.dh # NULL => Vouched(c, cred)
             /\ s.ok /\ s.server_rsa_key # NULL => Vouched(c, cred)
  BY <1>1, <1>4 DEF SameTrust, Believes, Trusts
<1>5. CASE c.state = "SERVER_HELLO"
  <2>1. s = C!tls_process_server_hello(c, ct, m)
    BY <1>5, ClientStepIs
  <2>2. SameTrust(c, s) /\ (s.ok => m.cipher_suite \in ToSet(c.cipher_suites))
    BY <1>1, <2>1, HelloTrust
  <2> QED  BY <1>4, <1>5, <2>2
<1>6. CASE c.state = "SERVER_CERTIFICATE"
  <2>1. s = C!tls_process_certificate(c, ct, m)
    BY <1>6, ClientStepIs
  <2>2. LearnsSurely(c, cred, s)
    BY <1>1, <1>2, <1>3, <1>6, <2>1, CertificateTrust DEF ClientAsks
  <2> QED  BY <1>6, <2>2 DEF LearnsSurely
<1>7. CASE c.state = "SERVER_KEY_EXCHANGE"
  <2>1. s = C!tls_process_server_key_exchange(c, ct, m)
    BY <1>7, ClientStepIs
  <2>2. LearnsSurely(c, cred, s)
    BY <1>1, <1>2, <1>3, <1>7, <2>1, KeyExchangeTrust DEF ClientAsks
  <2> QED  BY <1>7, <2>2 DEF LearnsSurely
<1>8. CASE c.state = "SERVER_CHANGE_CIPHER_SPEC"
  <2>1. s = C!tls_process_server_change_cipher_spec(c, ct, m)
    BY <1>8, ClientStepIs
  <2>2. LearnsSurely(c, cred, s)
    BY <1>1, <1>2, <1>3, <1>8, <2>1, ChangeTrust DEF ClientKnows
  <2> QED  BY <1>8, <2>2 DEF LearnsSurely
<1>9. CASE c.state \in {"SERVER_CERTIFICATE_REQUEST", "SERVER_HELLO_DONE", "SERVER_FINISHED", "ACK_FINISHED"}
  <2>1. s \in {C!tls_process_certificate_request(c, ct, m), C!tls_process_server_hello_done(c, ct, m),
               C!tls_process_server_finished(c, ct, m), C!tls_process_application_data(c, ct, m)}
    BY <1>9, ClientStepIs
  <2>2. SameTrust(c, s)
    BY <1>1, <2>1, RequestTrust, DoneTrust, FinishedTrust, DataTrust
  <2> QED  BY <1>4, <1>9, <2>2
<1>10. CASE c.state \notin ClientReading
  <2>1. s = C!Fail(c)
    BY <1>10, ClientStepIs
  <2>2. SameTrust(c, s) /\ ~s.ok
    BY <1>1, <2>1 DEF C!Fail, SameTrust, IsClient, IsConnection, ClientFields
  <2>3. c.state # "SERVER_HELLO"
    BY <1>10 DEF ClientReading
  <2> QED  BY <1>4, <2>2, <2>3
<1> QED  BY <1>5, <1>6, <1>7, <1>8, <1>9, <1>10 DEF ClientReading

\* A step of a client that trusts no stranger leaves it so: by reading alone
\* it reaches the states in which it has its keys only with a ticket, or from
\* one another.
LEMMA StepBelieved ==
  ASSUME NEW c, ClientIs(c), c.ok, ClientStates(c), NEW cred, Believes(c, cred), Named(c), NEW ct,
         NEW m, Certified(m, cred), m.type = "server_hello" => m.session_id \in {0, c.round},
         NEW s, s = ClientStep(c, ct, m)
  PROVE  Believes(s, cred)
<1>1. /\ StepReads(c, s)
      /\ s.ok => StepCame(c, ct, m, s)
      /\ ~s.ok => StepFails(c, s)
  BY ClientStepGoesOn
<1>0. IsClient(c)
  BY DEF ClientIs
<1>2. IsClient(c) /\ s.cred = c.cred /\ s.cipher_suites = c.cipher_suites
  BY <1>1 DEF StepReads, ClientReads, SameClient, ClientIs
<1>3. Vouched(s, cred) <=> Vouched(c, cred)
  BY <1>2, VouchedSame
<1>4. /\ s.dh # NULL => Vouched(c, cred)
      /\ s.ok /\ s.server_rsa_key # NULL => Vouched(c, cred)
      /\ c.state = "SERVER_HELLO" /\ s.ok => m.cipher_suite \in ToSet(c.cipher_suites)
  BY StepTrust
<1>5. CASE ~s.ok
  <2>1. CASE s = C!Fail(c)
    <3>1. Believes(C!Fail(c), cred)
      BY <1>0, FailureBelieved
    <3> QED  BY <2>1, <3>1
  <2>2. CASE s.alert # NULL
    BY <1>3, <1>4, <1>5, <2>2 DEF Believes
  <2> QED  BY <1>1, <1>5, <2>1, <2>2 DEF StepFails
<1>6. CASE s.ok
  <2>0. Trusts(c, cred)
    BY DEF Believes
  <2>1. s.state \in ClientAsks \cup ClientKnows => s.rl.suite \in ToSet(s.cipher_suites)
    <3>1. CASE HelloCame(c, ct, m, s)
      BY <1>2, <1>4, <1>6, <3>1 DEF HelloCame
    <3>2. CASE ~HelloCame(c, ct, m, s)
      <4>1. s.rl.suite = c.rl.suite /\ c.state \in ClientAsks \cup ClientKnows
        BY <1>1, <1>6, <3>2 DEF StepCame, AskedOn, TicketRefused, ChangeCame, FinishedCame, DataCame,
             ClientTakes, SameKeys, ClientAsks, ClientKnows
      <4> QED  BY <1>2, <2>0, <4>1 DEF Trusts
    <3> QED  BY <3>1, <3>2
  <2>2. ASSUME s.state \in ClientKnows, ~s.use_session_ticket PROVE Vouched(c, cred)
    <3>1. CASE HelloCame(c, ct, m, s)
      BY <2>2, <3>1 DEF HelloCame, ClientKnows
    <3>2. CASE AskedOn(c, s) \/ TicketRefused(c, s)
      BY <2>2, <3>2 DEF AskedOn, TicketRefused, ClientKnows, ClientAsks
    <3>3. CASE ChangeCame(c, s) \/ FinishedCame(c, m, s) \/ DataCame(c, s)
      <4>1. c.state \in ClientKnows /\ ~c.use_session_ticket
        BY <2>2, <3>3 DEF ChangeCame, FinishedCame, DataCame, ClientTakes, ClientKnows
      <4> QED  BY <2>0, <4>1 DEF Trusts
    <3> QED  BY <1>1, <1>6, <3>1, <3>2, <3>3 DEF StepCame
  <2> QED  BY <1>3, <1>4, <1>6, <2>1, <2>2 DEF Believes, Trusts
<1> QED  BY <1>5, <1>6

\* The hash over the messages says nothing of the key.
LEMMA HashedBelieved ==
  ASSUME NEW c, IsClient(c), NEW cred, Believes(c, cred), NEW v, NEW d, d = [c EXCEPT !.verify = v]
  PROVE  Believes(d, cred)
<1>1. /\ d.cred = c.cred /\ d.dh = c.dh /\ d.state = c.state /\ d.server_rsa_key = c.server_rsa_key
      /\ d.rl = c.rl /\ d.cipher_suites = c.cipher_suites /\ d.alert = c.alert
  BY DEF IsClient, IsConnection, ClientFields
<1>2. (d.use_session_ticket <=> c.use_session_ticket) /\ (d.ok <=> c.ok)
  BY DEF IsClient, IsConnection, ClientFields
<1>3. Vouched(d, cred) <=> Vouched(c, cred)
  BY <1>1, VouchedSame
<1> QED  BY <1>1, <1>2, <1>3 DEF Believes, Trusts

\* A message as a whole.
LEMMA MessageBelieved ==
  ASSUME NEW c, ClientIs(c), c.ok, ClientStates(c), NEW cred, Believes(c, cred), Named(c), NEW ct,
         NEW m, Certified(m, cred), m.type = "server_hello" => m.session_id \in {0, c.round},
         NEW d, d = C!tlsv1_client_process_handshake(c, ct, m)
  PROVE  Believes(d, cred)
<1>1. PICK s : s = ClientStep(c, ct, m)
  OBVIOUS
<1>2. IsClient(c)
  BY DEF ClientIs
<1>3. \/ \E a : a # NULL /\ d = C!FailAlert(c, a)
      \/ d = C!Fail([c EXCEPT !.state = "FAILED"])
      \/ d = c
      \/ d = [s EXCEPT !.verify = C!tls_verify_hash_add(@, m)]
      \/ d = s
  BY <1>1, <1>2, ClientMessageIs
<1>4. Believes(s, cred) /\ IsClient(s)
  BY <1>1, StepBelieved, ClientStepGoesOn DEF StepReads, ClientReads
<1>5. ASSUME NEW a, a # NULL, d = C!FailAlert(c, a) PROVE Believes(d, cred)
  BY <1>2, <1>5, AlertBelieved
<1>6. CASE d = C!Fail([c EXCEPT !.state = "FAILED"])
  <2>1. Believes(C!Fail([c EXCEPT !.state = "FAILED"]), cred)
    BY <1>2, FailureBelieved
  <2> QED  BY <1>6, <2>1
<1>7. CASE d = [s EXCEPT !.verify = C!tls_verify_hash_add(@, m)]
  <2>1. PICK v : v = C!tls_verify_hash_add(s.verify, m)
    OBVIOUS
  <2>2. d = [s EXCEPT !.verify = v]
    BY <1>7, <2>1
  <2> QED  BY <1>4, <2>2, HashedBelieved
<1> QED  BY <1>3, <1>4, <1>5, <1>6, <1>7

\* The record layer gives up the message that was in the record.
LEMMA ReceivedCertified ==
  ASSUME NEW rl, NEW r, NEW s, ToClientOk(r, s), NEW cred, Shows(r, cred),
         C!tlsv1_record_receive(rl, r).alert = NULL
  PROVE  Certified(C!tlsv1_record_receive(rl, r).m, cred)
<1> DEFINE g == C!tlsv1_record_receive(rl, r)
<1>1. r.hdr = "ok" /\ g.m \in {r.m, C!Noise}
  <2>1. \A a \in Alerts : a # NULL
    BY NullAssumption
  <2> QED  BY <2>1 DEF C!tlsv1_record_receive, ToClientOk, Headers, Alerts
<1>2. C!Noise.type = "noise"
  BY DEF C!Noise
<1> HIDE DEF g
<1>3. CASE g.m = r.m
  BY <1>1, <1>3 DEF Shows, Certified, g
<1>4. CASE g.m = C!Noise
  BY <1>2, <1>4 DEF Shows, Certified, g
<1> QED  BY <1>1, <1>3, <1>4

\* A record as a whole.
LEMMA ReceivedBelieved ==
  ASSUME NEW c, ClientIs(c), c.ok => ClientStates(c), NEW s, c.round = s.round,
         NEW r, ToClientOk(r, s), NEW cred, Shows(r, cred), Believes(c, cred), Named(c)
  PROVE  Believes(C!ReceiveRecord(c, r), cred)
<1> DEFINE g == C!tlsv1_record_receive(c.rl, r)
           e == [c EXCEPT !.rl = C!RecordRead(@)]
           d == C!tlsv1_client_process_handshake(e, r.ct, g.m)
<1>0. IsClient(c)
  BY DEF ClientIs
<1>1. CASE ~c.ok
  BY <1>1 DEF C!ReceiveRecord
<1>2. CASE c.ok /\ g.alert # NULL
  <2>1. C!ReceiveRecord(c, r) = C!FailAlert(c, g.alert)
    BY <1>2 DEF C!ReceiveRecord
  <2> HIDE DEF g
  <2>2. Believes(C!FailAlert(c, g.alert), cred)
    BY <1>0, <1>2, AlertBelieved
  <2> QED  BY <2>1, <2>2
<1>3. CASE c.ok /\ g.alert = NULL
  <2>1. C!ReceiveRecord(c, r) = d
    BY <1>3 DEF C!ReceiveRecord
  <2>2. /\ ClientReads(c, e) /\ e.verify.log = c.verify.log /\ e.state = c.state
        /\ SameKeys(c, e) /\ SameHello(c, e)
        /\ e.rl.read.key = c.rl.read.key /\ e.rl.read.suite = c.rl.read.suite
        /\ e.ok = c.ok /\ e.use_session_ticket = c.use_session_ticket
    <3> HIDE DEF e
    <3> QED  BY <1>0, CountedClient, CountedFlags DEF e
  <2>3. e.dh = c.dh /\ e.server_rsa_key = c.server_rsa_key /\ e.alert = c.alert
    BY <1>0 DEF IsClient, IsConnection, ClientFields
  <2> HIDE DEF e
  <2>4. ClientMoves(c, s, e)
    BY <1>3, <2>2, ClientStaysOrEnds
  <2>5. ClientIs(e) /\ e.round = c.round
    BY <2>4, MovesKeepIs
  <2>6. e.ok /\ ClientStates(e)
    BY <1>3, <2>2, <2>4 DEF ClientMoves
  <2>7. SameClient(c, e) /\ e.rl.suite = c.rl.suite
    BY <2>2 DEF ClientReads, SameKeys
  <2>8. Vouched(e, cred) <=> Vouched(c, cred)
    BY <2>7, VouchedSame DEF SameClient
  <2>9. Believes(e, cred) /\ Named(e)
    <3>1. e.use_session_ticket <=> c.use_session_ticket
      BY <2>2
    <3> QED  BY <1>3, <2>2, <2>3, <2>6, <2>7, <2>8, <3>1 DEF Believes, Trusts, Named, SameClient
  <2>10. FromServer(e, s, g.m) /\ Certified(g.m, cred)
    BY <1>3, <2>2, <2>5, ClientRecordReceived, ReceivedCertified
  <2> HIDE DEF g
  <2>11. Believes(d, cred)
    BY <2>5, <2>6, <2>9, <2>10, MessageBelieved DEF FromServer
  <2> QED  BY <2>1, <2>11
<1> QED  BY <1>1, <1>2, <1>3

\* Any number of records.
LEMMA StagesBelieved ==
  ASSUME NEW c, ClientIs(c), ClientStates(c), NEW s, c.round = s.round, NEW seq, IsSeq(seq),
         \A i \in DOMAIN seq : ToClientOk(seq[i], s),
         NEW cred, ShowsAll(seq, cred), Believes(c, cred), Named(c)
  PROVE  Believes(C!FoldLeft(C!ReceiveRecord, c, seq), cred)
<1>0. Len(seq) \in Nat /\ DOMAIN seq = 1 .. Len(seq)
  BY DEF IsSeq
<1>1. PICK h : Chain(h, "client handshake", c, seq) /\ h[Len(seq)] = C!FoldLeft(C!ReceiveRecord, c, seq)
  BY ClientHandshakeChain
<1> DEFINE T == {i \in 0 .. Len(seq) : ClientMoves(c, s, h[i]) /\ Believes(h[i], cred)}
<1>2. 0 \in T
  <2>1. h[0] = c
    BY <1>1 DEF Chain
  <2>2. ClientMoves(c, s, h[0]) /\ Believes(h[0], cred)
    BY <2>1, ClientMovesNothing
  <2>3. 0 \in 0 .. Len(seq)
    BY <1>0
  <2> QED  BY <2>2, <2>3, Zenon
<1>3. ASSUME NEW i \in 0 .. Len(seq) - 1, i \in T PROVE i + 1 \in T
  <2>1. i + 1 \in 1 .. Len(seq) /\ i + 1 - 1 = i /\ i \in Nat
    BY <1>0
  <2>2. h[i + 1] = C!ReceiveRecord(h[i], seq[i + 1])
    BY <1>1, <2>1 DEF Chain, Step
  <2>3. ClientMoves(c, s, h[i]) /\ Believes(h[i], cred)
    BY <1>3
  <2>4. ToClientOk(seq[i + 1], s) /\ Shows(seq[i + 1], cred)
    BY <1>0, <2>1 DEF ShowsAll
  <2>5. ClientIs(h[i]) /\ h[i].round = s.round
    BY <2>3, MovesKeepIs
  <2>6. (h[i].ok => ClientStates(h[i])) /\ Named(h[i])
    BY <2>3 DEF ClientMoves, ClientReads, SameClient, Named
  <2>7. h[i + 1] = h[i] \/ ClientMoves(h[i], s, h[i + 1])
    BY <2>2, <2>4, <2>5, <2>6, ClientReceives
  <2>8. ClientMoves(c, s, h[i + 1])
    BY <2>3, <2>7, ClientMovesFurther
  <2>9. Believes(h[i + 1], cred)
    BY <2>2, <2>3, <2>4, <2>5, <2>6, ReceivedBelieved
  <2> QED  BY <1>0, <2>1, <2>8, <2>9
<1> HIDE DEF T
<1>4. Len(seq) \in T
  BY <1>0, <1>2, <1>3, UpTo
<1> QED  BY <1>1, <1>4 DEF T

USE DEF IsClient, IsConnection, ClientFields, LayerFields, DirectionFields, SameClient

(***************************************************************************)
(* What the client goes on with: the messages that it writes               *)
(***************************************************************************)

\* A function of the client that writes takes no key, and leaves suite and
\* state as they are.
Holds(c, d) ==
  /\ IsClient(d) /\ SameTrust(c, d) /\ d.cipher_suites = c.cipher_suites
  /\ d.rl.suite = c.rl.suite /\ d.state = c.state /\ (d.use_session_ticket <=> c.use_session_ticket)
  /\ d.ok => c.ok

\* The same between calls.
Sound(c, cred) == (c.dh # NULL => Vouched(c, cred)) /\ Trusts(c, cred)

\* Doing nothing takes nothing.
LEMMA HoldsNothing ==
  ASSUME NEW c, IsClient(c)
  PROVE  Holds(c, c)
BY DEF Holds, SameTrust

\* One part of a call after another.
LEMMA HoldsFurther ==
  ASSUME NEW c, NEW d, NEW e, Holds(c, d), Holds(d, e)
  PROVE  Holds(c, e)
<1> HIDE DEF IsClient
<1>1. SameTrust(c, e)
  BY SameTrustFurther DEF Holds
<1> QED  BY <1>1 DEF Holds

\* A client that is sound stays so with the keys that it has.
LEMMA HoldsSound ==
  ASSUME NEW c, NEW d, Holds(c, d), NEW cred, Sound(c, cred)
  PROVE  Sound(d, cred)
<1> HIDE DEF IsClient
<1>1. Vouched(d, cred) <=> Vouched(c, cred)
  BY VouchedSame DEF Holds, SameTrust
<1> QED  BY <1>1 DEF Holds, SameTrust, Sound, Trusts

\* The sending of a handshake message takes no key.
LEMMA SendHolds ==
  ASSUME NEW c, IsClient(c), NEW m
  PROVE  Holds(c, C!SendHandshake(c, m))
<1> DEFINE d == C!SendHandshake(c, m)
<1>1. IsClient(d) /\ d.rl.suite = c.rl.suite /\ d.state = c.state /\ d.cipher_suites = c.cipher_suites
  <2> HIDE DEF IsClient
  <2>1. ClientWritesOn(c, d)
    BY ClientSendIs
  <2> QED  BY <2>1 DEF ClientWritesOn, ClientWrites
<1>2. SameTrust(c, d)
  BY DEF C!SendHandshake, C!tlsv1_record_send, SameTrust
<1>3. (d.use_session_ticket <=> c.use_session_ticket) /\ (d.ok <=> c.ok)
  BY DEF C!SendHandshake, C!tlsv1_record_send
<1> QED  BY <1>1, <1>2, <1>3 DEF Holds

\* Nor does an error.
LEMMA FailHolds ==
  ASSUME NEW c, IsClient(c), NEW a
  PROVE  Holds(c, C!FailAlert(c, a)) /\ Holds(c, C!Fail(c))
BY DEF Holds, SameTrust, C!FailAlert, C!Fail

\* Nor do the keys that are made from the secret.
LEMMA DeriveHolds ==
  ASSUME NEW c, IsClient(c), NEW pms
  PROVE  Holds(c, C!tls_derive_keys(c, pms))
<1> DEFINE d == C!tls_derive_keys(c, pms)
<1>1. SameTrust(c, d)
  BY DeriveTrust
<1>2. /\ IsClient(d) /\ d.cipher_suites = c.cipher_suites
      /\ d.rl.suite = c.rl.suite /\ d.state = c.state
  BY DEF C!tls_derive_keys, C!FailAlert
<1>3. (d.use_session_ticket <=> c.use_session_ticket) /\ (d.ok => c.ok)
  BY DEF C!tls_derive_keys, C!FailAlert
<1> HIDE DEF d
<1> QED  BY <1>1, <1>2, <1>3 DEF Holds, d

\* tlsv1_client_free_dh() forgets one.
LEMMA FreeHolds ==
  ASSUME NEW c, IsClient(c)
  PROVE  Holds(c, C!tlsv1_client_free_dh(c))
BY DEF Holds, SameTrust, C!tlsv1_client_free_dh

\* tlsv1_key_x_dh() and tlsv1_key_x_rsa() take none, and make a secret only
\* with one that the client has.
LEMMA SecretHolds ==
  ASSUME NEW c, IsClient(c), NEW x, x \in {C!tlsv1_key_x_dh(c), C!tlsv1_key_x_rsa(c)}
  PROVE  /\ Holds(c, x.conn)
         /\ x.conn.ok => c.dh # NULL \/ c.server_rsa_key # NULL
<1> HIDE DEF IsClient
<1> DEFINE f == C!FailAlert(c, "INTERNAL_ERROR")
<1>1. Holds(c, f) /\ ~f.ok
  <2>1. Holds(c, f)
    BY FailHolds
  <2>2. ~f.ok
    BY DEF C!FailAlert, IsClient, IsConnection, ClientFields
  <2> QED  BY <2>1, <2>2
<1>2. CASE x = C!tlsv1_key_x_dh(c)
  <2> DEFINE pms == [dh |-> {<<"client_dh", c.round>>, c.dh.ys}]
             e == C!tls_derive_keys(c, pms)
  <2>1. x.conn = f \/ (c.dh # NULL /\ x.conn \in {C!tlsv1_client_free_dh(e), e})
    <3> HIDE DEF e, f
    <3> QED  BY <1>2 DEF C!tlsv1_key_x_dh, e, f
  <2> HIDE DEF pms
  <2>2. Holds(c, e) /\ IsClient(e)
    BY DeriveHolds DEF Holds
  <2> HIDE DEF e, f
  <2>3. Holds(c, C!tlsv1_client_free_dh(e))
    BY <2>2, FreeHolds, HoldsFurther
  <2> QED  BY <1>1, <2>1, <2>2, <2>3
<1>3. CASE x = C!tlsv1_key_x_rsa(c)
  <2> DEFINE pms == C!tls_derive_pre_master_secret(c)
             e == C!tls_derive_keys(c, pms)
             g == C!FailAlert(e, "INTERNAL_ERROR")
  <2>1. x.conn \in {f, g} \/ (c.server_rsa_key # NULL /\ x.conn = e)
    <3> HIDE DEF e, pms, f
    <3> QED  BY <1>3 DEF C!tlsv1_key_x_rsa, e, pms, f, g
  <2> HIDE DEF pms
  <2>2. Holds(c, e) /\ IsClient(e)
    BY DeriveHolds DEF Holds
  <2> HIDE DEF e, f
  <2>3. Holds(c, g) /\ ~g.ok
    <3>1. Holds(e, g)
      BY <2>2, FailHolds
    <3>2. ~g.ok
      BY <2>2 DEF C!FailAlert, IsClient, IsConnection, ClientFields
    <3> HIDE DEF g
    <3> QED  BY <2>2, <3>1, <3>2, HoldsFurther
  <2> HIDE DEF g
  <2> QED  BY <1>1, <2>1, <2>2, <2>3
<1> QED  BY <1>2, <1>3

\* So tls_write_client_key_exchange() fails unless the client has a key of
\* the server's.
LEMMA ExchangeHolds ==
  ASSUME NEW c, IsClient(c), NEW d, d = C!tls_write_client_key_exchange(c)
  PROVE  /\ Holds(c, d)
         /\ d.ok => c.dh # NULL \/ c.server_rsa_key # NULL
<1> HIDE DEF IsClient
<1>1. PICK x : /\ x \in {C!tlsv1_key_x_dh(c), C!tlsv1_key_x_rsa(c)}
               /\ \/ ~x.conn.ok /\ d = x.conn
                  \/ \E m : d = C!SendHandshake(x.conn, m)
  <2> DEFINE dh == C!tlsv1_key_x_dh(c)
             rsa == C!tlsv1_key_x_rsa(c)
             x == IF C!tls_get_cipher_suite(c.rl.suite).key_exchange \in {"DH_anon", "DHE_RSA"}
                  THEN dh ELSE rsa
             m == [type |-> "client_key_exchange", fmt |-> "ok", value |-> x.value]
  <2>1. d = IF ~x.conn.ok THEN x.conn ELSE C!SendHandshake(x.conn, m)
    BY DEF C!tls_write_client_key_exchange
  <2>2. x \in {dh, rsa}
    <3> HIDE DEF dh, rsa
    <3> QED  OBVIOUS
  <2> HIDE DEF m, x
  <2> QED  BY <2>1, <2>2
<1>2. /\ Holds(c, x.conn)
      /\ x.conn.ok => c.dh # NULL \/ c.server_rsa_key # NULL
  BY <1>1, SecretHolds
<1>3. IsClient(x.conn)
  BY <1>2 DEF Holds
<1>4. CASE ~x.conn.ok /\ d = x.conn
  BY <1>2, <1>4
<1>5. ASSUME NEW m, d = C!SendHandshake(x.conn, m) PROVE Holds(x.conn, d)
  BY <1>3, <1>5, SendHolds
<1>6. CASE \E m : d = C!SendHandshake(x.conn, m)
  <2>1. Holds(x.conn, d)
    BY <1>5, <1>6
  <2>2. Holds(c, d)
    BY <1>2, <2>1, HoldsFurther
  <2> QED  BY <1>2, <2>1, <2>2 DEF Holds
<1> QED  BY <1>1, <1>4, <1>6

\* The closing of a hash takes no key.
LEMMA FinishHashHolds ==
  ASSUME NEW c, IsClient(c), NEW t
  PROVE  Holds(c, [c EXCEPT !.verify = C!HashFinish(@, t)])
BY DEF Holds, SameTrust, C!HashFinish

\* tls_write_client_certificate_verify() takes none.
LEMMA VerifyHolds ==
  ASSUME NEW c, IsClient(c), NEW d, d = C!tls_write_client_certificate_verify(c)
  PROVE  Holds(c, d)
<1> HIDE DEF IsClient, IsConnection
<1> DEFINE e == [c EXCEPT !.verify = C!HashFinish(@, "cert")]
<1>1. \/ d = c
      \/ d = C!FailAlert(e, "INTERNAL_ERROR")
      \/ \E m : d = C!SendHandshake(e, m)
  <2> HIDE DEF e
  <2> QED  BY DEF C!tls_write_client_certificate_verify, e
<1>2. Holds(c, e) /\ IsClient(e)
  <2>1. Holds(c, e)
    BY FinishHashHolds
  <2> QED  BY <2>1 DEF Holds
<1> HIDE DEF e
<1>3. CASE d = c
  BY <1>3, HoldsNothing
<1>4. CASE d = C!FailAlert(e, "INTERNAL_ERROR")
  BY <1>2, <1>4, FailHolds, HoldsFurther
<1>5. CASE \E m : d = C!SendHandshake(e, m)
  BY <1>2, <1>5, SendHolds, HoldsFurther
<1> QED  BY <1>1, <1>3, <1>4, <1>5

\* Nor does tls_write_client_finished().
LEMMA LastHolds ==
  ASSUME NEW c, IsClient(c), NEW d, d = C!tls_write_client_finished(c)
  PROVE  Holds(c, d)
<1> HIDE DEF IsClient, IsConnection
<1> DEFINE e == [c EXCEPT !.verify = C!HashFinish(@, "client")]
<1>1. \/ d = c
      \/ d = C!FailAlert(e, "INTERNAL_ERROR")
      \/ \E m : d = C!SendHandshake(e, m)
  <2> HIDE DEF e
  <2> QED  BY DEF C!tls_write_client_finished, e
<1>2. Holds(c, e) /\ IsClient(e)
  <2>1. Holds(c, e)
    BY FinishHashHolds
  <2> QED  BY <2>1 DEF Holds
<1> HIDE DEF e
<1>3. CASE d = c
  BY <1>3, HoldsNothing
<1>4. CASE d = C!FailAlert(e, "INTERNAL_ERROR")
  BY <1>2, <1>4, FailHolds, HoldsFurther
<1>5. CASE \E m : d = C!SendHandshake(e, m)
  BY <1>2, <1>5, SendHolds, HoldsFurther
<1> QED  BY <1>1, <1>3, <1>4, <1>5

\* Nor does tls_write_client_change_cipher_spec().
LEMMA SpecHolds ==
  ASSUME NEW c, IsClient(c), NEW d, d = C!tls_write_client_change_cipher_spec(c)
  PROVE  Holds(c, d)
<1> DEFINE told == C!tlsv1_record_send(c, "change_cipher_spec",
                                       [type |-> "change_cipher_spec", fmt |-> "ok"])
           e == [told EXCEPT !.rl = C!tlsv1_record_change_write_cipher(@)]
<1>1. d \in {c, C!FailAlert(e, "INTERNAL_ERROR"), e}
  <2> HIDE DEF told, e
  <2> QED  BY DEF C!tls_write_client_change_cipher_spec, e, told
<1>2. Holds(c, e) /\ IsClient(e)
  <2>1. IsSeq(told.out)
    <3>1. told.out = Append(c.out, C!Record(c.rl, "change_cipher_spec",
                                           [type |-> "change_cipher_spec", fmt |-> "ok"]))
      BY DEF C!tlsv1_record_send
    <3> HIDE DEF told
    <3> QED  BY <3>1, AppendFacts
  <2>2. IsClient(told) /\ SameTrust(c, told) /\ told.cipher_suites = c.cipher_suites
        /\ told.rl.suite = c.rl.suite /\ told.state = c.state
    BY <2>1 DEF C!tlsv1_record_send, SameTrust
  <2>3. (told.use_session_ticket <=> c.use_session_ticket) /\ (told.ok <=> c.ok)
    BY DEF C!tlsv1_record_send
  <2> HIDE DEF told
  <2>4. IsClient(e) /\ SameTrust(told, e) /\ e.cipher_suites = told.cipher_suites
        /\ e.rl.suite = told.rl.suite /\ e.state = told.state
    BY <2>2 DEF C!tlsv1_record_change_write_cipher, C!Direction, SameTrust
  <2>5. (e.use_session_ticket <=> told.use_session_ticket) /\ (e.ok <=> told.ok)
    BY <2>2
  <2> HIDE DEF e, IsClient
  <2> QED  BY <2>2, <2>3, <2>4, <2>5, SameTrustFurther DEF Holds
<1> HIDE DEF e, IsClient, IsConnection
<1>3. Holds(c, C!FailAlert(e, "INTERNAL_ERROR"))
  BY <1>2, FailHolds, HoldsFurther
<1> QED  BY <1>1, <1>2, <1>3, HoldsNothing

\* Nor do the two together.
LEMMA EndHolds ==
  ASSUME NEW c, IsClient(c),
         NEW d, d = C!tls_write_client_finished(C!tls_write_client_change_cipher_spec(c))
  PROVE  Holds(c, d)
<1> HIDE DEF IsClient, IsConnection
<1>1. PICK e : e = C!tls_write_client_change_cipher_spec(c)
  OBVIOUS
<1>2. Holds(c, e) /\ IsClient(e)
  <2>1. Holds(c, e)
    BY <1>1, SpecHolds
  <2> QED  BY <2>1 DEF Holds
<1>3. Holds(e, d)
  BY <1>1, <1>2, LastHolds
<1> QED  BY <1>2, <1>3, HoldsFurther

\* Nor does tls_write_client_certificate().
LEMMA ClientCertificateHolds ==
  ASSUME NEW c, IsClient(c), NEW d, d = C!tls_write_client_certificate(c)
  PROVE  Holds(c, d)
<1> HIDE DEF IsClient, IsConnection
<1>1. PICK m : d = C!SendHandshake(c, m)
  BY DEF C!tls_write_client_certificate
<1> QED  BY <1>1, SendHolds

HIDE DEF IsClient, IsConnection, ClientFields, LayerFields, DirectionFields, SameClient

(***************************************************************************)
(* The flights of the client, and a call as a whole                        *)
(***************************************************************************)

\* A client whose output is dropped.
LEMMA DroppedSound ==
  ASSUME NEW c, NEW d, Holds(c, d), NEW cred, Sound(c, cred), NEW e, e = [d EXCEPT !.out = <<>>]
  PROVE  IsClient(e) /\ Sound(e, cred)
<1>0. IsClient(d)
  BY DEF Holds
<1>1. d.cred = e.cred /\ d.server_rsa_key = e.server_rsa_key /\ e.dh = d.dh
      /\ e.cipher_suites = d.cipher_suites /\ e.rl = d.rl /\ e.state = d.state
  BY <1>0 DEF IsClient, IsConnection, ClientFields
<1>2. e.use_session_ticket <=> d.use_session_ticket
  BY <1>0 DEF IsClient, IsConnection, ClientFields
<1>3. Vouched(e, cred) <=> Vouched(d, cred)
  BY <1>1, VouchedSame
<1>4. Sound(d, cred)
  BY HoldsSound
<1>5. IsSeq(<<>>)
  <2>1. <<>> \in Seq({})
    OBVIOUS
  <2> QED  BY <2>1 DEF IsSeq
<1>6. IsClient(e)
  BY <1>0, <1>5 DEF IsClient, IsConnection, ClientFields
<1> QED  BY <1>1, <1>2, <1>3, <1>4, <1>6 DEF Sound, Trusts

\* A client may go on to a state in which it has its keys when it has
\* accepted the certificate, or has a ticket.
LEMMA GoesOnSound ==
  ASSUME NEW c, NEW d, Holds(c, d), NEW cred, Sound(c, cred),
         c.state \in ClientAsks \cup ClientKnows, c.use_session_ticket \/ Vouched(c, cred),
         NEW st, st \in ClientKnows, NEW e, IsClient(e), SameTrust(d, e), e.rl = d.rl,
         e.cipher_suites = d.cipher_suites, e.state = st,
         e.use_session_ticket <=> d.use_session_ticket
  PROVE  Sound(e, cred)
<1>1. /\ Vouched(d, cred) <=> Vouched(c, cred)
      /\ Vouched(e, cred) <=> Vouched(c, cred)
  BY VouchedSame DEF Holds, SameTrust
<1>2. e.rl.suite \in ToSet(e.cipher_suites)
  BY DEF Sound, Trusts, Holds
<1>3. ~e.use_session_ticket => Vouched(e, cred)
  BY <1>1 DEF Holds
<1>4. /\ e.dh # NULL => Vouched(e, cred)
      /\ e.server_rsa_key # NULL => Vouched(e, cred)
  <2>1. c.state # "FAILED"
    BY DEF ClientAsks, ClientKnows
  <2> QED  BY <1>1, <2>1 DEF Holds, SameTrust, Sound, Trusts
<1> QED  BY <1>2, <1>3, <1>4 DEF Sound, Trusts

\* tls_send_client_key_exchange(): the flight with which the client goes on
\* from the key exchange goes out only if there is a key of the server's to
\* make the secret with.
LEMMA SendExchangeSound ==
  ASSUME NEW c, IsClient(c), NEW cred, Sound(c, cred), c.state = "CLIENT_KEY_EXCHANGE",
         NEW d, d = C!tls_send_client_key_exchange(c)
  PROVE  IsClient(d) /\ Sound(d, cred)
<1> DEFINE certificate == IF c.certificate_requested THEN C!tls_write_client_certificate(c) ELSE c
           exchange == C!tls_write_client_key_exchange(certificate)
           verify == IF c.certificate_requested /\ c.cred # NULL /\ c.cred.key
                     THEN C!tls_write_client_certificate_verify(exchange) ELSE exchange
           done == C!tls_write_client_finished(C!tls_write_client_change_cipher_spec(verify))
<1>1. d = IF c.fault = "output" THEN C!Fail(c)
          ELSE IF done.ok THEN [done EXCEPT !.state = "SERVER_CHANGE_CIPHER_SPEC"]
          ELSE [done EXCEPT !.out = <<>>]
  BY DEF C!tls_send_client_key_exchange
<1>2. Holds(c, certificate) /\ IsClient(certificate)
  <2>1. Holds(c, certificate)
    BY ClientCertificateHolds, HoldsNothing
  <2> QED  BY <2>1 DEF Holds
<1> HIDE DEF certificate
<1>3. /\ Holds(certificate, exchange) /\ IsClient(exchange)
      /\ exchange.ok => certificate.dh # NULL \/ certificate.server_rsa_key # NULL
  BY <1>2, ExchangeHolds DEF Holds
<1> HIDE DEF exchange
<1>4. Holds(exchange, verify) /\ IsClient(verify)
  <2>1. Holds(exchange, verify)
    BY <1>3, VerifyHolds, HoldsNothing
  <2> QED  BY <2>1 DEF Holds
<1> HIDE DEF verify
<1>5. Holds(verify, done) /\ IsClient(done)
  <2>1. Holds(verify, done)
    BY <1>4, EndHolds
  <2> QED  BY <2>1 DEF Holds
<1> HIDE DEF done
<1>6. Holds(exchange, done)
  BY <1>4, <1>5, HoldsFurther
<1>7. Holds(c, done)
  BY <1>2, <1>3, <1>6, HoldsFurther
<1>8. CASE d = C!Fail(c)
  BY <1>8, FailHolds, HoldsSound DEF Holds
<1>9. CASE d = [done EXCEPT !.out = <<>>]
  BY <1>7, <1>9, DroppedSound
<1>10. CASE done.ok /\ d = [done EXCEPT !.state = "SERVER_CHANGE_CIPHER_SPEC"]
  <2>1. c.dh # NULL \/ c.server_rsa_key # NULL
    BY <1>2, <1>3, <1>6, <1>10 DEF Holds, SameTrust
  <2>2. Vouched(c, cred)
    BY <2>1 DEF Sound, Trusts
  <2>3. /\ IsClient(d) /\ SameTrust(done, d) /\ d.rl = done.rl /\ d.cipher_suites = done.cipher_suites
        /\ d.state = "SERVER_CHANGE_CIPHER_SPEC"
    BY <1>5, <1>10 DEF SameTrust, IsClient, IsConnection, ClientFields
  <2>4. d.use_session_ticket <=> done.use_session_ticket
    BY <1>5, <1>10 DEF IsClient, IsConnection, ClientFields
  <2>5. "SERVER_CHANGE_CIPHER_SPEC" \in ClientKnows /\ c.state \in ClientAsks \cup ClientKnows
    BY DEF ClientKnows, ClientAsks
  <2> QED  BY <1>7, <2>2, <2>3, <2>4, <2>5, GoesOnSound
<1> QED  BY <1>1, <1>8, <1>9, <1>10

\* tls_send_change_cipher_spec(): the last flight of a client that goes on
\* from a ticket.
LEMMA SendEndSound ==
  ASSUME NEW c, IsClient(c), NEW cred, Sound(c, cred), c.state = "CHANGE_CIPHER_SPEC",
         NEW d, d = C!tls_send_change_cipher_spec(c)
  PROVE  IsClient(d) /\ Sound(d, cred)
<1> DEFINE done == C!tls_write_client_finished(C!tls_write_client_change_cipher_spec(c))
<1>1. \/ d = C!Fail(c)
      \/ d = [done EXCEPT !.state = "ESTABLISHED", !.session_resumed = @ \/ c.use_session_ticket]
      \/ d = [done EXCEPT !.out = <<>>]
  <2> HIDE DEF done
  <2> QED  BY DEF C!tls_send_change_cipher_spec, done
<1>2. Holds(c, done) /\ IsClient(done)
  <2>1. Holds(c, done)
    BY EndHolds
  <2> QED  BY <2>1 DEF Holds
<1> HIDE DEF done
<1>3. CASE d = C!Fail(c)
  BY <1>3, FailHolds, HoldsSound DEF Holds
<1>4. CASE d = [done EXCEPT !.out = <<>>]
  BY <1>2, <1>4, DroppedSound
<1>5. CASE d = [done EXCEPT !.state = "ESTABLISHED", !.session_resumed = @ \/ c.use_session_ticket]
  <2>1. "ESTABLISHED" \in ClientKnows /\ c.state \in ClientKnows
    BY DEF ClientKnows
  <2>2. c.use_session_ticket \/ Vouched(c, cred)
    BY <2>1 DEF Sound, Trusts
  <2>3. /\ IsClient(d) /\ SameTrust(done, d) /\ d.rl = done.rl /\ d.cipher_suites = done.cipher_suites
        /\ d.state = "ESTABLISHED"
    BY <1>2, <1>5 DEF SameTrust, IsClient, IsConnection, ClientFields
  <2>4. d.use_session_ticket <=> done.use_session_ticket
    BY <1>2, <1>5 DEF IsClient, IsConnection, ClientFields
  <2> QED  BY <1>2, <2>1, <2>2, <2>3, <2>4, GoesOnSound
<1> QED  BY <1>1, <1>3, <1>4, <1>5

\* The call that ends a handshake, after the server's Finished.
LEMMA AcknowledgeSound ==
  ASSUME NEW c, IsClient(c), NEW cred, Sound(c, cred), c.state = "ACK_FINISHED",
         NEW d, d = [c EXCEPT !.state = "ESTABLISHED"]
  PROVE  IsClient(d) /\ Sound(d, cred)
<1>1. "ESTABLISHED" \in ClientKnows /\ c.state \in ClientKnows
  BY DEF ClientKnows
<1>2. c.use_session_ticket \/ Vouched(c, cred)
  BY <1>1 DEF Sound, Trusts
<1>3. /\ IsClient(d) /\ SameTrust(c, d) /\ d.rl = c.rl /\ d.cipher_suites = c.cipher_suites
      /\ d.state = "ESTABLISHED"
  BY DEF SameTrust, IsClient, IsConnection, ClientFields
<1>4. d.use_session_ticket <=> c.use_session_ticket
  BY DEF IsClient, IsConnection, ClientFields
<1> QED  BY <1>1, <1>2, <1>3, <1>4, GoesOnSound, HoldsNothing

\* A call that writes.
LEMMA WriteSound ==
  ASSUME NEW c, IsClient(c), NEW cred, Sound(c, cred), NEW d, d = C!tlsv1_client_handshake_write(c)
  PROVE  IsClient(d) /\ Sound(d, cred)
<1>1. \/ c.state = "CLIENT_KEY_EXCHANGE" /\ d = C!tls_send_client_key_exchange(c)
      \/ c.state = "CHANGE_CIPHER_SPEC" /\ d = C!tls_send_change_cipher_spec(c)
      \/ c.state = "ACK_FINISHED" /\ d = [c EXCEPT !.state = "ESTABLISHED"]
      \/ d = c
  BY DEF C!tlsv1_client_handshake_write
<1> QED  BY <1>1, SendExchangeSound, SendEndSound, AcknowledgeSound

\* What a call leaves when it ends: with an alert it is a client in the state
\* FAILED.
LEMMA FinishSound ==
  ASSUME NEW c, IsClient(c), NEW cred, c.dh # NULL => Vouched(c, cred),
         c.alert = NULL => Trusts(c, cred), NEW d, d = C!FinishCall(c)
  PROVE  Sound(d, cred)
<1>1. /\ d.cred = c.cred /\ d.dh = c.dh /\ d.server_rsa_key = c.server_rsa_key
      /\ d.cipher_suites = c.cipher_suites /\ d.rl = c.rl
  BY DEF C!FinishCall, C!tlsv1_client_send_alert, IsClient, IsConnection, ClientFields
<1>2. /\ c.alert = NULL => d.state = c.state
      /\ c.alert # NULL => d.state = "FAILED"
  BY DEF C!FinishCall, C!tlsv1_client_send_alert, IsClient, IsConnection, ClientFields
<1>3. d.use_session_ticket <=> c.use_session_ticket
  BY DEF C!FinishCall, C!tlsv1_client_send_alert, IsClient, IsConnection, ClientFields
<1>4. Vouched(d, cred) <=> Vouched(c, cred)
  BY <1>1, VouchedSame
<1>5. CASE c.alert = NULL
  BY <1>1, <1>2, <1>3, <1>4, <1>5 DEF Sound, Trusts
<1>6. CASE c.alert # NULL
  BY <1>1, <1>2, <1>4, <1>6 DEF Sound, Trusts, ClientAsks, ClientKnows
<1> QED  BY <1>5, <1>6

\* What is left of a record in the input has no part in it.
LEMMA CountedSound ==
  ASSUME NEW c, IsClient(c), NEW cred, Sound(c, cred), NEW p, NEW d, d = [c EXCEPT !.partial_input = p]
  PROVE  Sound(d, cred)
<1>1. /\ d.cred = c.cred /\ d.server_rsa_key = c.server_rsa_key /\ d.dh = c.dh
      /\ d.cipher_suites = c.cipher_suites /\ d.rl = c.rl /\ d.state = c.state
  BY DEF IsClient, IsConnection, ClientFields
<1>2. d.use_session_ticket <=> c.use_session_ticket
  BY DEF IsClient, IsConnection, ClientFields
<1>3. Vouched(d, cred) <=> Vouched(c, cred)
  BY <1>1, VouchedSame
<1> QED  BY <1>1, <1>2, <1>3 DEF Sound, Trusts

\* tls_send_client_hello(): the first message of a handshake.
LEMMA HelloSound ==
  ASSUME NEW c, IsClient(c), NEW cred, Sound(c, cred), c.state = "CLIENT_HELLO",
         NEW d, d = C!tls_send_client_hello(c)
  PROVE  Sound(d, cred)
<1> DEFINE greeting == [c EXCEPT !.client_random = <<"client", c.round>>]
<1>1. d \in {c, greeting} \/ \E m : d = [C!SendHandshake(greeting, m) EXCEPT !.state = "SERVER_HELLO"]
  <2> DEFINE hello == [type |-> "client_hello", fmt |-> "ok",
                       version |-> C!tls_client_highest_ver(c.flags),
                       random |-> <<"client", c.round>>,
                       session_id |-> c.session_id,
                       cipher_suites |-> c.cipher_suites, compression |-> TRUE,
                       ticket |-> c.session_ticket_included,
                       status_request |-> C!StatusRequestExtensions(c)]
  <2>1. hello.random = <<"client", c.round>>
    OBVIOUS
  <2>2. \/ d = c
        \/ d = [c EXCEPT !.client_random = hello.random]
        \/ d = [C!SendHandshake([c EXCEPT !.client_random = hello.random], hello) EXCEPT !.state = "SERVER_HELLO"]
    <3> HIDE DEF hello
    <3> QED  BY DEF C!tls_send_client_hello, hello
  <2> HIDE DEF hello
  <2> QED  BY <2>1, <2>2
<1>2. Holds(c, greeting) /\ IsClient(greeting)
  BY DEF Holds, SameTrust, IsClient, IsConnection, ClientFields
<1> HIDE DEF greeting
<1>3. CASE d \in {c, greeting}
  BY <1>2, <1>3, HoldsSound
<1>4. ASSUME NEW m, d = [C!SendHandshake(greeting, m) EXCEPT !.state = "SERVER_HELLO"]
      PROVE  Sound(d, cred)
  <2>1. PICK e : e = C!SendHandshake(greeting, m)
    OBVIOUS
  <2>2. Holds(greeting, e) /\ IsClient(e)
    <3>1. Holds(greeting, e)
      BY <1>2, <2>1, SendHolds
    <3> QED  BY <3>1 DEF Holds
  <2>3. Holds(c, e)
    BY <1>2, <2>2, HoldsFurther
  <2>4. Sound(e, cred) /\ e.state = "CLIENT_HELLO"
    BY <2>3, HoldsSound DEF Holds
  <2>5. /\ d.cred = e.cred /\ d.server_rsa_key = e.server_rsa_key /\ d.dh = e.dh
        /\ d.state = "SERVER_HELLO"
    BY <1>4, <2>1, <2>2 DEF IsClient, IsConnection, ClientFields
  <2>6. Vouched(d, cred) <=> Vouched(e, cred)
    BY <2>5, VouchedSame
  <2> QED  BY <2>4, <2>5, <2>6 DEF Sound, Trusts, ClientAsks, ClientKnows
<1> QED  BY <1>1, <1>3, <1>4

\* A call that fails after it has read.
LEMMA FailedCallSound ==
  ASSUME NEW c, IsClient(c), NEW cred, c.dh # NULL => Vouched(c, cred)
  PROVE  Sound(C!FinishCall(C!FailAlert(c, "INTERNAL_ERROR")), cred)
<1>1. PICK e : e = C!FailAlert(c, "INTERNAL_ERROR")
  OBVIOUS
<1>2. Holds(c, e) /\ IsClient(e)
  <2>1. Holds(c, e)
    BY <1>1, FailHolds
  <2> QED  BY <2>1 DEF Holds
<1>3. e.alert # NULL
  <2>1. e.alert = "INTERNAL_ERROR"
    BY <1>1 DEF C!FailAlert, IsClient, IsConnection, ClientFields
  <2> QED  BY <2>1, AlertIsSet DEF Alerts
<1>4. e.dh # NULL => Vouched(e, cred)
  <2>1. Vouched(e, cred) <=> Vouched(c, cred)
    BY <1>2, VouchedSame DEF Holds, SameTrust
  <2> QED  BY <1>2, <2>1 DEF Holds, SameTrust
<1>5. PICK d : d = C!FinishCall(e)
  OBVIOUS
<1>6. Sound(d, cred)
  BY <1>2, <1>3, <1>4, <1>5, FinishSound
<1> QED  BY <1>1, <1>5, <1>6

\* A call of tlsv1_client_handshake() as a whole, for every stream in which
\* the certificates are the server's.
LEMMA ClientCallSound ==
  ASSUME NEW c, ClientIs(c), ClientStates(c), NEW s, c.round = s.round,
         c.partial_input \in Nat, NEW fault, NEW stream, IsSeq(stream),
         \A i \in DOMAIN stream : ToClientOk(stream[i], s),
         NEW cred, ShowsAll(stream, cred), Sound(c, cred), Named(c),
         NEW n \in Nat, c.state = "CLIENT_HELLO" \/ c.partial_input + n <= 2 * Len(stream),
         NEW d, d = C!tlsv1_client_handshake(c, fault, stream, n)
  PROVE  Sound(d, cred)
<1> DEFINE halves == c.partial_input + n
           start == [c EXCEPT !.fault = fault, !.ok = TRUE, !.out = <<>>, !.appl_data = NULL]
           seq == SubSeq(stream, 1, halves \div 2)
           read == C!FoldLeft(C!ReceiveRecord, start, seq)
           held == IF start.partial_input = 0 THEN 0 ELSE halves
           lost == C!FinishCall(C!FailAlert(start, "INTERNAL_ERROR"))
           late == C!FinishCall(C!FailAlert(read, "INTERNAL_ERROR"))
           hello == C!tls_send_client_hello(start)
           written == C!tlsv1_client_handshake_write(read)
<1>1. \/ c.state = "CLIENT_HELLO" /\ d = hello
      \/ d \in {start, lost}
      \/ \E p : d = [start EXCEPT !.partial_input = p]
      \/ /\ c.state # "CLIENT_HELLO"
         /\ \/ d \in {C!FinishCall(read), late}
            \/ read.ok /\ d = [read EXCEPT !.partial_input = 1]
            \/ read.ok /\ d = C!FinishCall(written)
  <2>1. \/ c.state = "CLIENT_HELLO" /\ d = hello
        \/ d \in {start, lost}
        \/ d = [start EXCEPT !.partial_input = held]
        \/ /\ c.state # "CLIENT_HELLO"
           /\ \/ d \in {C!FinishCall(read), late}
              \/ read.ok /\ d = [read EXCEPT !.partial_input = 1]
              \/ read.ok /\ d = C!FinishCall(written)
    <3> HIDE DEF start, read, halves, hello, lost, late, written
    <3> QED  BY DEF C!tlsv1_client_handshake, start, read, seq, halves, hello, lost, late, written
  <2> HIDE DEF start, read, held, hello, lost, late, written
  <2> QED  BY <2>1
<1>2. IsClient(c) /\ halves \in Nat
  BY DEF ClientIs
<1>3. IsSeq(<<>>)
  <2>1. <<>> \in Seq({})
    OBVIOUS
  <2> QED  BY <2>1 DEF IsSeq
<1>4. /\ IsClient(start) /\ SameClient(c, start) /\ SameKeys(c, start) /\ SameHello(c, start)
      /\ start.verify = c.verify /\ start.rl = c.rl /\ start.state = c.state /\ start.out = <<>>
      /\ start.round = c.round
  BY <1>2, <1>3 DEF SameKeys, SameHello, SameClient, IsClient, IsConnection, ClientFields
<1>5. (start.use_session_ticket <=> c.use_session_ticket) /\ start.ok
  BY <1>2 DEF IsClient, IsConnection, ClientFields
<1>6. start.use_session_ticket = c.use_session_ticket
  BY <1>2 DEF IsClient, IsConnection, ClientFields
<1>7. start.dh = c.dh /\ start.server_rsa_key = c.server_rsa_key
  BY <1>2 DEF IsClient, IsConnection, ClientFields
<1> HIDE DEF start, halves
<1>8. /\ ClientIs(start) /\ ClientStates(start)
  BY <1>4, <1>6, ClientSameFrozen, ClientSameStates DEF ClientSame
<1>9. Sound(start, cred) /\ Named(start) /\ Believes(start, cred)
  <2>1. Vouched(start, cred) <=> Vouched(c, cred)
    BY <1>4, VouchedSame DEF SameClient
  <2> QED  BY <1>4, <1>5, <1>7, <2>1 DEF Sound, Believes, Trusts, Named, SameClient
<1>10. CASE c.state = "CLIENT_HELLO" /\ d = hello
  BY <1>4, <1>9, <1>10, HelloSound
<1>11. CASE d \in {start, lost}
  BY <1>4, <1>9, <1>11, FailedCallSound DEF Sound
<1>12. CASE \E p : d = [start EXCEPT !.partial_input = p]
  BY <1>4, <1>9, <1>12, CountedSound
<1> HIDE DEF hello, held, lost
<1>13. CASE c.state # "CLIENT_HELLO"
  <2>1. halves \div 2 \in 0 .. Len(stream)
    <3>1. Len(stream) \in Nat
      BY DEF IsSeq
    <3>2. halves <= 2 * Len(stream)
      BY <1>13 DEF halves
    <3> QED  BY <1>2, <3>1, <3>2
  <2>2. /\ IsSeq(seq) /\ \A i \in DOMAIN seq : ToClientOk(seq[i], s)
        /\ ShowsAll(seq, cred)
    BY <2>1, BeginningIs DEF ShowsAll
  <2> HIDE DEF seq
  <2>3. ClientMoves(start, s, read) /\ Believes(read, cred)
    BY <1>4, <1>8, <1>9, <2>2, ClientStages, StagesBelieved
  <2> HIDE DEF read
  <2>4. IsClient(read)
    BY <1>8, <2>3, MovesKeepIs DEF ClientIs
  <2>5. CASE d \in {C!FinishCall(read), late}
    BY <2>3, <2>4, <2>5, FinishSound, FailedCallSound DEF Believes
  <2>6. read.ok => Sound(read, cred)
    BY <2>3 DEF Believes, Sound
  <2>7. CASE read.ok /\ d = [read EXCEPT !.partial_input = 1]
    BY <2>4, <2>6, <2>7, CountedSound
  <2>8. CASE read.ok /\ d = C!FinishCall(written)
    <3>1. IsClient(written) /\ Sound(written, cred)
      BY <2>4, <2>6, <2>8, WriteSound
    <3> HIDE DEF written
    <3> QED  BY <2>8, <3>1, FinishSound DEF Sound
  <2> HIDE DEF late, written
  <2> QED  BY <1>1, <1>11, <1>12, <1>13, <2>5, <2>7, <2>8
<1> HIDE DEF late, written, read
<1> QED  BY <1>1, <1>10, <1>11, <1>12, <1>13

USE DEF IsClient, IsConnection, ClientFields, LayerFields, DirectionFields, SameClient

(***************************************************************************)
(* Application data, the end of a connection, and the beginning            *)
(***************************************************************************)

\* A call that changes no state and takes no key.
LEMMA QuietSound ==
  ASSUME NEW c, NEW d, ClientCounts(c, d), SameTrust(c, d), NEW cred, Sound(c, cred)
  PROVE  Sound(d, cred)
<1>1. Vouched(d, cred) <=> Vouched(c, cred)
  BY VouchedSame DEF SameTrust
<1>2. /\ d.cipher_suites = c.cipher_suites /\ d.state = c.state
      /\ d.use_session_ticket = c.use_session_ticket /\ d.rl.suite = c.rl.suite
  <2> HIDE DEF IsClient
  <2> QED  BY DEF ClientCounts, SameClient, SameKeys
<1> HIDE DEF IsClient, SameClient
<1>3. d.use_session_ticket <=> c.use_session_ticket
  BY <1>2
<1> QED  BY <1>1, <1>2, <1>3 DEF SameTrust, Sound, Trusts

\* What a call does to its own fields before it begins.
LEMMA LeftAloneTrust ==
  ASSUME NEW c, IsClient(c),
         NEW d, d \in {[c EXCEPT !.out = <<>>, !.appl_data = NULL, !.fault = "none"],
                       [c EXCEPT !.out = <<>>], [c EXCEPT !.out = <<>>, !.fault = "none"]}
  PROVE  SameTrust(c, d)
BY DEF SameTrust

\* A call of tlsv1_client_encrypt() takes no key.
LEMMA ClientEncryptTrust ==
  ASSUME NEW c, IsClient(c), NEW data, NEW d, d = C!tlsv1_client_encrypt(c, Data(data))
  PROVE  SameTrust(c, d)
BY DEF SameTrust, C!tlsv1_client_encrypt, C!tlsv1_record_send

\* It changes neither state nor suite.
LEMMA ClientEncryptCounts ==
  ASSUME NEW c, IsClient(c), NEW data, NEW d, d = C!tlsv1_client_encrypt(c, Data(data))
  PROVE  ClientCounts(c, d)
<1> DEFINE r == C!Record(c.rl, "application_data", Data(data))
<1>1. d.out = Append(<<>>, r)
  BY DEF C!tlsv1_client_encrypt, C!tlsv1_record_send
<1> HIDE DEF r
<1>2. IsSeq(d.out)
  <2>1. IsSeq(<<>>)
    BY OneIs
  <2>2. IsSeq(Append(<<>>, r))
    BY ONLY <2>1, AppendFacts
  <2> QED  BY <1>1, <2>2
<1>3. IsClient(d)
  BY <1>2 DEF C!tlsv1_client_encrypt, C!tlsv1_record_send
<1>4. d.use_session_ticket = c.use_session_ticket
  BY DEF C!tlsv1_client_encrypt, C!tlsv1_record_send
<1>5. SameClient(c, d) /\ SameKeys(c, d) /\ SameHello(c, d)
  BY DEF C!tlsv1_client_encrypt, C!tlsv1_record_send, SameKeys, SameHello
<1>6. /\ d.verify = c.verify /\ d.state = c.state
      /\ d.rl.write.key = c.rl.write.key
      /\ d.rl.read.key = c.rl.read.key /\ d.rl.read.suite = c.rl.read.suite
  BY DEF C!tlsv1_client_encrypt, C!tlsv1_record_send
<1> HIDE DEF IsClient, SameClient
<1> QED  BY <1>3, <1>4, <1>5, <1>6 DEF ClientCounts

\* A record of application data takes no key.
LEMMA DecryptRecordTrust ==
  ASSUME NEW c, IsClient(c), NEW r
  PROVE  SameTrust(c, C!DecryptRecord(c, r))
<1> DEFINE g == C!tlsv1_record_receive(c.rl, r)
           e == [c EXCEPT !.rl = C!RecordRead(@)]
           d == C!DecryptRecord(c, r)
<1>1. \/ d = c
      \/ d = C!FailAlert(c, g.alert)
      \/ \E a : d = C!FailAlert(e, a)
      \/ d = e
      \/ d = [e EXCEPT !.out = Append(@, g.m)]
  <2> HIDE DEF e, g
  <2> QED  BY DEF C!DecryptRecord, e, g
<1>2. e.cred = c.cred /\ e.server_rsa_key = c.server_rsa_key /\ e.dh = c.dh /\ DOMAIN e = ClientFields
  OBVIOUS
<1> HIDE DEF g, d, e
<1>3. SameTrust(c, c) /\ SameTrust(c, C!FailAlert(c, g.alert))
  BY DEF SameTrust, C!FailAlert
<1>4. ASSUME NEW a PROVE SameTrust(c, C!FailAlert(e, a))
  BY <1>2 DEF SameTrust, C!FailAlert
<1>5. SameTrust(c, e) /\ SameTrust(c, [e EXCEPT !.out = Append(@, g.m)])
  BY <1>2 DEF SameTrust
<1> HIDE DEF IsClient
<1> QED  BY <1>1, <1>3, <1>4, <1>5 DEF d

\* Nor does a call of tlsv1_client_decrypt().
LEMMA ClientDecryptTrust ==
  ASSUME NEW c, IsClient(c), NEW stream, IsSeq(stream), c.partial_input \in Nat, NEW n \in Nat,
         c.partial_input + n <= 2 * Len(stream), NEW fault,
         NEW d, d = C!tlsv1_client_decrypt(c, fault, stream, n)
  PROVE  SameTrust(c, d)
<1> DEFINE halves == c.partial_input + n
           seq == SubSeq(stream, 1, halves \div 2)
           start == [c EXCEPT !.fault = fault, !.ok = TRUE, !.out = <<>>]
           read == C!FoldLeft(C!DecryptRecord, start, seq)
           rest == halves % 2
           lost == \/ fault = "partial" /\ (c.partial_input # 0 \/ rest = 1)
                   \/ fault = "output"
           e == IF lost /\ read.ok THEN C!FailAlert(read, "INTERNAL_ERROR") ELSE read
<1>1. d = IF e.ok THEN [e EXCEPT !.partial_input = rest]
          ELSE [e EXCEPT !.out = <<>>, !.partial_input = 0]
  <2> HIDE DEF start, read
  <2> QED  BY DEF C!tlsv1_client_decrypt, start, read, seq, halves
<1>2. halves \in Nat /\ halves \div 2 \in 0 .. Len(stream)
  <2>1. Len(stream) \in Nat
    BY DEF IsSeq
  <2> QED  BY <2>1
<1>3. IsSeq(seq)
  BY <1>2, BeginningIs
<1>4. IsSeq(<<>>)
  <2>1. <<>> \in Seq({})
    OBVIOUS
  <2> QED  BY <2>1 DEF IsSeq
<1>5. ClientCounts(c, start) /\ SameTrust(c, start)
  BY <1>4 DEF ClientCounts, SameKeys, SameHello, SameTrust
<1>6. Len(seq) \in Nat /\ DOMAIN seq = 1 .. Len(seq)
  BY <1>3 DEF IsSeq
<1> HIDE DEF seq, start, rest, lost
<1>7. PICK h : Chain(h, "client data", start, seq) /\ h[Len(seq)] = read
  BY <1>3, ClientDataChain
<1> HIDE DEF read
<1> DEFINE T == {i \in 0 .. Len(seq) : ClientCounts(c, h[i]) /\ SameTrust(c, h[i])}
<1> HIDE DEF IsClient, IsConnection, SameClient
<1>8. 0 \in T
  <2>1. h[0] = start
    BY <1>7 DEF Chain
  <2>2. ClientCounts(c, h[0]) /\ SameTrust(c, h[0])
    BY <1>5, <2>1, Zenon
  <2> QED  BY <1>6, <2>2
<1>9. ASSUME NEW i \in 0 .. Len(seq) - 1, i \in T PROVE i + 1 \in T
  <2>1. i + 1 \in 1 .. Len(seq) /\ i + 1 - 1 = i
    BY <1>6
  <2>2. h[i + 1] = C!DecryptRecord(h[i], seq[i + 1])
    BY <1>7, <2>1 DEF Chain, Step
  <2>3. ClientCounts(c, h[i]) /\ SameTrust(c, h[i])
    BY <1>9
  <2>4. IsClient(h[i])
    BY <2>3 DEF ClientCounts
  <2>5. ClientCounts(h[i], h[i + 1]) /\ SameTrust(h[i], h[i + 1])
    BY <2>2, <2>4, ClientDecryptCounts, DecryptRecordTrust
  <2>6. ClientCounts(c, h[i + 1]) /\ SameTrust(c, h[i + 1])
    BY <2>3, <2>5, ClientCountsFurther, SameTrustFurther
  <2>7. i + 1 \in 0 .. Len(seq)
    BY <2>1
  <2> QED  BY <2>6, <2>7
<1> HIDE DEF T
<1>10. Len(seq) \in T
  BY <1>6, <1>8, <1>9, UpTo
<1>11. IsClient(read) /\ SameTrust(c, read)
  BY <1>7, <1>10 DEF T, ClientCounts
<1>12. SameTrust(c, e) /\ IsClient(e)
  BY <1>11 DEF C!FailAlert, SameTrust, IsClient, IsConnection, ClientFields
<1> HIDE DEF e
<1>13. SameTrust(e, d)
  BY <1>1, <1>12 DEF SameTrust, IsClient, IsConnection, ClientFields
<1> QED  BY <1>12, <1>13, SameTrustFurther

\* A client begins with what its user configured and with no key; unless
\* anonymous suites are allowed, every suite that it offers has the server's
\* key in it.
LEMMA ClientOfTrust ==
  ASSUME NEW s \in Scenarios
  PROVE  /\ ClientOf(s).cred = s.client_cred /\ ClientOf(s).dh = NULL
         /\ ClientOf(s).server_rsa_key = NULL
         /\ ~s.client_anonymous => Named(ClientOf(s))
<1> DEFINE c == C!tlsv1_client_init
<1>1. DOMAIN c = ClientFields /\ c.dh = NULL /\ c.server_rsa_key = NULL /\ c.cipher_suites = C!DefaultSuites
  BY SameNames DEF C!tlsv1_client_init
<1> HIDE DEF c
<1> DEFINE c1 == C!tlsv1_client_set_flags(C!tlsv1_client_set_cred(c, s.client_cred), s.flags)
<1>2. /\ DOMAIN c1 = ClientFields /\ c1.dh = NULL /\ c1.server_rsa_key = NULL
      /\ c1.cipher_suites = C!DefaultSuites /\ c1.cred = s.client_cred
  BY <1>1 DEF C!tlsv1_client_set_flags, C!tlsv1_client_set_cred
<1> HIDE DEF c1
<1> DEFINE c2 == C!tlsv1_client_set_cipher_list(c1, s.client_anonymous)
<1>3. /\ DOMAIN c2 = ClientFields /\ c2.dh = NULL /\ c2.server_rsa_key = NULL
      /\ ~s.client_anonymous => c2.cipher_suites = C!DefaultSuites
      /\ c2.cred = s.client_cred
  BY <1>2 DEF C!tlsv1_client_set_cipher_list
<1> HIDE DEF c2
<1> DEFINE c3 == OfAnotherMake(c2, s.client_suites)
<1>4. /\ DOMAIN c3 = ClientFields /\ c3.dh = NULL /\ c3.server_rsa_key = NULL
      /\ c3.cipher_suites = IF s.client_suites = NULL THEN c2.cipher_suites ELSE s.client_suites
      /\ c3.cred = s.client_cred
  BY <1>3 DEF OfAnotherMake, ClientFields
<1> HIDE DEF c3
<1> DEFINE d == C!tlsv1_client_set_session_ticket_cb(C!tlsv1_client_hello_ext(c3, s.ticket), s.client_cb)
<1>5. /\ d.dh = NULL /\ d.server_rsa_key = NULL /\ d.cipher_suites = c3.cipher_suites
      /\ d.cred = s.client_cred
  BY <1>4 DEF C!tlsv1_client_set_session_ticket_cb, C!tlsv1_client_hello_ext
<1>6. d = ClientOf(s)
  BY DEF ClientOf, c, c1, c2, c3
<1> HIDE DEF d
<1>7. \A x \in ToSet(C!DefaultSuites) : C!tls_get_cipher_suite(x).key_exchange \in {"RSA", "DHE_RSA"}
  <2>1. ToSet(C!DefaultSuites) \subseteq {"DHE_RSA", "RSA"} \X {1, 2, 3}
    BY DEF ToSet, C!DefaultSuites
  <2> QED  BY <2>1 DEF C!tls_get_cipher_suite
<1>8. s.client_suites # NULL /\ ~s.client_anonymous =>
         \A x \in ToSet(s.client_suites) : C!tls_get_cipher_suite(x).key_exchange \in {"RSA", "DHE_RSA"}
  BY ScenariosAreSound DEF PeerSuites, tls_get_cipher_suite, C!tls_get_cipher_suite
<1>9. ~s.client_anonymous => Named(d)
  BY <1>3, <1>5, <1>7, <1>4, <1>8 DEF Named
<1> QED  BY <1>5, <1>6, <1>9

\* A server begins with what its user configured.
LEMMA ServerOfCred ==
  ASSUME NEW s, NEW round
  PROVE  ServerOf(s, round).cred = s.server_cred
<1> DEFINE c == S!tlsv1_server_init(s.server_cred)
           c2 == OfAnotherMake(S!tlsv1_server_set_cipher_list(c, s.server_anonymous), s.server_suites)
           c3 == S!tlsv1_server_set_session_ticket_cb(S!tlsv1_server_set_verify(c2, s.verify_peer), s.server_cb)
<1>1. "cred" \in DOMAIN c /\ c.cred = s.server_cred
  BY DEF S!tlsv1_server_init
<1> HIDE DEF c
<1>2. "cred" \in DOMAIN c2 /\ c2.cred = s.server_cred
  BY <1>1 DEF S!tlsv1_server_set_cipher_list, OfAnotherMake
<1> HIDE DEF c2
<1>3. "cred" \in DOMAIN c3 /\ c3.cred = s.server_cred
  BY <1>2 DEF S!tlsv1_server_set_session_ticket_cb, S!tlsv1_server_set_verify
<1>4. ServerOf(s, round) = [c3 EXCEPT !.round = round]
  BY DEF ServerOf, c, c2
<1> HIDE DEF c3
<1> QED  BY <1>3, <1>4

\* tlsv1_server_shutdown() keeps it.
LEMMA ServerShutdownCred ==
  ASSUME NEW c, IsServer(c)
  PROVE  S!tlsv1_server_shutdown(c).cred = c.cred
<1>1. PICK e : e = [c EXCEPT !.state = "CLIENT_HELLO", !.verify = S!tls_verify_hash_init, !.round = @ + 1]
  OBVIOUS
<1>2. "cred" \in DOMAIN e /\ e.cred = c.cred
  BY <1>1 DEF IsServer, IsConnection, ServerFields
<1>3. S!tlsv1_server_shutdown(c) = S!tlsv1_server_clear_data(e)
  BY <1>1 DEF S!tlsv1_server_shutdown
<1>4. S!tlsv1_server_clear_data(e).cred = e.cred
  BY <1>2 DEF S!tlsv1_server_clear_data
<1> QED  BY <1>2, <1>3, <1>4

\* tlsv1_client_shutdown() keeps the client's public value of the server,
\* which it had accepted, and goes back to the hello.
LEMMA ShutdownTrust ==
  ASSUME NEW c, IsClient(c), NEW cred, Sound(c, cred),
         NEW d, d = C!tlsv1_client_shutdown(c)
  PROVE  Sound(d, cred)
<1>1. /\ d.dh = c.dh /\ d.server_rsa_key = NULL /\ d.cred = c.cred
      /\ d.state = "CLIENT_HELLO"
  BY DEF C!tlsv1_client_shutdown
<1> HIDE DEF IsClient
<1>2. Vouched(d, cred) <=> Vouched(c, cred)
  BY <1>1, VouchedSame
<1> QED  BY <1>1, <1>2 DEF Sound, Trusts, ClientAsks, ClientKnows

HIDE DEF IsClient, IsConnection, ClientFields, LayerFields, DirectionFields, SameClient

(***************************************************************************)
(* Every step keeps the client from believing a stranger                   *)
(***************************************************************************)

\* The inductive invariant, beside IInv: both ends have the credentials of
\* the scenario, every certificate on its way to the client is the server's,
\* and the client has no key of the server's but from a certificate that it
\* accepted.
AInv ==
  /\ scenario \in Scenarios
  /\ client.cred = scenario.client_cred /\ server.cred = scenario.server_cred
  /\ client.cipher_suites = ClientOf(scenario).cipher_suites
  /\ ~scenario.client_anonymous => Sound(client, server.cred)
  /\ ShowsAll(toClient, server.cred)

\* What a client offers does not change, so that no suite of it is without
\* the server's key.
LEMMA ClientIsNamed ==
  ASSUME AInv, ~scenario.client_anonymous
  PROVE  Named(client) /\ Sound(client, server.cred)
<1>1. Named(ClientOf(scenario))
  BY ClientOfTrust DEF AInv
<1> QED  BY <1>1 DEF AInv, Named

\* It holds in the beginning.
LEMMA InitAuthentic ==
  Init => AInv
<1> SUFFICES ASSUME Init PROVE AInv
  OBVIOUS
<1>1. /\ scenario \in Scenarios
      /\ client = ClientOf(scenario) /\ server = ServerOf(scenario, 1) /\ toClient = <<>>
  BY DEF Init
<1>2. server.cred = scenario.server_cred
  BY <1>1, ServerOfCred
<1>3. client.cred = scenario.client_cred /\ client.dh = NULL /\ client.server_rsa_key = NULL
  BY <1>1, ClientOfTrust
<1>4. client.state = "CLIENT_HELLO"
  BY <1>1, ClientOfIsFresh DEF ClientFresh
<1>5. Sound(client, server.cred)
  BY <1>3, <1>4 DEF Sound, Trusts, ClientAsks, ClientKnows
<1>6. ShowsAll(toClient, server.cred)
  BY <1>1, OneIs DEF ShowsAll
<1> QED  BY <1>1, <1>2, <1>3, <1>5, <1>6 DEF AInv

\* A call of tlsv1_client_handshake() keeps it.
LEMMA ClientHandshakeAuthentic ==
  ASSUME IInv, AInv, NEW fault, NEW n \in Nat, ClientHandshake(n, fault)
  PROVE  AInv'
<1>1. PICK c : c = C!tlsv1_client_handshake(client, fault, toClient, n)
  OBVIOUS
<1>2. /\ client' = [c EXCEPT !.out = <<>>, !.appl_data = NULL, !.fault = "none"]
      /\ toClient' = Rest(toClient, client.partial_input + n, c.partial_input)
      /\ server' = server /\ scenario' = scenario
  <2> HIDE DEF Rest
  <2> QED  BY <1>1 DEF ClientHandshake
<1>3. IF client.state = "CLIENT_HELLO" THEN n = 0 ELSE n \in 1 .. 2 * Len(toClient) - client.partial_input
  BY DEF ClientHandshake
<1>4. /\ ClientIs(client) /\ ClientStates(client) /\ ClientAccepts(client, server)
      /\ client.round = server.round /\ client.partial_input \in Nat
      /\ IsSeq(toClient) /\ \A i \in DOMAIN toClient : ToClientOk(toClient[i], server)
      /\ ToClientAll(toClient, server)
  BY DEF IInv, Consistent, ToClientAll
<1>5. client.state = "CLIENT_HELLO" \/ client.partial_input + n <= 2 * Len(toClient)
  <2>1. Len(toClient) \in Nat
    BY <1>4, SeqIs
  <2> QED  BY <1>3, <1>4, <2>1
<1>6. /\ ClientLeaves(client, server, c)
      /\ c.partial_input \in Nat /\ c.partial_input <= client.partial_input + n
  BY <1>1, <1>4, <1>5, ClientCall
<1>7. IsClient(c) /\ SameClient(client, c)
  BY <1>6 DEF ClientLeaves, ClientIs
<1>8. ClientCounts(c, client') /\ SameTrust(c, client')
  BY <1>2, <1>7, ClientLeftAlone, LeftAloneTrust
<1>9. client'.cred = client.cred /\ client'.cipher_suites = client.cipher_suites
  BY <1>7, <1>8 DEF ClientCounts, SameClient
<1>10. ASSUME ~scenario.client_anonymous PROVE Sound(client', server.cred)
  <2>1. Named(client) /\ Sound(client, server.cred)
    BY <1>10, ClientIsNamed
  <2>2. ShowsAll(toClient, server.cred)
    BY DEF AInv
  <2>3. Sound(c, server.cred)
    BY <1>1, <1>4, <1>5, <2>1, <2>2, ClientCallSound
  <2> QED  BY <1>8, <2>3, QuietSound
<1>11. /\ IsSeq(toClient')
       /\ \A i \in DOMAIN toClient' : Of(toClient'[i], toClient) \/ Spoilt(toClient'[i], toClient)
  <2>1. client.partial_input + n \in Nat
    BY <1>4
  <2> QED  BY <1>2, <1>4, <1>6, <2>1, RestIs
<1>12. ShowsAll(toClient', server.cred)
  BY <1>4, <1>11, ShowsAllStays DEF AInv
<1> QED  BY <1>2, <1>9, <1>10, <1>12 DEF AInv

\* A call of tlsv1_server_handshake() keeps it.
LEMMA ServerHandshakeAuthentic ==
  ASSUME IInv, AInv, NEW fault, NEW n \in Nat, ServerHandshake(n, fault)
  PROVE  AInv'
<1>1. PICK c : c = S!tlsv1_server_handshake(server, fault, toServer, n)
  OBVIOUS
<1>2. /\ server' = [c EXCEPT !.out = <<>>, !.fault = "none"]
      /\ toClient' = toClient \o c.out
      /\ client' = client /\ scenario' = scenario
      /\ n \in 0 .. 2 * Len(toServer)
  <2> HIDE DEF Rest
  <2> QED  BY <1>1 DEF ServerHandshake
<1>3. /\ IsServer(server) /\ ServerStates(server) /\ ServerAccepts(server, client)
      /\ ServerProof(server, client) /\ server.out = <<>> /\ IsSeq(toClient)
      /\ IsSeq(toServer) /\ \A i \in DOMAIN toServer : ToServerOk(toServer[i], client)
  BY DEF IInv, Consistent, ToServerAll, ToClientAll
<1>4. ServerLeaves(server, client, c)
  BY <1>1, <1>2, <1>3, ServerCall
<1>5. IsServer(c) /\ IsSeq(c.out)
  BY <1>4 DEF ServerLeaves, IsServer, IsConnection
<1>6. c.cred = server.cred /\ ShowsAll(c.out, server.cred)
  BY <1>1, <1>2, <1>3, ServerCallShows
<1>7. ServerCounts(c, server')
  BY <1>2, <1>5, ServerLeftAlone
<1>8. server'.cred = server.cred
  BY <1>6, <1>7 DEF ServerCounts, SameServer
<1>9. ShowsAll(toClient', server.cred)
  BY <1>2, <1>3, <1>5, <1>6, ShowsAllJoined DEF AInv
<1> QED  BY <1>2, <1>8, <1>9 DEF AInv

\* A call of tlsv1_client_encrypt() keeps it.
LEMMA ClientEncryptAuthentic ==
  ASSUME IInv, AInv, ClientEncrypt
  PROVE  AInv'
<1>1. PICK c : c = C!tlsv1_client_encrypt(client, Data(Len(sent.c) + 1))
  OBVIOUS
<1>2. /\ client' = [c EXCEPT !.out = <<>>] /\ toClient' = toClient /\ server' = server
      /\ scenario' = scenario /\ client.state = "ESTABLISHED"
  BY <1>1 DEF ClientEncrypt, C!tlsv1_client_established
<1>3. ClientIs(client) /\ IsClient(client) /\ ClientStates(client) /\ ClientAccepts(client, server)
  BY DEF IInv, Consistent, ClientIs
<1>4. PICK n : n = Len(sent.c) + 1
  OBVIOUS
<1>5. c = C!tlsv1_client_encrypt(client, Data(n))
  BY <1>1, <1>4
<1>6. IsClient(c) /\ SameTrust(client, c) /\ ClientCounts(client, c)
  <2>1. SameTrust(client, c)
    BY <1>3, <1>5, ClientEncryptTrust
  <2>2. ClientCounts(client, c)
    BY <1>3, <1>5, ClientEncryptCounts
  <2> QED  BY <2>1, <2>2 DEF ClientCounts
<1>7. ClientCounts(c, client') /\ SameTrust(c, client')
  BY <1>2, <1>6, ClientLeftAlone, LeftAloneTrust
<1>8. ClientCounts(client, client') /\ SameTrust(client, client')
  BY <1>6, <1>7, ClientCountsFurther, SameTrustFurther
<1>9. client'.cred = client.cred /\ client'.cipher_suites = client.cipher_suites
  BY <1>8 DEF ClientCounts, SameClient
<1>10. ~scenario.client_anonymous => Sound(client', server.cred)
  BY <1>8, QuietSound DEF AInv
<1> QED  BY <1>2, <1>9, <1>10 DEF AInv

\* A call of tlsv1_client_decrypt() keeps it.
LEMMA ClientDecryptAuthentic ==
  ASSUME IInv, AInv, NEW fault, NEW n \in Nat, ClientDecrypt(n, fault)
  PROVE  AInv'
<1>1. PICK c : c = C!tlsv1_client_decrypt(client, fault, toClient, n)
  OBVIOUS
<1>2. /\ client' = [c EXCEPT !.out = <<>>, !.fault = "none"]
      /\ toClient' = Rest(toClient, client.partial_input + n, c.partial_input)
      /\ server' = server /\ scenario' = scenario
      /\ n \in 1 .. 2 * Len(toClient) - client.partial_input
  <2> HIDE DEF Rest
  <2> QED  BY <1>1 DEF ClientDecrypt
<1>3. /\ ClientIs(client) /\ IsClient(client) /\ client.partial_input \in Nat
      /\ IsSeq(toClient) /\ ToClientAll(toClient, server)
  BY DEF IInv, Consistent, ToClientAll, ClientIs
<1>4. client.partial_input + n <= 2 * Len(toClient) /\ client.partial_input + n \in Nat
  <2>1. Len(toClient) \in Nat
    BY <1>3, SeqIs
  <2> QED  BY <1>2, <1>3, <2>1
<1>5. /\ ClientCounts(client, c) /\ c.partial_input \in Nat /\ c.partial_input <= client.partial_input + n
      /\ SameTrust(client, c)
  BY <1>1, <1>3, <1>4, ClientDecryptLeaves, ClientDecryptTrust
<1>6. ClientCounts(c, client') /\ SameTrust(c, client')
  <2>1. IsClient(c)
    BY <1>5 DEF ClientCounts
  <2> QED  BY <1>2, <2>1, ClientLeftAlone, LeftAloneTrust
<1>7. ClientCounts(client, client') /\ SameTrust(client, client')
  BY <1>5, <1>6, ClientCountsFurther, SameTrustFurther
<1>8. client'.cred = client.cred /\ client'.cipher_suites = client.cipher_suites
  BY <1>7 DEF ClientCounts, SameClient
<1>9. ~scenario.client_anonymous => Sound(client', server.cred)
  BY <1>7, QuietSound DEF AInv
<1>10. /\ IsSeq(toClient')
       /\ \A i \in DOMAIN toClient' : Of(toClient'[i], toClient) \/ Spoilt(toClient'[i], toClient)
  BY <1>2, <1>3, <1>4, <1>5, RestIs
<1>11. ShowsAll(toClient', server.cred)
  BY <1>3, <1>10, ShowsAllStays DEF AInv
<1> QED  BY <1>2, <1>8, <1>9, <1>11 DEF AInv

\* A call of tlsv1_server_encrypt() keeps it.
LEMMA ServerEncryptAuthentic ==
  ASSUME IInv, AInv, ServerEncrypt
  PROVE  AInv'
<1>1. PICK n : n = Len(sent.s) + 1
  OBVIOUS
<1>2. PICK c : c = S!tlsv1_server_encrypt(server, Data(n))
  OBVIOUS
<1>3. /\ server' = [c EXCEPT !.out = <<>>] /\ toClient' = toClient \o c.out
      /\ client' = client /\ scenario' = scenario /\ server.state = "ESTABLISHED"
  BY <1>1, <1>2 DEF ServerEncrypt, S!tlsv1_server_established
<1>4. /\ IsServer(server) /\ ServerStates(server) /\ ServerAccepts(server, client)
      /\ ServerProof(server, client) /\ IsSeq(toClient)
  BY DEF IInv, Consistent, ToClientAll
<1>5. ServerLeaves(server, client, c)
  BY <1>2, <1>3, <1>4, ServerEncryptLeaves
<1>6. IsServer(c) /\ IsSeq(c.out)
  BY <1>5 DEF ServerLeaves, IsServer, IsConnection
<1>7. c.cred = server.cred /\ ShowsAll(c.out, server.cred)
  BY <1>2, <1>4, ServerEncryptShows
<1>8. server'.cred = server.cred
  BY <1>3, <1>6, <1>7 DEF IsServer, IsConnection, ServerFields
<1>9. ShowsAll(toClient', server.cred)
  BY <1>3, <1>4, <1>6, <1>7, ShowsAllJoined DEF AInv
<1> QED  BY <1>3, <1>8, <1>9 DEF AInv

\* A call of tlsv1_server_decrypt() keeps it.
LEMMA ServerDecryptAuthentic ==
  ASSUME IInv, AInv, NEW n \in Nat, ServerDecrypt(n)
  PROVE  AInv'
<1>1. PICK uninitialized \in {"CLOSE_NOTIFY", "INTERNAL_ERROR"} :
        server' = [S!tlsv1_server_decrypt(server, toServer, n, uninitialized) EXCEPT !.out = <<>>]
  <2> HIDE DEF Rest
  <2> QED  BY DEF ServerDecrypt
<1>2. client' = client /\ toClient' = toClient /\ scenario' = scenario /\ n \in 1 .. 2 * Len(toServer)
  BY DEF ServerDecrypt
<1>3. IsServer(server) /\ IsSeq(toServer)
  BY DEF IInv, Consistent, ToServerAll
<1>4. PICK c : c = S!tlsv1_server_decrypt(server, toServer, n, uninitialized)
  OBVIOUS
<1>5. server' = [c EXCEPT !.out = <<>>]
  BY <1>1, <1>4
<1>6. ServerCounts(server, server')
  <2>1. n \in 0 .. 2 * Len(toServer)
    BY <1>2
  <2> QED  BY <1>3, <1>4, <1>5, <2>1, ServerDecryptLeaves
<1>7. server'.cred = server.cred
  BY <1>6 DEF ServerCounts, SameServer
<1> QED  BY <1>2, <1>7 DEF AInv

\* A new round keeps it.
LEMMA ReconnectAuthentic ==
  ASSUME IInv, AInv, Reconnect
  PROVE  AInv'
<1>1. /\ client' = C!tlsv1_client_shutdown(client) /\ scenario' = scenario
      /\ \/ server' = ServerOf(scenario, server.round + 1)
         \/ server' = S!tlsv1_server_shutdown(server)
      /\ toClient' = IF client.partial_input = 0 THEN <<>> ELSE << [Head(toClient) EXCEPT !.hdr = "stale"] >>
  BY DEF Reconnect
<1>2. /\ IsClient(client) /\ IsServer(server)
      /\ client.partial_input # 0 => toClient # <<>>
      /\ ToClientAll(toClient, server)
  BY DEF IInv, Consistent, ClientIs
<1>3. server'.cred = server.cred
  BY <1>1, <1>2, ServerOfCred, ServerShutdownCred DEF AInv
<1>4. client'.cred = client.cred /\ client'.cipher_suites = client.cipher_suites
  BY <1>1, <1>2 DEF C!tlsv1_client_shutdown, IsClient, IsConnection, ClientFields
<1>5. ~scenario.client_anonymous => Sound(client', server.cred)
  BY <1>1, <1>2, ShutdownTrust DEF AInv
<1>6. ShowsAll(toClient', server.cred)
  <2>1. CASE client.partial_input = 0
    BY <1>1, <2>1, OneIs DEF ShowsAll
  <2>2. CASE client.partial_input # 0
    <3> DEFINE x == [Head(toClient) EXCEPT !.hdr = "stale"]
    <3>1. toClient' = <<x>>
      BY <1>1, <2>2
    <3>2. IsSeq(toClient) /\ toClient # <<>>
      BY <1>2, <2>2 DEF ToClientAll
    <3>3. PICK j \in DOMAIN toClient : Head(toClient) = toClient[j]
      BY <3>2, TailFrom DEF Of
    <3>4. DOMAIN toClient[j] = RecordFields
      BY <1>2 DEF ToClientAll, ToClientOk
    <3>5. x.hdr # "ok"
      BY <3>3, <3>4 DEF RecordFields
    <3> HIDE DEF x
    <3> QED  BY <3>1, <3>5, OneIs DEF ShowsAll, Shows
  <2> QED  BY <2>1, <2>2
<1> QED  BY <1>1, <1>3, <1>4, <1>5, <1>6 DEF AInv

\* So does the network.
LEMMA DisturbAuthentic ==
  ASSUME IInv, AInv, Disturb
  PROVE  AInv'
<1>1. /\ client' = client /\ server' = server /\ scenario' = scenario
      /\ toClient' \in Disturbances(toClient) \cup {toClient}
  <2> HIDE DEF Disturbances
  <2> QED  BY DEF Disturb
<1>2. IsSeq(toClient) /\ ToClientAll(toClient, server)
  BY DEF IInv, Consistent, ToClientAll
<1>3. ShowsAll(toClient', server.cred)
  <2>1. CASE toClient' = toClient
    BY <2>1 DEF AInv
  <2>2. CASE toClient' \in Disturbances(toClient)
    <3>1. IsSeq(toClient') /\ \A i \in DOMAIN toClient' : Of(toClient'[i], toClient) \/ Altered(toClient'[i], toClient)
      BY <1>2, <2>2, DisturbedIs
    <3> QED  BY <1>2, <3>1, ShowsAllStays DEF AInv
  <2> QED  BY <1>1, <2>1, <2>2
<1> QED  BY <1>1, <1>3 DEF AInv

\* So does every step.
LEMMA NextAuthentic ==
  ASSUME IInv, AInv, [Next]_vars
  PROVE  AInv'
<1>1. Halves \subseteq Nat
  <2>1. IsSeq(toClient) /\ IsSeq(toServer)
    BY DEF IInv, Consistent, ToClientAll, ToServerAll
  <2>2. Len(toClient) \in Nat /\ Len(toServer) \in Nat
    BY <2>1, SeqIs
  <2> QED  BY <2>2 DEF Halves
<1>2. ASSUME NEW fault \in scenario.faults, NEW n \in Halves, ClientHandshake(n, fault) PROVE AInv'
  BY <1>1, <1>2, ClientHandshakeAuthentic
<1>3. ASSUME NEW fault \in scenario.faults, NEW n \in Halves, ServerHandshake(n, fault) PROVE AInv'
  BY <1>1, <1>3, ServerHandshakeAuthentic
<1>4. CASE ClientEncrypt
  BY <1>4, ClientEncryptAuthentic
<1>5. CASE ServerEncrypt
  BY <1>5, ServerEncryptAuthentic
<1>6. ASSUME NEW fault \in scenario.faults \ {"input", "random", "crypto"}, NEW n \in Halves,
             ClientDecrypt(n, fault)
      PROVE  AInv'
  BY <1>1, <1>6, ClientDecryptAuthentic
<1>7. ASSUME NEW n \in Halves, ServerDecrypt(n) PROVE AInv'
  BY <1>1, <1>7, ServerDecryptAuthentic
<1>8. CASE Reconnect
  BY <1>8, ReconnectAuthentic
<1>9. CASE Disturb
  BY <1>9, DisturbAuthentic
<1>10. CASE UNCHANGED vars
  BY <1>10 DEF AInv, vars
<1> QED  BY <1>2, <1>3, <1>4, <1>5, <1>6, <1>7, <1>8, <1>9, <1>10 DEF Next

\* A certificate that the client accepted passed the check that its user
\* configured: of a chain to a trusted certificate, of a hash, or for probing
\* none at all.
LEMMA VouchedPasses ==
  ASSUME NEW c, c.cred # NULL, NEW cred, cred.verdict \in {"ok"} \cup Alerts,
         Vouched(c, cred)
  PROVE  /\ c.cred.verify = "ca" => cred.verdict = "ok" /\ cred.server_auth
         /\ c.cred.verify = "hash" => cred.pinned
         /\ c.cred.verify # "probe"
<1>1. "BAD_CERTIFICATE" # NULL
  BY AlertIsSet DEF Alerts
<1>2. cred.verdict # "ok" => cred.verdict # NULL
  BY AlertIsSet
<1> QED  BY <1>1, <1>2 DEF Vouched, C!JudgeCertificate

\* For every set of scenarios and any number of rounds, records and faults: a
\* client that believes the handshake is over, without a ticket and without a
\* user who allows anonymous suites, has accepted the server's certificate as
\* the user configured it. tls_process_certificate() takes the server's key
\* only from a certificate that passed, tlsv1_process_diffie_hellman() a
\* public value only signed with that key, and tls_send_client_key_exchange()
\* goes on only with one of the two.
THEOREM SpecServerIsAuthenticated ==
  Spec => []ServerIsAuthenticated
<1>1. Init => IInv /\ AInv
  BY InitConsistent, InitAuthentic
<1>2. IInv /\ AInv /\ [Next]_vars => IInv' /\ AInv'
  BY NextConsistent, NextAuthentic
<1>3. AInv => ServerIsAuthenticated
  <2> SUFFICES ASSUME AInv, C!tlsv1_client_established(client),
                      ~client.use_session_ticket, ~scenario.client_anonymous, scenario.client_cred # NULL
               PROVE  CASE scenario.client_cred.verify = "ca" ->
                             scenario.server_cred.verdict = "ok" /\ scenario.server_cred.server_auth
                        [] scenario.client_cred.verify = "hash" -> scenario.server_cred.pinned
                        [] scenario.client_cred.verify = "probe" -> FALSE
                        [] OTHER -> TRUE
    BY DEF ServerIsAuthenticated
  <2>1. Sound(client, server.cred) /\ client.state = "ESTABLISHED"
    BY DEF AInv, C!tlsv1_client_established
  <2>2. Vouched(client, server.cred)
    BY <2>1 DEF Sound, Trusts, ClientKnows
  <2>3. /\ client.cred = scenario.client_cred /\ server.cred = scenario.server_cred
        /\ client.cred # NULL /\ server.cred.verdict \in {"ok"} \cup Alerts
    BY ScenariosAreSound DEF AInv
  <2>4. /\ client.cred.verify = "ca" => server.cred.verdict = "ok" /\ server.cred.server_auth
        /\ client.cred.verify = "hash" => server.cred.pinned
        /\ client.cred.verify # "probe"
    BY <2>2, <2>3, VouchedPasses
  <2> QED  BY <2>3, <2>4
<1> QED  BY <1>1, <1>2, <1>3, PTL DEF Spec
=============================================================================
