------------------------------ MODULE TlsClient ------------------------------
(****************************************************************************)
(* The TLS client, message by message (crypto/tls/tlsv1_client.c,           *)
(* tlsv1_client_read.c, tlsv1_client_write.c): functions from a connection  *)
(* to the connection a call leaves. TlsHandshake gives it a server.         *)
(*                                                                          *)
(* A message has a type and `fmt`: "ok", "short" if its length is wrong, or *)
(* "tail" if what is wrong is found only at its end. A certificate list     *)
(* carries what the client finds out about it: see the module X509 for how. *)
(****************************************************************************)
EXTENDS TlsCommon

ClientFlags ==
  {"DISABLE_TLSv1_0", "DISABLE_TLSv1_1", "DISABLE_TLSv1_2",
   "REQUEST_OCSP", "REQUIRE_OCSP", "REQUIRE_OCSP_ALL"}

\* How the server's certificate is judged: by trusted roots, by its hash, not
\* at all, or refused because it was only asked for; and the client's own key.
Credentials == [verify : {"ca", "hash", "none", "probe"}, cert : BOOLEAN, key : BOOLEAN]

(****************************************************************************)
(* tlsv1_client.c: versions, keys, life cycle                               *)
(****************************************************************************)

\* Without TLS 1.1 in the build the second step of the source is missing: a
\* client whose TLS 1.2 is disabled ends with 1.1. 0: nothing is allowed.
tls_client_highest_ver(flags) ==
  IF "DISABLE_TLSv1_2" \in flags THEN TLS_VERSION_1_1 ELSE TLS_VERSION_1_2

\* The suites in the order of preference.
DefaultSuites ==
  << <<"DHE_RSA", 3>>, <<"RSA", 3>>, <<"DHE_RSA", 2>>, <<"RSA", 2>>,
     <<"DHE_RSA", 1>>, <<"RSA", 1>> >>

tlsv1_client_init ==
  [state |-> "CLIENT_HELLO", rl |-> NewRecordLayer, session_id |-> 0,
   client_random |-> NULL, server_random |-> NULL, master_secret |-> NULL,
   alert |-> NULL, ok |-> TRUE, fault |-> "none", out |-> <<>>, appl_data |-> NULL,
   flags |-> {}, certificate_requested |-> FALSE, session_resumed |-> FALSE,
   session_ticket_included |-> FALSE, use_session_ticket |-> FALSE,
   session_ticket_cb |-> NULL, ocsp_resp_received |-> FALSE,
   server_rsa_key |-> NULL, verify |-> tls_verify_hash_init,
   cipher_suites |-> DefaultSuites, prev_cipher_suite |-> NullSuite,
   dh |-> NULL, cred |-> NULL, partial_input |-> 0, round |-> 1]

tlsv1_client_set_flags(conn, flags) ==
  [conn EXCEPT !.flags = flags, !.rl.version = tls_client_highest_ver(flags)]

tlsv1_client_set_cred(conn, cred) == [conn EXCEPT !.cred = cred]

tlsv1_client_set_cipher_list(conn, anonymous) ==
  IF anonymous
  THEN [conn EXCEPT !.cipher_suites = << <<"DH_anon", 3>>, <<"DH_anon", 2>>, <<"DH_anon", 1>> >>]
  ELSE conn

\* A ticket of the session, and the callback that knows its secret: what it
\* answers is "yes", "no" or "fail".
tlsv1_client_hello_ext(conn, ticket) ==
  [conn EXCEPT !.session_ticket_included = ticket]

tlsv1_client_set_session_ticket_cb(conn, cb) == [conn EXCEPT !.session_ticket_cb = cb]

\* For a new handshake on the same connection. `round` counts the handshakes,
\* so that its random numbers are new.
tlsv1_client_shutdown(conn) ==
  LET rl == tlsv1_record_set_cipher_suite(conn.rl, NullSuite)
  IN  [conn EXCEPT !.state = "CLIENT_HELLO", !.verify = tls_verify_hash_init,
                   !.rl = tlsv1_record_change_read_cipher(
                            tlsv1_record_change_write_cipher(rl)),
                   !.certificate_requested = FALSE, !.server_rsa_key = NULL,
                   !.session_resumed = FALSE, !.round = @ + 1]

tlsv1_client_established(conn) == conn.state = "ESTABLISHED"

\* What the user may ask for: key material bound to this connection, and the
\* random numbers. NULL: not available now.
tlsv1_client_prf(conn, label) ==
  IF conn.state = "ESTABLISHED"
  THEN tls_prf(conn.master_secret, label, <<conn.client_random, conn.server_random>>)
  ELSE NULL

tlsv1_client_get_random(conn) ==
  [client |-> IF conn.state = "CLIENT_HELLO" THEN NULL ELSE conn.client_random,
   server |-> IF conn.state \in {"CLIENT_HELLO", "SERVER_HELLO"} THEN NULL
              ELSE conn.server_random]

tlsv1_client_free_dh(conn) == [conn EXCEPT !.dh = NULL]

tls_derive_pre_master_secret(conn) ==
  [version |-> tls_client_highest_ver(conn.flags), nonce |-> <<"pms", conn.round>>]

\* The secrets and the two keys. Without a pre-master secret, the master secret
\* of the earlier session is used with the new random numbers.
tls_derive_keys(conn, pre_master_secret) ==
  LET randoms == <<conn.client_random, conn.server_random>>
      secret == IF pre_master_secret = NULL THEN conn.master_secret
                ELSE tls_prf(pre_master_secret, "master_secret", randoms)
      block == tls_prf(secret, "key_expansion", randoms \o <<conn.rl.suite>>)
  IN  IF conn.fault = "crypto"
      THEN FailAlert(conn, "INTERNAL_ERROR")
      ELSE [conn EXCEPT !.master_secret = secret,
                        !.rl.wkey = <<"client", block>>, !.rl.rkey = <<"server", block>>]

(****************************************************************************)
(* tlsv1_client_read.c: what each message does                              *)
(****************************************************************************)
tls_version_disabled(conn, ver) ==
  \/ "DISABLE_TLSv1_0" \in conn.flags /\ ver = TLS_VERSION_1
  \/ "DISABLE_TLSv1_1" \in conn.flags /\ ver = TLS_VERSION_1_1
  \/ "DISABLE_TLSv1_2" \in conn.flags /\ ver = TLS_VERSION_1_2

\* The session id decides whether the server resumes the session; the new id
\* is kept whatever becomes of this handshake.
HelloSession(conn, m) ==
  IF conn.session_id # 0 /\ conn.session_id = m.session_id
  THEN [conn EXCEPT !.session_resumed = TRUE]
  ELSE [conn EXCEPT !.session_id = m.session_id]

HelloSuite(conn, m) ==
  [conn EXCEPT !.rl = tlsv1_record_set_cipher_suite(@, m.cipher_suite),
               !.prev_cipher_suite = m.cipher_suite]

HelloTicket(conn) ==
  IF conn.session_ticket_included /\ conn.session_ticket_cb # NULL
  THEN CASE conn.session_ticket_cb = "fail" -> FailAlert(conn, "HANDSHAKE_FAILURE")
         [] conn.session_ticket_cb = "yes" ->
              [conn EXCEPT !.use_session_ticket = TRUE,
                           !.master_secret = tls_prf(NULL, "ticket", <<>>)]
         [] OTHER -> [conn EXCEPT !.use_session_ticket = FALSE]
  ELSE conn

HelloKeys(conn) ==
  IF conn.ok /\ (conn.session_resumed \/ conn.use_session_ticket)
  THEN LET c == tls_derive_keys(conn, NULL)
       IN  IF c.ok THEN [c EXCEPT !.state = "SERVER_CHANGE_CIPHER_SPEC"] ELSE c
  ELSE IF conn.ok THEN [conn EXCEPT !.state = "SERVER_CERTIFICATE"] ELSE conn

tls_process_server_hello(conn, ct, m) ==
  LET versioned == [conn EXCEPT !.rl.version = m.version, !.server_random = m.random]
      session == HelloSession(versioned, m)
      suited == HelloSuite(session, m)
  IN  IF HeaderAlert(ct, m) # NULL THEN FailAlert(conn, HeaderAlert(ct, m))
      ELSE IF m.type # "server_hello" THEN FailAlert(conn, "UNEXPECTED_MESSAGE")
      ELSE IF ~tls_version_ok(m.version) \/ tls_version_disabled(conn, m.version)
      THEN FailAlert(conn, "PROTOCOL_VERSION")
      ELSE IF \/ m.cipher_suite \notin ToSet(conn.cipher_suites)
              \/ session.session_resumed /\ m.cipher_suite # conn.prev_cipher_suite
      THEN FailAlert(session, "ILLEGAL_PARAMETER")
      ELSE IF m.compression THEN FailAlert(suited, "ILLEGAL_PARAMETER")
      ELSE IF m.fmt = "tail" THEN FailAlert(suited, "DECODE_ERROR")
      ELSE HelloKeys(HelloTicket(suited))

\* Without a response to the status request the handshake ends here, if one is
\* required.
tls_process_server_hello_done(conn, ct, m) ==
  IF HeaderAlert(ct, m) # NULL THEN FailAlert(conn, HeaderAlert(ct, m))
  ELSE IF m.type # "server_hello_done" THEN FailAlert(conn, "UNEXPECTED_MESSAGE")
  ELSE IF "REQUIRE_OCSP" \in conn.flags /\ ~conn.ocsp_resp_received
  THEN FailAlert(conn, "BAD_CERTIFICATE_STATUS_RESPONSE")
  ELSE [conn EXCEPT !.state = "CLIENT_KEY_EXCHANGE"]

tls_process_certificate_request(conn, ct, m) ==
  IF HeaderAlert(ct, m) # NULL THEN FailAlert(conn, HeaderAlert(ct, m))
  ELSE IF m.type = "server_hello_done" THEN tls_process_server_hello_done(conn, ct, m)
  ELSE IF m.type # "certificate_request" THEN FailAlert(conn, "UNEXPECTED_MESSAGE")
  ELSE [conn EXCEPT !.certificate_requested = TRUE, !.state = "SERVER_HELLO_DONE"]

\* The parameters are those the server signed, with the random numbers of this
\* handshake and the key of the certificate of this handshake.
SignedParams(conn, m) ==
  LET hash == IF conn.rl.version = TLS_VERSION_1_2
              THEN tlsv12_key_x_server_params_hash(conn, m.alg, m.dh)
              ELSE tls_key_x_server_params_hash(conn, m.dh)
  IN  hash # NULL /\ tls_verify_signature(conn.server_rsa_key, hash, m.sig)

\* dh holds the group (whether the prime is large enough and the generator
\* above 1) and the server's public value.
tlsv1_process_diffie_hellman(conn, m) ==
  LET c == tlsv1_client_free_dh(conn)
  IN  IF /\ m.fmt = "ok" /\ m.dh.p = "large" /\ m.dh.g = "ok"
         /\ tls_get_cipher_suite(conn.rl.suite).key_exchange = "DHE_RSA"
              => SignedParams(conn, m)
      THEN [c EXCEPT !.dh = m.dh]
      ELSE FailAlert(c, "DECODE_ERROR")

\* A response for one certificate, or one for each of several: the worst that
\* was said counts, and if nothing was said, the last result. A response that
\* is cut off sets the alert without ending the call.
OcspResult(m) ==
  IF m.kind = "ocsp" THEN m.results[1]
  ELSE IF "REVOKED" \in ToSet(m.results) THEN "REVOKED"
  ELSE IF "GOOD" \in ToSet(m.results) THEN "GOOD"
  ELSE IF m.results = <<>> THEN "NO_RESPONSE"
  ELSE Last(m.results)

tls_process_certificate_status(conn, ct, m) ==
  LET res == OcspResult(m)
      c == IF m.kind = "ocsp" /\ m.fmt = "tail"
           THEN [conn EXCEPT !.alert = "DECODE_ERROR"] ELSE conn
  IN  IF HeaderAlert(ct, m) # NULL THEN FailAlert(conn, HeaderAlert(ct, m))
      ELSE IF m.kind = "other" THEN [conn EXCEPT !.state = "SERVER_KEY_EXCHANGE"]
      ELSE IF res = "REVOKED" THEN FailAlert(c, "CERTIFICATE_REVOKED")
      ELSE IF "REQUIRE_OCSP_ALL" \in conn.flags /\ ~m.all_good
      THEN FailAlert(c, "BAD_CERTIFICATE_STATUS_RESPONSE")
      ELSE IF "REQUIRE_OCSP" \in conn.flags /\ res # "GOOD"
      THEN FailAlert(c, IF res = "INVALID" THEN "DECODE_ERROR"
                        ELSE "BAD_CERTIFICATE_STATUS_RESPONSE")
      ELSE [c EXCEPT !.ocsp_resp_received = TRUE, !.state = "SERVER_KEY_EXCHANGE"]

tls_process_server_key_exchange(conn, ct, m) ==
  IF HeaderAlert(ct, m) # NULL THEN FailAlert(conn, HeaderAlert(ct, m))
  ELSE IF "REQUEST_OCSP" \in conn.flags /\ m.type = "certificate_status"
  THEN tls_process_certificate_status(conn, ct, m)
  ELSE IF m.type = "certificate_request" THEN tls_process_certificate_request(conn, ct, m)
  ELSE IF m.type = "server_hello_done" THEN tls_process_server_hello_done(conn, ct, m)
  ELSE IF \/ m.type # "server_key_exchange"
          \/ ~tls_server_key_exchange_allowed(conn.rl.suite)
  THEN FailAlert(conn, "UNEXPECTED_MESSAGE")
  ELSE LET c == tlsv1_process_diffie_hellman(conn, m)
       IN  IF c.ok THEN [c EXCEPT !.state = "SERVER_CERTIFICATE_REQUEST"] ELSE c

\* (What the certificate may be used for is not looked at.)
UseNotChecked(conn, m) ==
  IF conn.cred # NULL /\ conn.cred.verify = "ca" /\ m.verdict # "ok" THEN m.verdict
  ELSE NULL

\* The list of certificates, the server's first. `verdict` is what the
\* validation of the chain says, `pinned` whether its hash is the configured
\* one, `server_auth` whether it may be used by a server.
JudgeCertificate(conn, m) ==
  IF conn.cred = NULL THEN NULL
  ELSE IF conn.cred.verify = "hash" /\ m.chain # <<>>
  THEN IF m.pinned THEN NULL ELSE "BAD_CERTIFICATE"
  ELSE IF conn.cred.verify = "probe" THEN "BAD_CERTIFICATE"
  ELSE IF conn.cred.verify = "ca" /\ m.verdict # "ok" THEN m.verdict
  ELSE IF conn.cred.verify # "hash" /\ m.chain # <<>> /\ ~m.server_auth
  THEN "BAD_CERTIFICATE"
  ELSE NULL

tls_process_certificate(conn, ct, m) ==
  LET keyed == [conn EXCEPT !.server_rsa_key =
                  IF m.chain = <<>> THEN @
                  ELSE IF m.chain[1] = "unreadable" THEN NULL ELSE m.chain[1]]
  IN  IF HeaderAlert(ct, m) # NULL THEN FailAlert(conn, HeaderAlert(ct, m))
      ELSE IF m.type = "server_key_exchange"
      THEN tls_process_server_key_exchange(conn, ct, m)
      ELSE IF m.type = "certificate_request"
      THEN tls_process_certificate_request(conn, ct, m)
      ELSE IF m.type = "server_hello_done"
      THEN tls_process_server_hello_done(conn, ct, m)
      ELSE IF m.type # "certificate" THEN FailAlert(conn, "UNEXPECTED_MESSAGE")
      ELSE IF "unreadable" \in ToSet(m.chain) THEN FailAlert(keyed, "BAD_CERTIFICATE")
      ELSE IF m.fmt = "tail" THEN FailAlert(keyed, "DECODE_ERROR")
      ELSE IF JudgeCertificate(conn, m) # NULL
      THEN FailAlert(keyed, JudgeCertificate(conn, m))
      ELSE [keyed EXCEPT !.state = "SERVER_KEY_EXCHANGE"]

\* The server accepts the ticket by going on with ChangeCipherSpec. If it sends
\* something else, the handshake falls back to a full one.
tls_process_server_change_cipher_spec(conn, ct, m) ==
  IF ct # "change_cipher_spec" /\ conn.use_session_ticket
  THEN LET c == [conn EXCEPT !.use_session_ticket = FALSE]
       IN  IF conn.session_ticket_cb = "fail" THEN FailAlert(c, "HANDSHAKE_FAILURE")
           ELSE tls_process_certificate([c EXCEPT !.state = "SERVER_CERTIFICATE"], ct, m)
  ELSE IF ct # "change_cipher_spec" THEN FailAlert(conn, "UNEXPECTED_MESSAGE")
  ELSE IF m.fmt = "short" THEN FailAlert(conn, "DECODE_ERROR")
  ELSE IF m.type # "change_cipher_spec" THEN FailAlert(conn, "UNEXPECTED_MESSAGE")
  ELSE LET c == [conn EXCEPT !.rl = tlsv1_record_change_read_cipher(@)]
       IN  IF conn.fault = "crypto" \/ ~crypto_cipher_init(conn.rl.suite)
           THEN FailAlert(c, "INTERNAL_ERROR")
           ELSE [c EXCEPT !.state = "SERVER_FINISHED"]

\* (The contents of the Finished are not compared.)
AnyServerFinished(conn, m) == "verify_data" \in DOMAIN m

ServerFinishedMatches(conn, m) ==
  m.verify_data = tls_prf(conn.master_secret, "server_finished", conn.verify.log)

tls_process_server_finished(conn, ct, m) ==
  LET c == [conn EXCEPT !.verify = HashFinish(@, "server")]
  IN  IF ct # "handshake" THEN FailAlert(conn, "UNEXPECTED_MESSAGE")
      ELSE IF m.fmt = "short" THEN FailAlert(conn, "DECODE_ERROR")
      ELSE IF m.type # "finished" THEN FailAlert(conn, "UNEXPECTED_MESSAGE")
      ELSE IF m.fmt = "tail" THEN FailAlert(conn, "DECODE_ERROR")
      ELSE IF "server" \notin conn.verify.open \/ conn.fault = "crypto"
      THEN FailAlert(c, "INTERNAL_ERROR")
      ELSE IF ~ServerFinishedMatches(conn, m) THEN FailAlert(c, "DECRYPT_ERROR")
      ELSE [c EXCEPT !.state = IF conn.session_resumed \/ conn.use_session_ticket
                               THEN "CHANGE_CIPHER_SPEC" ELSE "ACK_FINISHED"]

\* Application data behind the Finished. A second record of it replaces the
\* first.
tls_process_application_data(conn, ct, m) ==
  IF ct # "application_data" THEN FailAlert(conn, "UNEXPECTED_MESSAGE")
  ELSE IF conn.fault = "output" THEN conn
  ELSE [conn EXCEPT !.appl_data = m]

tlsv1_client_process_handshake(conn, ct, m) ==
  LET step ==
        CASE conn.state = "SERVER_HELLO" -> tls_process_server_hello(conn, ct, m)
          [] conn.state = "SERVER_CERTIFICATE" -> tls_process_certificate(conn, ct, m)
          [] conn.state = "SERVER_KEY_EXCHANGE" ->
               tls_process_server_key_exchange(conn, ct, m)
          [] conn.state = "SERVER_CERTIFICATE_REQUEST" ->
               tls_process_certificate_request(conn, ct, m)
          [] conn.state = "SERVER_HELLO_DONE" ->
               tls_process_server_hello_done(conn, ct, m)
          [] conn.state = "SERVER_CHANGE_CIPHER_SPEC" ->
               tls_process_server_change_cipher_spec(conn, ct, m)
          [] conn.state = "SERVER_FINISHED" -> tls_process_server_finished(conn, ct, m)
          [] conn.state = "ACK_FINISHED" -> tls_process_application_data(conn, ct, m)
          [] OTHER -> Fail(conn)
  IN  IF ct = "alert" /\ m.fmt = "short" THEN FailAlert(conn, "DECODE_ERROR")
      ELSE IF ct = "alert" THEN Fail([conn EXCEPT !.state = "FAILED"])
      ELSE IF ct = "handshake" /\ m.type = "hello_request"
      THEN IF m.fmt = "short" THEN FailAlert(conn, "DECODE_ERROR") ELSE conn
      ELSE IF step.ok /\ ct = "handshake"
      THEN [step EXCEPT !.verify = tls_verify_hash_add(@, m)]
      ELSE step

(****************************************************************************)
(* tlsv1_client_write.c: what the client sends                              *)
(****************************************************************************)

\* A message goes into the hash of the handshake and out in a record.
SendHandshake(conn, m) ==
  LET c == tlsv1_record_send(conn, "handshake", m)
  IN  [c EXCEPT !.verify = tls_verify_hash_add(@, m)]

StatusRequestExtensions(conn) ==
  IF "REQUEST_OCSP" \in conn.flags THEN StatusRequests ELSE {}

tls_send_client_hello(conn) ==
  LET hello == [type |-> "client_hello", fmt |-> "ok",
                version |-> tls_client_highest_ver(conn.flags),
                random |-> <<"client", conn.round>>,
                session_id |-> conn.session_id,
                cipher_suites |-> conn.cipher_suites, compression |-> TRUE,
                ticket |-> conn.session_ticket_included,
                status_request |-> StatusRequestExtensions(conn)]
      c == [conn EXCEPT !.client_random = hello.random]
  IN  IF conn.fault = "random" THEN conn
      ELSE IF conn.fault = "output" THEN c
      ELSE [SendHandshake(c, hello) EXCEPT !.state = "SERVER_HELLO"]

\* The client's own certificates, from the end to a root. None if it has none.
tls_write_client_certificate(conn) ==
  SendHandshake(conn, [type |-> "certificate", fmt |-> "ok",
                       chain |-> IF conn.cred # NULL /\ conn.cred.cert
                                 THEN <<"client_key">> ELSE <<>>,
                       verdict |-> "ok", client_auth |-> TRUE])

\* The client's public value, and the shared secret. The group and the
\* server's value are forgotten. Without them (no ServerKeyExchange came) the
\* modulus is zero, which the exponentiation refuses.
tlsv1_key_x_dh(conn) ==
  LET secret == <<"client_dh", conn.round>>
      c == tls_derive_keys(conn, [dh |-> {secret, conn.dh.ys}])
  IN  IF conn.dh = NULL \/ conn.fault \in {"random", "crypto"}
      THEN [conn |-> FailAlert(conn, "INTERNAL_ERROR"), value |-> NULL]
      ELSE [conn |-> IF c.ok THEN tlsv1_client_free_dh(c) ELSE c, value |-> [yc |-> secret]]

tlsv1_key_x_rsa(conn) ==
  LET pms == tls_derive_pre_master_secret(conn)
      c == tls_derive_keys(conn, pms)
  IN  IF conn.fault = "random"
      THEN [conn |-> FailAlert(conn, "INTERNAL_ERROR"), value |-> NULL]
      ELSE IF ~c.ok \/ conn.server_rsa_key = NULL
      THEN [conn |-> FailAlert(c, "INTERNAL_ERROR"), value |-> NULL]
      ELSE [conn |-> c, value |-> [for |-> conn.server_rsa_key, pms |-> pms]]

tls_write_client_key_exchange(conn) ==
  LET x == IF tls_get_cipher_suite(conn.rl.suite).key_exchange \in {"DH_anon", "DHE_RSA"}
           THEN tlsv1_key_x_dh(conn) ELSE tlsv1_key_x_rsa(conn)
  IN  IF ~x.conn.ok THEN x.conn
      ELSE SendHandshake(x.conn, [type |-> "client_key_exchange", fmt |-> "ok",
                                  value |-> x.value])

\* Proof that the client has the key of its certificate.
tls_write_client_certificate_verify(conn) ==
  LET c == [conn EXCEPT !.verify = HashFinish(@, "cert")]
  IN  IF ~conn.ok THEN conn
      ELSE IF "cert" \notin conn.verify.open THEN FailAlert(c, "INTERNAL_ERROR")
      ELSE SendHandshake(c, [type |-> "certificate_verify", fmt |-> "ok", alg |-> "SHA256",
                             sig |-> [by |-> "client_key", over |-> conn.verify.log]])

tls_write_client_change_cipher_spec(conn) ==
  LET c == tlsv1_record_send(conn, "change_cipher_spec",
                             [type |-> "change_cipher_spec", fmt |-> "ok"])
  IN  IF ~conn.ok THEN conn
      ELSE IF conn.fault = "crypto" \/ ~crypto_cipher_init(conn.rl.suite)
      THEN FailAlert([c EXCEPT !.rl = tlsv1_record_change_write_cipher(@)], "INTERNAL_ERROR")
      ELSE [c EXCEPT !.rl = tlsv1_record_change_write_cipher(@)]

tls_write_client_finished(conn) ==
  LET c == [conn EXCEPT !.verify = HashFinish(@, "client")]
  IN  IF ~conn.ok THEN conn
      ELSE IF "client" \notin conn.verify.open THEN FailAlert(c, "INTERNAL_ERROR")
      ELSE SendHandshake(c, [type |-> "finished", fmt |-> "ok",
                             verify_data |-> tls_prf(conn.master_secret, "client_finished",
                                                     conn.verify.log)])

\* A flight is sent whole or not at all; after an error nothing of it is, and
\* the state stays. If there is no memory for it nothing tells the peer.
tls_send_client_key_exchange(conn) ==
  LET certificate == IF conn.certificate_requested
                     THEN tls_write_client_certificate(conn) ELSE conn
      exchange == tls_write_client_key_exchange(certificate)
      verify == IF conn.certificate_requested /\ conn.cred # NULL /\ conn.cred.key
                THEN tls_write_client_certificate_verify(exchange) ELSE exchange
      done == tls_write_client_finished(tls_write_client_change_cipher_spec(verify))
  IN  IF conn.fault = "output" THEN Fail(conn)
      ELSE IF done.ok THEN [done EXCEPT !.state = "SERVER_CHANGE_CIPHER_SPEC"]
      ELSE [done EXCEPT !.out = <<>>]

tls_send_change_cipher_spec(conn) ==
  LET done == tls_write_client_finished(tls_write_client_change_cipher_spec(conn))
  IN  IF conn.fault = "output" THEN Fail(conn)
      ELSE IF done.ok
      THEN [done EXCEPT !.state = "ESTABLISHED",
                        !.session_resumed = @ \/ conn.use_session_ticket]
      ELSE [done EXCEPT !.out = <<>>]

\* (The state after the server's Finished is forgotten.)
NoAckFinished(conn) ==
  CASE conn.state = "CLIENT_KEY_EXCHANGE" -> tls_send_client_key_exchange(conn)
    [] conn.state = "CHANGE_CIPHER_SPEC" -> tls_send_change_cipher_spec(conn)
    [] OTHER -> conn

tlsv1_client_handshake_write(conn) ==
  CASE conn.state = "CLIENT_KEY_EXCHANGE" -> tls_send_client_key_exchange(conn)
    [] conn.state = "CHANGE_CIPHER_SPEC" -> tls_send_change_cipher_spec(conn)
    [] conn.state = "ACK_FINISHED" -> [conn EXCEPT !.state = "ESTABLISHED"]
    [] OTHER -> conn

\* An alert is always sent in plain text, with no record number.
tlsv1_client_send_alert(conn) ==
  [conn EXCEPT !.out = << [hdr |-> "ok", ct |-> "alert", key |-> NoKey, seq |-> 0,
                           m |-> [type |-> "fatal", fmt |-> "ok", alert |-> conn.alert]] >>]

(****************************************************************************)
(* tlsv1_client.c: a call with what has been received                       *)
(****************************************************************************)

\* One complete record.
ReceiveRecord(conn, r) ==
  LET got == tlsv1_record_receive(conn.rl, r)
  IN  IF ~conn.ok THEN conn
      ELSE IF got.alert # NULL THEN FailAlert(conn, got.alert)
      ELSE tlsv1_client_process_handshake([conn EXCEPT !.rl = RecordRead(@)], r.ct, got.m)

\* The end of a call, reached by errors too.
FinishCall(conn) ==
  IF conn.alert # NULL
  THEN tlsv1_client_send_alert([conn EXCEPT !.state = "FAILED", !.partial_input = 0])
  ELSE [conn EXCEPT !.partial_input = 0]

\* The call. `stream` begins with what is held back as the beginning of a
\* record; a record has two halves, and `n` more of them are given to the call.
\* If the last one is the first half of a record, the call ends before anything
\* is written, even an alert that is already set. `out` is what it returns.
tlsv1_client_handshake(conn, fault, stream, n) ==
  LET halves == conn.partial_input + n
      start == [conn EXCEPT !.fault = fault, !.ok = TRUE, !.out = <<>>, !.appl_data = NULL]
      read == FoldLeft(ReceiveRecord, start, SubSeq(stream, 1, halves \div 2))
      rest == halves % 2
  IN  IF conn.state = "CLIENT_HELLO"
      THEN IF n # 0 THEN start ELSE tls_send_client_hello(start)
      ELSE IF fault = "partial" /\ conn.partial_input # 0
      THEN FinishCall(FailAlert(start, "INTERNAL_ERROR"))
      ELSE IF halves = 0 THEN start
      ELSE IF fault = "input"
      THEN [start EXCEPT !.partial_input = IF @ = 0 THEN 0 ELSE halves]
      ELSE IF ~read.ok THEN FinishCall(read)
      ELSE IF rest = 1 /\ fault = "partial"
      THEN FinishCall(FailAlert(read, "INTERNAL_ERROR"))
      ELSE IF rest = 1 THEN [read EXCEPT !.partial_input = 1]
      ELSE FinishCall(tlsv1_client_handshake_write(read))

\* Application data in either direction once the handshake is over. A warning
\* is skipped; after an error the alert is set but nothing is sent.
tlsv1_client_encrypt(conn, data) ==
  tlsv1_record_send([conn EXCEPT !.out = <<>>], "application_data", data)

DecryptRecord(conn, r) ==
  LET got == tlsv1_record_receive(conn.rl, r)
      c == [conn EXCEPT !.rl = RecordRead(@)]
  IN  IF ~conn.ok THEN conn
      ELSE IF got.alert # NULL THEN FailAlert(conn, got.alert)
      ELSE IF r.ct = "alert" /\ got.m.fmt = "short" THEN FailAlert(c, "DECODE_ERROR")
      ELSE IF r.ct = "alert" /\ got.m.type = "warning" THEN c
      ELSE IF r.ct = "alert" THEN FailAlert(c, got.m.alert)
      ELSE IF r.ct # "application_data" THEN FailAlert(c, "UNEXPECTED_MESSAGE")
      ELSE [c EXCEPT !.out = Append(@, got.m)]

\* The data of the complete records, or nothing after an error.
tlsv1_client_decrypt(conn, fault, stream, n) ==
  LET halves == conn.partial_input + n
      start == [conn EXCEPT !.fault = fault, !.ok = TRUE, !.out = <<>>]
      read == FoldLeft(DecryptRecord, start, SubSeq(stream, 1, halves \div 2))
      lost == \/ fault = "partial" /\ (conn.partial_input # 0 \/ halves % 2 = 1)
              \/ fault = "output"
      c == IF lost /\ read.ok THEN FailAlert(read, "INTERNAL_ERROR") ELSE read
  IN  IF c.ok THEN [c EXCEPT !.partial_input = halves % 2]
      ELSE [c EXCEPT !.out = <<>>, !.partial_input = 0]
==============================================================================
