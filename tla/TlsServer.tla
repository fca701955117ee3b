------------------------------ MODULE TlsServer ------------------------------
(****************************************************************************)
(* The TLS server, message by message (crypto/tls/tlsv1_server.c,           *)
(* tlsv1_server_read.c, tlsv1_server_write.c): functions from a connection  *)
(* to the connection a call leaves, as in TlsClient, with the messages of   *)
(* TlsClient.                                                               *)
(****************************************************************************)
EXTENDS TlsCommon

(****************************************************************************)
(* tlsv1_server.c: keys, life cycle                                         *)
(****************************************************************************)

\* cred: the server's key, what a client finds out about its certificates, the
\* Diffie-Hellman group, whether there are trusted roots, and the status
\* responses in files (NULL: not configured; "unreadable").
tlsv1_server_init(cred) ==
  [state |-> "CLIENT_HELLO", rl |-> NewRecordLayer, session_id |-> 0,
   client_random |-> NULL, server_random |-> NULL, master_secret |-> NULL,
   alert |-> NULL, ok |-> TRUE, fault |-> "none", out |-> <<>>,
   client_rsa_key |-> NULL, verify |-> tls_verify_hash_init,
   cipher_suites |-> << <<"DHE_RSA", 3>>, <<"RSA", 3>>, <<"DHE_RSA", 2>>, <<"RSA", 2>>,
                        <<"DHE_RSA", 1>>, <<"RSA", 1>> >>,
   cred |-> cred, verify_peer |-> FALSE, client_version |-> 0,
   session_ticket |-> FALSE, session_ticket_cb |-> NULL, use_session_ticket |-> FALSE,
   status_request |-> {}, dh_secret |-> NULL, round |-> 1]

tlsv1_server_set_cipher_list(conn, anonymous) ==
  IF anonymous
  THEN [conn EXCEPT !.cipher_suites = << <<"RSA", 3>>, <<"RSA", 2>>, <<"RSA", 1>>,
                                         <<"DH_anon", 3>>, <<"DH_anon", 2>>,
                                         <<"DH_anon", 1>> >>]
  ELSE conn

tlsv1_server_set_verify(conn, verify_peer) == [conn EXCEPT !.verify_peer = verify_peer]

tlsv1_server_set_session_ticket_cb(conn, cb) == [conn EXCEPT !.session_ticket_cb = cb]

\* Everything that belongs to one handshake, the hash contexts included.
tlsv1_server_clear_data(conn) ==
  LET rl == tlsv1_record_set_cipher_suite(conn.rl, NullSuite)
  IN  [conn EXCEPT !.rl = tlsv1_record_change_read_cipher(
                            tlsv1_record_change_write_cipher(rl)),
                   !.verify.open = {}, !.client_rsa_key = NULL,
                   !.session_ticket = FALSE, !.use_session_ticket = FALSE,
                   !.dh_secret = NULL]

tlsv1_server_shutdown(conn) ==
  tlsv1_server_clear_data(
    [conn EXCEPT !.state = "CLIENT_HELLO", !.verify = tls_verify_hash_init, !.round = @ + 1])

tlsv1_server_established(conn) == conn.state = "ESTABLISHED"

tlsv1_server_prf(conn, label) ==
  IF conn.state = "ESTABLISHED"
  THEN tls_prf(conn.master_secret, label, <<conn.client_random, conn.server_random>>)
  ELSE NULL

tlsv1_server_get_random(conn) ==
  [client |-> IF conn.state = "CLIENT_HELLO" THEN NULL ELSE conn.client_random,
   server |-> IF conn.state \in {"CLIENT_HELLO", "SERVER_HELLO"} THEN NULL
              ELSE conn.server_random]

\* As on the client, with the two keys exchanged. Without a pre-master secret
\* the master secret is the one the ticket stands for.
tlsv1_server_derive_keys(conn, pre_master_secret) ==
  LET randoms == <<conn.client_random, conn.server_random>>
      secret == IF pre_master_secret = NULL THEN conn.master_secret
                ELSE tls_prf(pre_master_secret, "master_secret", randoms)
      block == tls_prf(secret, "key_expansion", randoms \o <<conn.rl.suite>>)
  IN  IF conn.fault = "crypto"
      THEN FailAlert(conn, "INTERNAL_ERROR")
      ELSE [conn EXCEPT !.master_secret = secret,
                        !.rl.rkey = <<"client", block>>, !.rl.wkey = <<"server", block>>]

(****************************************************************************)
(* tlsv1_server_read.c: what each message does                              *)
(****************************************************************************)

\* A client that is newer than the server gets the server's version. Version
\* 1.1 is accepted here although the build does not have it.
NegotiatedVersion(client_version) ==
  IF client_version >= TLS_VERSION_1_2 THEN TLS_VERSION_1_2 ELSE client_version

\* The first suite of the server's list that the client offers.
ChosenSuite(conn, offered) ==
  LET common == SelectSeq(conn.cipher_suites, LAMBDA s : s \in ToSet(offered))
  IN  IF common = <<>> THEN NullSuite ELSE Head(common)

tls_process_status_request_v2(conn, m) ==
  [conn EXCEPT !.status_request = @ \cup (m.status_request \ {"status_request"})]

\* The extensions. What was asked for once stays asked for.
HelloExtensions(conn, m) ==
  [tls_process_status_request_v2(conn, m)
     EXCEPT !.session_ticket = @ \/ m.ticket,
            !.status_request = @ \cup (m.status_request \cap {"status_request"})]

TooOld(m) == m.version < TLS_VERSION_1

tls_process_client_hello(conn, ct, m) ==
  LET versioned == [conn EXCEPT !.client_version = m.version,
                                !.rl.version = NegotiatedVersion(m.version),
                                !.client_random = m.random]
      suite == ChosenSuite(conn, m.cipher_suites)
      suited == [versioned EXCEPT !.rl = tlsv1_record_set_cipher_suite(@, suite)]
  IN  IF HeaderAlert(ct, m) # NULL THEN FailAlert(conn, HeaderAlert(ct, m))
      ELSE IF m.type # "client_hello" THEN FailAlert(conn, "UNEXPECTED_MESSAGE")
      ELSE IF TooOld(m)
      THEN FailAlert([conn EXCEPT !.client_version = m.version], "PROTOCOL_VERSION")
      ELSE IF suite = NullSuite THEN FailAlert(versioned, "ILLEGAL_PARAMETER")
      ELSE IF ~m.compression THEN FailAlert(suited, "ILLEGAL_PARAMETER")
      ELSE IF m.fmt = "tail" THEN FailAlert(suited, "DECODE_ERROR")
      ELSE [HelloExtensions(suited, m) EXCEPT !.state = "SERVER_HELLO"]

\* The pre-master secret that was encrypted for the server's key, with the
\* version of the hello in it; if anything is wrong with it, a random one, so
\* that the handshake fails only at the Finished.
tls_process_client_key_exchange_rsa(conn, m) ==
  LET good == /\ "pms" \in DOMAIN m.value
              /\ m.value.for = conn.cred.key
              /\ m.value.pms.version = conn.client_version
  IN  IF m.fmt = "tail" THEN FailAlert(conn, "DECODE_ERROR")
      ELSE IF ~good /\ conn.fault = "random" THEN FailAlert(conn, "INTERNAL_ERROR")
      ELSE tlsv1_server_derive_keys(conn, IF good THEN m.value.pms
                                          ELSE [random |-> <<"random", conn.round>>])

tls_process_client_key_exchange_dh(conn, m) ==
  LET yc == IF "yc" \in DOMAIN m.value THEN m.value.yc ELSE <<"noise", 0>>
      c == [conn EXCEPT !.dh_secret = NULL]
  IN  IF m.fmt = "tail" THEN FailAlert(conn, "DECODE_ERROR")
      ELSE IF ~conn.cred.dh \/ conn.dh_secret = NULL \/ conn.fault = "crypto"
      THEN FailAlert(conn, "INTERNAL_ERROR")
      ELSE tlsv1_server_derive_keys(c, [dh |-> {yc, conn.dh_secret}])

tls_process_client_key_exchange(conn, ct, m) ==
  LET c == IF tls_server_key_exchange_allowed(conn.rl.suite)
           THEN tls_process_client_key_exchange_dh(conn, m)
           ELSE tls_process_client_key_exchange_rsa(conn, m)
  IN  IF HeaderAlert(ct, m) # NULL THEN FailAlert(conn, HeaderAlert(ct, m))
      ELSE IF m.type # "client_key_exchange" THEN FailAlert(conn, "UNEXPECTED_MESSAGE")
      ELSE IF c.ok THEN [c EXCEPT !.state = "CERTIFICATE_VERIFY"] ELSE c

\* What the validation of the client's chain says. Without trusted roots even
\* no certificate at all will do.
ClientVerdict(conn, m) ==
  IF m.chain = <<>> THEN IF conn.cred.trusted THEN "UNKNOWN_CA" ELSE "ok"
  ELSE m.verdict

tls_process_certificate(conn, ct, m) ==
  LET keyed == [conn EXCEPT !.client_rsa_key =
                  IF m.chain = <<>> THEN @
                  ELSE IF m.chain[1] = "unreadable" THEN NULL ELSE m.chain[1]]
  IN  IF HeaderAlert(ct, m) # NULL THEN FailAlert(conn, HeaderAlert(ct, m))
      ELSE IF m.type = "client_key_exchange"
      THEN IF conn.verify_peer THEN FailAlert(conn, "UNEXPECTED_MESSAGE")
           ELSE tls_process_client_key_exchange(conn, ct, m)
      ELSE IF m.type # "certificate" THEN FailAlert(conn, "UNEXPECTED_MESSAGE")
      ELSE IF "unreadable" \in ToSet(m.chain) THEN FailAlert(keyed, "BAD_CERTIFICATE")
      ELSE IF m.fmt = "tail" THEN FailAlert(keyed, "DECODE_ERROR")
      ELSE IF ClientVerdict(conn, m) # "ok" THEN FailAlert(keyed, ClientVerdict(conn, m))
      ELSE IF m.chain # <<>> /\ ~m.client_auth THEN FailAlert(keyed, "BAD_CERTIFICATE")
      ELSE [keyed EXCEPT !.state = "CLIENT_KEY_EXCHANGE"]

tls_process_change_cipher_spec(conn, ct, m) ==
  IF ct # "change_cipher_spec" THEN FailAlert(conn, "UNEXPECTED_MESSAGE")
  ELSE IF m.fmt = "short" THEN FailAlert(conn, "DECODE_ERROR")
  ELSE IF m.type # "change_cipher_spec" THEN FailAlert(conn, "UNEXPECTED_MESSAGE")
  ELSE LET c == [conn EXCEPT !.rl = tlsv1_record_change_read_cipher(@)]
       IN  IF conn.fault = "crypto" \/ ~crypto_cipher_init(conn.rl.suite)
           THEN FailAlert(c, "INTERNAL_ERROR")
           ELSE [c EXCEPT !.state = "CLIENT_FINISHED"]

\* (The proof of the key may always be left out.)
AlwaysMayOmitProof(conn) == TRUE

\* (The proof of the key is always expected.)
NeverMayOmitProof(conn) == FALSE

\* May the client go on to ChangeCipherSpec without CertificateVerify?
MayOmitProof(conn) == ~conn.verify_peer

\* A signature over all messages so far, with the key of the client's
\* certificate.
tls_process_certificate_verify(conn, ct, m) ==
  LET c == [conn EXCEPT !.verify = HashFinish(@, "cert")]
  IN  IF ct = "change_cipher_spec"
      THEN IF MayOmitProof(conn) THEN tls_process_change_cipher_spec(conn, ct, m)
           ELSE FailAlert(conn, "UNEXPECTED_MESSAGE")
      ELSE IF HeaderAlert(ct, m) # NULL THEN FailAlert(conn, HeaderAlert(ct, m))
      ELSE IF m.type # "certificate_verify" THEN FailAlert(conn, "UNEXPECTED_MESSAGE")
      ELSE IF m.fmt = "tail" THEN FailAlert(conn, "DECODE_ERROR")
      ELSE IF conn.rl.version = TLS_VERSION_1_2 /\ m.alg # "SHA256"
      THEN FailAlert(conn, "INTERNAL_ERROR")
      ELSE IF "cert" \notin conn.verify.open \/ conn.fault = "crypto"
      THEN FailAlert(c, "INTERNAL_ERROR")
      ELSE IF ~tls_verify_signature(conn.client_rsa_key, conn.verify.log, m.sig)
      THEN FailAlert(c, "DECRYPT_ERROR")
      ELSE [c EXCEPT !.state = "CHANGE_CIPHER_SPEC"]

\* (The contents of the Finished are not compared.)
AnyClientFinished(conn, m) == "verify_data" \in DOMAIN m

ClientFinishedMatches(conn, m) ==
  m.verify_data = tls_prf(conn.master_secret, "client_finished", conn.verify.log)

\* A Finished that does not match ends the handshake without an alert.
tls_process_client_finished(conn, ct, m) ==
  LET c == [conn EXCEPT !.verify = HashFinish(@, "client")]
  IN  IF ct # "handshake" THEN FailAlert(conn, "UNEXPECTED_MESSAGE")
      ELSE IF m.fmt = "short" THEN FailAlert(conn, "DECODE_ERROR")
      ELSE IF m.type # "finished" THEN FailAlert(conn, "UNEXPECTED_MESSAGE")
      ELSE IF m.fmt = "tail" THEN FailAlert(conn, "DECODE_ERROR")
      ELSE IF "client" \notin conn.verify.open \/ conn.fault = "crypto"
      THEN FailAlert(c, "INTERNAL_ERROR")
      ELSE IF ~ClientFinishedMatches(conn, m)
      THEN Fail([c EXCEPT !.state = "FAILED"])
      ELSE [c EXCEPT !.state = IF conn.use_session_ticket THEN "ESTABLISHED"
                               ELSE "SERVER_CHANGE_CIPHER_SPEC"]

tlsv1_server_process_handshake(conn, ct, m) ==
  LET step ==
        CASE conn.state = "CLIENT_HELLO" -> tls_process_client_hello(conn, ct, m)
          [] conn.state = "CLIENT_CERTIFICATE" -> tls_process_certificate(conn, ct, m)
          [] conn.state = "CLIENT_KEY_EXCHANGE" ->
               tls_process_client_key_exchange(conn, ct, m)
          [] conn.state = "CERTIFICATE_VERIFY" ->
               tls_process_certificate_verify(conn, ct, m)
          [] conn.state = "CHANGE_CIPHER_SPEC" ->
               tls_process_change_cipher_spec(conn, ct, m)
          [] conn.state = "CLIENT_FINISHED" -> tls_process_client_finished(conn, ct, m)
          [] OTHER -> Fail(conn)
  IN  IF ct = "alert" /\ m.fmt = "short" THEN FailAlert(conn, "DECODE_ERROR")
      ELSE IF ct = "alert" THEN Fail([conn EXCEPT !.state = "FAILED"])
      ELSE IF step.ok /\ ct = "handshake"
      THEN [step EXCEPT !.verify = tls_verify_hash_add(@, m)]
      ELSE step

(****************************************************************************)
(* tlsv1_server_write.c: what the server sends. Each function is skipped    *)
(* once one before it has failed.                                           *)
(****************************************************************************)
ServerSend(conn, m) ==
  LET c == tlsv1_record_send(conn, "handshake", m)
  IN  [c EXCEPT !.verify = tls_verify_hash_add(@, m)]

\* New random numbers and a new session id. The callback may know the secret
\* that the client's ticket stands for.
HelloMessage(conn) ==
  [type |-> "server_hello", fmt |-> "ok", version |-> conn.rl.version,
   random |-> conn.server_random, session_id |-> conn.session_id,
   cipher_suite |-> conn.rl.suite, compression |-> FALSE]

TicketKeys(conn) ==
  IF ~conn.session_ticket \/ conn.session_ticket_cb = NULL THEN conn
  ELSE IF conn.session_ticket_cb = "fail" THEN FailAlert(conn, "HANDSHAKE_FAILURE")
  ELSE IF conn.session_ticket_cb = "yes"
  THEN tlsv1_server_derive_keys(
         [conn EXCEPT !.use_session_ticket = TRUE,
                      !.master_secret = tls_prf(NULL, "ticket", <<>>)], NULL)
  ELSE [conn EXCEPT !.use_session_ticket = FALSE]

tls_write_server_hello(conn) ==
  LET c == TicketKeys([conn EXCEPT !.server_random = <<"server", conn.round>>,
                                   !.session_id = conn.round])
  IN  IF conn.fault = "random" THEN Fail(conn)
      ELSE IF c.ok THEN ServerSend(c, HelloMessage(c)) ELSE c

tls_write_server_certificate(conn) ==
  IF ~conn.ok \/ tls_get_cipher_suite(conn.rl.suite).key_exchange = "DH_anon" THEN conn
  ELSE ServerSend(conn, [type |-> "certificate", fmt |-> "ok", chain |-> conn.cred.chain,
                         verdict |-> conn.cred.verdict, pinned |-> conn.cred.pinned,
                         server_auth |-> conn.cred.server_auth])

tls_write_server_certificate_status(conn, kind, response) ==
  IF ~conn.ok \/ response = NULL THEN conn
  ELSE ServerSend(conn, [type |-> "certificate_status", fmt |-> "ok", kind |-> kind,
                         results |-> response, all_good |-> ToSet(response) = {"GOOD"}])

\* The group with the public value for a new secret, and for DHE_RSA the
\* signature over them. Without a group: an error, but no alert.
ServerParams(conn) == [p |-> "large", g |-> "ok", ys |-> conn.dh_secret]

tls_write_server_key_exchange(conn) ==
  LET keyx == tls_get_cipher_suite(conn.rl.suite).key_exchange
      c == [conn EXCEPT !.dh_secret = <<"server_dh", conn.round>>]
      hash == IF conn.rl.version >= TLS_VERSION_1_2
              THEN tlsv12_key_x_server_params_hash(conn, "SHA256", ServerParams(c))
              ELSE tls_key_x_server_params_hash(conn, ServerParams(c))
  IN  IF ~conn.ok \/ ~tls_server_key_exchange_allowed(conn.rl.suite) THEN conn
      ELSE IF ~conn.cred.dh THEN Fail(conn)
      ELSE IF conn.fault = "crypto" THEN FailAlert(c, "INTERNAL_ERROR")
      ELSE ServerSend(c, [type |-> "server_key_exchange", fmt |-> "ok",
                          dh |-> ServerParams(c), alg |-> "SHA256",
                          sig |-> IF keyx = "DHE_RSA"
                                  THEN [by |-> conn.cred.key, over |-> hash] ELSE NULL])

tls_write_server_certificate_request(conn) ==
  IF ~conn.ok \/ ~conn.verify_peer THEN conn
  ELSE ServerSend(conn, [type |-> "certificate_request", fmt |-> "ok"])

tls_write_server_hello_done(conn) ==
  IF ~conn.ok THEN conn
  ELSE ServerSend(conn, [type |-> "server_hello_done", fmt |-> "ok"])

tls_write_server_change_cipher_spec(conn) ==
  LET c == tlsv1_record_send(conn, "change_cipher_spec",
                             [type |-> "change_cipher_spec", fmt |-> "ok"])
  IN  IF ~conn.ok THEN conn
      ELSE IF conn.fault = "crypto" \/ ~crypto_cipher_init(conn.rl.suite)
      THEN FailAlert([c EXCEPT !.rl = tlsv1_record_change_write_cipher(@)], "INTERNAL_ERROR")
      ELSE [c EXCEPT !.rl = tlsv1_record_change_write_cipher(@)]

tls_write_server_finished(conn) ==
  LET c == [conn EXCEPT !.verify = HashFinish(@, "server")]
  IN  IF ~conn.ok THEN conn
      ELSE IF "server" \notin conn.verify.open THEN FailAlert(c, "INTERNAL_ERROR")
      ELSE ServerSend(c, [type |-> "finished", fmt |-> "ok",
                          verify_data |-> tls_prf(conn.master_secret, "server_finished",
                                                  conn.verify.log)])

\* Which status response goes out with the certificate.
StatusKind(conn) ==
  IF "status_request_multi" \in conn.status_request /\ conn.cred.ocsp_multi # NULL
  THEN "ocsp_multi" ELSE "ocsp"

StatusResponse(conn) ==
  LET file == IF StatusKind(conn) = "ocsp_multi" THEN conn.cred.ocsp_multi
              ELSE IF conn.status_request \cap {"status_request", "status_request_v2"} # {}
              THEN conn.cred.ocsp ELSE NULL
  IN  IF file = <<"unreadable">> THEN NULL ELSE file

\* The first flight: with a ticket right to the Finished, otherwise up to
\* ServerHelloDone. If anything fails nothing is sent.
tls_send_server_hello(conn) ==
  LET hello == tls_write_server_hello(conn)
      short == tls_write_server_finished(tls_write_server_change_cipher_spec(hello))
      status == tls_write_server_certificate_status(
                  tls_write_server_certificate(hello), StatusKind(conn), StatusResponse(conn))
      full == tls_write_server_hello_done(
                tls_write_server_certificate_request(tls_write_server_key_exchange(status)))
      done == IF hello.use_session_ticket THEN short ELSE full
  IN  IF conn.fault = "output" THEN Fail(conn)
      ELSE IF ~done.ok THEN [done EXCEPT !.out = <<>>]
      ELSE [done EXCEPT !.state = IF hello.use_session_ticket THEN "CHANGE_CIPHER_SPEC"
                                  ELSE "CLIENT_CERTIFICATE"]

tls_send_change_cipher_spec(conn) ==
  LET done == tls_write_server_finished(tls_write_server_change_cipher_spec(conn))
  IN  IF conn.fault = "output" THEN Fail(conn)
      ELSE IF ~done.ok THEN [done EXCEPT !.out = <<>>]
      ELSE [done EXCEPT !.state = "ESTABLISHED"]

tlsv1_server_handshake_write(conn) ==
  CASE conn.state = "SERVER_HELLO" -> tls_send_server_hello(conn)
    [] conn.state = "SERVER_CHANGE_CIPHER_SPEC" -> tls_send_change_cipher_spec(conn)
    [] OTHER -> conn

tlsv1_server_send_alert(conn) ==
  [conn EXCEPT !.out = << [hdr |-> "ok", ct |-> "alert", key |-> NoKey, seq |-> 0,
                           m |-> [type |-> "fatal", fmt |-> "ok", alert |-> conn.alert]] >>]

(****************************************************************************)
(* tlsv1_server.c: a call with what has been received                       *)
(****************************************************************************)
ServerReceive(conn, r) ==
  LET got == tlsv1_record_receive(conn.rl, r)
  IN  IF ~conn.ok THEN conn
      ELSE IF got.alert # NULL THEN FailAlert(conn, got.alert)
      ELSE tlsv1_server_process_handshake([conn EXCEPT !.rl = RecordRead(@)], r.ct, got.m)

\* The end of a call. A connection that has failed already is silent.
ServerFinishCall(conn) ==
  IF conn.alert = NULL THEN conn
  ELSE IF conn.state = "FAILED" THEN [conn EXCEPT !.out = <<>>]
  ELSE tlsv1_server_send_alert([conn EXCEPT !.state = "FAILED"])

\* The call, with n halves of records. The server keeps no partial record.
tlsv1_server_handshake(conn, fault, stream, n) ==
  LET start == [conn EXCEPT !.fault = fault, !.ok = TRUE, !.out = <<>>]
      read == FoldLeft(ServerReceive, start, SubSeq(stream, 1, n \div 2))
  IN  IF n = 0 \/ fault = "input" THEN start
      ELSE IF ~read.ok THEN ServerFinishCall(read)
      ELSE IF n % 2 = 1 THEN ServerFinishCall(FailAlert(read, "INTERNAL_ERROR"))
      ELSE ServerFinishCall(tlsv1_server_handshake_write(read))

tlsv1_server_encrypt(conn, data) ==
  tlsv1_record_send([conn EXCEPT !.out = <<>>], "application_data", data)

ServerDecryptRecord(conn, r) ==
  LET got == tlsv1_record_receive(conn.rl, r)
      c == [conn EXCEPT !.rl = RecordRead(@)]
  IN  IF ~conn.ok THEN conn
      ELSE IF got.alert # NULL THEN FailAlert(conn, got.alert)
      ELSE IF r.ct = "alert" /\ got.m.fmt = "short" THEN FailAlert(c, "DECODE_ERROR")
      ELSE IF r.ct = "alert" /\ got.m.type = "warning" THEN c
      ELSE IF r.ct = "alert" THEN FailAlert(c, got.m.alert)
      ELSE IF r.ct # "application_data" THEN FailAlert(c, "UNEXPECTED_MESSAGE")
      ELSE [c EXCEPT !.out = Append(@, got.m)]

\* n halves of records. After half a record the alert is a variable nobody has
\* set: any value.
tlsv1_server_decrypt(conn, stream, n, uninitialized) ==
  LET c == FoldLeft(ServerDecryptRecord, [conn EXCEPT !.ok = TRUE, !.out = <<>>],
                    SubSeq(stream, 1, n \div 2))
      whole == IF c.ok /\ n % 2 = 1 THEN FailAlert(c, uninitialized) ELSE c
  IN  IF whole.ok THEN whole ELSE [whole EXCEPT !.out = <<>>]
==============================================================================
