------------------------------ MODULE TlsCommon ------------------------------
(****************************************************************************)
(* What the TLS client and the TLS server share: cipher suites, the record  *)
(* layer, the hash of the handshake, signatures and the pseudo-random       *)
(* function (crypto/tls/tlsv1_common.c, tlsv1_record.c).                    *)
(*                                                                          *)
(* Cryptography is ideal: a hash, a derived key, a signature is the record  *)
(* of what went into it, so two of them are equal only if their inputs are. *)
(* A cipher suite is a pair: its key exchange, and a number for the rest: 3 *)
(* with AES-256, 2 with AES-128, 1 with an older cipher.                    *)
(* A connection is a record `conn`; `ok` is FALSE once a function has       *)
(* returned an error, `alert` is the alert to be sent or NULL, and `fault`  *)
(* says which resource fails during the current call, if any.               *)
(****************************************************************************)
EXTENDS Naturals, Sequences, SequencesExt

CONSTANTS
  NULL

\* The descriptions of the alerts that are sent (TLS_ALERT_...).
Alerts ==
  {"CLOSE_NOTIFY", "UNEXPECTED_MESSAGE", "BAD_RECORD_MAC", "RECORD_OVERFLOW",
   "HANDSHAKE_FAILURE", "BAD_CERTIFICATE", "CERTIFICATE_REVOKED", "ILLEGAL_PARAMETER",
   "UNKNOWN_CA", "DECODE_ERROR", "DECRYPT_ERROR", "PROTOCOL_VERSION", "INTERNAL_ERROR",
   "BAD_CERTIFICATE_STATUS_RESPONSE"}

\* NULL, no alert, is none of them.
ASSUME NullAssumption == NULL \notin Alerts

NullSuite == <<"NULL", 0>>

\* The key of a direction whose suite encrypts nothing. As the suite and the
\* derived keys, it is a tuple.
NoKey == <<"none", 0>>

TLS_VERSION_1 == 10
TLS_VERSION_1_1 == 11
TLS_VERSION_1_2 == 12
TLS_VERSION == TLS_VERSION_1_2

\* The extensions that ask for the status of the certificate.
StatusRequests == {"status_request", "status_request_v2", "status_request_multi"}

\* Which resource fails in a call: none; the buffer of the received record;
\* the buffer that keeps a partial record; the buffer of the answer; the random
\* number generator; a hash or a cipher.
Faults == {"none", "input", "partial", "output", "random", "crypto"}

(****************************************************************************)
(* Suites and versions. The build has no TLS 1.1 (CONFIG_TLSV11).           *)
(****************************************************************************)
tls_get_cipher_suite(suite) == [key_exchange |-> suite[1], cipher |-> suite[2]]

tls_server_key_exchange_allowed(suite) ==
  tls_get_cipher_suite(suite).key_exchange \in {"DHE_RSA", "DH_anon"}

tls_version_ok(ver) == ver \in {TLS_VERSION_1, TLS_VERSION_1_2}

(****************************************************************************)
(* The record layer: the suite and keys being prepared, and for each        *)
(* direction the suite and key in use and the number of the next record.    *)
(****************************************************************************)
Plain == [suite |-> NullSuite, key |-> NoKey, seq |-> 0]

NewRecordLayer ==
  [version |-> TLS_VERSION, suite |-> NullSuite, wkey |-> NoKey, rkey |-> NoKey,
   write |-> Plain, read |-> Plain]

\* Can the cipher of the suite be set up? The firmware replaces the library's AES
\* by one that takes keys of 128 bits only.
crypto_cipher_init(suite) == tls_get_cipher_suite(suite).cipher # 3

tlsv1_record_set_cipher_suite(rl, suite) == [rl EXCEPT !.suite = suite]

Direction(suite, key) ==
  [suite |-> suite, key |-> IF suite = NullSuite THEN NoKey ELSE key, seq |-> 0]

tlsv1_record_change_write_cipher(rl) ==
  [rl EXCEPT !.write = Direction(rl.suite, rl.wkey)]

tlsv1_record_change_read_cipher(rl) ==
  [rl EXCEPT !.read = Direction(rl.suite, rl.rkey)]

\* A record: its header, what protects it, and the message in it. `hdr` is
\* "ok", or what is wrong with the header ("stale": it is not of this stream).
Record(rl, ct, m) ==
  [hdr |-> "ok", ct |-> ct, key |-> rl.write.key, seq |-> rl.write.seq, m |-> m]

tlsv1_record_send(conn, ct, m) ==
  [conn EXCEPT !.out = Append(@, Record(conn.rl, ct, m)), !.rl.write.seq = @ + 1]

\* What the reader of a record gets: the message, or the alert for it. A
\* record that is protected although the reader expects plain text is noise.
Noise == [type |-> "noise", fmt |-> "ok"]

ContentTypes == {"handshake", "change_cipher_spec", "alert", "application_data"}

\* (The number of the record is not part of the MAC.)
KeyOnly(rl, r) == r.key = rl.read.key

\* Padding and MAC, with the key and the number the reader expects.
Authentic(rl, r) == r.key = rl.read.key /\ r.seq = rl.read.seq

tlsv1_record_receive(rl, r) ==
  CASE r.hdr \in {"version", "stale"} -> [alert |-> "PROTOCOL_VERSION", m |-> Noise]
    [] r.hdr = "overflow" -> [alert |-> "RECORD_OVERFLOW", m |-> Noise]
    [] r.hdr = "ok" /\ r.ct \notin ContentTypes ->
         [alert |-> "UNEXPECTED_MESSAGE", m |-> Noise]
    [] r.hdr = "ok" /\ r.ct \in ContentTypes /\ rl.read.suite # NullSuite
         /\ ~Authentic(rl, r) ->
         [alert |-> "BAD_RECORD_MAC", m |-> Noise]
    [] OTHER ->
         [alert |-> NULL,
          m |-> IF r.key = rl.read.key THEN r.m ELSE Noise]

RecordRead(rl) == [rl EXCEPT !.read.seq = @ + 1]

(****************************************************************************)
(* The hash of the handshake. Three copies are kept: for the client's and   *)
(* the server's Finished and for CertificateVerify. A copy is closed when   *)
(* it is used; those that are open all contain the same messages.           *)
(****************************************************************************)
tls_verify_hash_init == [log |-> <<>>, open |-> {"client", "server", "cert"}]

\* (Only the headers of the messages are hashed.)
HashTypesOnly(verify, m) == [verify EXCEPT !.log = Append(@, m.type)]

tls_verify_hash_add(verify, m) == [verify EXCEPT !.log = Append(@, m)]

HashFinish(verify, which) == [verify EXCEPT !.open = @ \ {which}]

tls_prf(secret, label, seed) == [secret |-> secret, label |-> label, seed |-> seed]

tls_key_x_server_params_hash(conn, params) ==
  <<conn.client_random, conn.server_random, params>>

\* Version 1.2 names the hash; only three of them are accepted.
tlsv12_key_x_server_params_hash(conn, alg, params) ==
  IF alg \in {"SHA256", "SHA384", "SHA512"}
  THEN tls_key_x_server_params_hash(conn, params) \o <<alg>>
  ELSE NULL

\* Is sig a signature over data by the owner of the public key pk?
tls_verify_signature(pk, data, sig) ==
  /\ pk # NULL
  /\ sig = [by |-> pk, over |-> data]

(****************************************************************************)
(* Failing: with an alert for the peer, or only with an error.              *)
(****************************************************************************)
Fail(conn) == [conn EXCEPT !.ok = FALSE]

FailAlert(conn, description) == [conn EXCEPT !.ok = FALSE, !.alert = description]

\* What is wrong with the header of a handshake message, if anything.
HeaderAlert(ct, m) ==
  IF ct # "handshake" THEN "UNEXPECTED_MESSAGE"
  ELSE IF m.fmt = "short" THEN "DECODE_ERROR"
  ELSE NULL
==============================================================================
