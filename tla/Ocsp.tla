-------------------------------- MODULE Ocsp --------------------------------
(****************************************************************************)
(* Certificate status responses that come stapled to a handshake            *)
(* (crypto/tls/tlsv1_client_ocsp.c). A response is the record of its        *)
(* fields: `status` of the response as a whole, `bytes` and `type` of what  *)
(* it contains, then those of the basic response. A single response in it   *)
(* tells the state of the certificate with one serial number.               *)
(****************************************************************************)
EXTENDS X509

ocsp_responder_id_match(signer, id) ==
  IF id.kind = "key" THEN id.key = signer.public_key
  ELSE x509_name_compare(signer.subject, id.name)

\* Is this response about the certificate? The issuer's name and key come as
\* hashes, so they must be the same byte by byte.
ocsp_hash_data(cert, issuer, s) ==
  /\ s.alg \in {"SHA1", "SHA256"}
  /\ s.issuer_dn = issuer.subject_dn
  /\ s.issuer_key = issuer.public_key
  /\ SerialNumber(s.serial) # NULL /\ SerialNumber(s.serial) = cert.serial

\* It holds from this update to the next one, if it names one.
Holds(s, this, next, now) ==
  /\ s.this_update.tag = "generalized" /\ this # NULL /\ now >= this
  /\ s.next_update.tag # "none" =>
       s.next_update.tag = "generalized" /\ next # NULL /\ now <= next

\* What a response about one certificate says of it; NULL if nothing.
tls_process_ocsp_single_response(cert, issuer, s, now) ==
  IF ~ocsp_hash_data(cert, issuer, s) THEN NULL
  ELSE IF ~Holds(s, x509_parse_time(s.this_update), x509_parse_time(s.next_update), now) THEN NULL
  ELSE CASE s.cert_status = 0 -> "GOOD"
         [] s.cert_status = 1 -> "REVOKED"
         [] OTHER -> NULL

Said(answer) == IF answer = NULL THEN "NO_RESPONSE" ELSE answer

\* The first one that says something counts.
tls_process_ocsp_responses(cert, issuer, responses, now) ==
  FoldLeft(LAMBDA said, s :
             IF said # "NO_RESPONSE" THEN said
             ELSE IF s.fmt = "bad" THEN "INVALID"
             ELSE Said(tls_process_ocsp_single_response(cert, issuer, s, now)),
           "NO_RESPONSE", responses)

\* The signature of whoever may sign, and then what is said.
SignedResponse(signer, cert, issuer, resp, now) ==
  IF ~x509_check_signature(signer, resp.alg, resp.signature) THEN "INVALID"
  ELSE tls_process_ocsp_responses(cert, issuer, resp.responses, now)

\* The certificates that come with the response. They are in a sequence that
\* is taken for the first of them, so only that one is read.
ExtraCertificates(resp) ==
  IF resp.certs = <<>> THEN <<>> ELSE <<x509_certificate_parse(Head(resp.certs))>>

ReadableResponse(resp) ==
  /\ resp.fmt = "ok"
  /\ \A c \in Range(ExtraCertificates(resp)) : c.ok
  /\ ~resp.version     \* written out, it is read at the wrong place and refused
  /\ resp.responder.kind \in {"name", "key"}
  /\ resp.produced_at.tag = "generalized" /\ x509_parse_time(resp.produced_at) # NULL

\* The next certificate of the chain, or the trusted one of the issuer's name.
IssuerOf(trusted, chain, i) ==
  IF i < Len(chain) THEN chain[i + 1]
  ELSE x509_certificate_get_subject(trusted, chain[i].issuer)

\* (Any certificate that the issuer has signed may sign responses.)
AnyDelegate(resp, cert, issuer, c) ==
  /\ ocsp_responder_id_match(c, resp.responder)
  /\ x509_name_compare(cert.issuer, issuer.subject)
  /\ x509_certificate_check_signature(issuer, c)

\* May this certificate of the response sign it for the issuer?
IsDelegate(resp, cert, issuer, c) ==
  /\ ocsp_responder_id_match(c, resp.responder)
  /\ x509_name_compare(cert.issuer, issuer.subject)
  /\ "OCSP" \in c.ext_key_usage
  /\ x509_certificate_check_signature(issuer, c)

\* The issuer itself, or a certificate that it has issued for this purpose. In
\* that case the certificate has been freed when its key is used: `intact` says
\* whether the memory still holds it.
Delegated(delegates, cert, issuer, resp, now, intact) ==
  IF delegates = <<>> THEN "NO_RESPONSE"
  ELSE IF ~intact THEN "INVALID"
  ELSE SignedResponse(Head(delegates), cert, issuer, resp, now)

IssuersResponse(cert, issuer, resp, now, intact) ==
  IF issuer = NULL THEN "NO_RESPONSE"
  ELSE IF ocsp_responder_id_match(issuer, resp.responder)
  THEN SignedResponse(issuer, cert, issuer, resp, now)
  ELSE Delegated(SelectSeq(ExtraCertificates(resp),
                           LAMBDA c : IsDelegate(resp, cert, issuer, c)),
                 cert, issuer, resp, now, intact)

tls_process_basic_ocsp_response(trusted, chain, i, resp, now, intact) ==
  IF ~ReadableResponse(resp) THEN "INVALID"
  ELSE IssuersResponse(chain[i], IssuerOf(trusted, chain, i), resp, now, intact)

\* o.status keeps what is known of each certificate, over several responses.
Noted(o, i, trusted_at, res) ==
  [status |-> IF res \in {"GOOD", "REVOKED"} /\ o.status[i] = "none"
              THEN [o.status EXCEPT ![i] = res] ELSE o.status,
   res |-> res,
   first |-> IF i = 1 /\ o.status[i] = "none" THEN res ELSE o.first,
   done |-> res = "REVOKED" \/ i = trusted_at]

\* One certificate of the chain.
StatusOfOne(trusted, chain, trusted_at, resp, now, intact, o, i) ==
  IF o.done THEN o
  ELSE Noted(o, i, trusted_at,
             IF o.status[i] \in {"GOOD", "REVOKED"} THEN o.res
             ELSE tls_process_basic_ocsp_response(trusted, chain, i, resp, now, intact))

Answered(o) == [o EXCEPT !.first = IF o.res = "REVOKED" THEN "REVOKED" ELSE @]

tls_process_ocsp_response(trusted, chain, trusted_at, status, resp, now, intact) ==
  LET nothing == [status |-> status, res |-> "NO_RESPONSE", first |-> "NO_RESPONSE",
                  done |-> FALSE]
  IN  IF resp.outer = "bad" THEN [nothing EXCEPT !.first = "INVALID"]
      ELSE IF resp.status # 0 \/ resp.bytes = "none" \/ resp.type # "basic" THEN nothing
      ELSE Answered(FoldLeft(LAMBDA o, i : StatusOfOne(trusted, chain, trusted_at, resp, now,
                                                       intact, o, i),
                             nothing, [i \in DOMAIN chain |-> i]))
==============================================================================
