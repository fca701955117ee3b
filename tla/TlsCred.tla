------------------------------ MODULE TlsCred -------------------------------
(****************************************************************************)
(* Credentials: trusted certificates, own certificates, private key and     *)
(* Diffie-Hellman group, from memory or from a file, in DER or in PEM       *)
(* (crypto/tls/tlsv1_cred.c, crypto/tls_internal.c).                        *)
(*                                                                          *)
(* A buffer is a sequence of tokens: lines that begin or end a PEM block,   *)
(* data, and line ends. Data that is DER stands alone; inside a block it is *)
(* in base64. A source is NULL, or the buffer, or "missing" if the file     *)
(* cannot be read.                                                          *)
(****************************************************************************)
EXTENDS X509

tlsv1_cred_alloc ==
  [trusted_certs |-> <<>>, cert |-> <<>>, key |-> NULL, dh |-> [p |-> NULL, g |-> NULL],
   ca_cert_verify |-> FALSE, cert_probe |-> FALSE, server_cert_only |-> NULL]

\* The first place of the tag. A tag that ends with the buffer is not found.
search_tag(tag, buf) ==
  LET hits == { i \in 1 .. Len(buf) - 1 : buf[i].tag = tag }
  IN  IF hits = {} THEN 0 ELSE Min(hits)

\* Base64 of something, and nothing else.
base64_decode(body) ==
  IF Len(body) = 1 /\ body[1].tag = "data" /\ body[1].base64
  THEN [ok |-> TRUE, der |-> body[1].der] ELSE Failure

UpTo(end, buf) ==
  LET e == search_tag(end, buf)
  IN  IF e = 0 THEN Failure
      ELSE [ok |-> TRUE, body |-> SubSeq(buf, 1, e - 1), rest |-> SubSeq(buf, e + 1, Len(buf))]

\* The block behind its first line, up to its last one: [ok, body, rest].
Block(begin, end, buf) ==
  IF search_tag(begin, buf) = 0 THEN Failure
  ELSE UpTo(end, SubSeq(buf, search_tag(begin, buf) + 1, Len(buf)))

\* What a block has in base64.
Decoded(block) == IF block.ok THEN base64_decode(block.body) ELSE Failure

\* An issuer of the last certificate goes behind it, any other to the front.
AddCertificate(chain, cert) ==
  IF ~cert.ok THEN [ok |-> FALSE, chain |-> chain]
  ELSE IF chain # <<>> /\ x509_name_compare(cert.subject, Last(chain).issuer)
  THEN [ok |-> TRUE, chain |-> Append(chain, cert)]
  ELSE [ok |-> TRUE, chain |-> <<cert>> \o chain]

tlsv1_add_cert_der(chain, w) == AddCertificate(chain, x509_certificate_parse(w))

AddDecoded(chain, der) ==
  IF der.ok THEN tlsv1_add_cert_der(chain, der.der) ELSE [ok |-> FALSE, chain |-> chain]

\* Block by block, until one cannot be added.
RECURSIVE AddBlocks(_, _)
AddBlocks(added, buf) ==
  LET block == Block("begin cert", "end cert", buf)
  IN  IF ~added.ok \/ search_tag("begin cert", buf) = 0 THEN added
      ELSE AddBlocks(AddDecoded(added.chain, Decoded(block)),
                     IF block.ok THEN block.rest ELSE <<>>)

\* Without a PEM block it is taken for DER, and is not if it is something else.
tlsv1_add_cert(chain, buf) ==
  IF search_tag("begin cert", buf) # 0 THEN AddBlocks([ok |-> TRUE, chain |-> chain], buf)
  ELSE IF Len(buf) = 1 /\ buf[1].tag = "data" /\ ~buf[1].base64
  THEN tlsv1_add_cert_der(chain, buf[1].der)
  ELSE [ok |-> FALSE, chain |-> chain]

tlsv1_set_cert_chain(chain, source) ==
  IF source = NULL THEN [ok |-> TRUE, chain |-> chain]
  ELSE IF source.kind = "missing" THEN [ok |-> FALSE, chain |-> chain]
  ELSE tlsv1_add_cert(chain, source.buf)

\* The certificates that are trusted; or a hash of the one that is expected; or
\* nothing but a look at the server's certificate; a directory is refused.
Trusting(cred, verify, set) ==
  [ok |-> set.ok, cred |-> [cred EXCEPT !.ca_cert_verify = verify, !.trusted_certs = set.chain]]

tlsv1_set_ca_cert(cred, source) ==
  IF source # NULL /\ source.kind = "hash"
  THEN IF source.valid
       THEN [ok |-> TRUE, cred |-> [cred EXCEPT !.server_cert_only = source.hash,
                                                !.ca_cert_verify = FALSE]]
       ELSE [ok |-> FALSE, cred |-> cred]
  ELSE IF source # NULL /\ source.kind = "probe"
  THEN [ok |-> TRUE, cred |-> [cred EXCEPT !.cert_probe = TRUE, !.ca_cert_verify = FALSE]]
  ELSE IF source # NULL /\ source.kind = "path"
  THEN [ok |-> FALSE, cred |-> [cred EXCEPT !.ca_cert_verify = TRUE]]
  ELSE Trusting(cred, source # NULL, tlsv1_set_cert_chain(cred.trusted_certs, source))

Owning(cred, set) == [ok |-> set.ok, cred |-> [cred EXCEPT !.cert = set.chain]]

tlsv1_set_cert(cred, source) == Owning(cred, tlsv1_set_cert_chain(cred.cert, source))

\* A key: in the clear (PKCS #8 or #1), or encrypted.
pkcs8_key_import(d) == IF d.form = "pkcs8" THEN d.key ELSE NULL

pkcs8_enc_key_import(d, passwd) ==
  IF d.form = "encrypted" /\ passwd # NULL /\ passwd = d.passwd
  THEN pkcs8_key_import(d.inner) ELSE NULL

crypto_rsa_import_private_key(d) == IF d.form = "pkcs1" THEN d.key ELSE NULL

crypto_private_key_import(d, passwd) ==
  IF pkcs8_key_import(d) # NULL THEN pkcs8_key_import(d)
  ELSE IF pkcs8_enc_key_import(d, passwd) # NULL THEN pkcs8_enc_key_import(d, passwd)
  ELSE crypto_rsa_import_private_key(d)

\* A key as it is, or in a block of one of two kinds; an encrypted one of the
\* older kind is refused.
ImportDecoded(der, passwd) ==
  IF der.ok THEN crypto_private_key_import(der.der, passwd) ELSE NULL

InClear(block) ==
  IF block.ok /\ search_tag("encrypted", block.body) # 0 THEN Failure ELSE block

tlsv1_set_key_pem(buf) ==
  ImportDecoded(Decoded(IF search_tag("begin rsa key", buf) # 0
                        THEN InClear(Block("begin rsa key", "end rsa key", buf))
                        ELSE Block("begin key", "end key", buf)), NULL)

tlsv1_set_key_enc_pem(buf, passwd) ==
  IF passwd = NULL THEN NULL
  ELSE ImportDecoded(Decoded(Block("begin encrypted key", "end encrypted key", buf)), passwd)

KeyOr(key, other) == IF key # NULL THEN key ELSE other

tlsv1_set_key(buf, passwd) ==
  KeyOr(IF Len(buf) = 1 /\ buf[1].tag = "data" /\ ~buf[1].base64
        THEN crypto_private_key_import(buf[1].der, passwd) ELSE NULL,
        KeyOr(tlsv1_set_key_pem(buf), tlsv1_set_key_enc_pem(buf, passwd)))

Holding(cred, key) == [ok |-> key # NULL, cred |-> [cred EXCEPT !.key = key]]

tlsv1_set_private_key(cred, source, passwd) ==
  IF source = NULL THEN [ok |-> TRUE, cred |-> [cred EXCEPT !.key = NULL]]
  ELSE Holding(cred, IF source.kind = "missing" THEN NULL ELSE tlsv1_set_key(source.buf, passwd))

\* The modulus is replaced before the generator is read.
tlsv1_set_dhparams_der(cred, d) ==
  IF d.p = NULL THEN [ok |-> FALSE, cred |-> cred]
  ELSE IF d.g = NULL THEN [ok |-> FALSE, cred |-> [cred EXCEPT !.dh.p = d.p]]
  ELSE [ok |-> TRUE, cred |-> [cred EXCEPT !.dh = [p |-> d.p, g |-> d.g]]]

DhDecoded(cred, der) ==
  IF der.ok THEN tlsv1_set_dhparams_der(cred, der.der) ELSE [ok |-> FALSE, cred |-> cred]

tlsv1_set_dhparams_blob(cred, buf) ==
  IF search_tag("begin dh", buf) # 0
  THEN DhDecoded(cred, Decoded(Block("begin dh", "end dh", buf)))
  ELSE IF Len(buf) = 1 /\ buf[1].tag = "data" /\ ~buf[1].base64
  THEN tlsv1_set_dhparams_der(cred, buf[1].der)
  ELSE [ok |-> FALSE, cred |-> cred]

tlsv1_set_dhparams(cred, source) ==
  IF source = NULL THEN [ok |-> TRUE, cred |-> cred]
  ELSE IF source.kind = "missing" THEN [ok |-> FALSE, cred |-> cred]
  ELSE tlsv1_set_dhparams_blob(cred, source.buf)

\* A connection's parameters: new credentials take the place of the old ones
\* when all of them could be loaded; otherwise the old ones stay. `unsupported`
\* stands for the ways to match a name and to choose ciphers that are refused.
WithCert(set, p) == IF set.ok THEN tlsv1_set_cert(set.cred, p.client_cert) ELSE set
WithKey(set, p) ==
  IF set.ok THEN tlsv1_set_private_key(set.cred, p.private_key, p.private_key_passwd) ELSE set
WithDh(set, p) == IF set.ok THEN tlsv1_set_dhparams(set.cred, p.dh) ELSE set

OrOld(set, cred) == IF set.ok THEN set ELSE [ok |-> FALSE, cred |-> cred]

tls_connection_set_params(cred, p) ==
  IF p.unsupported THEN [ok |-> FALSE, cred |-> cred]
  ELSE OrOld(WithDh(WithKey(WithCert(tlsv1_set_ca_cert(tlsv1_cred_alloc, p.ca_cert), p), p), p),
             cred)
==============================================================================
