-------------------------------- MODULE X509 --------------------------------
(****************************************************************************)
(* Certificates: parsing, comparing names, checking signatures, validating  *)
(* a chain (crypto/tls/x509v3.c).                                           *)
(*                                                                          *)
(* A certificate comes as the record of its DER fields, in their order, and *)
(* with what may be wrong with each; parsing makes the record the program   *)
(* works with, or Failure. Only the frame of an extension is read byte by   *)
(* byte. Keys are values; a signature is the record of the key and the      *)
(* algorithm it was made with and of whether it was made over this data.    *)
(****************************************************************************)
EXTENDS Asn1

CONSTANTS
  NULL,
  X509_MAX_NAME_ATTRIBUTES

V1 == 0
V2 == 1
V3 == 2

(****************************************************************************)
(* Names. A value is a text, written in letters of one case or the other and *)
(* with more or less white space.                                           *)
(****************************************************************************)

\* The firmware's own strcasecmp is strcmp.
os_strcasecmp(a, b) == a.text = b.text /\ a.case = b.case

\* White space at either end, and how much there is elsewhere, does not count.
x509_str_compare(a, b) ==
  IF a = NULL \/ b = NULL THEN a = b ELSE os_strcasecmp(a, b)

x509_name_compare(a, b) ==
  /\ Len(a.attr) = Len(b.attr)
  /\ \A i \in DOMAIN a.attr : /\ a.attr[i].type = b.attr[i].type
                              /\ x509_str_compare(a.attr[i].value, b.attr[i].value)
  /\ x509_str_compare(a.email, b.email)

NameAttributes == {"DC", "CN", "C", "L", "ST", "O", "OU"}

EmptyName == [ok |-> TRUE, attr |-> <<>>, email |-> NULL]

\* One attribute: ignored if it is no string or of another kind; refused if a
\* NUL is in it, unless it is an e-mail address, of which the last one counts.
NameAttribute(name, a) ==
  IF ~name.ok \/ ~a.string THEN name
  ELSE IF a.type = "email" THEN [name EXCEPT !.email = a.value]
  ELSE IF a.type \notin NameAttributes THEN name
  ELSE IF Len(name.attr) = X509_MAX_NAME_ATTRIBUTES \/ a.nul THEN [name EXCEPT !.ok = FALSE]
  ELSE [name EXCEPT !.attr = Append(@, [type |-> a.type, value |-> a.value])]

x509_parse_name(attributes) == FoldLeft(NameAttribute, EmptyName, attributes)

(****************************************************************************)
(* Times. A date is the beginning of a year; `fields` says whether month,   *)
(* day, hour, minute and second are in their ranges. What the program keeps *)
(* of it is a number of seconds in 32 bits, here in units of 128 seconds:   *)
(* 675 to a day, 2^25 values.                                               *)
(****************************************************************************)

Century(t) ==
  IF t.tag # "utc" THEN t.year
  ELSE IF t.year < 50 THEN t.year + 2000 ELSE t.year + 1900

\* The days from the beginning of 1970 to that of the year: one more for each
\* leap year between them.
mktime_days(year) ==
  365 * (year - 1970)
    + (year - 1969) \div 4 - (year - 1901) \div 100 + (year - 1601) \div 400

\* The product wraps around, as it does on this processor.
mktime(year) == (675 * mktime_days(year)) % 2^25

os_mktime(year, fields) == IF year >= 1970 /\ fields THEN mktime(year) ELSE NULL

\* What is before 1970 counts as the beginning of 1970.
x509_parse_time(t) ==
  LET year == Century(t)
  IN  IF t.tag \notin {"utc", "generalized"} \/ ~t.shape THEN NULL
      ELSE IF year < 1970 THEN 0
      ELSE os_mktime(year, t.fields)

ValidFromTo(cert, first, last) ==
  IF first = NULL \/ last = NULL THEN [cert EXCEPT !.ok = FALSE]
  ELSE [cert EXCEPT !.not_before = first, !.not_after = last]

x509_parse_validity(cert, not_before, not_after) ==
  ValidFromTo(cert, x509_parse_time(not_before), x509_parse_time(not_after))

(****************************************************************************)
(* Extensions                                                               *)
(****************************************************************************)

\* The frame: the identifier, perhaps a BOOLEAN, the contents. After a BOOLEAN
\* the source goes on at the byte that is its value, not behind it. With 255 in
\* front, the tag of an octet string is read as an extended tag of the private
\* class; that case is allowed.
IsOctetString(hdr) ==
  hdr.ok /\ hdr.class = UNIVERSAL /\ hdr.tag = TAG_OCTETSTRING

\* (Octet strings of the private class are refused.)
UniversalOnly(hdr) == IsOctetString(hdr)

OctetStringAfterBoolean(hdr) ==
  IsOctetString(hdr) \/ (hdr.ok /\ hdr.class = PRIVATE /\ hdr.tag = TAG_OCTETSTRING)

ExtensionFrame(buf) ==
  LET Second(oid, critical, hdr) ==
        IF ~OctetStringAfterBoolean(hdr) THEN Failure
        ELSE [ok |-> TRUE, oid |-> oid, critical |-> critical, value |-> hdr.payload]
      Leading(oid, hdr) ==
        IF ~hdr.ok THEN Failure
        ELSE IF hdr.tag = TAG_BOOLEAN /\ hdr.class = UNIVERSAL
        THEN Second(oid, hdr.payload[1] # 0, asn1_get_next(hdr.payload \o hdr.rest))
        ELSE IF ~IsOctetString(hdr) THEN Failure
        ELSE [ok |-> TRUE, oid |-> oid, critical |-> FALSE, value |-> hdr.payload]
      Identified(id) == IF ~id.ok THEN Failure ELSE Leading(id.oid, asn1_get_next(id.rest))
      Found(seq) == IF ~seq.ok THEN Failure ELSE Identified(asn1_get_oid(seq.payload))
  IN  Found(asn1_get_sequence(buf))

x509_parse_ext_key_usage(cert, v) ==
  [cert EXCEPT !.present = @ \cup {"KEY_USAGE"}, !.key_usage = v]

x509_parse_ext_basic_constraints(cert, v) ==
  [cert EXCEPT !.present = @ \cup {"BASIC_CONSTRAINTS"}
                           \cup (IF v.path_len = NULL THEN {} ELSE {"PATH_LEN_CONSTRAINT"}),
               !.ca = IF v.ca = NULL THEN @ ELSE v.ca,
               !.path_len = IF v.path_len = NULL THEN @ ELSE v.path_len]

\* One of the alternative names: of each kind the last one is kept.
AltName(cert, a) ==
  IF ~cert.ok \/ a.kind \notin {"rfc822", "dns", "uri", "ip", "rid"} THEN cert
  ELSE IF a.nul /\ a.kind \in {"rfc822", "dns", "uri"} THEN [cert EXCEPT !.ok = FALSE]
  ELSE [cert EXCEPT !.alt[a.kind] = a.value]

x509_parse_ext_alt_name(cert, names) == FoldLeft(AltName, cert, names)

x509_parse_ext_certificate_policies(cert, v) ==
  [cert EXCEPT !.present = @ \cup {"CERTIFICATE_POLICY"},
               !.policy = @ \cup (v \cap {"ANY", "TOD_STRICT", "TOD_TOFU"})]

x509_parse_ext_ext_key_usage(cert, v) ==
  [cert EXCEPT !.present = @ \cup {"EXT_KEY_USAGE"},
               !.ext_key_usage = @ \cup (v \cap {"ANY", "SERVER_AUTH", "CLIENT_AUTH", "OCSP"})]

KnownExtensions ==
  {"keyUsage", "subjectAltName", "issuerAltName", "basicConstraints",
   "certificatePolicies", "extKeyUsage"}

x509_parse_extension_data(cert, ext) ==
  CASE ext.fmt # "ok" -> [cert EXCEPT !.ok = FALSE]
    [] ext.fmt = "ok" /\ ext.oid = "keyUsage" -> x509_parse_ext_key_usage(cert, ext.v)
    [] ext.fmt = "ok" /\ ext.oid = "basicConstraints" ->
         x509_parse_ext_basic_constraints(cert, ext.v)
    [] ext.fmt = "ok" /\ ext.oid \in {"subjectAltName", "issuerAltName"} ->
         x509_parse_ext_alt_name(cert, ext.v)
    [] ext.fmt = "ok" /\ ext.oid = "certificatePolicies" ->
         x509_parse_ext_certificate_policies(cert, ext.v)
    [] OTHER -> x509_parse_ext_ext_key_usage(cert, ext.v)

\* An extension that is not known is passed over, unless it is critical.
x509_parse_extension(cert, ext) ==
  IF ~cert.ok THEN cert
  ELSE IF ext.oid \in KnownExtensions THEN x509_parse_extension_data(cert, ext)
  ELSE [cert EXCEPT !.ok = ~ext.critical]

x509_parse_extensions(cert, extensions) == FoldLeft(x509_parse_extension, cert, extensions)

(****************************************************************************)
(* A certificate                                                            *)
(****************************************************************************)
EmptyCertificate ==
  [ok |-> TRUE, version |-> V1, serial |-> NULL, sigalg |-> NULL,
   issuer |-> EmptyName, subject |-> EmptyName, subject_dn |-> <<>>, not_before |-> 0, not_after |-> 0,
   public_key |-> NULL, signature |-> NULL, present |-> {}, ca |-> FALSE, path_len |-> 0,
   key_usage |-> {}, ext_key_usage |-> {}, policy |-> {},
   alt |-> [kind \in {"rfc822", "dns", "uri", "ip", "rid"} |-> NULL]]

\* The number without leading zeros, of up to 20 bytes.
SerialNumber(serial) ==
  IF serial.len \in 1 .. 20 THEN serial.value ELSE NULL

\* What may follow the key: two identifiers nobody uses, then the extensions,
\* which are for version 3 only, and which version 1 does not even look at.
\* Something else in their place is ignored.
OptionalFields(cert, w) ==
  IF w.optional = "none" \/ cert.version = V1 THEN cert
  ELSE IF w.optional = "bad" THEN [cert EXCEPT !.ok = FALSE]
  ELSE IF w.optional = "other" THEN cert
  ELSE IF cert.version # V3 THEN [cert EXCEPT !.ok = FALSE]
  ELSE x509_parse_extensions(cert, w.extensions)

\* The fields that every certificate has.
Named(w) ==
  [EmptyCertificate EXCEPT !.version = IF w.version = NULL THEN V1 ELSE w.version,
     !.serial = SerialNumber(w.serial), !.sigalg = w.sigalg,
     !.issuer = x509_parse_name(w.issuer), !.subject = x509_parse_name(w.subject),
     !.subject_dn = w.subject, !.public_key = w.key]

WithOptional(cert, w) ==
  IF \/ cert.version \notin {V1, V2, V3} \/ cert.serial = NULL
     \/ ~cert.issuer.ok \/ ~cert.subject.ok \/ ~cert.ok
  THEN Failure
  ELSE OptionalFields(cert, w)

x509_parse_tbs_certificate(w) ==
  WithOptional(x509_parse_validity(Named(w), w.not_before, w.not_after), w)

\* The signature is read last.
WithSignature(cert, w) ==
  IF ~cert.ok THEN Failure ELSE [cert EXCEPT !.signature = w.signature]

\* fmt: "ok", "short" if the contents are longer than the buffer, "extra" if
\* they are shorter, "bits" if the signature does not end with a byte.
x509_certificate_parse(w) ==
  IF w.fmt \in {"short", "bits"} THEN Failure
  ELSE WithSignature(x509_parse_tbs_certificate(w), w)

(****************************************************************************)
(* Signatures. The build has the hashes MD5, SHA-1 and SHA-256.             *)
(****************************************************************************)

\* The algorithm named in the signature is the one named in the certificate,
\* with no parameters.
DigestMatches(alg, sig) ==
  /\ sig.digest = alg
  /\ sig.params \in {"none", "null"}

\* Only these hashes are built in; nothing may come after the hash.
HashMatches(alg, sig) ==
  /\ alg \in {"MD5", "SHA1", "SHA256"}
  /\ sig.matches /\ ~sig.extra

x509_check_signature(issuer, alg, sig) ==
  /\ issuer.public_key # NULL
  /\ sig.by = issuer.public_key
  /\ DigestMatches(alg, sig)
  /\ HashMatches(alg, sig)

x509_certificate_check_signature(issuer, cert) ==
  x509_check_signature(issuer, cert.sigalg, cert.signature)

(****************************************************************************)
(* Chains                                                                   *)
(****************************************************************************)

\* (Every certificate may issue others.)
AnyIssuer(cert) == cert.ok

\* Versions 1 and 2 have no extensions to say so: such a certificate may issue
\* others.
x509_valid_issuer(cert) ==
  /\ "BASIC_CONSTRAINTS" \in cert.present => cert.ca
  /\ cert.version = V3 => "BASIC_CONSTRAINTS" \in cert.present
  /\ "KEY_USAGE" \in cert.present => "KEY_CERT_SIGN" \in cert.key_usage

\* (One certificate too many is allowed below an issuer.)
PathOneLonger(issuer, idx) ==
  "PATH_LEN_CONSTRAINT" \in issuer.present => idx <= issuer.path_len + 1

\* idx certificates are below the one that the issuer has issued.
PathLengthMet(issuer, idx) ==
  "PATH_LEN_CONSTRAINT" \in issuer.present => idx <= issuer.path_len

\* (Compared as signed numbers.)
SignedInTime(cert, now) ==
  LET Signed(t) == IF t >= 2^24 THEN t - 2^25 ELSE t
  IN  /\ Signed(now) >= Signed(cert.not_before)
      /\ Signed(now) <= Signed(cert.not_after)

\* Compared as unsigned numbers.
InTime(cert, now) == now >= cert.not_before /\ now <= cert.not_after

\* Why the next certificate is not the issuer of this one, or NULL.
IssuerProblem(cert, next, idx) ==
  IF ~x509_name_compare(cert.issuer, next.subject) THEN "CERTIFICATE_UNKNOWN"
  ELSE IF ~x509_valid_issuer(next) THEN "BAD_CERTIFICATE"
  ELSE IF ~PathLengthMet(next, idx) THEN "BAD_CERTIFICATE"
  ELSE IF ~x509_certificate_check_signature(next, cert) THEN "BAD_CERTIFICATE"
  ELSE NULL

\* The first trusted certificate of this name, or NULL.
First(hits) == IF hits = <<>> THEN NULL ELSE Head(hits)

x509_certificate_get_subject(list, name) ==
  First(SelectSeq(list, LAMBDA c : x509_name_compare(c.subject, name)))

\* One certificate: what is wrong with its issuer in the chain, and the trusted
\* certificate of its issuer's name.
Judged(v, i, cert, problem, trust) ==
  IF problem # NULL THEN [v EXCEPT !.reason = problem]
  ELSE IF trust = NULL THEN v
  ELSE IF ~x509_valid_issuer(trust) \/ ~x509_certificate_check_signature(trust, cert)
  THEN [v EXCEPT !.reason = "BAD_CERTIFICATE"]
  ELSE [v EXCEPT !.issuer_trusted = i]

\* One certificate of the chain: v is what is known so far. Behind the one that
\* a trusted certificate has issued nothing is looked at.
ValidateOne(trusted, chain, now, disable_time_checks, v, i) ==
  IF v.reason # "OK" \/ v.issuer_trusted # 0 THEN v
  ELSE IF ~disable_time_checks /\ ~InTime(chain[i], now)
  THEN [v EXCEPT !.reason = "CERTIFICATE_EXPIRED"]
  ELSE Judged(v, i, chain[i],
              IF i < Len(chain) THEN IssuerProblem(chain[i], chain[i + 1], i - 1) ELSE NULL,
              x509_certificate_get_subject(trusted, chain[i].issuer))

\* Without trusted certificates the last test is left out.
LastTest(trusted, v) ==
  IF v.reason = "OK" /\ v.issuer_trusted = 0 /\ trusted # <<>>
  THEN [v EXCEPT !.reason = "UNKNOWN_CA"] ELSE v

\* The reason, and which certificate was issued by a trusted one (0: none).
x509_certificate_chain_validate(trusted, chain, now, disable_time_checks) ==
  LastTest(trusted,
           FoldLeft(LAMBDA v, i : ValidateOne(trusted, chain, now, disable_time_checks, v, i),
                    [reason |-> "OK", issuer_trusted |-> 0], [i \in DOMAIN chain |-> i]))
==============================================================================
