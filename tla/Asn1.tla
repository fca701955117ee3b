-------------------------------- MODULE Asn1 --------------------------------
(****************************************************************************)
(* Reading and writing DER (crypto/tls/asn1.c). A buffer is a sequence of   *)
(* bytes. What asn1_get_next finds is a record: `payload` is the contents   *)
(* of the element, `rest` what comes behind it.                             *)
(****************************************************************************)
EXTENDS Naturals, Sequences, SequencesExt, FiniteSetsExt

UNIVERSAL == 0
CONTEXT_SPECIFIC == 2
PRIVATE == 3

TAG_BOOLEAN == 1
TAG_INTEGER == 2
TAG_BITSTRING == 3
TAG_OCTETSTRING == 4
TAG_NULL == 5
TAG_OID == 6
TAG_UTF8STRING == 12
TAG_SEQUENCE == 16
TAG_SET == 17

ASN1_MAX_OID_LEN == 20

Failure == [ok |-> FALSE]

(****************************************************************************)
(* Numbers of several bytes. No buffer here has 2^22 bytes: what is larger  *)
(* counts as that. A length or an extended tag has at most four bytes.      *)
(****************************************************************************)
Large == 4194304

BigEndian(bytes) ==
  FoldLeft(LAMBDA a, b : IF a * 256 + b > Large THEN Large ELSE a * 256 + b, 0, bytes)

Septets(bytes) ==
  FoldLeft(LAMBDA a, b : IF a * 128 + (b % 128) > Large THEN Large ELSE a * 128 + (b % 128),
           0, bytes)

\* The bytes up to the first one without the bit that announces another one.
ExtendedTag(bytes) ==
  LET ends == { i \in DOMAIN bytes : bytes[i] < 128 }
  IN  IF ends = {} THEN <<>> ELSE SubSeq(bytes, 1, Min(ends))

(****************************************************************************)
(* Reading                                                                  *)
(****************************************************************************)

\* A BOOLEAN is one byte, all zeros or all ones.
asn1_valid_der_boolean(payload) == Len(payload) = 1 /\ payload[1] \in {0, 255}

\* Only these two of the universal types have parts.
asn1_valid_der(class, constructed, tag, payload) ==
  class = UNIVERSAL =>
    /\ tag = TAG_BOOLEAN => asn1_valid_der_boolean(payload)
    /\ tag = TAG_NULL => payload = <<>>
    /\ tag \in (1 .. 6) \cup {9, 10, 12, 13, 14} \cup (18 .. 30) => ~constructed
    /\ tag \in {TAG_SEQUENCE, TAG_SET} => constructed

\* The tag, in the identifier or in bytes of its own: [ok, tag, rest].
GetTag(class, bytes) ==
  LET low == Head(bytes) % 32
      Extended(ext, tag) ==
        IF \/ Len(bytes) = 1 \/ bytes[2] % 128 = 0
           \/ ext = <<>> \/ Len(ext) > 4
           \/ class # PRIVATE /\ tag < 31
        THEN Failure
        ELSE [ok |-> TRUE, tag |-> tag, rest |-> SubSeq(bytes, 2 + Len(ext), Len(bytes))]
  IN  IF low # 31 THEN [ok |-> TRUE, tag |-> low, rest |-> Tail(bytes)]
      ELSE Extended(ExtendedTag(Tail(bytes)), Septets(ExtendedTag(Tail(bytes))))

\* (A long form is accepted where the short one would do.)
GetLengthAnyForm(bytes) ==
  LET n == Head(bytes) % 128
  IN  IF bytes = <<>> THEN Failure
      ELSE IF Head(bytes) < 128 THEN [ok |-> TRUE, length |-> n, rest |-> Tail(bytes)]
      ELSE IF n = 0 \/ n > 4 \/ Len(bytes) < 1 + n THEN Failure
      ELSE [ok |-> TRUE, length |-> BigEndian(SubSeq(bytes, 2, 1 + n)),
            rest |-> SubSeq(bytes, 2 + n, Len(bytes))]

\* The length, in the shortest form only: [ok, length, rest].
GetLength(bytes) ==
  LET n == Head(bytes) % 128
      Long(length) ==
        IF \/ n = 0 \/ Len(bytes) = 1 \/ bytes[2] = 0
           \/ n > 4 \/ Len(bytes) < 1 + n \/ length < 128
        THEN Failure
        ELSE [ok |-> TRUE, length |-> length, rest |-> SubSeq(bytes, 2 + n, Len(bytes))]
  IN  IF bytes = <<>> THEN Failure
      ELSE IF Head(bytes) < 128 THEN [ok |-> TRUE, length |-> n, rest |-> Tail(bytes)]
      ELSE Long(BigEndian(SubSeq(bytes, 2, 1 + n)))

\* (The end of the buffer is not looked at: a longer element is cut.)
Cut(length, bytes) == IF length < Len(bytes) THEN length ELSE Len(bytes)

\* The length that is there, if it is all there.
Whole(length, bytes) == IF length <= Len(bytes) THEN length ELSE Large

asn1_get_next(buf) ==
  LET class == Head(buf) \div 64
      constructed == (Head(buf) \div 32) % 2 = 1
      Element(tag, rest, length) ==
        LET payload == SubSeq(rest, 1, length)
        IN  IF length = Large \/ ~asn1_valid_der(class, constructed, tag, payload) THEN Failure
            ELSE [ok |-> TRUE, class |-> class, constructed |-> constructed, tag |-> tag,
                  payload |-> payload, rest |-> SubSeq(rest, length + 1, Len(rest))]
      Measured(tag, l) ==
        IF ~l.ok THEN Failure ELSE Element(tag, l.rest, Whole(l.length, l.rest))
      Tagged(t) == IF ~t.ok THEN Failure ELSE Measured(t.tag, GetLength(t.rest))
  IN  IF buf = <<>> THEN Failure ELSE Tagged(GetTag(class, buf))

\* The element, if it is of this universal type (asn1_is_...).
OfType(hdr, tag) ==
  IF hdr.ok /\ hdr.class = UNIVERSAL /\ hdr.tag = tag THEN hdr ELSE Failure

Expect(buf, tag) == OfType(asn1_get_next(buf), tag)

asn1_get_sequence(buf) == Expect(buf, TAG_SEQUENCE)

\* The first number stands for two.
FirstArcs(val) ==
  LET x == IF val \div 40 > 2 THEN 2 ELSE val \div 40
  IN  <<x, val - x * 40>>

OidByte(s, b) ==
  IF b >= 128 THEN [s EXCEPT !.val = @ * 128 + (b % 128), !.open = TRUE]
  ELSE IF Len(s.oid) >= ASN1_MAX_OID_LEN THEN [s EXCEPT !.ok = FALSE]
  ELSE [s EXCEPT !.val = 0, !.open = FALSE,
                 !.oid = IF @ = <<>> THEN FirstArcs(s.val * 128 + b)
                         ELSE Append(@, s.val * 128 + b)]

asn1_parse_oid(bytes) ==
  LET s == FoldLeft(OidByte, [ok |-> TRUE, oid |-> <<>>, val |-> 0, open |-> FALSE], bytes)
  IN  IF s.ok /\ ~s.open THEN [ok |-> TRUE, oid |-> s.oid] ELSE Failure

asn1_get_oid(buf) ==
  LET Parsed(oid, rest) ==
        IF ~oid.ok THEN Failure ELSE [ok |-> TRUE, oid |-> oid.oid, rest |-> rest]
      Found(hdr) == IF ~hdr.ok \/ hdr.payload = <<>> THEN Failure
                    ELSE Parsed(asn1_parse_oid(hdr.payload), hdr.rest)
  IN  Found(Expect(buf, TAG_OID))

\* An algorithm and its parameters, which may be missing.
asn1_get_alg_id(buf) ==
  LET Named(oid, rest) ==
        IF ~oid.ok THEN Failure
        ELSE [ok |-> TRUE, oid |-> oid.oid, params |-> oid.rest, rest |-> rest]
      Found(hdr) == IF ~hdr.ok THEN Failure ELSE Named(asn1_get_oid(hdr.payload), hdr.rest)
  IN  Found(asn1_get_sequence(buf))

\* The sign bit of a short number is not looked at.
asn1_get_integer(buf) ==
  LET Found(hdr) ==
        IF ~hdr.ok \/ Len(hdr.payload) \notin 1 .. 4 THEN Failure
        ELSE [ok |-> TRUE, value |-> BigEndian(hdr.payload), rest |-> hdr.rest]
  IN  Found(Expect(buf, TAG_INTEGER))

\* The first bit of a BIT STRING is the highest one of its first byte, and the
\* lowest one of the number.
rotate_bits(octet) ==
  FoldLeft(LAMBDA res, i : 2 * res + ((octet \div 2^i) % 2), 0, [i \in 1 .. 8 |-> i - 1])

asn1_bit_string_to_long(bytes) ==
  FoldLeft(LAMBDA val, i : val + rotate_bits(bytes[i + 1]) * 256^(i - 1), 0,
           [i \in 1 .. Min({4, Len(bytes) - 1}) |-> i])

(****************************************************************************)
(* Writing                                                                  *)
(****************************************************************************)
Bytes(val, n) == [i \in 1 .. n |-> (val \div 256^(n - i)) % 256]

\* The fewest bytes that hold the number, at least one.
Width(val) == CHOOSE n \in 1 .. 4 : val < 256^n /\ (n = 1 \/ val >= 256^(n - 1))

asn1_put_len(len) ==
  IF len <= 127 THEN <<len>> ELSE <<128 + Width(len)>> \o Bytes(len, Width(len))

asn1_put_hdr(class, constructed, tag, len) ==
  <<class * 64 + (IF constructed THEN 32 ELSE 0) + tag>> \o asn1_put_len(len)

asn1_put_integer(val) == <<TAG_INTEGER, Width(val)>> \o Bytes(val, Width(val))

asn1_put_octet_string(val) == <<TAG_OCTETSTRING>> \o asn1_put_len(Len(val)) \o val

asn1_put_utf8string(val) == asn1_put_hdr(UNIVERSAL, FALSE, TAG_UTF8STRING, Len(val)) \o val

\* One number of an object identifier: up to three septets, the bit that
\* announces another one in all but the last.
OidArc(val) ==
  LET n == IF val < 128 THEN 1 ELSE IF val < 128 * 128 THEN 2 ELSE 3
  IN  [i \in 1 .. n |-> ((val \div 128^(n - i)) % 128) + (IF i < n THEN 128 ELSE 0)]

\* The first two numbers share one byte, whatever they are.
asn1_put_oid(oid) ==
  LET body == <<(40 * oid[1] + oid[2]) % 256>>
              \o FlattenSeq([i \in 1 .. Len(oid) - 2 |-> OidArc(oid[i + 2])])
  IN  IF Len(oid) < 2 THEN <<>> ELSE <<TAG_OID, Len(body) % 256>> \o body

asn1_put_sequence(payload) ==
  asn1_put_hdr(UNIVERSAL, TRUE, TAG_SEQUENCE, Len(payload)) \o payload

asn1_put_set(payload) == asn1_put_hdr(UNIVERSAL, TRUE, TAG_SET, Len(payload)) \o payload

asn1_encaps(buf, class, tag) == asn1_put_hdr(class, TRUE, tag, Len(buf)) \o buf

asn1_build_alg_id(oid, params) ==
  asn1_encaps(asn1_put_oid(oid) \o params, UNIVERSAL, TAG_SEQUENCE)
==============================================================================
