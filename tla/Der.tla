-------------------------------- MODULE Der ---------------------------------
(****************************************************************************)
(* A buffer of DER that is written with the writers of crypto/tls/asn1.c,   *)
(* element by element and wrapped, and read back with its readers, whole,   *)
(* cut short or with a byte changed on the way. `items` is what was         *)
(* written. Every kind of item has a field of its own name.                 *)
(****************************************************************************)
EXTENDS X509

CONSTANTS
  Numbers,        \* the numbers that are written
  Oids,           \* the object identifiers
  Lengths,        \* how long octet strings are
  BitSets,        \* the bits that are set in a BIT STRING
  DamagedBytes,   \* what a byte becomes
  MaxItems,       \* bound: items side by side
  MaxSteps        \* bound: how often something is put or wrapped

VARIABLES
  buf,
  items,
  steps,
  fate      \* "whole", "cut" or "damaged"

vars == <<buf, items, steps, fate>>

Text(n) == [i \in 1 .. n |-> 4]

Init == buf = <<>> /\ items = <<>> /\ steps = 0 /\ fate = "whole"

Put(bytes, item) ==
  /\ fate = "whole" /\ Len(items) < MaxItems /\ steps < MaxSteps
  /\ buf' = buf \o bytes
  /\ items' = Append(items, item)
  /\ steps' = steps + 1
  /\ UNCHANGED fate

PutInteger(n) == Put(asn1_put_integer(n), [int |-> n])
PutOid(oid) == Put(asn1_put_oid(oid), [oid |-> oid])
PutOctets(n) == Put(asn1_put_octet_string(Text(n)), [octets |-> Text(n)])
PutUtf8(n) == Put(asn1_put_utf8string(Text(n)), [utf8 |-> Text(n)])

\* The algorithm with NULL for its parameters.
PutAlgorithm(oid) ==
  Put(asn1_encaps(asn1_build_alg_id(oid, <<TAG_NULL, 0>>), CONTEXT_SPECIFIC, 0),
      [alg |-> oid])

\* What a certification authority writes: the bits, first one first, and how
\* many of the last byte are unused.
BitString(bits) ==
  LET size == IF bits = {} THEN 0 ELSE Max(bits) + 1
      n == (size + 7) \div 8
      Octet(i) == MapThenSumSet(LAMBDA b : 2^(7 - (b % 8)), { b \in bits : b \div 8 = i - 1 })
      body == <<8 * n - size>> \o [i \in 1 .. n |-> Octet(i)]
  IN  <<TAG_BITSTRING, Len(body)>> \o body

PutBits(bits) == Put(BitString(bits), [bits |-> bits])

\* An extension as a certification authority writes it.
Extension(oid, critical, value) ==
  asn1_put_sequence(asn1_put_oid(oid) \o (IF critical THEN <<TAG_BOOLEAN, 1, 255>> ELSE <<>>)
                    \o asn1_put_octet_string(value))

PutExtension(oid, critical, n) ==
  Put(asn1_encaps(Extension(oid, critical, Text(n)), CONTEXT_SPECIFIC, 3),
      [ext |-> [oid |-> oid, critical |-> critical, value |-> Text(n)]])

Wrap(bytes, item) ==
  /\ fate = "whole" /\ steps < MaxSteps
  /\ buf' = bytes /\ items' = <<item>> /\ steps' = steps + 1
  /\ UNCHANGED fate

WrapSequence == Wrap(asn1_put_sequence(buf), [seq |-> items])
WrapSet == Wrap(asn1_put_set(buf), [set |-> items])

CutShort ==
  /\ fate = "whole" /\ buf # <<>>
  /\ \E n \in { n \in 0 .. Len(buf) - 1 : n <= 6 \/ n + 3 >= Len(buf) } :
       buf' = SubSeq(buf, 1, n)
  /\ fate' = "cut"
  /\ UNCHANGED <<items, steps>>

\* The first bytes are the ones that matter: the others are text.
Damage ==
  /\ fate = "whole"
  /\ \E i \in DOMAIN buf, b \in DamagedBytes :
       i <= 6 /\ buf[i] # b /\ buf' = [buf EXCEPT ![i] = b]
  /\ fate' = "damaged"
  /\ UNCHANGED <<items, steps>>

Next ==
  \/ \E n \in Numbers : PutInteger(n)
  \/ \E oid \in Oids : PutOid(oid) \/ PutAlgorithm(oid)
  \/ \E n \in Lengths : PutOctets(n) \/ PutUtf8(n)
  \/ \E bits \in BitSets : PutBits(bits)
  \/ \E oid \in Oids, critical \in BOOLEAN, n \in Lengths : PutExtension(oid, critical, n)
  \/ WrapSequence \/ WrapSet
  \/ CutShort \/ Damage

Spec == Init /\ [][Next]_vars

------------------------------------------------------------------------------
(****************************************************************************)
(* The reader: what is in the buffer, with `bad` where it cannot be read.   *)
(****************************************************************************)
Bits(val) == { b \in 0 .. 21 : (val \div 2^b) % 2 = 1 }

RECURSIVE ReadAll(_)
ReadAll(bytes) ==
  LET Integer(int) == IF int.ok THEN [int |-> int.value] ELSE [bad |-> 0]
      Identifier(oid) == IF oid.ok THEN [oid |-> oid.oid] ELSE [bad |-> 0]
      Algorithm(alg) == IF alg.ok THEN [alg |-> alg.oid] ELSE [bad |-> 0]
      Framed(ext) == IF ~ext.ok THEN [bad |-> 0]
                     ELSE [ext |-> [oid |-> ext.oid, critical |-> ext.critical,
                                    value |-> ext.value]]
      Item(hdr) ==
        IF hdr.class = CONTEXT_SPECIFIC
        THEN CASE hdr.tag = 0 -> Algorithm(asn1_get_alg_id(hdr.payload))
               [] hdr.tag = 3 -> Framed(ExtensionFrame(hdr.payload))
               [] OTHER -> [bad |-> 0]
        ELSE CASE hdr.tag = TAG_INTEGER -> Integer(asn1_get_integer(bytes))
               [] hdr.tag = TAG_OID -> Identifier(asn1_get_oid(bytes))
               [] hdr.tag = TAG_OCTETSTRING -> [octets |-> hdr.payload]
               [] hdr.tag = TAG_UTF8STRING -> [utf8 |-> hdr.payload]
               [] hdr.tag = TAG_BITSTRING /\ hdr.payload # <<>> ->
                    [bits |-> Bits(asn1_bit_string_to_long(hdr.payload))]
               [] hdr.tag = TAG_SEQUENCE -> [seq |-> ReadAll(hdr.payload)]
               [] hdr.tag = TAG_SET -> [set |-> ReadAll(hdr.payload)]
               [] OTHER -> [bad |-> 0]
      From(hdr) == IF ~hdr.ok THEN <<[bad |-> 0]>> ELSE <<Item(hdr)>> \o ReadAll(hdr.rest)
  IN  IF bytes = <<>> THEN <<>> ELSE From(asn1_get_next(bytes))

(****************************************************************************)
(* Properties                                                               *)
(****************************************************************************)

\* What the writers write the readers read: numbers, identifiers, strings on
\* both sides of a length of 127 and of 255, bits in their order, and an
\* extension with its critical flag, however they are wrapped. The extension
\* is the odd one: behind the flag the program goes on reading at the wrong
\* byte, and finds the value all the same.
ReadsBack == fate = "whole" => ReadAll(buf) = items

\* A buffer that was cut is noticed: it never reads as the items that were
\* written, and the items in front of the cut are the ones that were written.
CutIsNoticed ==
  LET Noticed(read, good) ==
        /\ read # items
        /\ Len(items) > 1 => Len(good) < Len(items)
        /\ \A i \in DOMAIN good : good[i] = items[i]
  IN  fate = "cut" =>
        Noticed(ReadAll(buf), SelectSeq(ReadAll(buf), LAMBDA i : i # [bad |-> 0]))

\* There is one encoding of an element: whatever bytes arrive, a header that
\* asn1_get_next accepts is the one asn1_put_hdr would write for what it found
\* (the extended tags, which asn1_put_hdr does not write, left aside).
OneEncoding ==
  LET Rewritten(hdr) ==
        hdr.ok => buf = asn1_put_hdr(hdr.class, hdr.constructed, hdr.tag, Len(hdr.payload))
                        \o hdr.payload \o hdr.rest
  IN  buf # <<>> /\ Head(buf) % 32 # 31 => Rewritten(asn1_get_next(buf))
==============================================================================
