-------------------------------- MODULE Rsa --------------------------------
(***************************************************************************)
(* The callers of the multi-precision integers: the bignum interface       *)
(* (crypto/tls/bignum.c) as a calculator on a few registers, and RSA keys  *)
(* (crypto/tls/rsa.c), imported from their DER form and used to sign with  *)
(* the Chinese remainder theorem and to open a signature.                  *)
(*                                                                         *)
(* val is not in the program: it is the plain integer every register       *)
(* should hold.  The two uses of the library are explored one at a time.   *)
(***************************************************************************)
EXTENDS Mp

CONSTANTS
    Registers,     \* the bignums of the calculator
    Strings,       \* octet strings read into a register
    MaxValue,      \* bound: no register grows past it in absolute value
    KeyPairs,      \* key pairs, as records of integers
    Damages,       \* what may have happened to the DER form of a key
    Shorts         \* by how much an output buffer may be too short

VARIABLES
    num,           \* register -> mp_int
    val,           \* register -> the integer it stands for
    pair,          \* the key pair in use, or NoPair
    der,           \* the DER forms of its two keys
    priv, pub,     \* the imported keys, or NoKey
    msg, sig, back \* octets: the message, its signature, the opened signature

vars == <<num, val, pair, der, priv, pub, msg, sig, back>>
rsaVars == <<pair, der, priv, pub, msg, sig, back>>
bigVars == <<num, val>>

NoPair == [n |-> 0]
NoKey == [private_key |-> FALSE, n |-> mp_zero]
\* What a function answers that returns -1.
Failed == <<"failed">>

(***************************************************************************)
(* The plain integers the code is compared with.                           *)
(***************************************************************************)
Value(a) ==
    LET v == FoldRight(LAMBDA d, rest : d + Radix * rest, a.dp, 0)
    IN  IF a.sign = "NEG" THEN -v ELSE v

RECURSIVE PowerMod(_, _, _)
PowerMod(g, x, p) == IF x = 0 THEN 1 % p ELSE (g * PowerMod(g, x - 1, p)) % p

RECURSIVE OctetsValue(_)
OctetsValue(b) == IF b = <<>> THEN 0 ELSE 2 ^ CHAR_BIT * OctetsValue(Front(b)) + Last(b)

RECURSIVE Octets(_)
Octets(v) == IF v = 0 THEN <<>> ELSE Append(Octets(v \div 2 ^ CHAR_BIT), v % 2 ^ CHAR_BIT)

(***************************************************************************)
(* crypto/tls/rsa.c                                                        *)
(***************************************************************************)
\* The DER form of a key is a sequence of items, each an INTEGER or not.
crypto_rsa_parse_integer(item) ==
    IF item.integer THEN mp_read_unsigned_bin(item.octets) ELSE MP_VAL

AllIntegers(items) == \A i \in DOMAIN items : items[i].integer

crypto_rsa_import_public_key(d) ==
    IF ~d.sequence THEN NoKey
    ELSE IF Len(d.items) # 2 \/ ~AllIntegers(d.items) THEN NoKey
    ELSE [private_key |-> FALSE,
          n |-> crypto_rsa_parse_integer(d.items[1]),
          e |-> crypto_rsa_parse_integer(d.items[2])]

\* A SEQUENCE of nine INTEGERs, the first of them 0, and nothing after them.
WholePrivateKey(d) ==
    /\ d.sequence
    /\ Len(d.items) = 9
    /\ AllIntegers(d.items)
    /\ mp_cmp_d(crypto_rsa_parse_integer(d.items[1]), 0) = 0

crypto_rsa_import_private_key(d) ==
    LET item(i) == crypto_rsa_parse_integer(d.items[i])
    IN  IF ~WholePrivateKey(d) THEN NoKey
        ELSE [private_key |-> TRUE,
              n |-> item(2), e |-> item(3), d |-> item(4), p |-> item(5), q |-> item(6),
              dmp1 |-> item(7), dmq1 |-> item(8), iqmp |-> item(9)]

crypto_rsa_get_modulus_len(key) == mp_unsigned_bin_size(key.n)

\* (The coefficient is applied without reducing modulo p.)
UnreducedCoefficient(a, b, key) == mp_mul(mp_sub(a, b), key.iqmp)

\* iqmp * (a - b) mod p.
Coefficient(a, b, key) == mp_mulmod(mp_sub(a, b), key.iqmp, key.p)

Recombine(h, b, key) == IF h = MP_VAL THEN MP_VAL ELSE mp_add(mp_mul(h, key.q), b)

\* tmp^d mod n from a = tmp^dmp1 mod p and b = tmp^dmq1 mod q.
FromResidues(a, b, key) ==
    IF MP_VAL \in {a, b} THEN MP_VAL ELSE Recombine(Coefficient(a, b, key), b, key)

PrivateExptmod(tmp, key) ==
    FromResidues(mp_exptmod(tmp, key.dmp1, key.p), mp_exptmod(tmp, key.dmq1, key.q), key)

\* The result, with leading zeros to the length of the modulus.
Output(res, outlen, modlen) ==
    IF res = MP_VAL THEN Failed
    ELSE IF modlen > outlen \/ mp_unsigned_bin_size(res) > modlen THEN Failed
    ELSE [i \in 1 .. modlen - mp_unsigned_bin_size(res) |-> 0] \o mp_to_unsigned_bin(res)

\* The exponentiation of a number that is not larger than the modulus.
Power(tmp, outlen, key, use_private) ==
    IF mp_cmp(key.n, tmp) < 0 THEN Failed
    ELSE Output(IF use_private THEN PrivateExptmod(tmp, key)
                ELSE mp_exptmod(tmp, key.e, key.n),
                outlen, crypto_rsa_get_modulus_len(key))

crypto_rsa_exptmod(in, outlen, key, use_private) ==
    IF use_private /\ ~key.private_key THEN Failed
    ELSE Power(mp_read_unsigned_bin(in), outlen, key, use_private)

(***************************************************************************)
(* The calculator.                                                         *)
(***************************************************************************)
Init ==
    /\ num = [r \in Registers |-> mp_zero]
    /\ val = [r \in Registers |-> 0]
    /\ pair = NoPair /\ der = <<>>
    /\ priv = NoKey /\ pub = NoKey
    /\ msg = <<>> /\ sig = <<>> /\ back = <<>>

\* Register t takes the result c of a call that should be v; a call that
\* answers MP_VAL leaves it alone.
Store(t, c, v) ==
    /\ pair = NoPair
    /\ c # MP_VAL
    /\ v \in -MaxValue .. MaxValue
    /\ num' = [num EXCEPT ![t] = c]
    /\ val' = [val EXCEPT ![t] = v]
    /\ UNCHANGED rsaVars

bignum_set_unsigned_bin(t, b) == Store(t, mp_read_unsigned_bin(b), OctetsValue(b))
bignum_add(a, b, t) == Store(t, mp_add(num[a], num[b]), val[a] + val[b])
bignum_sub(a, b, t) == Store(t, mp_sub(num[a], num[b]), val[a] - val[b])
bignum_mul(a, b, t) == Store(t, mp_mul(num[a], num[b]), val[a] * val[b])

\* The moduli are parts of a key, read from octets: none is negative.
bignum_mod(a, b, t) ==
    /\ val[b] > 0
    /\ Store(t, mp_mod(num[a], num[b]), val[a] % val[b])

bignum_mulmod(a, b, c, t) ==
    /\ val[c] > 0
    /\ Store(t, mp_mulmod(num[a], num[b], num[c]), (val[a] * val[b]) % val[c])

\* The power 0 modulo 1, for which the code's answer is 1, is left out: no
\* key has that modulus.
bignum_exptmod(a, b, c, t) ==
    /\ val[b] >= 0 /\ val[c] > 0
    /\ <<val[b], val[c]>> # <<0, 1>>
    /\ Store(t, mp_exptmod(num[a], num[b], num[c]), PowerMod(val[a], val[b], val[c]))

(***************************************************************************)
(* The life of a key pair.                                                 *)
(***************************************************************************)
Integer(v) == [integer |-> TRUE, octets |-> IF v = 0 THEN <<0>> ELSE Octets(v)]
Der(values) == [sequence |-> TRUE, items |-> [i \in DOMAIN values |-> Integer(values[i])]]

Damaged(d, damage) ==
    CASE damage = "none"    -> d
      [] damage = "tag"     -> [d EXCEPT !.sequence = FALSE]
      [] damage = "short"   -> [d EXCEPT !.items = Front(@)]
      [] damage = "long"    -> [d EXCEPT !.items = Append(@, Integer(1))]
      [] damage = "type"    -> [d EXCEPT !.items[2].integer = FALSE]
      [] damage = "version" -> [d EXCEPT !.items[1] = Integer(1)]

Import(k, damage) ==
    LET private == Damaged(Der(<<0, k.n, k.e, k.d, k.p, k.q, k.dmp1, k.dmq1, k.iqmp>>), damage)
        public == Damaged(Der(<<k.n, k.e>>), IF damage = "version" THEN "none" ELSE damage)
    IN  /\ num = [r \in Registers |-> mp_zero]
        /\ pair = NoPair
        /\ pair' = k
        /\ der' = <<private, public>>
        /\ priv' = crypto_rsa_import_private_key(private)
        /\ pub' = crypto_rsa_import_public_key(public)
        /\ UNCHANGED <<bigVars, msg, sig, back>>

\* A block of the length of the modulus is signed: pkcs1_encrypt makes one.
Sign(v, short) ==
    LET modlen == crypto_rsa_get_modulus_len(priv)
        m == [i \in 1 .. modlen - Len(Octets(v)) |-> 0] \o Octets(v)
    IN  /\ priv # NoKey /\ msg = <<>>
        /\ msg' = m
        /\ sig' = crypto_rsa_exptmod(m, modlen - short, priv, TRUE)
        /\ UNCHANGED <<bigVars, pair, der, priv, pub, back>>

Open(short) ==
    /\ pub # NoKey /\ back = <<>>
    /\ sig # <<>> /\ sig # Failed
    /\ back' = crypto_rsa_exptmod(sig, Len(sig) - short, pub, FALSE)
    /\ UNCHANGED <<bigVars, pair, der, priv, pub, msg, sig>>

\* The caller frees what it has and starts again.
Free ==
    /\ num' = [r \in Registers |-> mp_zero]
    /\ val' = [r \in Registers |-> 0]
    /\ pair' = NoPair /\ der' = <<>>
    /\ priv' = NoKey /\ pub' = NoKey
    /\ msg' = <<>> /\ sig' = <<>> /\ back' = <<>>

Next ==
    \/ \E t \in Registers, b \in Strings : bignum_set_unsigned_bin(t, b)
    \/ \E a, b, t \in Registers :
          \/ bignum_add(a, b, t)
          \/ bignum_sub(a, b, t)
          \/ bignum_mul(a, b, t)
          \/ bignum_mod(a, b, t)
    \/ \E a, b, c, t \in Registers :
          \/ bignum_mulmod(a, b, c, t)
          \/ bignum_exptmod(a, b, c, t)
    \/ \E k \in KeyPairs, damage \in Damages : Import(k, damage)
    \/ \E v \in 0 .. pair.n, short \in Shorts : Sign(v, short)
    \/ \E short \in Shorts : Open(short)
    \/ Free

Spec == Init /\ [][Next]_vars

(***************************************************************************)
(* After any sequence of calls every register holds the integer it should, *)
(* in the one form the comparisons rely on (no leading zero digit, no      *)
(* negative zero): carries, borrows, the estimate and the correction of    *)
(* the Barrett reduction, and the windows of the exponentiation are right  *)
(* at every length of the operands.  The comparison of two registers       *)
(* agrees with that of the integers.                                       *)
(***************************************************************************)
ArithmeticIsExact ==
    /\ \A r \in Registers :
          /\ Value(num[r]) = val[r]
          /\ num[r] = mp_clamp(num[r])
    /\ \A r, s \in Registers :
          mp_cmp(num[r], num[s]) = (IF val[r] > val[s] THEN 1 ELSE IF val[r] < val[s] THEN -1 ELSE 0)

(***************************************************************************)
(* A private key is imported exactly if its DER form is whole, and opening *)
(* a signature with the public key gives the message back, at its full     *)
(* length: the two exponentiations modulo p and q are put together right   *)
(* whichever of the primes is the larger and whatever the sign of their    *)
(* difference.                                                             *)
(***************************************************************************)
RsaRoundTrips ==
    /\ pair # NoPair =>
          (priv # NoKey <=> der[1] = Der(<<0, pair.n, pair.e, pair.d, pair.p, pair.q,
                                           pair.dmp1, pair.dmq1, pair.iqmp>>))
    /\ back # <<>> /\ back # Failed =>
          /\ Len(back) = Len(msg)
          /\ OctetsValue(back) = OctetsValue(msg) % pair.n
=============================================================================
