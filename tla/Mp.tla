--------------------------------- MODULE Mp ---------------------------------
(***************************************************************************)
(* The multi-precision integers of crypto/tls/libtommath.c, as the         *)
(* firmware builds them: LTM_FAST is not defined (bit-by-bit division,     *)
(* schoolbook products, Barrett reduction) and LTM_NO_NEG_EXP is.          *)
(*                                                                         *)
(* An mp_int is its sign and the digits below `used', least significant    *)
(* first.  The digits between used and alloc are zero whenever a function  *)
(* returns, so Dig reads them as zero; alloc itself is left out.  The      *)
(* radix is 2^DIGIT_BIT (2^28 on the device).                              *)
(***************************************************************************)
EXTENDS Integers, FiniteSets, SequencesExt

CONSTANTS DIGIT_BIT, CHAR_BIT

ASSUME RadixAssumption ==
    /\ DIGIT_BIT \in Nat /\ DIGIT_BIT >= 2
    /\ CHAR_BIT \in 1 .. DIGIT_BIT

Radix == 2 ^ DIGIT_BIT
Longer(m, n) == IF m > n THEN m ELSE n
Shorter(m, n) == IF m < n THEN m ELSE n

mp_zero == [sign |-> "ZPOS", dp |-> <<>>]
\* What a function returns that answers MP_VAL.
MP_VAL == [sign |-> "VAL", dp |-> <<>>]

used(a) == Len(a.dp)
mp_iszero(a) == used(a) = 0
Dig(a, i) == IF i < used(a) THEN a.dp[i + 1] ELSE 0
Opposite(sign) == IF sign = "ZPOS" THEN "NEG" ELSE "ZPOS"

mp_clamp(a) ==
    LET n == CHOOSE k \in 0 .. used(a) :
                 /\ k > 0 => a.dp[k] # 0
                 /\ \A j \in k + 1 .. used(a) : a.dp[j] = 0
    IN  [sign |-> IF n = 0 THEN "ZPOS" ELSE a.sign, dp |-> SubSeq(a.dp, 1, n)]

mp_set(b) == mp_clamp([sign |-> "ZPOS", dp |-> <<b % Radix>>])

mp_abs(a) == [a EXCEPT !.sign = "ZPOS"]

mp_2expt(b) ==
    [sign |-> "ZPOS",
     dp   |-> [i \in 1 .. b \div DIGIT_BIT + 1 |->
                  IF i = b \div DIGIT_BIT + 1 THEN 2 ^ (b % DIGIT_BIT) ELSE 0]]

mp_count_bits(a) ==
    IF mp_iszero(a) THEN 0
    ELSE (used(a) - 1) * DIGIT_BIT
         + (CHOOSE k \in 0 .. DIGIT_BIT : /\ 2 ^ k > a.dp[used(a)]
                                          /\ k > 0 => 2 ^ (k - 1) <= a.dp[used(a)])

mp_unsigned_bin_size(a) == (mp_count_bits(a) + CHAR_BIT - 1) \div CHAR_BIT

(***************************************************************************)
(* Comparison.                                                             *)
(***************************************************************************)
mp_cmp_mag(a, b) ==
    IF used(a) # used(b) THEN (IF used(a) > used(b) THEN 1 ELSE -1)
    ELSE IF a.dp = b.dp THEN 0
    ELSE LET top == CHOOSE i \in DOMAIN a.dp :
                        /\ a.dp[i] # b.dp[i]
                        /\ \A j \in i + 1 .. used(a) : a.dp[j] = b.dp[j]
         IN  IF a.dp[top] > b.dp[top] THEN 1 ELSE -1

mp_cmp(a, b) ==
    IF a.sign # b.sign THEN (IF a.sign = "NEG" THEN -1 ELSE 1)
    ELSE IF a.sign = "NEG" THEN mp_cmp_mag(b, a)
    ELSE mp_cmp_mag(a, b)

mp_cmp_d(a, b) ==
    IF a.sign = "NEG" THEN -1
    ELSE IF used(a) > 1 THEN 1
    ELSE IF Dig(a, 0) > b THEN 1
    ELSE IF Dig(a, 0) < b THEN -1 ELSE 0

(***************************************************************************)
(* Shifts.                                                                 *)
(***************************************************************************)
mp_lshd(a, b) == IF b <= 0 THEN a ELSE [a EXCEPT !.dp = [i \in 1 .. b |-> 0] \o @]

mp_rshd(a, b) ==
    IF b <= 0 THEN a
    ELSE IF used(a) <= b THEN mp_zero
    ELSE [a EXCEPT !.dp = SubSeq(@, b + 1, used(a))]

\* Every digit moves up and takes the bits its lower neighbour loses.
mp_mul_2d(a, b) ==
    LET c == mp_lshd(a, b \div DIGIT_BIT)
        d == b % DIGIT_BIT
        r(i) == Dig(c, i) \div 2 ^ (DIGIT_BIT - d)
    IN  mp_clamp(
            IF d = 0 THEN c
            ELSE [c EXCEPT !.dp =
                      [i \in 1 .. used(c) + 1 |->
                          ((Dig(c, i - 1) * 2 ^ d) % Radix)
                          + (IF i = 1 THEN 0 ELSE r(i - 2))]])

\* Every digit moves down and takes the bits its upper neighbour loses.
mp_div_2d(a, b) ==
    LET c == mp_rshd(a, b \div DIGIT_BIT)
        D == b % DIGIT_BIT
    IN  IF b <= 0 THEN a
        ELSE mp_clamp(
                 [c EXCEPT !.dp =
                      [i \in 1 .. used(c) |->
                          (Dig(c, i - 1) \div 2 ^ D)
                          + ((Dig(c, i) % 2 ^ D) * 2 ^ (DIGIT_BIT - D))]])

mp_mod_2d(a, b) ==
    IF b <= 0 THEN mp_zero
    ELSE IF b >= used(a) * DIGIT_BIT THEN a
    ELSE mp_clamp(
             [a EXCEPT !.dp =
                  [i \in 1 .. used(a) |->
                      IF i > b \div DIGIT_BIT + 1 THEN 0
                      ELSE IF i = b \div DIGIT_BIT + 1
                           THEN a.dp[i] % 2 ^ (b % DIGIT_BIT)
                      ELSE a.dp[i]]])

(***************************************************************************)
(* Addition and subtraction.  The low-level functions work on magnitudes;  *)
(* the caller has stored the sign of the result before.                    *)
(***************************************************************************)
s_mp_add(a, b, sign) ==
    LET max == Longer(used(a), used(b))
        T[i \in 0 .. max] ==
            Dig(a, i) + Dig(b, i) + (IF i = 0 THEN 0 ELSE T[i - 1] \div Radix)
    IN  mp_clamp([sign |-> sign, dp |-> [i \in 1 .. max + 1 |-> T[i - 1] % Radix]])

s_mp_sub(a, b, sign) ==
    LET T[i \in 0 .. used(a)] ==
            Dig(a, i) - Dig(b, i) - (IF i = 0 THEN 0 ELSE IF T[i - 1] < 0 THEN 1 ELSE 0)
    IN  mp_clamp([sign |-> sign, dp |-> [i \in 1 .. used(a) |-> T[i - 1] % Radix]])

mp_add(a, b) ==
    IF a.sign = b.sign THEN s_mp_add(a, b, a.sign)
    ELSE IF mp_cmp_mag(a, b) < 0 THEN s_mp_sub(b, a, b.sign)
    ELSE s_mp_sub(a, b, a.sign)

mp_sub(a, b) ==
    IF a.sign # b.sign THEN s_mp_add(a, b, a.sign)
    ELSE IF mp_cmp_mag(a, b) >= 0 THEN s_mp_sub(a, b, a.sign)
    ELSE s_mp_sub(b, a, Opposite(a.sign))

(***************************************************************************)
(* Products.  t is the result being built, one row for each digit of a.    *)
(***************************************************************************)
Blank(n) == [i \in 0 .. n - 1 |-> 0]
Digits(t) == [i \in 1 .. Cardinality(DOMAIN t) |-> t[i - 1]]

\* Adds x * b[from .. to - 1] to t from position at on; the carry goes into
\* the position after the last one, if t has it.
MulRow(t, x, b, from, to, at) ==
    LET end == at + (IF to > from THEN to - from ELSE 0)
        r[iy \in from - 1 .. to - 1] ==
            IF iy < from THEN 0
            ELSE t[at + iy - from] + x * Dig(b, iy) + r[iy - 1] \div Radix
    IN  [k \in DOMAIN t |->
            IF k \in at .. end - 1 THEN r[from + k - at] % Radix
            ELSE IF k = end THEN (IF to > from THEN r[to - 1] \div Radix ELSE 0)
            ELSE t[k]]

\* |a| * |b|, only the lower digs digits.
s_mp_mul_digs(a, b, digs) ==
    LET row(t, ix) == IF ix >= digs THEN t
                      ELSE MulRow(t, Dig(a, ix), b, 0, Shorter(used(b), digs - ix), ix)
    IN  mp_clamp([sign |-> "ZPOS",
                  dp   |-> Digits(FoldLeft(row, Blank(digs),
                                           [i \in 1 .. used(a) |-> i - 1]))])

\* |a| * |b| without the products that fall below digit digs.
s_mp_mul_high_digs(a, b, digs) ==
    LET row(t, ix) == MulRow(t, Dig(a, ix), b, digs - ix, used(b), digs)
    IN  mp_clamp([sign |-> "ZPOS",
                  dp   |-> Digits(FoldLeft(row, Blank(Longer(used(a) + used(b), digs) + 1),
                                           [i \in 1 .. used(a) |-> i - 1]))])

\* Column ix + iy of the square: twice a[ix] * a[iy], what is there, the carry.
SqrColumn(a, ix, iy, tiy, u) == tiy + 2 * Dig(a, ix) * Dig(a, iy) + u

\* |a| * |a|: the square of each digit, twice its products with the digits
\* above it, and the carry on to the end of the number.
s_mp_sqr(a) ==
    LET pa == used(a)
        row(t, ix) ==
            LET r[k \in 2 * ix - 1 .. 2 * pa] ==
                    IF k < 2 * ix THEN 0
                    ELSE IF k = 2 * ix THEN t[k] + Dig(a, ix) * Dig(a, ix)
                    ELSE IF k < ix + pa THEN SqrColumn(a, ix, k - ix, t[k], r[k - 1] \div Radix)
                    ELSE t[k] + r[k - 1] \div Radix
            IN  [k \in DOMAIN t |-> IF k < 2 * ix THEN t[k] ELSE r[k] % Radix]
    IN  mp_clamp([sign |-> "ZPOS",
                  dp   |-> Digits(FoldLeft(row, Blank(2 * pa + 1),
                                           [i \in 1 .. pa |-> i - 1]))])

mp_mul(a, b) ==
    LET c == s_mp_mul_digs(a, b, used(a) + used(b) + 1)
    IN  [c EXCEPT !.sign = IF used(c) > 0 /\ a.sign # b.sign THEN "NEG" ELSE "ZPOS"]

mp_sqr(a) == s_mp_sqr(a)

(***************************************************************************)
(* Division, bit by bit: q collects the powers tq of two whose multiples   *)
(* tb of the divisor still fit into the rest ta.                           *)
(***************************************************************************)
DivStep(s, i) ==
    IF mp_cmp(s.tb, s.ta) = 1
    THEN [s EXCEPT !.tb = mp_div_2d(@, 1), !.tq = mp_div_2d(@, 1)]
    ELSE [ta |-> mp_sub(s.ta, s.tb), q |-> mp_add(s.q, s.tq),
          tb |-> mp_div_2d(s.tb, 1), tq |-> mp_div_2d(s.tq, 1)]

DivLoop(a, b, n) ==
    FoldLeft(DivStep,
             [ta |-> mp_abs(a), q |-> mp_zero,
              tb |-> mp_mul_2d(mp_abs(b), n), tq |-> mp_mul_2d(mp_set(1), n)],
             [i \in 1 .. n + 1 |-> i])

Signed(c, sign) == [c EXCEPT !.sign = IF mp_iszero(c) THEN "ZPOS" ELSE sign]

DivResult(a, b, end) == [q |-> Signed(end.q, IF a.sign = b.sign THEN "ZPOS" ELSE "NEG"),
                         r |-> Signed(end.ta, a.sign)]

mp_div(a, b) ==
    IF mp_iszero(b) THEN [q |-> MP_VAL, r |-> MP_VAL]
    ELSE IF mp_cmp_mag(a, b) < 0 THEN [q |-> mp_zero, r |-> a]
    ELSE DivResult(a, b, DivLoop(a, b, mp_count_bits(a) - mp_count_bits(b)))

\* The remainder t takes the sign of the divisor.
ModSign(t, b) == IF t = MP_VAL THEN MP_VAL
                 ELSE IF t.sign # b.sign THEN mp_add(b, t)
                 ELSE t

mp_mod(a, b) == ModSign(mp_div(a, b).r, b)

mp_mulmod(a, b, c) == mp_mod(mp_mul(a, b), c)

(***************************************************************************)
(* Barrett reduction: mu = Radix^2k / m replaces the division by m with a  *)
(* product of which only the upper half is computed.                       *)
(***************************************************************************)
mp_reduce_setup(m) == mp_div(mp_2expt(used(m) * 2 * DIGIT_BIT), m).q

\* (The estimated quotient is taken for the exact one.)
NoBackOff(x, m) == x

RECURSIVE BackOff(_, _)
BackOff(x, m) == IF mp_cmp(x, m) < 0 THEN x ELSE BackOff(s_mp_sub(x, m, x.sign), m)

\* The quotient q3 estimated from the upper digits q1 of what is reduced.
Estimate(q1, m, mu) ==
    mp_rshd(IF used(m) > 2 ^ (DIGIT_BIT - 1) THEN mp_mul(q1, mu)
            ELSE s_mp_mul_high_digs(q1, mu, used(m)),
            used(m) + 1)

ReduceBy(q3, x, m) ==
    mp_sub(mp_mod_2d(x, DIGIT_BIT * (used(m) + 1)), s_mp_mul_digs(q3, m, used(m) + 1))

Positive(r, m) ==
    IF mp_cmp_d(r, 0) < 0 THEN mp_add(r, mp_lshd(mp_set(1), used(m) + 1)) ELSE r

mp_reduce(x, m, mu) ==
    BackOff(Positive(ReduceBy(Estimate(mp_rshd(x, used(m) - 1), m, mu), x, m), m), m)

(***************************************************************************)
(* Exponentiation with a sliding window over the bits of X.                *)
(***************************************************************************)
WinSize(x) ==
    IF x <= 7 THEN 2 ELSE IF x <= 36 THEN 3 ELSE IF x <= 140 THEN 4 ELSE 5

\* The bits of X, highest digit first, leading zeros of the digit included.
BitsOf(X) ==
    [k \in 1 .. used(X) * DIGIT_BIT |->
        LET d == X.dp[used(X) - (k - 1) \div DIGIT_BIT]
        IN  (d \div 2 ^ (DIGIT_BIT - 1 - ((k - 1) % DIGIT_BIT))) % 2]

ModSqr(a, P, mu) == mp_reduce(mp_sqr(a), P, mu)
ModMul(a, b, P, mu) == mp_reduce(mp_mul(a, b), P, mu)
SqrTimes(a, n, P, mu) == FoldLeft(LAMBDA b, i : ModSqr(b, P, mu), a, [i \in 1 .. n |-> i])

\* The table M: g = G mod P at 1, and its powers 2^(winsize-1) .. 2^winsize - 1.
UpperHalf(g, P, mu, winsize) ==
    FoldLeft(LAMBDA s, i : Append(s, ModMul(Last(s), g, P, mu)),
             <<SqrTimes(g, winsize - 1, P, mu)>>,
             [i \in 1 .. 2 ^ (winsize - 1) - 1 |-> i])

TableOf(g, upper) ==
    [x \in {1} \cup Len(upper) .. 2 * Len(upper) - 1 |->
        IF x = 1 THEN g ELSE upper[x - Len(upper) + 1]]

PowerTable(g, P, mu, winsize) == TableOf(g, UpperHalf(g, P, mu, winsize))

\* The bits left in the window when the exponent ends, one at a time.
LeftOverStep(sq, bit, g, P, mu) == IF bit = 1 THEN ModMul(sq, g, P, mu) ELSE sq

LeftOver(s, M, P, mu, winsize) ==
    FoldLeft(LAMBDA res, i : LeftOverStep(ModSqr(res, P, mu),
                                          (s.bitbuf \div 2 ^ (winsize - i)) % 2,
                                          M[1], P, mu),
             s.res, [i \in 1 .. s.bitcpy |-> i])

\* One bit of the exponent: mode 0 before the first 1, 1 between windows,
\* 2 while a window fills.
TakeBit(s, y, M, P, mu, winsize) ==
    LET bitcpy == s.bitcpy + 1
        bitbuf == s.bitbuf + y * 2 ^ (winsize - bitcpy)
    IN  IF s.mode = 0 /\ y = 0 THEN s
        ELSE IF s.mode = 1 /\ y = 0 THEN [s EXCEPT !.res = ModSqr(@, P, mu)]
        ELSE IF bitcpy < winsize
             THEN [s EXCEPT !.mode = 2, !.bitcpy = bitcpy, !.bitbuf = bitbuf]
        ELSE [res |-> ModMul(SqrTimes(s.res, winsize, P, mu), M[bitbuf], P, mu),
              mode |-> 1, bitcpy |-> 0, bitbuf |-> 0]

Windows(X, M, P, mu, winsize) ==
    LeftOver(FoldLeft(LAMBDA s, y : TakeBit(s, y, M, P, mu, winsize),
                      [res |-> mp_set(1), mode |-> 0, bitcpy |-> 0, bitbuf |-> 0],
                      BitsOf(X)),
             M, P, mu, winsize)

ExptmodWith(G, X, P, mu, winsize) ==
    IF mu = MP_VAL THEN MP_VAL
    ELSE Windows(X, PowerTable(mp_mod(G, P), P, mu, winsize), P, mu, winsize)

s_mp_exptmod(G, X, P) ==
    ExptmodWith(G, X, P, mp_reduce_setup(P), WinSize(mp_count_bits(X)))

mp_exptmod(G, X, P) ==
    IF P.sign = "NEG" \/ X.sign = "NEG" THEN MP_VAL ELSE s_mp_exptmod(G, X, P)

(***************************************************************************)
(* Octet strings, most significant first.                                  *)
(***************************************************************************)
AddOctet(s, octet) ==
    [s EXCEPT !.dp = [i \in 1 .. used(s) + 1 |->
                         IF i = 1 THEN Dig(s, 0) + octet ELSE Dig(s, i - 1)]]

mp_read_unsigned_bin(b) ==
    mp_clamp(FoldLeft(LAMBDA a, octet : AddOctet(mp_mul_2d(a, CHAR_BIT), octet), mp_zero, b))

RECURSIVE LowFirst(_)
LowFirst(t) == IF mp_iszero(t) THEN <<>>
               ELSE <<Dig(t, 0) % 2 ^ CHAR_BIT>> \o LowFirst(mp_div_2d(t, CHAR_BIT))

mp_to_unsigned_bin(a) == Reverse(LowFirst(a))
=============================================================================
