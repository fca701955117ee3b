---------------------------- MODULE UpgradeProofs ----------------------------
(***************************************************************************)
(* Facts about sectors and about the handling of one piece of an image,    *)
(* for every sector size and every partition table.                        *)
(***************************************************************************)
EXTENDS Upgrade, TLAPS

\* A cell lies between the first cell of its sector and that of the next.
LEMMA SectorBounds ==
    ASSUME NEW x \in Nat
    PROVE  /\ Sector(x) \in Nat
           /\ SEC * Sector(x) <= x
           /\ x < SEC * Sector(x) + SEC
  BY FlashAssumption, Z3 DEF Sector

\* Sectors are numbered in the order of their cells.
LEMMA SectorMonotone ==
    ASSUME NEW x \in Nat, NEW y \in Nat, x <= y
    PROVE  Sector(x) <= Sector(y)
  BY FlashAssumption, Z3 DEF Sector

\* A piece no longer than a sector ends in the sector it starts in or in the
\* next one.
LEMMA SectorStep ==
    ASSUME NEW x \in Nat, NEW y \in Nat, y <= x + SEC
    PROVE  Sector(y) <= Sector(x) + 1
  BY FlashAssumption, Z3 DEF Sector

LEMMA SectorOf ==
    ASSUME NEW k \in Nat, NEW x \in Nat, k * SEC <= x, x < k * SEC + SEC
    PROVE  Sector(x) = k
  BY FlashAssumption, Z3 DEF Sector

LEMMA SectorRange ==
    ASSUME NEW f \in Nat, NEW p \in Nat, NEW x \in Nat,
           f * SEC <= x, x < f * SEC + p * SEC
    PROVE  Sector(x) \in f .. (f + p - 1)
  BY FlashAssumption, Z3 DEF Sector

-----------------------------------------------------------------------------
\* The partition of bin b starts on a sector and lies on the chip.
LEMMA PartitionFacts ==
    ASSUME NEW b \in Bins
    PROVE  /\ Base(b) \in Nat
           /\ Base(b) >= SEC
           /\ \A x \in Nat : Base(b) <= x /\ x < Base(b) + SEC => Sector(x) = FirstSec[b]
           /\ \A x \in Nat : Base(b) <= x /\ x < Base(b) + PartSecs * SEC =>
                  Sector(x) \in PartitionSecs(b) /\ x \in Addr
<1> DEFINE f == FirstSec[b]
<1>1. f \in Nat /\ f >= 1 /\ SEC \in Nat /\ SEC >= 1 /\ PartSecs \in Nat
  BY FlashAssumption DEF Bins
<1>2. f * SEC \in Nat /\ f * SEC >= SEC
  BY <1>1, Z3
<1>3. f + PartSecs <= FlashSecs
  BY FlashAssumption DEF Bins
<1>4. f * SEC + PartSecs * SEC <= FlashSecs * SEC
  BY <1>1, <1>3, FlashAssumption, Z3
<1>5. ASSUME NEW x \in Nat, f * SEC <= x, x < f * SEC + SEC
      PROVE  Sector(x) = f
  BY <1>1, <1>5, SectorOf
<1>6. ASSUME NEW x \in Nat, f * SEC <= x, x < f * SEC + PartSecs * SEC
      PROVE  Sector(x) \in f .. (f + PartSecs - 1) /\ x \in 0 .. (FlashSecs * SEC - 1)
  <2>1. Sector(x) \in f .. (f + PartSecs - 1)
    BY <1>1, <1>6, SectorRange
  <2>2. PartSecs * SEC \in Nat /\ FlashSecs * SEC \in Nat
    BY <1>1, FlashAssumption, Z3
  <2> QED  BY <1>2, <1>4, <1>6, <2>1, <2>2
<1> QED  BY <1>2, <1>5, <1>6 DEF Base, PartitionSecs, Addr

\* Where an update starts is an address of the chip.
LEMMA StartFacts ==
    ASSUME bin \in Bins
    PROVE  /\ Other(bin) \in Bins
           /\ Base(Other(bin)) \in Nat
           /\ StartAddress \in Nat
           /\ StartAddress = Base(Other(bin)) - SEC
           /\ SEC \in Nat
<1>1. Other(bin) \in Bins
  BY DEF Other, Bins
<1> QED  BY <1>1, PartitionFacts, FlashAssumption DEF StartAddress

\* The writer stands where the context of a session says it does, and the piece
\* ends inside the partition.
Ready(adr, o, n) ==
    /\ o \in Nat /\ n \in Nat \ {0} /\ bin \in Bins
    /\ adr = StartAddress + o
    /\ o + n < SEC + PartSecs * SEC
    /\ Position(o) = Base(Other(bin)) + (IF o >= SEC THEN o - SEC ELSE 0)

\* The rest of the current sector is blank.
Fresh(adr, o) ==
    o >= SEC => \A a \in Addr : a >= adr /\ Sector(a) = Sector(adr) => flash[a] = Blanked

\* The piece ends no further than in the next sector.
Near(adr, o, n) ==
    LET a == adr + Skip(o, n)
    IN  Sector(a + Rest(o, n)) <= Sector(a) + 1

\* What a piece may change when its first k cells are written: nothing outside
\* the partition and nothing that was written before.
Contained(adr, o, n, i, k) ==
    /\ \A a \in Addr : Sector(a) \notin PartitionSecs(Other(bin)) =>
           Written(adr, o, n, i, k)[a] = flash[a]
    /\ o >= SEC => \A a \in Addr : a < adr => Written(adr, o, n, i, k)[a] = flash[a]

\* What a whole piece leaves: every cell is in its place, and the rest of the
\* sector it ends in is blank.
Placed(adr, o, n, i) ==
    LET F == Written(adr, o, n, i, Rest(o, n))
    IN  o + n >= SEC =>
            /\ \A a \in Addr : a >= Base(Other(bin)) /\ a >= adr /\ a < adr + n =>
                    F[a] = <<i, o + (a - adr)>>
            /\ \A a \in Addr : a >= adr + n /\ Sector(a) = Sector(adr + n) =>
                    F[a] = Blanked

\* Where it leaves the writer.
Advanced(o, n) ==
    NextPosition(o, n) = Base(Other(bin)) + (IF o + n >= SEC THEN o + n - SEC ELSE 0)

\* A piece no longer than a sector is near.
LEMMA ShortIsNear ==
    ASSUME NEW o, NEW n, NEW adr, Ready(adr, o, n), n <= SEC
    PROVE  Near(adr, o, n)
<1> DEFINE a == adr + Skip(o, n)
<1>1. /\ SEC \in Nat /\ SEC >= 1 /\ Other(bin) \in Bins
      /\ Base(Other(bin)) \in Nat /\ Base(Other(bin)) >= SEC
  <2>1. Other(bin) \in Bins
    BY DEF Ready, Bins, Other
  <2> QED  BY <2>1, FlashAssumption, PartitionFacts
<1>2. a \in Nat /\ Rest(o, n) \in Nat /\ Rest(o, n) <= SEC
  BY <1>1 DEF Ready, StartAddress, Skip, Rest
<1> HIDE DEF a
<1>3. Sector(a + Rest(o, n)) <= Sector(a) + 1
  <2>1. a + Rest(o, n) \in Nat /\ a + Rest(o, n) <= a + SEC
    BY <1>1, <1>2
  <2> QED  BY <1>2, <2>1, SectorStep
<1> QED  BY <1>3 DEF Near, a

(***************************************************************************)
(* What a piece of n cells does: it changes nothing that it should not,    *)
(* and, if it is near, leaves every cell in place.                         *)
(***************************************************************************)
LEMMA PieceEffect ==
    ASSUME NEW i, NEW o, NEW n, NEW adr, Ready(adr, o, n), NEW k \in 0 .. Rest(o, n)
    PROVE  /\ Contained(adr, o, n, i, k)
           /\ Advanced(o, n)
           /\ k = Rest(o, n) /\ Fresh(adr, o) /\ Near(adr, o, n) => Placed(adr, o, n, i)
<1> USE DEF Ready
<1> DEFINE b    == Other(bin)
           B    == Base(b)
           adr2 == adr + Skip(o, n)
           rest == Rest(o, n)
           pos  == Position(o)
           E    == Erases(adr, o, n)
           F    == Written(adr, o, n, i, k)
           G    == Erase(flash, E)
<1>b. b \in Bins
  BY DEF Bins, Other
<1>c. /\ B \in Nat /\ B >= SEC /\ SEC \in Nat /\ SEC >= 1
      /\ \A x \in Nat : B <= x /\ x < B + SEC => Sector(x) = FirstSec[b]
      /\ \A x \in Nat : B <= x /\ x < B + PartSecs * SEC => Sector(x) \in PartitionSecs(b)
      /\ FirstSec[b] \in Nat
      /\ PartSecs * SEC \in Nat /\ PartSecs * SEC >= SEC
  <2>1. PartSecs * SEC \in Nat /\ PartSecs * SEC >= SEC
    BY FlashAssumption, Z3
  <2> QED  BY <1>b, <2>1, PartitionFacts, FlashAssumption DEF Bins
<1>d. adr \in Nat /\ adr = B - SEC + o
  BY <1>c DEF StartAddress
<1>e. pos # NoWriter /\ pos \in Nat
  BY <1>c DEF NoWriter
<1>f. F = Program(G, pos, i, o + Skip(o, n), k) /\ NextPosition(o, n) = pos + rest
  BY <1>e DEF Written, NextPosition
<1> HIDE DEF b, B
<1>1. CASE o + n < SEC
  <2>1. Rest(o, n) = 0 /\ Skip(o, n) = 0 /\ E = {} /\ k = 0
    BY <1>1, <1>c DEF Rest, Skip, Erases
  <2>2. \A a \in Addr : F[a] = flash[a]
    <3> SUFFICES ASSUME NEW a \in Addr  PROVE F[a] = flash[a]
      OBVIOUS
    <3>1. a \in Int
      BY DEF Addr
    <3>2. a < pos \/ a >= pos + k
      BY <3>1, <2>1, <1>e
    <3>3. F[a] = G[a]
      BY <3>2, <1>f DEF Program
    <3> QED  BY <3>3, <2>1 DEF Erase
  <2>3. NextPosition(o, n) = B
    BY <1>1, <1>f, <2>1, <1>c DEF B, b
  <2>4. ~ (o + n >= SEC) /\ ~ (o >= SEC)
    BY <1>1, <1>c
  <2>5. Contained(adr, o, n, i, k)
    BY <2>2, <2>4 DEF Contained
  <2>6. Advanced(o, n) /\ Placed(adr, o, n, i)
    BY <2>3, <2>4, <1>c DEF Placed, Advanced, B, b
  <2> QED  BY <2>5, <2>6
<1>2. CASE o + n >= SEC
  <2>1. /\ adr2 \in Nat /\ rest \in Nat /\ Skip(o, n) \in Nat
        /\ adr2 = pos
        /\ adr2 + rest = adr + n
        /\ adr2 = B + (IF o >= SEC THEN o - SEC ELSE 0)
        /\ o + Skip(o, n) + B = adr2 + SEC
    BY <1>2, <1>c, <1>d DEF Rest, Skip, B, b
  <2>2. adr2 >= B /\ adr2 + rest < B + PartSecs * SEC /\ adr + n = adr2 + rest
    BY <2>1, <1>2, <1>c, <1>d
  <2>3. /\ Sector(adr2) \in PartitionSecs(b) /\ Sector(adr2 + rest) \in PartitionSecs(b)
        /\ Sector(adr2) \in Nat /\ Sector(adr2 + rest) \in Nat
        /\ Sector(adr2) <= Sector(adr2 + rest)
        /\ Near(adr, o, n) => Sector(adr2 + rest) <= Sector(adr2) + 1
    <3>1. adr2 \in Nat /\ adr2 + rest \in Nat
      BY <2>1
    <3>2. Near(adr, o, n) => Sector(adr2 + rest) <= Sector(adr2) + 1
      BY DEF Near
    <3> QED  BY <3>1, <3>2, <2>1, <2>2, <1>c, SectorBounds, SectorMonotone
  <2>4. E = (IF o < SEC THEN {Sector(adr2)} ELSE {})
             \cup (IF Sector(adr2 + rest) # Sector(adr2) THEN {Sector(adr2 + rest)} ELSE {})
    BY <1>2 DEF Erases
  <2> HIDE DEF adr2, rest, pos, E
  <2>5. ASSUME NEW a \in Addr
        PROVE  F[a] = IF a < adr2 \/ a >= adr2 + k THEN G[a]
                      ELSE IF G[a] = Blanked THEN <<i, o + Skip(o, n) + (a - adr2)>>
                      ELSE Junked
    BY <1>f, <2>1 DEF Program
  <2>6. ASSUME NEW a \in Addr
        PROVE  G[a] = IF Sector(a) \in E THEN Blanked ELSE flash[a]
    BY DEF Erase
  <2>7. \A a \in Addr : a \in Nat /\ Sector(a) \in Nat
    BY SectorBounds, FlashAssumption DEF Addr
  <2>8. k \in Nat /\ k <= rest
    BY <2>1 DEF rest
  <2>9. ASSUME Fresh(adr, o), NEW a \in Addr, a >= adr2,
               Sector(a) \in {Sector(adr2), Sector(adr2 + rest)}
        PROVE  G[a] = Blanked
    <3>1. CASE Sector(a) \in E
      BY <3>1, <2>6
    <3>2. CASE Sector(a) \notin E
      <4>1. o >= SEC /\ Sector(a) = Sector(adr2)
        BY <3>2, <2>4, <2>9, <1>c
      <4>2. adr2 = adr
        BY <4>1, <2>1, <1>d, <1>c
      <4>3. flash[a] = Blanked
        BY <4>1, <4>2, <2>9 DEF Fresh
      <4> QED  BY <4>3, <3>2, <2>6
    <3> QED  BY <3>1, <3>2
  <2>10. ASSUME NEW a \in Addr, Sector(a) \notin PartitionSecs(b)
         PROVE  F[a] = flash[a]
    <3>1. a < B \/ a >= B + PartSecs * SEC
      BY <2>10, <2>7, <1>c
    <3>2. a < adr2 \/ a >= adr2 + k
      BY <3>1, <2>1, <2>2, <2>7, <2>8, <1>c
    <3>3. Sector(a) \notin E
      BY <2>10, <2>3, <2>4
    <3> QED  BY <3>2, <3>3, <2>5, <2>6
  <2>11. ASSUME o >= SEC, NEW a \in Addr, a < adr
         PROVE  F[a] = flash[a]
    <3>1. adr2 = adr
      BY <2>11, <2>1, <1>d, <1>c
    <3>2. Sector(a) <= Sector(adr2)
      BY <2>11, <3>1, <2>1, <2>7, SectorMonotone
    <3>3. Sector(a) \notin E
      BY <2>11, <3>2, <2>3, <2>4, <2>7, <1>c
    <3> QED  BY <2>11, <3>1, <3>3, <2>5, <2>6
  <2>12. ASSUME k = rest, Fresh(adr, o), Near(adr, o, n),
                NEW a \in Addr, a >= B, a >= adr, a < adr + n
         PROVE  F[a] = <<i, o + (a - adr)>>
    <3>1. a >= adr2 /\ a < adr2 + k
      BY <2>12, <2>1, <2>2, <2>7, <1>c, <1>d
    <3>2. Sector(adr2) <= Sector(a) /\ Sector(a) <= Sector(adr2 + rest)
      <4>1. adr2 + rest \in Nat /\ a <= adr2 + rest /\ adr2 <= a
        BY <3>1, <2>12, <2>1, <2>7
      <4> QED  BY <4>1, <2>1, <2>7, SectorMonotone
    <3>3. Sector(a) \in {Sector(adr2), Sector(adr2 + rest)}
      BY <3>2, <2>3, <2>7, <2>12
    <3>4. G[a] = Blanked
      BY <3>1, <3>3, <2>9, <2>12
    <3>5. o + Skip(o, n) + (a - adr2) = o + (a - adr)
      BY <2>1, <2>7, <1>d DEF adr2
    <3>6. ~ (a < adr2 \/ a >= adr2 + k)
      BY <3>1, <2>1, <2>7, <2>8
    <3>7. F[a] = <<i, o + Skip(o, n) + (a - adr2)>>
      BY <3>4, <3>6, <2>5
    <3> QED  BY <3>5, <3>7
  <2>13. ASSUME k = rest, Fresh(adr, o), NEW a \in Addr, a >= adr + n, Sector(a) = Sector(adr + n)
         PROVE  F[a] = Blanked
    <3>1. a >= adr2 /\ a >= adr2 + k
      BY <2>13, <2>1, <2>2, <2>7
    <3>2. G[a] = Blanked
      BY <3>1, <2>13, <2>2, <2>9
    <3> QED  BY <3>1, <3>2, <2>5
  <2>14. Advanced(o, n)
    BY <1>2, <1>f, <2>1, <1>c, <1>d DEF pos, Advanced, B, b
  <2>15. Contained(adr, o, n, i, k)
    BY <2>10, <2>11 DEF Contained, b
  <2>16. k = rest /\ Fresh(adr, o) /\ Near(adr, o, n) => Placed(adr, o, n, i)
    BY <2>12, <2>13 DEF Placed, B, b, rest
  <2> QED  BY <2>14, <2>15, <2>16 DEF rest
<1> QED  BY <1>1, <1>2, <1>c

\* Whatever a piece does, the chip holds cells.
LEMMA WrittenCells ==
    ASSUME NEW S, {Blank, Junk} \subseteq S, flash \in [Addr -> S \X Nat], bin \in Bins,
           cursor \in Nat \cup {NoWriter}, NEW i \in S, NEW o \in Nat, NEW n \in Nat,
           NEW k \in Nat, NEW adr
    PROVE  Written(adr, o, n, i, k) \in [Addr -> S \X Nat]
<1> DEFINE E == Erases(adr, o, n)
           p == Position(o)
           off == o + Skip(o, n)
<1>1. Erase(flash, E) \in [Addr -> S \X Nat]
  BY DEF Erase, Blanked
<1>2. CASE p = NoWriter
  BY <1>1, <1>2 DEF Written
<1>3. CASE p # NoWriter
  <2>1. p \in Nat
    BY <1>3, StartFacts DEF Position
  <2>2. off \in Nat
    BY FlashAssumption DEF Skip
  <2> HIDE DEF p, off
  <2>3. \A f \in [Addr -> S \X Nat] : Program(f, p, i, off, k) \in [Addr -> S \X Nat]
    <3> SUFFICES ASSUME NEW f \in [Addr -> S \X Nat], NEW a \in Addr
                 PROVE  (IF a < p \/ a >= p + k THEN f[a]
                         ELSE IF f[a] = Blanked THEN <<i, off + (a - p)>>
                         ELSE Junked) \in S \X Nat
      BY DEF Program
    <3>1. a \in Int
      BY DEF Addr
    <3>2. ~ (a < p \/ a >= p + k) => off + (a - p) \in Nat
      BY <2>1, <2>2, <3>1
    <3> QED  BY <3>2 DEF Junked
  <2> QED  BY <1>1, <1>3, <2>3 DEF Written, p, off
<1> QED  BY <1>2, <1>3

\* What was in place, with the piece that follows it.
LEMMA PieceExtends ==
    ASSUME NEW i, NEW o, NEW n, NEW adr, Ready(adr, o, n), Fresh(adr, o), Near(adr, o, n),
           o >= SEC => Holds(Other(bin), i, o),
           flash' = Written(adr, o, n, i, Rest(o, n))
    PROVE  o + n >= SEC =>
               /\ \A c \in SEC .. (o + n - 1) :
                      flash'[Base(Other(bin)) + (c - SEC)] = <<i, c>>
               /\ \A a \in Addr :
                      a >= adr + n /\ Sector(a) = Sector(adr + n) => flash'[a] = Blanked
<1> DEFINE B == Base(Other(bin))
<1>1. /\ o \in Nat /\ n \in Nat /\ adr = B - SEC + o /\ o + n < SEC + PartSecs * SEC
      /\ B \in Nat /\ SEC \in Nat /\ Rest(o, n) \in Nat /\ Other(bin) \in Bins
  BY StartFacts DEF Ready, Rest, Skip
<1>2. Rest(o, n) \in 0 .. Rest(o, n)
  BY <1>1
<1>3. /\ o >= SEC => \A a \in Addr : a < adr => flash'[a] = flash[a]
      /\ o + n >= SEC =>
             /\ \A a \in Addr : a >= B /\ a >= adr /\ a < adr + n =>
                     flash'[a] = <<i, o + (a - adr)>>
             /\ \A a \in Addr : a >= adr + n /\ Sector(a) = Sector(adr + n) =>
                     flash'[a] = Blanked
  <2>1. Contained(adr, o, n, i, Rest(o, n)) /\ Placed(adr, o, n, i)
    BY <1>2, PieceEffect
  <2> QED  BY <2>1 DEF Contained, Placed
<1> HIDE DEF B
<1>4. ASSUME o + n >= SEC, NEW c \in SEC .. (o + n - 1)
      PROVE  flash'[B + (c - SEC)] = <<i, c>>
  <2> DEFINE a == B + (c - SEC)
  <2>1. /\ c \in Nat /\ a \in Nat /\ a >= B /\ a < adr + n
        /\ a < B + PartSecs * SEC
    <3>1. PartSecs * SEC \in Nat
      BY FlashAssumption, Z3
    <3> QED  BY <3>1, <1>1, <1>4
  <2> HIDE DEF a
  <2>2. a \in Addr
    BY <2>1, <1>1, PartitionFacts DEF B
  <2>3. CASE c >= o
    <3>1. a >= adr /\ o + (a - adr) = c
      BY <2>3, <1>1, <2>1 DEF a
    <3>2. flash'[a] = <<i, c>>
      BY <2>1, <2>2, <3>1, <1>3, <1>4
    <3> QED  BY <3>2 DEF a
  <2>4. CASE c < o
    <3>1. a < adr /\ o >= SEC /\ c \in SEC .. (o - 1)
      BY <2>1, <2>4, <1>1 DEF a
    <3>2. flash[a] = <<i, c>>
      BY <3>1 DEF Holds, B, a
    <3>3. flash'[a] = <<i, c>>
      BY <2>2, <3>1, <3>2, <1>3
    <3> QED  BY <3>3 DEF a
  <2> QED  BY <2>1, <2>3, <2>4, <1>1
<1> QED  BY <1>3, <1>4 DEF B

\* A change of the other partition leaves the running bin's alone.
LEMMA RunningUntouched ==
    ASSUME bin \in Bins, bin' = bin,
           \A a \in Addr : Sector(a) \notin PartitionSecs(Other(bin)) => flash'[a] = flash[a]
    PROVE  /\ \A a \in Addr : Sector(a) \in PartitionSecs(bin) => flash'[a] = flash[a]
           /\ \A i, n : n \in Nat /\ n < SEC + PartSecs * SEC /\ Holds(bin, i, n) =>
                  Holds(bin, i, n)'
           /\ \A a \in Addr : Sector(a) \notin PartitionSecs(1) \cup PartitionSecs(2) =>
                  flash'[a] = flash[a]
<1>1. PartitionSecs(bin) \cap PartitionSecs(Other(bin)) = {}
  BY FlashAssumption DEF Bins, Other, PartitionSecs
<1>2. PartitionSecs(Other(bin)) \subseteq PartitionSecs(1) \cup PartitionSecs(2)
  BY DEF Bins, Other
<1>3. \A a \in Addr : Sector(a) \in PartitionSecs(bin) => flash'[a] = flash[a]
  BY <1>1
<1>4. ASSUME NEW i, NEW n, n \in Nat, n < SEC + PartSecs * SEC, Holds(bin, i, n),
             NEW c \in SEC .. (n - 1)
      PROVE  flash'[Base(bin) + (c - SEC)] = <<i, c>>
  <2> DEFINE a == Base(bin) + (c - SEC)
  <2>1. a \in Nat /\ Base(bin) <= a /\ a < Base(bin) + PartSecs * SEC
    <3>1. SEC \in Nat /\ PartSecs * SEC \in Nat /\ Base(bin) \in Nat
      <4>1. SEC \in Nat /\ PartSecs * SEC \in Nat
        BY FlashAssumption, Z3
      <4> QED  BY <4>1, PartitionFacts
    <3> QED  BY <3>1, <1>4
  <2>2. flash[a] = <<i, c>>
    BY <1>4 DEF Holds
  <2> HIDE DEF a
  <2>3. Sector(a) \in PartitionSecs(bin) /\ a \in Addr
    BY <2>1, PartitionFacts
  <2>4. flash'[a] = <<i, c>>
    BY <2>2, <2>3, <1>3
  <2> QED  BY <2>4 DEF a
<1>5. \A i, n : n \in Nat /\ n < SEC + PartSecs * SEC /\ Holds(bin, i, n) => Holds(bin, i, n)'
  BY <1>4 DEF Holds
<1> QED  BY <1>2, <1>3, <1>5
=============================================================================
