-------------------------------- MODULE Flash --------------------------------
(***************************************************************************)
(* The SPI flash chip and its partition table (esp8266/init.c), as the two *)
(* update clients see it.  A sector is erased as a whole; a cell can be    *)
(* programmed once after an erase, and programming it again only clears    *)
(* more bits, which leaves junk.                                           *)
(***************************************************************************)
EXTENDS Integers

CONSTANTS
    SEC,        \* cells in a sector, and in the header of an image (0x1000)
    FirstSec,   \* the first sector of the partition of each bin
    PartSecs,   \* sectors in a partition                           (0xff)
    FlashSecs,  \* sectors of the chip
    Factory,    \* the contents the chip was delivered with
    Blank,      \* the contents of an erased cell
    Junk        \* the contents of a cell that was programmed twice

Bins == {1, 2}
Other(b) == 3 - b

(***************************************************************************)
(* Both partitions lie on the chip, apart from each other, and one sector  *)
(* is free in front of each: at_partition_table, lines 77 to 89.           *)
(***************************************************************************)
ASSUME FlashAssumption ==
    /\ SEC \in Nat \ {0}
    /\ PartSecs \in Nat \ {0}
    /\ FlashSecs \in Nat
    /\ FirstSec \in [Bins -> Nat \ {0}]
    /\ FirstSec[1] + PartSecs < FirstSec[2]
    /\ FirstSec[2] + PartSecs <= FlashSecs
    /\ Factory # Blank /\ Factory # Junk /\ Blank # Junk

Addr == 0 .. (FlashSecs * SEC - 1)
Sector(a) == a \div SEC

PartitionSecs(b) == FirstSec[b] .. (FirstSec[b] + PartSecs - 1)
Base(b) == FirstSec[b] * SEC

\* What a cell holds: an image (or one of the three constants) and the place
\* in it.
Blanked == <<Blank, 0>>
Junked  == <<Junk, 0>>
Delivered == [a \in Addr |-> <<Factory, a>>]

\* spi_flash_erase_sector, for every sector of a set.
Erase(f, secs) == [a \in Addr |-> IF Sector(a) \in secs THEN Blanked ELSE f[a]]

\* Write n cells from address `at' on: cells `off' .. `off' + n - 1 of image i.
Program(f, at, i, off, n) ==
    [a \in Addr |->
        IF a < at \/ a >= at + n THEN f[a]
        ELSE IF f[a] = Blanked THEN <<i, off + (a - at)>>
        ELSE Junked]
=============================================================================
