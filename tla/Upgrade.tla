------------------------------- MODULE Upgrade -------------------------------
(***************************************************************************)
(* The part the two update clients, app/ota.c and app/fota.cpp, have in    *)
(* common: the SDK's one upgrade writer and its flag, the choice of the    *)
(* partition that is not running, and the handling of a piece of an image. *)
(*                                                                         *)
(* An image starts with a header of one sector that is not written.  The   *)
(* client erases the sectors by the address it keeps in its own context;   *)
(* system_upgrade() writes at a position the SDK keeps.  Nothing but the   *)
(* two clients' discipline makes the two positions agree.                  *)
(***************************************************************************)
EXTENDS Flash

VARIABLES
    flash,   \* the cells of the chip
    bin,     \* the bin that runs: system_upgrade_userbin_check()
    cursor,  \* where system_upgrade() writes next, or NoWriter
    flag     \* system_upgrade_flag_check()

NoWriter == -1
Flags == {"IDLE", "START", "FINISH"}

UpgradeInit ==
    /\ flash = Delivered
    /\ bin \in Bins
    /\ cursor = NoWriter
    /\ flag = "IDLE"

\* The address a new context starts with: one header before the partition of
\* the other bin.
StartAddress == Base(Other(bin)) - SEC

-----------------------------------------------------------------------------
\* A piece of n cells arrives for a context at `offset' and `address'.  What
\* completes the header is skipped.
Skip(offset, n) == IF offset < SEC /\ offset + n >= SEC THEN SEC - offset ELSE 0

\* What is left of the piece to be written.
Rest(offset, n) == IF offset + n >= SEC THEN n - Skip(offset, n) ELSE 0

\* (Erases one sector more than the piece reaches.)
ErasesAhead(address, offset, n) ==
    LET a == address + Skip(offset, n)
        b == a + Rest(offset, n)
    IN  (IF offset < SEC /\ offset + n >= SEC THEN {Sector(a)} ELSE {})
        \cup (IF offset + n >= SEC /\ Sector(b) # Sector(a) THEN {Sector(b), Sector(b) + 1} ELSE {})

\* The sectors erased before it is written: the first one when the header is
\* complete, and the one the piece runs into.
Erases(address, offset, n) ==
    LET a == address + Skip(offset, n)
        b == a + Rest(offset, n)
    IN  (IF offset < SEC /\ offset + n >= SEC THEN {Sector(a)} ELSE {})
        \cup (IF offset + n >= SEC /\ Sector(b) # Sector(a) THEN {Sector(b)} ELSE {})

\* The writer's position when the piece is written: the first piece of an
\* image starts the writer anew.
Position(offset) == IF offset = 0 THEN Base(Other(bin)) ELSE cursor

\* The chip when the first k of the cells to be written have been written.
Written(address, offset, n, i, k) ==
    LET erased == Erase(flash, Erases(address, offset, n))
    IN  IF Position(offset) = NoWriter THEN erased
        ELSE Program(erased, Position(offset), i, offset + Skip(offset, n), k)

NextPosition(offset, n) ==
    IF Position(offset) = NoWriter THEN NoWriter ELSE Position(offset) + Rest(offset, n)

UpgradePiece(address, offset, n, i) ==
    /\ flash' = Written(address, offset, n, i, Rest(offset, n))
    /\ cursor' = NextPosition(offset, n)
    /\ UNCHANGED bin

\* The flag after it: the first piece of an image sets START.
Started(offset) == IF offset = 0 THEN "START" ELSE flag

\* Power-up or restart: the chip keeps its contents, the SDK forgets the rest.
UpgradeReset(b) ==
    /\ bin' = b
    /\ cursor' = NoWriter
    /\ flag' = "IDLE"

\* Bin b's partition holds the first n cells of image i, all but the header.
Holds(b, i, n) ==
    \A k \in SEC .. (n - 1) : flash[Base(b) + (k - SEC)] = <<i, k>>
=============================================================================
