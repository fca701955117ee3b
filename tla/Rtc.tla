--------------------------------- MODULE Rtc ---------------------------------
(***************************************************************************)
(* app/rtc.c: settings in the RTC memory, which a reset leaves as it is    *)
(* and a loss of power does not.  The block is two regions, each followed  *)
(* by its checksum.  Every change writes the whole block anew, word by     *)
(* word, and a reset (the watchdog's, the button's) may come between any   *)
(* two words.  rtc_begin, called by setup(), blanks a region whose         *)
(* checksum is wrong.                                                      *)
(***************************************************************************)
EXTENDS Integers

CONSTANTS
    Words,    \* data words of each region    (31 and 95)
    Values,   \* what a data word may hold
    Erased,   \* the word 0xFFFFFFFF
    Garbage,  \* a checksum that fits no data
    MaxWords  \* bound: words in one call of rtc_write

Regions == {1, 2}
Total == Words[1] + Words[2] + 2

\* The words of the block, where a region's checksum is, and its data words.
Cells == 1 .. Total
Check(r) == IF r = 1 THEN Words[1] + 1 ELSE Total
Body(r) == IF r = 1 THEN 1 .. Words[1] ELSE (Words[1] + 2) .. (Total - 1)

ASSUME RtcAssumption ==
    /\ Words \in [Regions -> Nat \ {0}]
    /\ Erased \in Values
    /\ Garbage \notin Values
    /\ \A r \in Regions : Garbage \notin [Body(r) -> Values]
    /\ MaxWords \in Nat

VARIABLES
    mem,     \* the block in the RTC memory
    mode,    \* "boot": rtc_begin has not run; "write": in rtc_update; "run"
    data,    \* the array rtc_update writes
    done,    \* words of it that have been written
    before,  \* ghost: the block when the last change began
    after    \* ghost: the block it was to leave

rtcVars == <<mem, mode, data, done, before, after>>

-----------------------------------------------------------------------------
\* The data words of a region.  The checksum is taken to tell any two apart.
Part(m, r) == [w \in Body(r) |-> m[w]]
lfs_crc(m, r) == Part(m, r)

Fits(m, r) == m[Check(r)] = lfs_crc(m, r)

\* The block with its checksums renewed.
Sealed(m) == [m EXCEPT ![Check(1)] = lfs_crc(m, 1), ![Check(2)] = lfs_crc(m, 2)]

\* (Renews the checksum of damaged data.)
WipedNot(m, rs) == m

\* The block with the data of the regions rs erased.
Wiped(m, rs) ==
    [w \in Cells |-> IF \E r \in rs : w \in Body(r) THEN Erased ELSE m[w]]

\* rtc_update(m) begins.
rtc_update(m) ==
    /\ mode' = "write"
    /\ data' = Sealed(m)
    /\ done' = 0

AllErased == Sealed([w \in Cells |-> Erased])

\* Power has come on: any data, and checksums that fit none.
RtcInit ==
    /\ mem \in {m \in [Cells -> Values \cup {Garbage}] :
                   \A w \in Cells : m[w] = Garbage <=> w \in {Check(1), Check(2)}}
    /\ mode = "boot"
    /\ data = AllErased
    /\ done = 0
    /\ before = AllErased
    /\ after = AllErased

\* (Erases both regions when one of them is damaged.)
BrokenAll == IF \A r \in Regions : Fits(mem, r) THEN {} ELSE Regions

Broken == {r \in Regions : ~ Fits(mem, r)}

\* setup() calls rtc_begin before anything uses the settings.
rtc_begin ==
    /\ mode = "boot"
    /\ IF Broken # {}
       THEN rtc_update(Wiped(mem, Broken))
       ELSE mode' = "run" /\ UNCHANGED <<data, done>>
    /\ UNCHANGED <<mem, before, after>>

Change(m) ==
    /\ mode = "run"
    /\ rtc_update(m)
    /\ before' = mem
    /\ after' = Sealed(m)
    /\ UNCHANGED mem

rtc_reset == Change([w \in Cells |-> Erased])

\* The words from `first' on become v.
rtc_write(first, v) ==
    Change([w \in Cells |-> IF w - first + 1 \in DOMAIN v THEN v[w - first + 1] ELSE mem[w]])

\* system_rtc_mem_write stores the next word; after the last one the caller
\* goes on.
StoreWord ==
    /\ mode = "write"
    /\ mem' = [mem EXCEPT ![done + 1] = data[done + 1]]
    /\ done' = done + 1
    /\ mode' = IF done + 1 = Total THEN "run" ELSE "write"
    /\ UNCHANGED <<data, before, after>>

\* A reset: the memory stays, the program starts anew.
Reset ==
    /\ mode # "boot"
    /\ mode' = "boot"
    /\ data' = AllErased
    /\ done' = 0
    /\ UNCHANGED <<mem, before, after>>

RtcNext ==
    \/ rtc_begin
    \/ rtc_reset
    \/ \E first \in Cells, n \in 1 .. MaxWords :
          /\ first + n - 1 <= Total
          /\ \E v \in [1 .. n -> Values] : rtc_write(first, v)
    \/ StoreWord
    \/ Reset

RtcSpec == RtcInit /\ [][RtcNext]_rtcVars

-----------------------------------------------------------------------------
Content == Values \cup {Garbage} \cup [Body(1) -> Values] \cup [Body(2) -> Values]

\* A block whose data words are settings.
IsBlock(m) == m \in [Cells -> Content] /\ \A r \in Regions : \A w \in Body(r) : m[w] \in Values

RtcTypeOK ==
    /\ mode \in {"boot", "write", "run"}
    /\ done \in 0 .. Total
    /\ IsBlock(mem) /\ IsBlock(data) /\ IsBlock(before) /\ IsBlock(after)

(***************************************************************************)
(* A change is atomic for each region, whenever resets interrupt it or the *)
(* repair after it: once setup() has run, a region is what it was before   *)
(* the last change or what that change was to make it, or it is erased;    *)
(* and a region the change left alone is not erased.                       *)
(***************************************************************************)
SettingsSurvive ==
    mode = "run" =>
        \A r \in Regions :
            /\ Fits(mem, r)
            /\ Part(mem, r) \in {Part(before, r), Part(after, r), Part(AllErased, r)}
            /\ Part(before, r) = Part(after, r) => Part(mem, r) = Part(before, r)

(***************************************************************************)
(* A damaged region never passes for a good one: if its checksum fits, in  *)
(* the middle of whatever write, its data is one of the three.             *)
(***************************************************************************)
NoMixture ==
    \A r \in Regions :
        Fits(mem, r) =>
            Part(mem, r) \in {Part(before, r), Part(after, r), Part(AllErased, r)}

-----------------------------------------------------------------------------
(***************************************************************************)
(* The inductive invariant behind both.                                    *)
(***************************************************************************)
\* What a region may come to hold.
Contents(r) == {Part(before, r), Part(after, r), Part(AllErased, r)}

\* A checksum in memory is that of one of the three contents, or of nothing.
ChecksumInv == \A r \in Regions : mem[Check(r)] \in Contents(r) \cup {Garbage}

\* What is being written is sealed, and in memory as far as it has been written.
WriteInv ==
    mode = "write" =>
        /\ done < Total
        /\ \A w \in 1 .. done : mem[w] = data[w]
        /\ \A r \in Regions : Fits(data, r) /\ Part(data, r) \in Contents(r)

\* A region that the last change left alone stays whole, even while the block
\* is being written; unless it is erased, as all three contents are then.
UnchangedInv ==
    \A r \in Regions :
        Part(before, r) = Part(after, r) /\ Part(before, r) # Part(AllErased, r) =>
            /\ Fits(mem, r) /\ Part(mem, r) = Part(before, r)
            /\ mode = "write" => Part(data, r) = Part(before, r)

\* Once rtc_begin has run both checksums fit, except during a write.
RunInv == mode = "run" => \A r \in Regions : Fits(mem, r)

RtcInv == ChecksumInv /\ WriteInv /\ UnchangedInv /\ RunInv
=============================================================================
