---------------------------- MODULE BoardProofs ----------------------------
(***************************************************************************)
(* The three components next to the hardware, which share nothing: the     *)
(* kernel's task queues (EtsTask), the clock and delay() (SystemTime) and  *)
(* the settings in the RTC memory (Rtc).                                   *)
(***************************************************************************)
EXTENDS EtsTask, SystemTime, Rtc, SequenceTheorems, WellFoundedInduction, TLAPS

(***************************************************************************)
(* The queues that only tasks post to are queues: although ets_run_once    *)
(* works on the kernel's table unlocked, the detailed specification        *)
(* implements TaskQueue, for every set of priorities, every length of      *)
(* their queues and every depth of the calls.                              *)
(***************************************************************************)

IInv == TypeOK /\ EtsInv

-----------------------------------------------------------------------------
\* A set of priorities has a highest.
LEMMA HighestFacts ==
    ASSUME NEW ps, ps \subseteq Prios, ps # {}
    PROVE  Highest(ps) \in ps
<1> DEFINE T == {31 - x : x \in ps}
<1>1. ps \subseteq 0 .. 31
  BY EtsAssumption
<1>2. T \subseteq Nat /\ T # {}
  <2>1. \A x \in ps : 31 - x \in Nat
    BY <1>1
  <2> QED  BY <2>1
<1> DEFINE less == {ss \in Nat \X Nat : ss[1] < ss[2]}
<1>a. IsWellFoundedOn(less, Nat)
  BY NatLessThanWellFounded DEF OpToRel
<1> HIDE DEF less, T
<1>3. PICK m \in T : \A y \in T : ~ (<<y, m>> \in less)
  BY <1>2, <1>a, WFMin
<1>4. \A y \in T : m <= y
  <2> SUFFICES ASSUME NEW y \in T PROVE m <= y
    OBVIOUS
  <2>1. y \in Nat /\ m \in Nat
    BY <1>2
  <2>2. ~ (y < m)
    BY <1>3, <2>1 DEF less
  <2> QED  BY <2>1, <2>2
<1> USE DEF T
<1>5. PICK x \in ps : m = 31 - x
  OBVIOUS
<1>6. \A y \in ps : y <= x
  <2> SUFFICES ASSUME NEW y \in ps PROVE y <= x
    OBVIOUS
  <2>1. m <= 31 - y
    BY <1>4
  <2> QED  BY <1>1, <1>5, <2>1
<1> QED  BY <1>6 DEF Highest

LEMMA SizeFacts ==
    ASSUME NEW p \in Prios
    PROVE  Size[p] \in Nat \ {0} /\ Size[p] <= 255
<1>1. Size[p] \in 1 .. 255
  BY EtsAssumption
<1> QED  BY <1>1

\* The place k steps from f in a ring of s.
LEMMA Wraps ==
    ASSUME NEW s \in Nat \ {0}, NEW f \in 0 .. (s - 1), NEW k \in 0 .. s
    PROVE  (f + k) % s = IF f + k < s THEN f + k ELSE f + k - s
<1>1. \A x \in Nat : x < s => x % s = x
  BY Z3
<1>2. \A x \in Nat : s <= x /\ x < s + s => x % s = x - s
  BY Z3
<1>3. f + k \in Nat /\ f + k < s + s
  OBVIOUS
<1> QED  BY <1>1, <1>2, <1>3

\* Places fewer than s steps apart differ.
LEMMA Apart ==
    ASSUME NEW s \in Nat \ {0}, NEW f \in 0 .. (s - 1), NEW k \in 0 .. (s - 1),
           NEW j \in 0 .. (s - 1), j # k
    PROVE  (f + j) % s # (f + k) % s
<1>1. j \in 0 .. s /\ k \in 0 .. s
  OBVIOUS
<1>2. /\ (f + j) % s = IF f + j < s THEN f + j ELSE f + j - s
      /\ (f + k) % s = IF f + k < s THEN f + k ELSE f + k - s
  BY <1>1, Wraps
<1> QED  BY <1>2

\* The place after is one step further.
LEMMA AfterFacts ==
    ASSUME NEW p \in Prios, NEW f \in Nat, f < Size[p]
    PROVE  /\ Size[p] \in Nat \ {0} /\ Size[p] <= 255 /\ f \in 0 .. (Size[p] - 1)
           /\ After(p, f) \in Nat /\ After(p, f) < Size[p]
           /\ f % Size[p] = f
           /\ \A k \in 0 .. (Size[p] - 1) :
                  (After(p, f) + k) % Size[p] = (f + (k + 1)) % Size[p]
<1> DEFINE s == Size[p]
<1>1. s \in Nat \ {0} /\ s <= 255
  BY SizeFacts
<1> HIDE DEF s
<1>2. s \in Nat \ {0} /\ s <= 255 /\ f \in 0 .. (s - 1) /\ 0 \in 0 .. s
  BY <1>1 DEF s
<1>3. After(p, f) = IF f + 1 = s THEN 0 ELSE f + 1
  BY DEF After, s
<1>4. After(p, f) \in 0 .. (s - 1)
  BY <1>2, <1>3
<1>5. f % s = f
  <2>1. (f + 0) % s = IF f + 0 < s THEN f + 0 ELSE f + 0 - s
    BY <1>2, Wraps
  <2>2. f + 0 = f /\ f < s
    BY <1>2
  <2> QED  BY <2>1, <2>2
<1>6. ASSUME NEW k \in 0 .. (s - 1)
      PROVE  (After(p, f) + k) % s = (f + (k + 1)) % s
  <2> DEFINE a == After(p, f)
  <2>1. k \in 0 .. s /\ k + 1 \in 0 .. s
    BY <1>2
  <2>2. (a + k) % s = IF a + k < s THEN a + k ELSE a + k - s
    BY <1>2, <1>4, <2>1, Wraps
  <2>3. (f + (k + 1)) % s = IF f + (k + 1) < s THEN f + (k + 1) ELSE f + (k + 1) - s
    BY <1>2, <2>1, Wraps
  <2> QED  BY <1>2, <1>3, <1>4, <2>1, <2>2, <2>3
<1> QED  BY <1>2, <1>4, <1>5, <1>6 DEF s

-----------------------------------------------------------------------------
\* The innermost frame is a frame.
LEMMA TopFacts ==
    ASSUME TypeOK, stack # << >>
    PROVE  /\ Len(stack) \in Nat \ {0} /\ Top \in Frames
           /\ Top.prio \in Prios /\ Top.event \in Nat /\ Top.held \in Nat
           /\ Top.word \subseteq Prios
<1>1. Len(stack) \in Nat \ {0}
  BY EmptySeq DEF TypeOK
<1>2. Top \in Frames
  BY <1>1, ElementOfSeq DEF TypeOK, Top
<1> QED  BY <1>1, <1>2 DEF Frames

\* A new frame.
LEMMA FrameFacts ==
    ASSUME NEW pc \in RunOnce \cup {"task"}, NEW p \in Prios, NEW e \in Nat
    PROVE  /\ Frame(pc, p, e) \in Frames /\ Frame(pc, p, e).pc = pc
           /\ Frame(pc, p, e).prio = p /\ Frame(pc, p, e).event = e
  BY DEF Frames, Frame

\* A frame that goes on elsewhere is a frame.
Moved(g, pc, k) == [g EXCEPT !.pc = pc, !.held = k]

LEMMA MovedFacts ==
    ASSUME NEW g \in Frames, NEW pc \in RunOnce \cup {"task"}, NEW k \in Nat
    PROVE  /\ Moved(g, pc, k) \in Frames /\ Moved(g, pc, k).pc = pc
           /\ Moved(g, pc, k).prio = g.prio /\ Moved(g, pc, k).event = g.event
  BY DEF Frames, Moved

LEMMA BecomeFacts ==
    ASSUME TypeOK, CallInv, stack # << >>, NEW f \in Frames, Become(f)
    PROVE  /\ stack' \in Seq(Frames) /\ stack' # << >> /\ Top' = f
           /\ \A k \in 1 .. (Len(stack') - 1) : stack'[k].pc = "task"
<1>1. Len(stack) \in 1 .. Len(stack)
  BY TopFacts
<1>2. /\ stack' \in Seq(Frames) /\ Len(stack') = Len(stack)
      /\ \A j \in 1 .. Len(stack) : stack'[j] = IF j = Len(stack) THEN f ELSE stack[j]
  BY <1>1, ExceptSeq DEF Become, TypeOK
<1>3. stack' # << >>
  BY <1>1, <1>2, EmptySeq
<1>4. Top' = f
  BY <1>1, <1>2 DEF Top
<1>5. ASSUME NEW k \in 1 .. (Len(stack') - 1)
      PROVE  stack'[k].pc = "task"
  <2>1. Len(stack) \in Nat /\ k \in 1 .. Len(stack) /\ k # Len(stack)
    BY <1>2, TopFacts
  <2> QED  BY <1>2, <2>1 DEF CallInv
<1> QED  BY <1>2, <1>3, <1>4, <1>5

-----------------------------------------------------------------------------
\* What waits is numbered from the last event handled on.
LEMMA RingFacts ==
    ASSUME TypeOK, CallInv, NEW p \in TaskPrios, Ring(p)
    PROVE  /\ Size[p] \in Nat \ {0} /\ First(p) \in 0 .. (Size[p] - 1)
           /\ Pending(p) \in 0 .. Size[p] /\ Len(ran[p]) \in Nat
           /\ \A k \in 1 .. Pending(p) :
                  slot[p][(First(p) + k - 1) % Size[p]] = Len(ran[p]) + k
<1>1. p \in Prios
  BY DEF Prios
<1>2. offset[p] \in Nat /\ offset[p] < Size[p] /\ count[p] \in Nat /\ ran[p] \in Seq(Nat)
  BY <1>1 DEF TypeOK
<1>3. Size[p] \in Nat \ {0}
  BY <1>1, <1>2, AfterFacts
<1>4. First(p) \in 0 .. (Size[p] - 1)
  BY <1>2, <1>3, TopFacts DEF First, Taking, RunOnce, CallInv
<1>5. Pending(p) \in 0 .. Size[p]
  BY <1>2, <1>3 DEF Pending, Ring
<1>6. \A k \in 1 .. Pending(p) : slot[p][(First(p) + k - 1) % Size[p]] = Len(ran[p]) + k
  BY DEF Ring, Waiting
<1>7. Len(ran[p]) \in Nat
  BY <1>2, LenProperties
<1> QED  BY <1>3, <1>4, <1>5, <1>6, <1>7

\* A step that neither posts to p nor calls its task.
LEMMA RingKept ==
    ASSUME NEW p \in TaskPrios, Ring(p),
           slot'[p] = slot[p], reserved'[p] = reserved[p], posted'[p] = posted[p],
           ran'[p] = ran[p], First(p)' = First(p), Pending(p)' = Pending(p),
           Taking(p)' => offset'[p] = After(p, Top'.event)
    PROVE  Ring(p)'
  BY DEF Ring, Waiting

\* The oldest event is handled.
LEMMA RingHandled ==
    ASSUME TypeOK, CallInv, NEW p \in TaskPrios, Ring(p), Pending(p) > 0,
           slot'[p] = slot[p], reserved'[p] = reserved[p], posted'[p] = posted[p],
           ran'[p] = Append(ran[p], slot[p][First(p)]),
           First(p)' = After(p, First(p)), Pending(p)' = Pending(p) - 1,
           ~ Taking(p)'
    PROVE  Ring(p)' /\ slot[p][First(p)] = Len(ran[p]) + 1
<1> DEFINE s == Size[p]
           f == First(p)
           n == Pending(p)
           a == Len(ran[p])
<1>1. s \in Nat \ {0} /\ f \in 0 .. (s - 1) /\ n \in 0 .. s /\ a \in Nat /\ p \in Prios
      /\ \A k \in 1 .. n : slot[p][(f + k - 1) % s] = a + k
  BY RingFacts DEF Prios
<1>2. f % s = f
      /\ \A k \in 0 .. (s - 1) : (After(p, f) + k) % s = (f + (k + 1)) % s
      /\ After(p, f) \in Nat
  <2>1. f \in Nat /\ f < s
    BY <1>1
  <2> QED  BY <1>1, <2>1, AfterFacts
<1> HIDE DEF s, f, n, a
<1>3. slot[p][f] = a + 1
  <2>1. 1 \in 1 .. n /\ f + 1 - 1 = f
    BY <1>1 DEF n
  <2> QED  BY <1>1, <1>2, <2>1
<1>4. ran[p] \in Seq(Nat)
  BY <1>1 DEF TypeOK
<1>5. Len(ran'[p]) = a + 1
  BY <1>1, <1>3, <1>4, AppendProperties DEF f, a
<1>6. n - 1 \in 0 .. (s - 1) /\ (f + ((n - 1) + 1)) = f + n
  BY <1>1 DEF n
<1>7. reserved'[p] = (After(p, f) + (n - 1)) % s
  BY <1>2, <1>6 DEF Ring, s, f, n
<1>8. posted'[p] = Len(ran'[p]) + (n - 1) /\ n - 1 <= s
  BY <1>1, <1>5 DEF Ring, n, a
<1>9. ASSUME NEW k \in 1 .. (n - 1)
      PROVE  slot[p][(After(p, f) + k - 1) % s] = (a + 1) + k
  <2>1. /\ k - 1 \in 0 .. (s - 1) /\ k + 1 \in 1 .. n
        /\ After(p, f) + k - 1 = After(p, f) + (k - 1)
        /\ f + ((k - 1) + 1) = f + (k + 1) - 1
    BY <1>1, <1>2
  <2>2. (After(p, f) + k - 1) % s = (f + (k + 1) - 1) % s
    BY <1>2, <2>1
  <2>3. slot[p][(f + (k + 1) - 1) % s] = a + (k + 1)
    BY <1>1, <2>1
  <2>4. a + (k + 1) = (a + 1) + k
    BY <1>1
  <2> QED  BY <2>2, <2>3, <2>4
<1>10. \A k \in 1 .. (n - 1) : Waiting(p)'[k] = Len(ran'[p]) + k
  BY <1>5, <1>9 DEF Waiting, f, n, s
<1> QED  BY <1>3, <1>7, <1>8, <1>10 DEF Ring, f, n, s, a

\* An event is accepted.
LEMMA RingAccepted ==
    ASSUME TypeOK, CallInv, NEW p \in TaskPrios, Ring(p), Pending(p) < Size[p],
           slot'[p] = [slot[p] EXCEPT ![reserved[p]] = posted[p] + 1],
           reserved'[p] = After(p, reserved[p]), posted'[p] = posted[p] + 1,
           ran'[p] = ran[p], First(p)' = First(p), Pending(p)' = Pending(p) + 1,
           ~ Taking(p)'
    PROVE  Ring(p)'
<1> DEFINE s == Size[p]
           f == First(p)
           n == Pending(p)
           a == Len(ran[p])
           r == reserved[p]
<1>1. s \in Nat \ {0} /\ f \in 0 .. (s - 1) /\ n \in 0 .. (s - 1) /\ a \in Nat /\ p \in Prios
      /\ \A k \in 1 .. n : slot[p][(f + k - 1) % s] = a + k
  BY RingFacts DEF Prios
<1>2. r = (f + n) % s /\ r \in 0 .. (s - 1) /\ posted[p] = a + n
  BY <1>1 DEF Ring, TypeOK
<1>3. slot[p] \in [0 .. (s - 1) -> Nat]
  BY <1>1 DEF TypeOK
<1> HIDE DEF s, f, n, a, r
<1>4. After(p, r) = (f + (n + 1)) % s
  <2>1. (f + n) % s = IF f + n < s THEN f + n ELSE f + n - s
    <3>1. n \in 0 .. s
      BY <1>1
    <3> QED  BY <1>1, <3>1, Wraps
  <2>2. n + 1 \in 0 .. s
    BY <1>1
  <2>3. (f + (n + 1)) % s = IF f + (n + 1) < s THEN f + (n + 1) ELSE f + (n + 1) - s
    BY <1>1, <2>2, Wraps
  <2>4. After(p, r) = IF r + 1 = s THEN 0 ELSE r + 1
    BY DEF After, s
  <2> QED  BY <1>1, <1>2, <2>1, <2>3, <2>4
<1>5. ASSUME NEW k \in 1 .. (n + 1)
      PROVE  slot'[p][(f + k - 1) % s] = a + k
  <2>1. k - 1 \in 0 .. (s - 1) /\ f + k - 1 = f + (k - 1) /\ k - 1 \in 0 .. s
    BY <1>1
  <2>2. (f + (k - 1)) % s \in 0 .. (s - 1)
    BY <1>1, <2>1, Wraps
  <2>3. CASE k = n + 1
    <3>1. n \in Nat /\ a \in Nat /\ posted[p] = a + n
      BY <1>1, <1>2
    <3>2. k - 1 = n /\ a + k = posted[p] + 1
      BY <2>3, <3>1
    <3> QED  BY <1>2, <1>3, <2>1, <2>2, <3>2 DEF r
  <2>4. CASE k # n + 1
    <3>1. k \in 1 .. n /\ k - 1 # n
      BY <1>1, <2>4
    <3>2. (f + (k - 1)) % s # (f + n) % s
      BY <1>1, <2>1, <3>1, Apart
    <3> QED  BY <1>1, <1>2, <1>3, <2>1, <2>2, <3>1, <3>2 DEF r
  <2> QED  BY <2>3, <2>4
<1>6. \A k \in 1 .. (n + 1) : Waiting(p)'[k] = Len(ran'[p]) + k
  BY <1>5 DEF Waiting, f, n, s, a
<1>7. posted'[p] = a + (n + 1) /\ n + 1 <= s
  BY <1>1, <1>2
<1> QED  BY <1>4, <1>6, <1>7 DEF Ring, f, n, s, a, r

\* A priority that is not being served, before the step and after it.
LEMMA BystanderKept ==
    ASSUME NEW q \in TaskPrios, Loaded(q), Ring(q),
           ~ Taking(q), ~ Taking(q)', ~ Clearing(q)',
           count'[q] = count[q], offset'[q] = offset[q], slot'[q] = slot[q],
           reserved'[q] = reserved[q], posted'[q] = posted[q], ran'[q] = ran[q],
           q \in bits' <=> q \in bits,
           ~ (stack' # << >> /\ Top'.pc = "store" /\ Top'.prio = q),
           stack' # << >> /\ Top'.pc = "clear" /\ q \in bits' => q \in Top'.word
    PROVE  Loaded(q)' /\ Ring(q)'
<1>1. First(q)' = First(q) /\ Pending(q)' = Pending(q)
  BY DEF First, Pending
<1>2. Ring(q)'
  BY <1>1, RingKept
<1>3. Loaded(q)'
  BY DEF Loaded
<1> QED  BY <1>2, <1>3

-----------------------------------------------------------------------------
LEMMA InitInv == Init => IInv
<1> SUFFICES ASSUME Init PROVE IInv
  OBVIOUS
<1>1. \A p \in Prios : Size[p] \in Nat \ {0}
  BY SizeFacts
<1> USE DEF Init
<1>2. TypeOK
  <2>1. \A p \in Prios : slot[p] \in [0 .. (Size[p] - 1) -> Nat]
    BY <1>1
  <2>2. stack \in Seq(Frames) /\ ran \in [Prios -> Seq(Nat)]
    BY EmptySeq
  <2> QED  BY <1>1, <2>1, <2>2 DEF TypeOK
<1>3. CallInv /\ BitsInv
  <2>1. Len(stack) = 0
    BY EmptySeq
  <2> QED  BY <2>1 DEF CallInv, BitsInv
<1>4. TaskInv
  <2> SUFFICES ASSUME NEW p \in TaskPrios PROVE Loaded(p) /\ Ring(p)
    BY DEF TaskInv
  <2>1. p \in Prios
    BY DEF Prios
  <2>2. First(p) = 0 /\ Pending(p) = 0 /\ ~ Taking(p)
    BY <2>1 DEF First, Pending, Taking
  <2>3. 0 % Size[p] = 0 /\ Size[p] \in Nat
    BY <1>1, <2>1, AfterFacts
  <2>4. Len(ran[p]) = 0 /\ posted[p] = 0 /\ reserved[p] = 0
    BY <2>1, EmptySeq
  <2>5. Ring(p)
    BY <2>2, <2>3, <2>4 DEF Ring
  <2>6. Loaded(p)
    BY <2>1 DEF Loaded, Clearing
  <2> QED  BY <2>5, <2>6
<1> QED  BY <1>2, <1>3, <1>4 DEF IInv, EtsInv

\* An event is posted: by an interrupt at any time, by a task or start-up code
\* only when no call of ets_run_once is under way.
LEMMA PostStep ==
    ASSUME IInv, NEW p \in Prios, ets_post(p),
           p \in TaskPrios => stack = << >> \/ Top.pc = "task"
    PROVE  IInv'
<1> USE DEF IInv, EtsInv
<1>1. /\ count[p] # Size[p]
      /\ slot' = [slot EXCEPT ![p][reserved[p]] = posted[p] + 1]
      /\ reserved' = [reserved EXCEPT ![p] = After(p, @)]
      /\ count' = [count EXCEPT ![p] = @ + 1]
      /\ bits' = bits \cup {p}
      /\ posted' = [posted EXCEPT ![p] = @ + 1]
      /\ offset' = offset /\ stack' = stack /\ ran' = ran
      /\ Top' = Top
  BY DEF ets_post, Top
<1>2. /\ Size[p] \in Nat /\ count[p] \in Nat /\ count[p] < Size[p]
      /\ reserved[p] \in 0 .. (Size[p] - 1)
      /\ After(p, reserved[p]) \in Nat /\ After(p, reserved[p]) < Size[p]
      /\ posted[p] \in Nat /\ slot[p] \in [0 .. (Size[p] - 1) -> Nat]
  BY <1>1, AfterFacts DEF TypeOK
<1>3. /\ slot'[p] = [slot[p] EXCEPT ![reserved[p]] = posted[p] + 1]
      /\ reserved'[p] = After(p, reserved[p]) /\ count'[p] = count[p] + 1
      /\ posted'[p] = posted[p] + 1
      /\ slot' = [q \in Prios |-> slot'[q]]
      /\ \A q \in Prios \ {p} :
             /\ slot'[q] = slot[q] /\ reserved'[q] = reserved[q]
             /\ count'[q] = count[q] /\ posted'[q] = posted[q]
  <2>1. slot = [q \in Prios |-> slot[q]]
    BY DEF TypeOK
  <2>2. slot' = [q \in Prios |-> IF q = p THEN [slot[p] EXCEPT ![reserved[p]] = posted[p] + 1]
                                 ELSE slot[q]]
    BY <1>1, <2>1
  <2> QED  BY <1>1, <2>2 DEF TypeOK
<1>4. TypeOK'
  <2>1. /\ bits' \subseteq Prios /\ reserved' \in [Prios -> Nat] /\ count' \in [Prios -> Nat]
        /\ posted' \in [Prios -> Nat]
    <3>1. bits' \subseteq Prios
      BY <1>1, <1>2 DEF TypeOK
    <3>2. reserved' \in [Prios -> Nat]
      BY <1>1, <1>2 DEF TypeOK
    <3>3. count' \in [Prios -> Nat]
      BY <1>1, <1>2 DEF TypeOK
    <3>4. posted' \in [Prios -> Nat]
      BY <1>1, <1>2 DEF TypeOK
    <3> QED  BY <3>1, <3>2, <3>3, <3>4
  <2>2. slot'[p] \in [0 .. (Size[p] - 1) -> Nat]
    <3> DEFINE s == slot[p]
               v == posted[p] + 1
    <3>1. s \in [0 .. (Size[p] - 1) -> Nat] /\ v \in Nat
      BY <1>2 DEF TypeOK
    <3>2. slot'[p] = [s EXCEPT ![reserved[p]] = v]
      BY <1>3
    <3> HIDE DEF s, v
    <3> QED  BY <3>1, <3>2
  <2>3. ASSUME NEW q \in Prios
        PROVE  /\ reserved'[q] < Size[q] /\ offset'[q] < Size[q] /\ count'[q] <= Size[q]
               /\ slot'[q] \in [0 .. (Size[q] - 1) -> Nat]
    <3>1. CASE q = p
      BY <1>1, <1>2, <1>3, <2>2, <3>1 DEF TypeOK
    <3>2. CASE q # p
      BY <1>1, <1>3, <3>2 DEF TypeOK
    <3> QED  BY <3>1, <3>2
  <2> QED  BY <1>1, <1>3, <2>1, <2>3 DEF TypeOK
<1>5. CallInv'
  <2>1. ASSUME NEW q \in Prios
        PROVE  count[q] \in Nat /\ count'[q] \in Nat /\ count[q] <= count'[q]
    <3>1. count[q] \in Nat
      BY DEF TypeOK
    <3>2. count'[q] = IF q = p THEN count[q] + 1 ELSE count[q]
      BY <1>3
    <3> QED  BY <3>1, <3>2
  <2>2. stack # << >> => Top.prio \in Prios
    BY TopFacts
  <2> QED  BY <1>1, <2>1, <2>2 DEF CallInv
<1>6. BitsInv'
  <2> SUFFICES ASSUME NEW q \in bits' PROVE count'[q] > 0 \/ Clearing(q)'
    BY DEF BitsInv
  <2>1. CASE q = p
    BY <1>2, <1>3, <2>1
  <2>2. CASE q # p
    BY <1>1, <1>3, <2>2 DEF BitsInv, Clearing, TypeOK
  <2> QED  BY <2>1, <2>2
<1>7. \A q : /\ Taking(q)' <=> Taking(q)
             /\ Uncounted(q)' <=> Uncounted(q)
             /\ Clearing(q)' <=> Clearing(q)
  BY <1>1 DEF Taking, Uncounted, Clearing
<1>8. TaskInv'
  <2> SUFFICES ASSUME NEW q \in TaskPrios PROVE Loaded(q)' /\ Ring(q)'
    BY DEF TaskInv
  <2>1. Loaded(q) /\ Ring(q) /\ q \in Prios
    BY DEF TaskInv, Prios
  <2>2. CASE q = p
    <3>1. stack = << >> \/ Top.pc = "task"
      BY <2>2
    <3>2. ~ Taking(p) /\ ~ Clearing(p) /\ ~ Taking(p)'
      BY <1>7, <3>1 DEF Taking, Clearing, RunOnce
    <3>3. First(p)' = First(p) /\ Pending(p) = count[p] /\ Pending(p)' = count[p] + 1
      BY <1>1, <1>3, <3>2 DEF First, Pending
    <3>4. Ring(p)'
      BY <1>1, <1>2, <1>3, <2>1, <2>2, <3>2, <3>3, RingAccepted
    <3>5. Loaded(p)'
      BY <1>1, <1>7, <3>1, <3>2 DEF Loaded
    <3> QED  BY <2>2, <3>4, <3>5
  <2>3. CASE q # p
    <3>1. /\ slot'[q] = slot[q] /\ reserved'[q] = reserved[q] /\ count'[q] = count[q]
          /\ posted'[q] = posted[q] /\ ran'[q] = ran[q] /\ offset'[q] = offset[q]
          /\ q \in bits' <=> q \in bits
      BY <1>1, <1>3, <2>1, <2>3
    <3>2. First(q)' = First(q) /\ Pending(q)' = Pending(q)
      BY <1>1, <1>7, <3>1 DEF First, Pending
    <3>3. Ring(q)'
      <4>1. Taking(q)' => offset'[q] = After(q, Top'.event)
        BY <1>1, <1>7, <2>1, <3>1 DEF Ring
      <4> QED  BY <2>1, <3>1, <3>2, <4>1, RingKept
    <3>4. Loaded(q)'
      BY <1>1, <1>7, <2>1, <3>1 DEF Loaded
    <3> QED  BY <3>3, <3>4
  <2> QED  BY <2>2, <2>3
<1> QED  BY <1>4, <1>5, <1>6, <1>8

\* The kernel's loop handles an event.
LEMMA RunStep ==
    ASSUME IInv, ets_run
    PROVE  IInv'
<1> USE DEF IInv, EtsInv
<1>0. bits # {} /\ Highest(bits) \in bits
  BY HighestFacts DEF ets_run, TypeOK
<1>p. PICK p \in bits : p = Highest(bits)
  BY <1>0
<1> DEFINE t == Frame("task", p, 0)
<1>1. /\ stack = << >>
      /\ offset' = [offset EXCEPT ![p] = After(p, @)]
      /\ count' = [count EXCEPT ![p] = @ - 1]
      /\ bits' = IF count[p] = 1 THEN bits \ {p} ELSE bits
      /\ ran' = [ran EXCEPT ![p] = Append(@, slot[p][offset[p]])]
      /\ stack' = <<t>>
      /\ reserved' = reserved /\ slot' = slot /\ posted' = posted
  BY <1>p DEF ets_run
<1>2. p \in bits /\ p \in Prios
  BY DEF TypeOK
<1>3. /\ count[p] \in Nat /\ count[p] > 0 /\ Size[p] \in Nat \ {0}
      /\ offset[p] \in 0 .. (Size[p] - 1)
      /\ After(p, offset[p]) \in Nat /\ After(p, offset[p]) < Size[p]
      /\ slot[p][offset[p]] \in Nat
  <2>1. count[p] \in Nat /\ count[p] > 0
    BY <1>1, <1>2 DEF TypeOK, BitsInv, Clearing
  <2>2. Size[p] \in Nat \ {0}
    BY <1>2, SizeFacts
  <2>3. offset[p] \in 0 .. (Size[p] - 1)
    BY <1>2, <2>2 DEF TypeOK
  <2>4. slot[p][offset[p]] \in Nat
    BY <1>2, <2>3 DEF TypeOK
  <2> QED  BY <1>2, <2>1, <2>2, <2>3, <2>4, AfterFacts
<1>4. t \in Frames /\ t.pc = "task" /\ t.prio = p /\ t.event = 0
  BY <1>2, FrameFacts
<1>5. stack' \in Seq(Frames) /\ Len(stack') = 1 /\ Top' = t /\ stack' # << >>
  BY <1>1, <1>4 DEF Top
<1> HIDE DEF t
<1>6. /\ offset'[p] = After(p, offset[p]) /\ count'[p] = count[p] - 1
      /\ ran'[p] = Append(ran[p], slot[p][offset[p]])
      /\ \A q \in Prios \ {p} :
             /\ offset'[q] = offset[q] /\ count'[q] = count[q] /\ ran'[q] = ran[q]
             /\ q \in bits' <=> q \in bits
      /\ p \in bits' <=> count[p] # 1
  BY <1>1, <1>2 DEF TypeOK
<1>7. TypeOK'
  <2>1. offset' \in [Prios -> Nat] /\ count' \in [Prios -> Nat] /\ bits' \subseteq Prios
    BY <1>1, <1>2, <1>3 DEF TypeOK
  <2>2. ran' \in [Prios -> Seq(Nat)]
    BY <1>1, <1>2, <1>3, AppendProperties DEF TypeOK
  <2>3. ASSUME NEW q \in Prios
        PROVE  offset'[q] < Size[q] /\ count'[q] <= Size[q]
    <3>1. offset[q] < Size[q] /\ count[q] <= Size[q] /\ count[q] \in Nat /\ Size[q] \in Nat
      BY SizeFacts DEF TypeOK
    <3>2. CASE q = p
      BY <1>3, <1>6, <3>1, <3>2
    <3>3. CASE q # p
      BY <1>6, <3>1, <3>3
    <3> QED  BY <3>2, <3>3
  <2> QED  BY <1>1, <1>5, <2>1, <2>2, <2>3 DEF TypeOK
<1>8. CallInv'
  BY <1>2, <1>3, <1>4, <1>5 DEF CallInv
<1>9. BitsInv'
  BY <1>1, <1>2, <1>3, <1>6 DEF BitsInv, Clearing, TypeOK
<1>10. \A q : ~ Taking(q) /\ ~ Taking(q)' /\ ~ Clearing(q) /\ ~ Clearing(q)'
  BY <1>1, <1>4, <1>5 DEF Taking, Clearing, RunOnce
<1>11. TaskInv'
  <2> SUFFICES ASSUME NEW q \in TaskPrios PROVE Loaded(q)' /\ Ring(q)'
    BY DEF TaskInv
  <2>1. Loaded(q) /\ Ring(q) /\ q \in Prios
    BY DEF TaskInv, Prios
  <2>2. CASE q = p
    <3>1. /\ First(p) = offset[p] /\ Pending(p) = count[p]
          /\ First(p)' = After(p, offset[p]) /\ Pending(p)' = count[p] - 1
      BY <1>6, <1>10 DEF First, Pending
    <3>2. Ring(p)'
      BY <1>1, <1>3, <1>6, <1>10, <2>1, <2>2, <3>1, RingHandled
    <3>3. Loaded(p)'
      BY <1>3, <1>4, <1>5, <1>6, <1>10 DEF Loaded
    <3> QED  BY <2>2, <3>2, <3>3
  <2>3. CASE q # p
    BY <1>1, <1>4, <1>5, <1>6, <1>10, <2>1, <2>3, BystanderKept
  <2> QED  BY <2>2, <2>3
<1> QED  BY <1>7, <1>8, <1>9, <1>11

\* A task returns, or calls delay() and a priority to serve is found.
LEMMA StackStep ==
    ASSUME IInv, Return \/ Select
    PROVE  IInv'
<1> USE DEF IInv, EtsInv
<1>1. /\ stack # << >> /\ Top.pc = "task"
      /\ UNCHANGED <<bits, reserved, offset, count, slot, posted, ran>>
  BY DEF Return, Select, Step
<1>2. Len(stack) \in Nat \ {0} /\ stack \in Seq(Frames)
  BY <1>1, TopFacts DEF TypeOK
<1>3. /\ stack' \in Seq(Frames)
      /\ \A k \in 1 .. (Len(stack') - 1) : stack'[k].pc = "task"
      /\ stack' # << >> =>
             \/ Top'.pc = "task"
             \/ Top'.pc = "index" /\ Top'.prio \in bits /\ Top'.event < Size[Top'.prio]
  <2>1. CASE Return
    <3>1. stack' = SubSeq(stack, 1, Len(stack) - 1)
      BY <2>1 DEF Return, Front
    <3>2. \A j \in 1 .. (Len(stack) - 1) : stack[j] \in Frames /\ stack[j].pc = "task"
      BY <1>2, ElementOfSeq DEF CallInv
    <3>3. /\ stack' \in Seq(Frames) /\ Len(stack') = Len(stack) - 1
          /\ \A j \in 1 .. (Len(stack) - 1) : stack'[j] = stack[j]
      <4> DEFINE n == Len(stack) - 1
      <4>1. n \in Nat /\ n \in 0 .. Len(stack)
        BY <1>2
      <4>2. stack' = [j \in 1 .. n |-> stack[j]]
        BY <1>2, <3>1, <4>1, SubSeqRestrict DEF Restrict
      <4> HIDE DEF n
      <4>3. stack' \in [1 .. n -> Frames] /\ \A j \in 1 .. n : stack'[j] = stack[j]
        BY <3>2, <4>2 DEF n
      <4>4. stack' \in Seq(Frames)
        BY <4>1, <4>3, SeqDef
      <4>5. Len(stack') = n
        BY <4>1, <4>3, <4>4, LenProperties
      <4> QED  BY <4>3, <4>4, <4>5 DEF n
    <3>4. stack' # << >> => Len(stack') \in 1 .. (Len(stack) - 1)
      BY <1>2, <3>3, EmptySeq
    <3>5. stack' # << >> => Top'.pc = "task"
      BY <3>2, <3>3, <3>4 DEF Top
    <3>6. \A k \in 1 .. (Len(stack') - 1) : k \in 1 .. (Len(stack) - 1)
      BY <1>2, <3>3
    <3> QED  BY <3>2, <3>3, <3>5, <3>6
  <2>2. CASE Select
    <3> DEFINE p == Highest(bits \cap Mask)
               f == Frame("index", p, 0)
    <3>0. bits \cap Mask \subseteq Prios /\ bits \cap Mask # {}
      BY <2>2 DEF Select, TypeOK
    <3>1. p \in bits /\ p \in Prios /\ Size[p] \in Nat \ {0}
      <4>1. p \in bits \cap Mask
        BY <3>0, HighestFacts
      <4> QED  BY <3>0, <4>1, SizeFacts
    <3> HIDE DEF p
    <3>2. f \in Frames /\ f.pc = "index" /\ f.prio = p /\ f.event = 0
      BY <3>1, FrameFacts DEF RunOnce
    <3>3. stack' = Append(stack, f)
      BY <2>2 DEF Select, p
    <3> HIDE DEF f
    <3>4. /\ stack' \in Seq(Frames) /\ Len(stack') = Len(stack) + 1
          /\ \A j \in 1 .. Len(stack) : stack'[j] = stack[j]
          /\ stack'[Len(stack) + 1] = f
      BY <1>2, <3>2, <3>3, AppendProperties
    <3>5. Top' = f
      BY <3>4 DEF Top
    <3>6. \A k \in 1 .. Len(stack) : stack[k].pc = "task"
      BY <1>1, <1>2 DEF CallInv, Top
    <3> QED  BY <1>2, <3>1, <3>2, <3>4, <3>5, <3>6
  <2> QED  BY <2>1, <2>2
<1>4. TypeOK'
  BY <1>1, <1>3 DEF TypeOK
<1>5. \A q : ~ Taking(q) /\ ~ Taking(q)' /\ ~ Clearing(q) /\ ~ Clearing(q)'
  BY <1>1, <1>3 DEF Taking, Clearing, RunOnce
<1>6. BitsInv'
  BY <1>1, <1>5 DEF BitsInv
<1>7. CallInv'
  BY <1>1, <1>3, <1>5, <1>6 DEF CallInv, BitsInv
<1>8. TaskInv'
  <2> SUFFICES ASSUME NEW q \in TaskPrios PROVE Loaded(q)' /\ Ring(q)'
    BY DEF TaskInv
  <2>1. Loaded(q) /\ Ring(q)
    BY DEF TaskInv
  <2>2. stack' # << >> => Top'.pc # "store" /\ Top'.pc # "clear"
    BY <1>3
  <2> QED  BY <1>1, <1>5, <2>1, <2>2, BystanderKept
<1> QED  BY <1>4, <1>6, <1>7, <1>8

-----------------------------------------------------------------------------
\* A step of ets_run_once for priority p leaves the queues of all others alone.
LEMMA OthersKept ==
    ASSUME IInv, NEW p \in Prios, stack # << >>, Top.prio = p,
           NEW f \in Frames, f.prio = p, Become(f),
           UNCHANGED <<reserved, slot, posted>>,
           \A q \in Prios \ {p} :
               offset'[q] = offset[q] /\ count'[q] = count[q] /\ ran'[q] = ran[q],
           bits' \subseteq bits,
           \A q \in TaskPrios \ {p} : q \in bits => q \in bits',
           f.pc = "clear" => \A q \in TaskPrios : q \in bits' => q \in f.word
    PROVE  /\ \A q \in TaskPrios \ {p} : Loaded(q)' /\ Ring(q)'
           /\ \A q \in bits' \ {p} : count'[q] > 0
<1> USE DEF IInv, EtsInv
<1>1. stack' # << >> /\ Top' = f
  BY BecomeFacts
<1>2. \A q \in Prios \ {p} : ~ Taking(q) /\ ~ Taking(q)' /\ ~ Clearing(q) /\ ~ Clearing(q)'
  BY <1>1 DEF Taking, Clearing
<1>3. ASSUME NEW q \in TaskPrios \ {p}
      PROVE  Loaded(q)' /\ Ring(q)'
  <2>1. Loaded(q) /\ Ring(q) /\ q \in Prios
    BY DEF TaskInv, Prios
  <2>2. q \in bits' <=> q \in bits
    OBVIOUS
  <2> QED  BY <1>1, <1>2, <2>1, <2>2, BystanderKept
<1>4. \A q \in bits' \ {p} : count'[q] > 0
  <2>1. bits' \subseteq Prios
    BY DEF TypeOK
  <2> QED  BY <1>2, <2>1 DEF BitsInv
<1> QED  BY <1>3, <1>4

\* Where ets_run_once stands: a priority, and what it has loaded.
LEMMA ServeFacts ==
    ASSUME IInv, stack # << >>, NEW p, p = Top.prio
    PROVE  /\ p \in Prios /\ Size[p] \in Nat \ {0} /\ Size[p] <= 255
           /\ offset[p] \in 0 .. (Size[p] - 1) /\ count[p] \in 0 .. Size[p]
           /\ Top \in Frames /\ Top.event \in Nat /\ Top.held \in Nat
<1>1. p \in Prios /\ Top \in Frames /\ Top.event \in Nat /\ Top.held \in Nat
  BY TopFacts DEF IInv
<1>2. Size[p] \in Nat \ {0} /\ Size[p] <= 255
  BY <1>1, SizeFacts
<1> QED  BY <1>1, <1>2 DEF IInv, TypeOK

LEMMA IndexStep ==
    ASSUME IInv, Index
    PROVE  IInv'
<1> USE DEF IInv, EtsInv
<1>1. PICK p : p = Top.prio
  OBVIOUS
<1> DEFINE f == Frame("count", p, offset[p])
<1>2. /\ stack # << >> /\ Top.pc = "index" /\ Become(f)
      /\ offset' = [offset EXCEPT ![p] = After(p, @)]
      /\ UNCHANGED <<bits, count, ran, reserved, slot, posted>>
  BY <1>1 DEF Index, Step
<1>3. /\ p \in Prios /\ Size[p] \in Nat \ {0} /\ offset[p] \in 0 .. (Size[p] - 1)
  BY <1>1, <1>2, ServeFacts
<1>4. /\ f \in Frames /\ f.pc = "count" /\ f.prio = p /\ f.event = offset[p]
  BY <1>3, FrameFacts DEF RunOnce
<1> HIDE DEF f
<1>5. /\ stack' \in Seq(Frames) /\ stack' # << >> /\ Top' = f
      /\ \A k \in 1 .. (Len(stack') - 1) : stack'[k].pc = "task"
  BY <1>2, <1>4, BecomeFacts
<1>6. After(p, offset[p]) \in Nat /\ After(p, offset[p]) < Size[p]
  BY <1>3, AfterFacts
<1>7. /\ offset'[p] = After(p, offset[p])
      /\ \A q \in Prios \ {p} : offset'[q] = offset[q]
  BY <1>2, <1>3 DEF TypeOK
<1>8. TypeOK'
  <2>1. offset' \in [Prios -> Nat]
    BY <1>2, <1>6 DEF TypeOK
  <2>2. \A q \in Prios : offset'[q] < Size[q]
    BY <1>6, <1>7 DEF TypeOK
  <2> QED  BY <1>2, <1>5, <2>1, <2>2 DEF TypeOK
<1>9. /\ \A q \in TaskPrios \ {p} : Loaded(q)' /\ Ring(q)'
      /\ \A q \in bits' \ {p} : count'[q] > 0
  BY <1>1, <1>2, <1>3, <1>4, <1>7, OthersKept
<1>10. count[p] > 0
  BY <1>1, <1>2 DEF CallInv
<1>11. CallInv'
  BY <1>2, <1>3, <1>4, <1>5, <1>10 DEF CallInv
<1>12. BitsInv'
  BY <1>2, <1>9, <1>10 DEF BitsInv
<1>13. ASSUME p \in TaskPrios
       PROVE  Loaded(p)' /\ Ring(p)'
  <2>1. Loaded(p) /\ Ring(p)
    BY <1>13 DEF TaskInv
  <2>2. ~ Taking(p) /\ Taking(p)' /\ Uncounted(p)' /\ ~ Clearing(p)'
    BY <1>2, <1>4, <1>5 DEF Taking, Uncounted, Clearing, RunOnce
  <2>3. First(p)' = First(p) /\ Pending(p)' = Pending(p)
    BY <1>2, <1>4, <1>5, <2>2 DEF First, Pending
  <2>4. Ring(p)'
    BY <1>2, <1>4, <1>5, <1>7, <1>13, <2>1, <2>3, RingKept
  <2>5. Loaded(p)'
    BY <1>2, <1>4, <1>5, <2>1, <2>2 DEF Loaded
  <2> QED  BY <2>4, <2>5
<1> QED  BY <1>8, <1>9, <1>11, <1>12, <1>13 DEF TaskInv

LEMMA LoadCountStep ==
    ASSUME IInv, LoadCount
    PROVE  IInv'
<1> USE DEF IInv, EtsInv
<1>1. PICK p : p = Top.prio
  OBVIOUS
<1> DEFINE f == [Top EXCEPT !.pc = "store", !.held = count[p]]
<1>2. /\ stack # << >> /\ Top.pc = "count" /\ Become(f)
      /\ UNCHANGED <<bits, offset, count, ran, reserved, slot, posted>>
  BY <1>1 DEF LoadCount, Step
<1>3. /\ p \in Prios /\ count[p] \in Nat /\ Top \in Frames
  BY <1>1, <1>2, ServeFacts
<1>4. /\ f \in Frames /\ f.pc = "store" /\ f.prio = p /\ f.event = Top.event
      /\ f.held = count[p]
  BY <1>1, <1>3 DEF Frames, RunOnce
<1> HIDE DEF f
<1>5. /\ stack' \in Seq(Frames) /\ stack' # << >> /\ Top' = f
      /\ \A k \in 1 .. (Len(stack') - 1) : stack'[k].pc = "task"
  BY <1>2, <1>4, BecomeFacts
<1>8. TypeOK'
  BY <1>2, <1>5 DEF TypeOK
<1>9. /\ \A q \in TaskPrios \ {p} : Loaded(q)' /\ Ring(q)'
      /\ \A q \in bits' \ {p} : count'[q] > 0
  BY <1>1, <1>2, <1>3, <1>4, OthersKept
<1>10. count[p] > 0 /\ Top.event < Size[p]
  BY <1>1, <1>2 DEF CallInv
<1>11. CallInv'
  BY <1>2, <1>3, <1>4, <1>5, <1>10 DEF CallInv
<1>12. BitsInv'
  BY <1>2, <1>9, <1>10 DEF BitsInv
<1>13. ASSUME p \in TaskPrios
       PROVE  Loaded(p)' /\ Ring(p)'
  <2>1. Loaded(p) /\ Ring(p)
    BY <1>13 DEF TaskInv
  <2>2. /\ Taking(p) /\ Uncounted(p) /\ Taking(p)' /\ Uncounted(p)' /\ ~ Clearing(p)'
    BY <1>1, <1>2, <1>4, <1>5 DEF Taking, Uncounted, Clearing, RunOnce
  <2>3. First(p)' = First(p) /\ Pending(p)' = Pending(p)
    BY <1>2, <1>4, <1>5, <2>2 DEF First, Pending
  <2>4. Ring(p)'
    <3>1. offset'[p] = After(p, Top'.event)
      BY <1>2, <1>4, <1>5, <2>1, <2>2 DEF Ring
    <3> QED  BY <1>2, <1>13, <2>1, <2>3, <3>1, RingKept
  <2>5. Loaded(p)'
    BY <1>2, <1>4, <1>5, <2>1, <2>2 DEF Loaded
  <2> QED  BY <2>4, <2>5
<1> QED  BY <1>8, <1>9, <1>11, <1>12, <1>13 DEF TaskInv

LEMMA StoreCountStep ==
    ASSUME IInv, StoreCount
    PROVE  IInv'
<1> USE DEF IInv, EtsInv
<1>1. PICK p, h : p = Top.prio /\ h = Top.held
  OBVIOUS
<1> DEFINE f == [Top EXCEPT !.pc = IF h = 1 THEN "bits" ELSE "call", !.held = 0]
<1>2. /\ stack # << >> /\ Top.pc = "store" /\ Become(f)
      /\ count' = [count EXCEPT ![p] = (h - 1) % 256]
      /\ UNCHANGED <<bits, offset, ran, reserved, slot, posted>>
  BY <1>1 DEF StoreCount, Step
<1>3. /\ p \in Prios /\ count[p] \in 0 .. Size[p] /\ Top \in Frames
      /\ Size[p] \in Nat /\ Size[p] <= 255
  BY <1>1, <1>2, ServeFacts
<1>4. /\ f \in Frames /\ f.pc = (IF h = 1 THEN "bits" ELSE "call") /\ f.prio = p
      /\ f.event = Top.event
  <2> DEFINE pc == IF h = 1 THEN "bits" ELSE "call"
  <2>1. pc \in RunOnce \cup {"task"}
    BY DEF RunOnce
  <2> HIDE DEF pc
  <2>2. f = Moved(Top, pc, 0)
    BY DEF Moved, pc
  <2>3. Top \in Frames /\ 0 \in Nat
    BY <1>3
  <2> HIDE DEF f
  <2> QED  BY <1>1, <2>1, <2>2, <2>3, MovedFacts DEF pc
<1> HIDE DEF f
<1>5. /\ stack' \in Seq(Frames) /\ stack' # << >> /\ Top' = f
      /\ \A k \in 1 .. (Len(stack') - 1) : stack'[k].pc = "task"
  BY <1>2, <1>4, BecomeFacts
<1>6. h \in 1 .. count[p] /\ count[p] > 0 /\ Top.event < Size[p]
  BY <1>1, <1>2 DEF CallInv
<1>7. /\ count'[p] = h - 1 /\ h - 1 \in Nat /\ h - 1 <= Size[p] /\ (h - 1) % 256 = h - 1
      /\ \A q \in Prios \ {p} : count'[q] = count[q]
      /\ count' = [q \in Prios |-> count'[q]]
  <2>1. h - 1 \in 0 .. 255
    BY <1>3, <1>6
  <2>2. (h - 1) % 256 = h - 1
    BY <2>1
  <2> DEFINE c == (h - 1) % 256
  <2>3. /\ count'[p] = c /\ \A q \in Prios \ {p} : count'[q] = count[q]
        /\ count' = [q \in Prios |-> count'[q]]
    <3>1. count' = [count EXCEPT ![p] = c]
      BY <1>2, Zenon
    <3>2. p \in Prios /\ DOMAIN count = Prios
      BY <1>3 DEF TypeOK
    <3> HIDE DEF c
    <3> QED  BY <3>1, <3>2
  <2> QED  BY <1>3, <1>6, <2>1, <2>2, <2>3
<1>8. TypeOK'
  <2>1. count' \in [Prios -> Nat]
    <3>1. \A q \in Prios : count'[q] \in Nat
      BY <1>7 DEF TypeOK
    <3> QED  BY <1>7, <3>1
  <2>2. ASSUME NEW q \in Prios
        PROVE  count'[q] <= Size[q]
    <3>1. CASE q = p
      BY <1>7, <3>1
    <3>2. CASE q # p
      BY <1>7, <3>2 DEF TypeOK
    <3> QED  BY <3>1, <3>2
  <2> QED  BY <1>2, <1>5, <2>1, <2>2 DEF TypeOK
<1>9. /\ \A q \in TaskPrios \ {p} : Loaded(q)' /\ Ring(q)'
      /\ \A q \in bits' \ {p} : count'[q] > 0
  BY <1>1, <1>2, <1>3, <1>4, <1>7, OthersKept
<1>11. CallInv'
  BY <1>2, <1>4, <1>5, <1>6 DEF CallInv
<1>12. BitsInv'
  <2>1. count'[p] > 0 \/ h = 1
    BY <1>3, <1>6, <1>7
  <2>2. h = 1 => Clearing(p)'
    BY <1>4, <1>5 DEF Clearing
  <2> QED  BY <1>9, <2>1, <2>2 DEF BitsInv
<1>13. ASSUME p \in TaskPrios
       PROVE  Loaded(p)' /\ Ring(p)'
  <2>1. Loaded(p) /\ Ring(p)
    BY <1>13 DEF TaskInv
  <2>2. /\ Taking(p) /\ Uncounted(p) /\ Taking(p)' /\ ~ Uncounted(p)'
    BY <1>1, <1>2, <1>4, <1>5 DEF Taking, Uncounted, RunOnce
  <2>3. h = count[p] /\ count[p] = count'[p] + 1
    BY <1>1, <1>2, <1>3, <1>7, <2>1 DEF Loaded
  <2>4. First(p)' = First(p) /\ Pending(p)' = Pending(p)
    BY <1>2, <1>4, <1>5, <2>2, <2>3 DEF First, Pending
  <2>5. Ring(p)'
    <3>1. offset'[p] = After(p, Top'.event)
      BY <1>2, <1>4, <1>5, <2>1, <2>2 DEF Ring
    <3> QED  BY <1>2, <1>13, <2>1, <2>4, <3>1, RingKept
  <2>6. Loaded(p)'
    <3>1. Clearing(p)' => h = 1
      BY <1>4, <1>5 DEF Clearing
    <3> QED  BY <1>2, <1>4, <1>5, <1>6, <1>7, <2>1, <3>1 DEF Loaded
  <2> QED  BY <2>5, <2>6
<1> QED  BY <1>8, <1>9, <1>11, <1>12, <1>13 DEF TaskInv

LEMMA LoadBitsStep ==
    ASSUME IInv, LoadBits
    PROVE  IInv'
<1> USE DEF IInv, EtsInv
<1>1. PICK p : p = Top.prio
  OBVIOUS
<1> DEFINE f == [Top EXCEPT !.pc = "clear", !.word = bits]
<1>2. /\ stack # << >> /\ Top.pc = "bits" /\ Become(f)
      /\ UNCHANGED <<bits, offset, count, ran, reserved, slot, posted>>
  BY <1>1 DEF LoadBits, Step
<1>3. /\ p \in Prios /\ Top \in Frames /\ bits \subseteq Prios
  BY <1>1, <1>2, ServeFacts DEF TypeOK
<1>4. /\ f \in Frames /\ f.pc = "clear" /\ f.prio = p /\ f.event = Top.event
      /\ f.word = bits
  BY <1>1, <1>3 DEF Frames, RunOnce
<1> HIDE DEF f
<1>5. /\ stack' \in Seq(Frames) /\ stack' # << >> /\ Top' = f
      /\ \A k \in 1 .. (Len(stack') - 1) : stack'[k].pc = "task"
  BY <1>2, <1>4, BecomeFacts
<1>8. TypeOK'
  BY <1>2, <1>5 DEF TypeOK
<1>9. /\ \A q \in TaskPrios \ {p} : Loaded(q)' /\ Ring(q)'
      /\ \A q \in bits' \ {p} : count'[q] > 0
  BY <1>1, <1>2, <1>3, <1>4, OthersKept
<1>10. Top.event < Size[p]
  BY <1>1, <1>2 DEF CallInv
<1>11. CallInv'
  BY <1>2, <1>4, <1>5, <1>10 DEF CallInv
<1>12. Clearing(p) /\ Clearing(p)'
  BY <1>1, <1>2, <1>4, <1>5 DEF Clearing
<1>13. BitsInv'
  BY <1>9, <1>12 DEF BitsInv
<1>14. ASSUME p \in TaskPrios
       PROVE  Loaded(p)' /\ Ring(p)'
  <2>1. Loaded(p) /\ Ring(p)
    BY <1>14 DEF TaskInv
  <2>2. /\ Taking(p) /\ ~ Uncounted(p) /\ Taking(p)' /\ ~ Uncounted(p)'
    BY <1>1, <1>2, <1>4, <1>5 DEF Taking, Uncounted, RunOnce
  <2>3. First(p)' = First(p) /\ Pending(p)' = Pending(p)
    BY <1>2, <1>4, <1>5, <2>2 DEF First, Pending
  <2>4. Ring(p)'
    <3>1. offset'[p] = After(p, Top'.event)
      BY <1>2, <1>4, <1>5, <2>1, <2>2 DEF Ring
    <3> QED  BY <1>2, <1>14, <2>1, <2>3, <3>1, RingKept
  <2>5. Loaded(p)'
    BY <1>2, <1>4, <1>5, <1>12, <2>1 DEF Loaded
  <2> QED  BY <2>4, <2>5
<1> QED  BY <1>8, <1>9, <1>11, <1>13, <1>14 DEF TaskInv

LEMMA ClearBitStep ==
    ASSUME IInv, ClearBit
    PROVE  IInv'
<1> USE DEF IInv, EtsInv
<1>1. PICK p : p = Top.prio
  OBVIOUS
<1> DEFINE f == [Top EXCEPT !.pc = "call", !.word = {}]
<1>2. /\ stack # << >> /\ Top.pc = "clear" /\ Become(f)
      /\ bits' = Top.word \ {p}
      /\ UNCHANGED <<offset, count, ran, reserved, slot, posted>>
  BY <1>1 DEF ClearBit, Step
<1>3. /\ p \in Prios /\ Top \in Frames /\ bits \subseteq Prios
  BY <1>1, <1>2, ServeFacts DEF TypeOK
<1>4. /\ f \in Frames /\ f.pc = "call" /\ f.prio = p /\ f.event = Top.event
  BY <1>1, <1>3 DEF Frames, RunOnce
<1> HIDE DEF f
<1>5. /\ stack' \in Seq(Frames) /\ stack' # << >> /\ Top' = f
      /\ \A k \in 1 .. (Len(stack') - 1) : stack'[k].pc = "task"
  BY <1>2, <1>4, BecomeFacts
<1>6. Top.word \subseteq bits /\ Top.event < Size[p]
  BY <1>1, <1>2 DEF CallInv
<1>7. \A q \in TaskPrios \ {p} : q \in bits => q \in bits'
  BY <1>2 DEF TaskInv, Loaded
<1>8. TypeOK'
  BY <1>2, <1>3, <1>5, <1>6 DEF TypeOK
<1>9. /\ \A q \in TaskPrios \ {p} : Loaded(q)' /\ Ring(q)'
      /\ \A q \in bits' \ {p} : count'[q] > 0
  BY <1>1, <1>2, <1>3, <1>4, <1>6, <1>7, OthersKept
<1>11. CallInv'
  BY <1>4, <1>5, <1>6 DEF CallInv
<1>12. BitsInv'
  BY <1>2, <1>9 DEF BitsInv
<1>13. ASSUME p \in TaskPrios
       PROVE  Loaded(p)' /\ Ring(p)'
  <2>1. Loaded(p) /\ Ring(p)
    BY <1>13 DEF TaskInv
  <2>2. /\ Taking(p) /\ ~ Uncounted(p) /\ Taking(p)' /\ ~ Uncounted(p)'
        /\ Clearing(p) /\ ~ Clearing(p)'
    BY <1>1, <1>2, <1>4, <1>5 DEF Taking, Uncounted, Clearing, RunOnce
  <2>3. First(p)' = First(p) /\ Pending(p)' = Pending(p)
    BY <1>2, <1>4, <1>5, <2>2 DEF First, Pending
  <2>4. Ring(p)'
    <3>1. offset'[p] = After(p, Top'.event)
      BY <1>2, <1>4, <1>5, <2>1, <2>2 DEF Ring
    <3> QED  BY <1>2, <1>13, <2>1, <2>3, <3>1, RingKept
  <2>5. Loaded(p)'
    BY <1>2, <1>4, <1>5, <2>1, <2>2 DEF Loaded
  <2> QED  BY <2>4, <2>5
<1> QED  BY <1>8, <1>9, <1>11, <1>12, <1>13 DEF TaskInv

\* The event of a call, and that it is the oldest.
LEMMA CallStep ==
    ASSUME IInv, Call
    PROVE  IInv'
<1> USE DEF IInv, EtsInv
<1>1. PICK p, e : p = Top.prio /\ e = Top.event
  OBVIOUS
<1> DEFINE f == Frame("task", p, 0)
<1>2. /\ stack # << >> /\ Top.pc = "call" /\ Become(f)
      /\ ran' = [ran EXCEPT ![p] = Append(@, slot[p][e])]
      /\ UNCHANGED <<bits, offset, count, reserved, slot, posted>>
  BY <1>1 DEF Call, Step
<1>3. /\ p \in Prios /\ e \in Nat /\ Size[p] \in Nat
  BY <1>1, <1>2, ServeFacts
<1>4. /\ f \in Frames /\ f.pc = "task" /\ f.prio = p
  BY <1>3, FrameFacts
<1> HIDE DEF f
<1>5. /\ stack' \in Seq(Frames) /\ stack' # << >> /\ Top' = f
      /\ \A k \in 1 .. (Len(stack') - 1) : stack'[k].pc = "task"
  BY <1>2, <1>4, BecomeFacts
<1>6. slot[p][e] \in Nat
  <2>1. e < Size[p]
    BY <1>1, <1>2 DEF CallInv
  <2> QED  BY <1>3, <2>1 DEF TypeOK
<1>7. /\ ran'[p] = Append(ran[p], slot[p][e])
      /\ \A q \in Prios \ {p} : ran'[q] = ran[q]
  BY <1>2, <1>3 DEF TypeOK
<1>8. TypeOK'
  <2>1. ran' \in [Prios -> Seq(Nat)]
    BY <1>2, <1>3, <1>6, AppendProperties DEF TypeOK
  <2> QED  BY <1>2, <1>5, <2>1 DEF TypeOK
<1>9. /\ \A q \in TaskPrios \ {p} : Loaded(q)' /\ Ring(q)'
      /\ \A q \in bits' \ {p} : count'[q] > 0
  BY <1>1, <1>2, <1>3, <1>4, <1>7, OthersKept
<1>11. CallInv'
  BY <1>4, <1>5 DEF CallInv
<1>12. BitsInv'
  <2>1. p \in bits => count[p] > 0
    BY <1>2 DEF BitsInv, Clearing
  <2> QED  BY <1>2, <1>9, <2>1 DEF BitsInv
<1>13. ASSUME p \in TaskPrios
       PROVE  Loaded(p)' /\ Ring(p)'
  <2>1. Loaded(p) /\ Ring(p)
    BY <1>13 DEF TaskInv
  <2>2. /\ Taking(p) /\ ~ Uncounted(p) /\ ~ Taking(p)' /\ ~ Clearing(p)'
    BY <1>1, <1>2, <1>4, <1>5 DEF Taking, Uncounted, Clearing, RunOnce
  <2>3. First(p) = e /\ Pending(p) = count[p] + 1 /\ offset[p] = After(p, e)
    BY <1>1, <2>1, <2>2 DEF First, Pending, Ring
  <2>4. First(p)' = After(p, e) /\ Pending(p)' = count[p]
    BY <1>2, <2>2, <2>3 DEF First, Pending
  <2>5. count[p] \in Nat
    BY <1>3 DEF TypeOK
  <2>6. Pending(p) > 0 /\ Pending(p)' = Pending(p) - 1
    BY <2>3, <2>4, <2>5
  <2>7. Ring(p)'
    BY <1>2, <1>7, <1>13, <2>1, <2>2, <2>3, <2>4, <2>6, RingHandled
  <2>8. Loaded(p)'
    BY <1>2, <1>4, <1>5, <2>1, <2>2 DEF Loaded
  <2> QED  BY <2>7, <2>8
<1> QED  BY <1>8, <1>9, <1>11, <1>12, <1>13 DEF TaskInv

-----------------------------------------------------------------------------
\* Every step preserves the invariant.
LEMMA NextInv == IInv /\ [Next]_vars => IInv'
<1> SUFFICES ASSUME IInv, [Next]_vars PROVE IInv'
  OBVIOUS
<1>1. ASSUME NEW p \in Prios, Interrupt(p) \/ TaskPosts(p) \/ InitPosts(p)
      PROVE  IInv'
  <2>1. ets_post(p) /\ (p \in TaskPrios => stack = << >> \/ Top.pc = "task")
    BY <1>1, EtsAssumption DEF Interrupt, TaskPosts, InitPosts, Step
  <2> QED  BY <2>1, PostStep
<1>2. CASE ets_run
  BY <1>2, RunStep
<1>3. CASE Return
  BY <1>3, StackStep
<1>4. CASE ets_run_once
  BY <1>4, StackStep, IndexStep, LoadCountStep, StoreCountStep, LoadBitsStep, ClearBitStep,
     CallStep DEF ets_run_once
<1>5. CASE UNCHANGED vars
  <2>1. UNCHANGED <<bits, reserved, offset, count, slot, stack, posted, ran>> /\ Top' = Top
    BY <1>5 DEF vars, Top
  <2>2. /\ \A p : Taking(p)' <=> Taking(p)
        /\ \A p : Uncounted(p)' <=> Uncounted(p)
        /\ \A p : Clearing(p)' <=> Clearing(p)
    BY <2>1 DEF Taking, Uncounted, Clearing
  <2>3. TypeOK' /\ CallInv' /\ BitsInv'
    BY <2>1, <2>2 DEF IInv, EtsInv, TypeOK, CallInv, BitsInv
  <2>4. \A p : First(p)' = First(p) /\ Pending(p)' = Pending(p)
    BY <2>1, <2>2 DEF First, Pending
  <2>5. TaskInv'
    BY <2>1, <2>2, <2>4 DEF IInv, EtsInv, TaskInv, Loaded, Ring, Waiting
  <2> QED  BY <2>3, <2>5 DEF IInv, EtsInv
<1> QED  BY <1>1, <1>2, <1>3, <1>4, <1>5 DEF Next

\* The inductive invariant holds in every reachable state.
THEOREM Invariant == Spec => []IInv
  BY InitInv, NextInv, PTL DEF Spec

\* Whatever interrupts do meanwhile, the ring of a queue that only tasks post to
\* holds exactly the events that were accepted and not handled.
THEOREM RingsCorrect == Spec => [](TypeOK /\ EtsInv)
  BY Invariant, PTL DEF IInv

\* No event is left behind with its bit cleared, and no bit is set without one.
THEOREM BitsCorrect == Spec => []BitTellsCount
<1>1. IInv => BitTellsCount
  <2> SUFFICES ASSUME IInv, NEW p \in TaskPrios,
                      ~ (stack # << >> /\ Top.prio = p /\ Top.pc \in RunOnce)
               PROVE  p \in bits <=> count[p] > 0
    BY DEF BitTellsCount
  <2>1. ~ Clearing(p)
    BY DEF Clearing, RunOnce
  <2> QED  BY <2>1 DEF IInv, EtsInv, BitsInv, TaskInv, Loaded
<1> QED  BY <1>1, Invariant, PTL

-----------------------------------------------------------------------------
(***************************************************************************)
(* The refinement.  What waits is determined by how many events have been  *)
(* handled and how many are pending, so a step is an Accept if one more is *)
(* accepted, a Handle if one more is handled, and otherwise a stutter.     *)
(***************************************************************************)
Run(a, n) == [k \in 1 .. n |-> a + k]

LEMMA RunFacts ==
    ASSUME NEW a \in Nat, NEW n \in Nat
    PROVE  /\ Run(a, n) \in Seq(Nat) /\ Len(Run(a, n)) = n
           /\ Run(a, n + 1) = Append(Run(a, n), a + n + 1)
           /\ n > 0 => /\ Run(a, n) # << >>
                       /\ Head(Run(a, n)) = a + 1
                       /\ Tail(Run(a, n)) = Run(a + 1, n - 1)
<1>1. \A b, m \in Nat : Run(b, m) \in Seq(Nat) /\ Len(Run(b, m)) = m
  <2> SUFFICES ASSUME NEW b \in Nat, NEW m \in Nat
               PROVE  Run(b, m) \in Seq(Nat) /\ Len(Run(b, m)) = m
    OBVIOUS
  <2>1. Run(b, m) \in [1 .. m -> Nat]
    BY DEF Run
  <2>2. Run(b, m) \in Seq(Nat)
    BY <2>1, SeqDef
  <2> QED  BY <2>1, <2>2, LenProperties
<1>2. \A b, m \in Nat : \A k \in 1 .. m : Run(b, m)[k] = b + k
  BY DEF Run
<1>3. Run(a, n + 1) = Append(Run(a, n), a + n + 1)
  <2> DEFINE r == Run(a, n)
             e == a + n + 1
  <2>1. e \in Nat /\ n + 1 \in Nat /\ r \in Seq(Nat) /\ Len(r) = n
        /\ \A k \in 1 .. n : r[k] = a + k
    BY <1>1, <1>2
  <2> HIDE DEF r
  <2>2. /\ Append(r, e) \in Seq(Nat)
        /\ Len(Append(r, e)) = n + 1
        /\ \A k \in 1 .. n : Append(r, e)[k] = a + k
        /\ Append(r, e)[n + 1] = e
    BY <2>1, AppendProperties
  <2>3. \A k \in 1 .. (n + 1) : Run(a, n + 1)[k] = Append(r, e)[k]
    <3> SUFFICES ASSUME NEW k \in 1 .. (n + 1)
                 PROVE  Run(a, n + 1)[k] = Append(r, e)[k]
      OBVIOUS
    <3>1. Run(a, n + 1)[k] = a + k
      BY <1>2, <2>1
    <3>2. k \in 1 .. n \/ k = n + 1
      OBVIOUS
    <3> QED  BY <2>2, <3>1, <3>2
  <2> DEFINE s == Append(r, e)
             t == Run(a, n + 1)
  <2>4. /\ s \in Seq(Nat) /\ t \in Seq(Nat) /\ Len(s) = n + 1 /\ Len(t) = n + 1
        /\ \A k \in 1 .. (n + 1) : t[k] = s[k]
    BY <1>1, <2>1, <2>2, <2>3
  <2> HIDE DEF s, t, e
  <2>5. t = s
    BY <2>4, SeqEqual
  <2> QED  BY <2>5 DEF s, t, r, e
<1>4. ASSUME n > 0
      PROVE  /\ Run(a, n) # << >>
             /\ Head(Run(a, n)) = a + 1
             /\ Tail(Run(a, n)) = Run(a + 1, n - 1)
  <2>1. n - 1 \in Nat /\ a + 1 \in Nat /\ 1 \in 1 .. n
    BY <1>4
  <2>2. Run(a, n) # << >>
    BY <1>1, <1>4, EmptySeq
  <2>3. Head(Run(a, n)) = a + 1
    BY <1>1, <1>2, <2>1, <2>2
  <2>4. /\ Tail(Run(a, n)) \in Seq(Nat) /\ Len(Tail(Run(a, n))) = n - 1
        /\ \A k \in 1 .. (n - 1) : Tail(Run(a, n))[k] = Run(a, n)[k + 1]
    BY <1>1, <2>2, HeadTailProperties
  <2>5. \A k \in 1 .. (n - 1) : Tail(Run(a, n))[k] = Run(a + 1, n - 1)[k]
    <3> SUFFICES ASSUME NEW k \in 1 .. (n - 1)
                 PROVE  Tail(Run(a, n))[k] = Run(a + 1, n - 1)[k]
      OBVIOUS
    <3>1. Run(a, n)[k + 1] = a + (k + 1) /\ Run(a + 1, n - 1)[k] = (a + 1) + k
      BY <1>2, <2>1
    <3> QED  BY <2>4, <3>1
  <2> DEFINE s == Tail(Run(a, n))
             t == Run(a + 1, n - 1)
  <2>6. /\ s \in Seq(Nat) /\ t \in Seq(Nat) /\ Len(s) = n - 1 /\ Len(t) = n - 1
        /\ \A k \in 1 .. (n - 1) : s[k] = t[k]
    BY <1>1, <2>1, <2>4, <2>5
  <2> HIDE DEF s, t
  <2>7. s = t
    BY <2>6, SeqEqual
  <2> QED  BY <2>2, <2>3, <2>7 DEF s, t
<1> QED  BY <1>1, <1>3, <1>4

\* What waits, by what has been accepted and handled.
Numbered == [p \in TaskPrios |-> Run(Len(ran[p]), posted[p] - Len(ran[p]))]

Counted ==
    /\ Queues = Numbered
    /\ \A p \in TaskPrios :
           /\ Len(ran[p]) \in Nat /\ ran[p] \in Seq(Nat) /\ posted[p] \in Nat
           /\ posted[p] - Len(ran[p]) \in 0 .. Size[p] /\ Size[p] \in Nat

LEMMA QueuesAreNumbered == IInv => Counted
<1> SUFFICES ASSUME IInv PROVE Counted
  OBVIOUS
<1>1. ASSUME NEW p \in TaskPrios
      PROVE  /\ Waiting(p) = Run(Len(ran[p]), posted[p] - Len(ran[p]))
             /\ Len(ran[p]) \in Nat /\ ran[p] \in Seq(Nat) /\ posted[p] \in Nat
             /\ posted[p] - Len(ran[p]) \in 0 .. Size[p] /\ Size[p] \in Nat
  <2>1. Ring(p) /\ p \in Prios
    BY DEF IInv, EtsInv, TaskInv, Prios
  <2>2. /\ Size[p] \in Nat \ {0} /\ Pending(p) \in 0 .. Size[p] /\ Len(ran[p]) \in Nat
        /\ \A k \in 1 .. Pending(p) :
               slot[p][(First(p) + k - 1) % Size[p]] = Len(ran[p]) + k
    BY <2>1, RingFacts DEF IInv, EtsInv
  <2>3. posted[p] - Len(ran[p]) = Pending(p)
    BY <2>1, <2>2 DEF Ring
  <2>4. Waiting(p) = Run(Len(ran[p]), Pending(p))
    BY <2>2 DEF Waiting, Run
  <2> QED  BY <2>1, <2>2, <2>3, <2>4 DEF IInv, TypeOK
<1> QED  BY <1>1 DEF Counted, Queues, Numbered

\* The oldest event waits where the next one is taken.
LEMMA OldestFacts ==
    ASSUME IInv, NEW p \in TaskPrios, Pending(p) > 0
    PROVE  slot[p][First(p)] = Len(ran[p]) + 1
<1>1. Ring(p) /\ p \in Prios
  BY DEF IInv, EtsInv, TaskInv, Prios
<1>2. /\ Size[p] \in Nat \ {0} /\ First(p) \in 0 .. (Size[p] - 1) /\ Pending(p) \in Nat
      /\ \A k \in 1 .. Pending(p) :
             slot[p][(First(p) + k - 1) % Size[p]] = Len(ran[p]) + k
  BY <1>1, RingFacts DEF IInv, EtsInv
<1>3. First(p) % Size[p] = First(p)
  <2>1. First(p) \in Nat /\ First(p) < Size[p]
    BY <1>2
  <2> QED  BY <1>1, <2>1, AfterFacts
<1>4. 1 \in 1 .. Pending(p) /\ First(p) + 1 - 1 = First(p)
  BY <1>2
<1> QED  BY <1>2, <1>3, <1>4

\* What a step does to what has been accepted and handled.
LEMMA StepKinds ==
    ASSUME IInv, Next
    PROVE  \/ UNCHANGED <<posted, ran>>
           \/ \E p \in Prios : posted' = [posted EXCEPT ![p] = @ + 1] /\ ran' = ran
           \/ \E p \in Prios : \E x :
                  /\ posted' = posted /\ ran' = [ran EXCEPT ![p] = Append(@, x)]
                  /\ p \in TaskPrios => x = Len(ran[p]) + 1
<1>1. ASSUME NEW p \in Prios, Interrupt(p) \/ TaskPosts(p) \/ InitPosts(p)
      PROVE  posted' = [posted EXCEPT ![p] = @ + 1] /\ ran' = ran
  BY <1>1 DEF Interrupt, TaskPosts, InitPosts, ets_post
<1>2. ASSUME ets_run
      PROVE  \E p \in Prios : \E x :
                 /\ posted' = posted /\ ran' = [ran EXCEPT ![p] = Append(@, x)]
                 /\ p \in TaskPrios => x = Len(ran[p]) + 1
  <2>1. /\ Highest(bits) \in bits /\ Highest(bits) \in Prios /\ stack = << >>
    BY <1>2, HighestFacts DEF ets_run, IInv, TypeOK
  <2>2. PICK p \in Prios : p = Highest(bits)
    BY <2>1
  <2>3. count[p] > 0 /\ ~ Taking(p)
    BY <2>1, <2>2 DEF IInv, EtsInv, BitsInv, Clearing, Taking
  <2>4. First(p) = offset[p] /\ Pending(p) = count[p]
    BY <2>3 DEF First, Pending
  <2>5. p \in TaskPrios => slot[p][offset[p]] = Len(ran[p]) + 1
    BY <2>3, <2>4, OldestFacts
  <2>6. posted' = posted /\ ran' = [ran EXCEPT ![p] = Append(@, slot[p][offset[p]])]
    BY <1>2, <2>2 DEF ets_run
  <2> QED  BY <2>5, <2>6
<1>3. ASSUME Call
      PROVE  \E p \in Prios : \E x :
                 /\ posted' = posted /\ ran' = [ran EXCEPT ![p] = Append(@, x)]
                 /\ p \in TaskPrios => x = Len(ran[p]) + 1
  <2>1. stack # << >> /\ Top.pc = "call" /\ Top.prio \in Prios
    BY <1>3, TopFacts DEF Call, Step, IInv
  <2>2. PICK p \in Prios : p = Top.prio
    BY <2>1
  <2>3. Taking(p) /\ ~ Uncounted(p) /\ count[p] \in Nat
    BY <2>1, <2>2 DEF Taking, Uncounted, RunOnce, IInv, TypeOK
  <2>4. First(p) = Top.event /\ Pending(p) > 0
    BY <2>3 DEF First, Pending
  <2>5. p \in TaskPrios => slot[p][Top.event] = Len(ran[p]) + 1
    BY <2>4, OldestFacts
  <2>6. posted' = posted /\ ran' = [ran EXCEPT ![p] = Append(@, slot[p][Top.event])]
    BY <1>3, <2>2 DEF Call
  <2> QED  BY <2>5, <2>6
<1>4. CASE Return \/ Select \/ Index \/ LoadCount \/ StoreCount \/ LoadBits \/ ClearBit
  BY <1>4 DEF Return, Select, Index, LoadCount, StoreCount, LoadBits, ClearBit
<1> QED  BY <1>1, <1>2, <1>3, <1>4 DEF Next, ets_run_once

(***************************************************************************)
(* Refinement: the queues that only tasks post to, on the table that       *)
(* ets_run_once changes unlocked, behave as TaskQueue promises.            *)
(***************************************************************************)
THEOREM QueuesCorrect == Spec => QueuesAreFifo
<1>1. Init => Abstract!Init
  <2> SUFFICES ASSUME Init PROVE Abstract!Init
    OBVIOUS
  <2>1. ASSUME NEW p \in TaskPrios PROVE Waiting(p) = << >> /\ ran[p] = << >>
    <3>1. p \in Prios /\ Pending(p) = 0
      BY DEF Init, Pending, Taking, Prios
    <3>2. Waiting(p) = << >>
      BY <3>1 DEF Waiting
    <3> QED  BY <3>1, <3>2 DEF Init
  <2> QED  BY <2>1 DEF Abstract!Init, Queues, Handled
<1>2. IInv => Counted
  BY QueuesAreNumbered
<1>3. IInv' => Counted'
  BY <1>2, PTL
<1>4. IInv /\ IInv' /\ [Next]_vars => [Abstract!Next]_<<Queues, Handled>>
  <2> SUFFICES ASSUME IInv, IInv', [Next]_vars
               PROVE  [Abstract!Next]_<<Queues, Handled>>
    OBVIOUS
  <2> USE DEF Counted
  <2>1. CASE UNCHANGED <<posted, ran>>
    <3>1. Numbered' = Numbered /\ Handled' = Handled
      BY <2>1 DEF Numbered, Handled
    <3> QED  BY <1>2, <1>3, <3>1
  <2>2. ASSUME NEW p \in Prios, posted' = [posted EXCEPT ![p] = @ + 1], ran' = ran
        PROVE  [Abstract!Next]_<<Queues, Handled>>
    <3>1. /\ Handled' = Handled
          /\ posted'[p] = posted[p] + 1
          /\ \A q \in TaskPrios \ {p} : posted'[q] = posted[q]
      BY <2>2 DEF Handled, IInv, TypeOK, Prios
    <3>2. CASE p \notin TaskPrios
      <4>1. Numbered' = Numbered
        BY <2>2, <3>1, <3>2 DEF Numbered
      <4> QED  BY <1>2, <1>3, <3>1, <4>1
    <3>3. CASE p \in TaskPrios
      <4> DEFINE a == Len(ran[p])
                 n == posted[p] - Len(ran[p])
      <4>1. /\ a \in Nat /\ n \in Nat /\ n + 1 \in 0 .. Size[p] /\ Size[p] \in Nat
            /\ posted'[p] - Len(ran'[p]) = n + 1
        <5>1. /\ a \in Nat /\ n \in 0 .. Size[p] /\ Size[p] \in Nat /\ posted[p] \in Nat
              /\ posted'[p] - Len(ran'[p]) \in 0 .. Size[p]
          BY <1>2, <1>3, <3>3
        <5>2. posted'[p] - Len(ran'[p]) = n + 1
          BY <2>2, <3>1, <5>1
        <5> QED  BY <5>1, <5>2
      <4>2. Queues[p] = Run(a, n) /\ Handled[p] = ran[p]
        BY <1>2, <3>3 DEF Numbered, Handled
      <4>3. Queues'[p] = Run(a, n + 1)
        BY <1>3, <2>2, <3>3, <4>1 DEF Numbered
      <4> HIDE DEF n
      <4>4. Len(Queues[p]) = n /\ Run(a, n + 1) = Append(Queues[p], a + n + 1)
        <5>1. Len(Run(a, n)) = n /\ Run(a, n + 1) = Append(Run(a, n), a + n + 1)
          BY <4>1, RunFacts
        <5> QED  BY <4>2, <5>1
      <4>5. \A q \in TaskPrios \ {p} : Queues'[q] = Queues[q]
        BY <1>2, <1>3, <2>2, <3>1 DEF Numbered
      <4>6. Queues' = [Queues EXCEPT ![p] = Append(@, a + Len(@) + 1)]
        <5>1. Queues = [q \in TaskPrios |-> Queues[q]] /\ Queues' = [q \in TaskPrios |-> Queues'[q]]
          BY DEF Queues
        <5> QED  BY <3>3, <4>3, <4>4, <4>5, <5>1
      <4>7. Abstract!Accept(p)
        BY <3>1, <4>1, <4>2, <4>4, <4>6 DEF Abstract!Accept
      <4> QED  BY <3>3, <4>7 DEF Abstract!Next
    <3> QED  BY <3>2, <3>3
  <2>3. ASSUME NEW p \in Prios, NEW x, posted' = posted,
               ran' = [ran EXCEPT ![p] = Append(@, x)],
               p \in TaskPrios => x = Len(ran[p]) + 1
        PROVE  [Abstract!Next]_<<Queues, Handled>>
    <3>1. /\ ran'[p] = Append(ran[p], x)
          /\ \A q \in TaskPrios \ {p} : ran'[q] = ran[q]
      BY <2>3 DEF IInv, TypeOK, Prios
    <3>2. CASE p \notin TaskPrios
      <4>1. Numbered' = Numbered /\ Handled' = Handled
        BY <2>3, <3>1, <3>2 DEF Numbered, Handled
      <4> QED  BY <1>2, <1>3, <4>1
    <3>3. CASE p \in TaskPrios
      <4> DEFINE a == Len(ran[p])
                 n == posted[p] - Len(ran[p])
      <4>1. /\ a \in Nat /\ ran[p] \in Seq(Nat) /\ posted[p] \in Nat /\ n \in Nat
            /\ posted'[p] - Len(ran'[p]) \in Nat /\ x = a + 1
        BY <1>2, <1>3, <2>3, <3>3
      <4>2. Len(ran'[p]) = a + 1
        BY <3>1, <4>1, AppendProperties
      <4>3. posted'[p] - Len(ran'[p]) = n - 1 /\ n > 0
        BY <2>3, <4>1, <4>2
      <4>4. Queues[p] = Run(a, n) /\ Handled[p] = ran[p]
        BY <1>2, <3>3 DEF Numbered, Handled
      <4>5. Queues'[p] = Run(a + 1, n - 1)
        BY <1>3, <3>3, <4>2, <4>3 DEF Numbered
      <4> HIDE DEF n, a
      <4>6. Queues[p] # << >> /\ Head(Queues[p]) = x /\ Queues'[p] = Tail(Queues[p])
        <5>1. /\ Run(a, n) # << >> /\ Head(Run(a, n)) = a + 1
              /\ Tail(Run(a, n)) = Run(a + 1, n - 1)
          BY <4>1, <4>3, RunFacts
        <5> QED  BY <4>1, <4>4, <4>5, <5>1
      <4>7. \A q \in TaskPrios \ {p} : Queues'[q] = Queues[q] /\ Handled'[q] = Handled[q]
        BY <1>2, <1>3, <2>3, <3>1 DEF Numbered, Handled
      <4>8. Queues' = [Queues EXCEPT ![p] = Tail(@)]
        <5>1. Queues = [q \in TaskPrios |-> Queues[q]] /\ Queues' = [q \in TaskPrios |-> Queues'[q]]
          BY DEF Queues
        <5> QED  BY <3>3, <4>6, <4>7, <5>1
      <4>9. Handled' = [Handled EXCEPT ![p] = Append(@, Head(Queues[p]))]
        <5>1. /\ Handled = [q \in TaskPrios |-> Handled[q]]
              /\ Handled' = [q \in TaskPrios |-> Handled'[q]] /\ Handled'[p] = ran'[p]
          BY <3>3 DEF Handled
        <5> QED  BY <3>1, <3>3, <4>4, <4>6, <4>7, <5>1
      <4>10. Abstract!Handle(p)
        BY <4>6, <4>8, <4>9 DEF Abstract!Handle
      <4> QED  BY <3>3, <4>10 DEF Abstract!Next
    <3> QED  BY <3>2, <3>3
  <2>4. CASE UNCHANGED vars
    BY <2>1, <2>4 DEF vars
  <2> QED  BY <2>1, <2>2, <2>3, <2>4, StepKinds
<1> QED
  BY <1>1, <1>4, Invariant, PTL DEF Spec, QueuesAreFifo, Abstract!Spec

-----------------------------------------------------------------------------
(***************************************************************************)
(* For every counter width and every timer latency below one overflow,     *)
(* the 64-bit clock of init.c is exact, and delay() never returns early.   *)
(***************************************************************************)

\* What a delay() in progress or not may look like (a part of ClockTypeOK).
LEMMA TimeMsRange ==
    ASSUME ClockTypeOK
    PROVE  system_get_time_ms \in 0 .. (W - 1)
<1>1. system_get_time64 \in Nat
  <2>1. \A k \in Nat : k * W \in Nat
    BY ClockAssumption
  <2> QED
    BY <2>1, ClockAssumption DEF ClockTypeOK, system_get_time64
<1>2. system_get_time64 \div Ms \in Int
  BY <1>1, ClockAssumption
<1> QED
  BY <1>2, ClockAssumption DEF system_get_time_ms

\* Every variable of the clock stays in its range: the counter below W, the
\* time since the last callback below one overflow.
THEOREM ClockTypeCorrect == ClockSpec => []ClockTypeOK
<1> USE ClockAssumption
<1>1. ClockInit => ClockTypeOK
  BY DEF ClockInit, ClockTypeOK, NoJob
<1>2. ClockTypeOK /\ [ClockNext]_clockVars => ClockTypeOK'
  <2> SUFFICES ASSUME ClockTypeOK, [ClockNext]_clockVars
               PROVE  ClockTypeOK'
    OBVIOUS
  <2>1. ASSUME NEW d \in 1 .. MaxTick, Tick(d)
        PROVE  ClockTypeOK'
    BY <2>1 DEF ClockTypeOK, Tick
  <2>2. CASE system_get_time_overflow_callback
    BY <2>2 DEF ClockTypeOK, system_get_time_overflow_callback
  <2>3. ASSUME NEW ms \in Delays, DelayBegin(ms)
        PROVE  ClockTypeOK'
    <3>1. job' \in [ms : Delays, start : 0 .. (W - 1)]
      BY <2>3, TimeMsRange DEF DelayBegin
    <3>2. begun' \in Nat
      <4>1. wraps * W \in Nat
        BY DEF ClockTypeOK
      <4> QED
        BY <2>3, <4>1 DEF DelayBegin, TrueTime, ClockTypeOK
    <3> QED
      BY <2>3, <3>1, <3>2 DEF ClockTypeOK, DelayBegin
  <2>4. CASE DelayReturn
    BY <2>4 DEF ClockTypeOK, DelayReturn
  <2>5. CASE UNCHANGED clockVars
    BY <2>5 DEF ClockTypeOK, clockVars
  <2> QED
    BY <2>1, <2>2, <2>3, <2>4, <2>5 DEF ClockNext
<1> QED
  BY <1>1, <1>2, PTL DEF ClockSpec

\* The invariant: between two runs of the callback the counter overflows at
\* most once, and an overflow not yet counted shows as clock < overflow_last.
THEOREM GapCorrect == ClockSpec => []GapInv
<1> USE ClockAssumption
<1>1. ClockInit => GapInv
  BY DEF ClockInit, GapInv
<1>2. ClockTypeOK /\ GapInv /\ [ClockNext]_clockVars => GapInv'
  <2> SUFFICES ASSUME ClockTypeOK, GapInv, [ClockNext]_clockVars
               PROVE  GapInv'
    OBVIOUS
  <2>1. ASSUME NEW d \in 1 .. MaxTick, Tick(d)
        PROVE  GapInv'
    BY <2>1 DEF ClockTypeOK, GapInv, Tick
  <2>2. CASE system_get_time_overflow_callback
    BY <2>2 DEF ClockTypeOK, GapInv, system_get_time_overflow_callback
  <2>3. ASSUME NEW ms \in Delays, DelayBegin(ms)
        PROVE  GapInv'
    BY <2>3 DEF GapInv, DelayBegin
  <2>4. CASE DelayReturn
    BY <2>4 DEF GapInv, DelayReturn
  <2>5. CASE UNCHANGED clockVars
    BY <2>5 DEF GapInv, clockVars
  <2> QED
    BY <2>1, <2>2, <2>3, <2>4, <2>5 DEF ClockNext
<1> QED
  BY <1>1, <1>2, ClockTypeCorrect, PTL DEF ClockSpec

\* system_get_time64() returns the true time since boot in every reachable
\* state, whatever the width of the counter and the lateness of the timer.
THEOREM TimeCorrect == ClockSpec => []TimeIsExact
<1>1. ClockTypeOK /\ GapInv => TimeIsExact
  <2> SUFFICES ASSUME ClockTypeOK, GapInv
               PROVE  TimeIsExact
    OBVIOUS
  <2>1. wraps = overflow_count + (IF clock < overflow_last THEN 1 ELSE 0)
    BY ClockAssumption DEF ClockTypeOK, GapInv
  <2> QED
    BY <2>1 DEF TimeIsExact, system_get_time64, TrueTime
<1> QED
  BY <1>1, ClockTypeCorrect, GapCorrect, PTL

-----------------------------------------------------------------------------
\* Division keeps the order.
LEMMA DivMonotone ==
    ASSUME NEW x \in Nat, NEW y \in Nat, x <= y, NEW k \in Nat \ {0}
    PROVE  x \div k \in Nat /\ y \div k \in Nat /\ x \div k <= y \div k
  BY Z3

\* A difference taken modulo k is never more than the difference.
LEMMA ModDifference ==
    ASSUME NEW x \in Nat, NEW y \in Nat, x <= y, NEW k \in Nat \ {0}
    PROVE  ((y % k) - (x % k)) % k <= y - x
<1> DEFINE p == x \div k
           q == y \div k
           r == x % k
           s == y % k
<1>1. p \in Nat /\ r \in 0 .. (k - 1) /\ x = k * p + r
  BY Z3
<1>2. q \in Nat /\ s \in 0 .. (k - 1) /\ y = k * q + s
  BY Z3
<1>3. p <= q
  BY DivMonotone
<1> HIDE DEF p, q, r, s
<1>4. k * (q - p) \in Nat /\ y - x = k * (q - p) + (s - r)
  BY <1>1, <1>2, <1>3, Z3
<1>5. CASE s >= r
  <2>1. (s - r) % k = s - r
    BY <1>1, <1>2, <1>5, Z3
  <2> QED  BY <1>1, <1>2, <1>4, <2>1 DEF r, s
<1>6. CASE s < r
  <2>1. (s - r) % k = s - r + k
    BY <1>1, <1>2, <1>6, Z3
  <2>2. p # q
    BY <1>1, <1>2, <1>6
  <2>3. k * (q - p) >= k
    BY <1>1, <1>2, <1>3, <2>2, Z3
  <2> QED  BY <1>1, <1>2, <1>4, <2>1, <2>3 DEF r, s
<1> QED  BY <1>1, <1>2, <1>5, <1>6

\* The millisecond clock is the number of milliseconds since boot, modulo W.
LEMMA MillisecondClock ==
    ASSUME ClockTypeOK, TimeIsExact
    PROVE  TrueTime \in Nat /\ system_get_time_ms = (TrueTime \div Ms) % W
<1>1. wraps * W \in Nat
  BY ClockAssumption DEF ClockTypeOK
<1> QED
  BY <1>1, ClockAssumption DEF ClockTypeOK, TimeIsExact, TrueTime, system_get_time_ms

\* Time does not run backwards.
LEMMA TimeAdvances ==
    ASSUME ClockTypeOK, [ClockNext]_clockVars
    PROVE  TrueTime \in Nat /\ TrueTime' \in Nat /\ TrueTime <= TrueTime'
<1>1. wraps \in Nat /\ clock \in Nat /\ W \in Nat
  BY ClockAssumption DEF ClockTypeOK
<1>2. wraps * W \in Nat /\ (wraps + 1) * W = wraps * W + W
  BY <1>1, Z3
<1>3. ASSUME NEW d \in 1 .. MaxTick, Tick(d)
      PROVE  TrueTime' \in Nat /\ TrueTime <= TrueTime'
  BY <1>1, <1>2, <1>3, ClockAssumption DEF Tick, TrueTime
<1>4. ASSUME UNCHANGED <<clock, wraps>>
      PROVE  TrueTime' = TrueTime
  BY <1>4 DEF TrueTime
<1> QED
  BY <1>1, <1>2, <1>3, <1>4
  DEF ClockNext, clockVars, system_get_time_overflow_callback, DelayBegin, DelayReturn, TrueTime

\* The invariant: a delay() under way began in the past, and `start' is what
\* the millisecond clock showed then.
THEOREM DelayStartCorrect == ClockSpec => []DelayInv
<1>1. ClockInit => DelayInv
  BY DEF ClockInit, DelayInv
<1>2. ClockTypeOK /\ TimeIsExact /\ DelayInv /\ [ClockNext]_clockVars => DelayInv'
  <2> SUFFICES ASSUME ClockTypeOK, TimeIsExact, DelayInv, [ClockNext]_clockVars
               PROVE  DelayInv'
    OBVIOUS
  <2>1. TrueTime \in Nat /\ TrueTime' \in Nat /\ TrueTime <= TrueTime'
    BY TimeAdvances
  <2>2. ASSUME NEW d \in 1 .. MaxTick, Tick(d)
        PROVE  DelayInv'
    BY <2>1, <2>2 DEF Tick, DelayInv, ClockTypeOK
  <2>3. CASE system_get_time_overflow_callback
    BY <2>1, <2>3 DEF system_get_time_overflow_callback, DelayInv, ClockTypeOK
  <2>4. ASSUME NEW ms \in Delays, DelayBegin(ms)
        PROVE  DelayInv'
    BY <2>1, <2>4, MillisecondClock DEF DelayBegin, DelayInv
  <2>5. CASE DelayReturn
    BY <2>5 DEF DelayReturn, DelayInv
  <2>6. CASE UNCHANGED clockVars
    BY <2>1, <2>6 DEF clockVars, DelayInv, TrueTime
  <2> QED
    BY <2>2, <2>3, <2>4, <2>5, <2>6 DEF ClockNext
<1> QED
  BY <1>1, <1>2, ClockTypeCorrect, TimeCorrect, PTL DEF ClockSpec

\* delay() never returns early, whatever overflows while it waits: its test,
\* in arithmetic modulo W, is only passed when the time has really gone by.
THEOREM DelayCorrect == ClockSpec => DelayIsFull
<1>1. ASSUME ClockTypeOK, TimeIsExact, DelayInv, DelayReturn
      PROVE  TrueTime \div Ms - begun \div Ms >= job.ms
  <2> DEFINE now   == TrueTime \div Ms
             start == begun \div Ms
  <2>1. /\ TrueTime \in Nat /\ system_get_time_ms = now % W
        /\ begun \in Nat /\ begun <= TrueTime
    BY <1>1, MillisecondClock DEF DelayReturn, DelayInv, ClockTypeOK
  <2>2. now \in Nat /\ start \in Nat /\ start <= now
    BY <2>1, DivMonotone, ClockAssumption
  <2>3. ((now % W) - (start % W)) % W <= now - start
    BY <2>2, ModDifference, ClockAssumption
  <2>4. job.ms \in Nat
    <3>1. job \in [ms : Delays, start : 0 .. (W - 1)]
      BY <1>1 DEF DelayReturn, ClockTypeOK
    <3>2. job.ms \in Delays
      BY <3>1
    <3>3. \A ms \in Delays : ms \in Nat
      BY ClockAssumption
    <3> QED  BY <3>2, <3>3
  <2> HIDE DEF now, start
  <2>5. CASE job.ms = 0
    BY <2>2, <2>5 DEF now, start
  <2>6. CASE job.ms # 0
    <3>1. job.start = start % W
      BY <1>1, <2>6 DEF DelayReturn, DelayInv, start
    <3>2. ((now % W) - (start % W)) % W >= job.ms
      BY <1>1, <2>1, <2>6, <3>1 DEF DelayReturn, DelayOver
    <3>3. ((now % W) - (start % W)) % W \in Nat
      BY <2>2, ClockAssumption, Z3
    <3> QED  BY <2>2, <2>3, <2>4, <3>2, <3>3 DEF now, start
  <2> QED  BY <2>5, <2>6
<1>2. ClockTypeOK /\ TimeIsExact /\ DelayInv =>
          [DelayReturn => TrueTime \div Ms - begun \div Ms >= job.ms]_clockVars
  BY <1>1
<1> QED
  BY <1>2, ClockTypeCorrect, TimeCorrect, DelayStartCorrect, PTL DEF DelayIsFull, ClockSpec

-----------------------------------------------------------------------------
(***************************************************************************)
(* A change of the RTC memory is atomic for each region, for regions of    *)
(* any length and words of any values, wherever resets interrupt it.       *)
(***************************************************************************)

\* The regions and their checksums are different words of the block.
LEMMA CellFacts ==
    /\ Total \in Nat /\ Total > 0
    /\ \A r \in Regions : Check(r) \in Cells /\ Body(r) \subseteq Cells
    /\ \A r, s \in Regions : Check(s) \notin Body(r)
    /\ Check(1) # Check(2)
    /\ Body(1) \cap Body(2) = {}
<1>1. Words[1] \in Nat \ {0} /\ Words[2] \in Nat \ {0}
  BY RtcAssumption DEF Regions
<1> QED
  BY <1>1 DEF Regions, Total, Check, Body, Cells

\* The data of a region depends on its data words only.
LEMMA PartEqual ==
    ASSUME NEW m, NEW n, NEW r \in Regions
    PROVE  Part(m, r) = Part(n, r) <=> \A w \in Body(r) : m[w] = n[w]
<1>1. ASSUME Part(m, r) = Part(n, r), NEW w \in Body(r)
      PROVE  m[w] = n[w]
  <2>1. Part(m, r)[w] = m[w] /\ Part(n, r)[w] = n[w]
    BY DEF Part
  <2> QED  BY <1>1, <2>1
<1>2. ASSUME \A w \in Body(r) : m[w] = n[w]
      PROVE  Part(m, r) = Part(n, r)
  BY <1>2 DEF Part
<1> QED  BY <1>1, <1>2

\* A checksum is never garbage.
LEMMA PartType ==
    ASSUME NEW m, IsBlock(m), NEW r \in Regions
    PROVE  Part(m, r) \in Content /\ Part(m, r) # Garbage
<1>1. Part(m, r) \in [Body(r) -> Values]
  BY DEF Part, IsBlock
<1> QED
  BY <1>1, RtcAssumption DEF Content, Regions

\* Renewing the checksums makes them fit and leaves the data alone.
LEMMA SealedFacts ==
    ASSUME NEW m, IsBlock(m)
    PROVE  /\ IsBlock(Sealed(m))
           /\ \A r \in Regions : Part(Sealed(m), r) = Part(m, r) /\ Fits(Sealed(m), r)
<1> DEFINE n == Sealed(m)
<1>1. /\ DOMAIN m = Cells /\ m \in [Cells -> Content]
      /\ \A r \in Regions : Part(m, r) \in Content
  BY PartType DEF IsBlock
<1>2. n \in [Cells -> Content]
  BY <1>1, CellFacts DEF Sealed, lfs_crc, Regions
<1>3. \A r \in Regions : n[Check(r)] = Part(m, r)
  BY <1>1, CellFacts DEF Sealed, lfs_crc, Regions
<1>4. \A r \in Regions : \A w \in Body(r) : n[w] = m[w]
  BY <1>1, CellFacts DEF Sealed, Regions
<1> HIDE DEF n
<1>5. \A r \in Regions : Part(n, r) = Part(m, r)
  BY <1>4, PartEqual
<1>6. IsBlock(n)
  BY <1>2, <1>4 DEF IsBlock
<1> QED
  BY <1>3, <1>5, <1>6 DEF Fits, lfs_crc, n

\* A block with the words of some of its regions erased.
LEMMA WipedFacts ==
    ASSUME NEW m, IsBlock(m), NEW rs \in SUBSET Regions
    PROVE  /\ IsBlock(Wiped(m, rs))
           /\ \A r \in rs : \A w \in Body(r) : Wiped(m, rs)[w] = Erased
           /\ \A r \in Regions \ rs : \A w \in Body(r) : Wiped(m, rs)[w] = m[w]
<1>1. Erased \in Values /\ Erased \in Content
  BY RtcAssumption DEF Content
<1>2. \A w \in Cells : Wiped(m, rs)[w] = IF \E r \in rs : w \in Body(r) THEN Erased ELSE m[w]
  BY DEF Wiped
<1>3. \A r \in Regions : \A w \in Body(r) : w \in Cells
  BY CellFacts
<1>4. \A r \in rs : \A w \in Body(r) : Wiped(m, rs)[w] = Erased
  BY <1>2, <1>3
<1>5. \A r, s \in Regions : r # s => Body(r) \cap Body(s) = {}
  BY CellFacts DEF Regions
<1>6. \A r \in Regions \ rs : \A w \in Body(r) : Wiped(m, rs)[w] = m[w]
  BY <1>2, <1>3, <1>5
<1>7. Wiped(m, rs) \in [Cells -> Content]
  BY <1>1 DEF Wiped, IsBlock
<1>8. \A r \in Regions : \A w \in Body(r) : Wiped(m, rs)[w] \in Values
  BY <1>1, <1>4, <1>6 DEF IsBlock
<1> QED  BY <1>4, <1>6, <1>7, <1>8 DEF IsBlock

LEMMA ErasedFacts ==
    /\ IsBlock(AllErased)
    /\ \A r \in Regions : \A w \in Body(r) : AllErased[w] = Erased
<1> DEFINE m == [w \in Cells |-> Erased]
<1>1. IsBlock(m) /\ \A r \in Regions : \A w \in Body(r) : m[w] = Erased
  BY RtcAssumption, CellFacts DEF IsBlock, Content
<1> HIDE DEF m
<1>2. IsBlock(Sealed(m)) /\ \A r \in Regions : Part(Sealed(m), r) = Part(m, r)
  BY <1>1, SealedFacts
<1> QED  BY <1>1, <1>2, PartEqual DEF AllErased, m

-----------------------------------------------------------------------------
RtcIInv == RtcTypeOK /\ RtcInv

\* Power has come on.
LEMMA RtcInitInv == RtcInit => RtcIInv
<1> SUFFICES ASSUME RtcInit PROVE RtcIInv
  OBVIOUS
<1> USE DEF RtcInit
<1>1. IsBlock(mem) /\ \A r \in Regions : mem[Check(r)] = Garbage
  <2>1. \A r \in Regions : Check(r) \in Cells
    BY CellFacts
  <2>2. \A r \in Regions : \A w \in Body(r) : mem[w] \in Values
    BY CellFacts DEF Regions
  <2>3. mem \in [Cells -> Content]
    BY DEF Content
  <2> QED  BY <2>1, <2>2, <2>3 DEF IsBlock, Regions
<1>2. RtcTypeOK
  BY <1>1, ErasedFacts, CellFacts DEF RtcTypeOK
<1> QED
  BY <1>1, <1>2 DEF RtcIInv, RtcInv, ChecksumInv, WriteInv, UnchangedInv, RunInv

\* rtc_begin: whole regions stay as they are, damaged ones are to be erased.
LEMMA BeginStep ==
    ASSUME RtcIInv, rtc_begin
    PROVE  RtcIInv'
<1> USE DEF RtcIInv, RtcInv
<1>a. /\ mode = "boot" /\ UNCHANGED <<mem, before, after>>
      /\ \A r \in Regions : Contents(r)' = Contents(r)
  BY DEF rtc_begin, Contents
<1>b. \A r \in Regions \ Broken : Fits(mem, r) /\ Part(mem, r) \in Contents(r)
  <2> SUFFICES ASSUME NEW r \in Regions \ Broken
               PROVE  Fits(mem, r) /\ Part(mem, r) \in Contents(r)
    OBVIOUS
  <2>1. Fits(mem, r)
    BY DEF Broken
  <2>2. Part(mem, r) # Garbage
    BY PartType DEF RtcTypeOK
  <2> QED  BY <2>1, <2>2 DEF ChecksumInv, Fits, lfs_crc
<1>1. ChecksumInv'
  BY <1>a DEF ChecksumInv
<1>2. CASE Broken = {}
  <2>1. mode' = "run" /\ UNCHANGED <<data, done>>
    BY <1>2 DEF rtc_begin
  <2>2. RtcTypeOK'
    BY <1>a, <2>1 DEF RtcTypeOK
  <2>3. RunInv'
    BY <1>a, <1>b, <1>2 DEF RunInv, Fits, lfs_crc, Part
  <2>4. UnchangedInv'
    BY <1>a, <2>1 DEF UnchangedInv, Fits, lfs_crc, Part
  <2> QED  BY <1>1, <2>1, <2>2, <2>3, <2>4 DEF WriteInv
<1>3. CASE Broken # {}
  <2> DEFINE m == Wiped(mem, Broken)
  <2>1. mode' = "write" /\ data' = Sealed(m) /\ done' = 0
    BY <1>3 DEF rtc_begin, rtc_update
  <2>2. Broken \in SUBSET Regions
    BY DEF Broken
  <2>3. /\ IsBlock(m)
        /\ \A r \in Broken : \A w \in Body(r) : m[w] = Erased
        /\ \A r \in Regions \ Broken : \A w \in Body(r) : m[w] = mem[w]
    BY <2>2, WipedFacts DEF RtcTypeOK
  <2> HIDE DEF m
  <2>4. /\ IsBlock(data')
        /\ \A r \in Regions : Part(data', r) = Part(m, r) /\ Fits(data', r)
    BY <2>1, <2>3, SealedFacts
  <2>5. \A r \in Broken : Part(data', r) = Part(AllErased, r)
    BY <2>2, <2>3, <2>4, ErasedFacts, PartEqual
  <2>6. \A r \in Regions \ Broken : Part(data', r) = Part(mem, r)
    BY <2>3, <2>4, PartEqual
  <2>7. RtcTypeOK'
    BY <1>a, <2>1, <2>4, CellFacts DEF RtcTypeOK
  <2>8. WriteInv'
    <3>1. \A r \in Regions : Part(data', r) \in Contents(r)
      BY <1>b, <2>5, <2>6 DEF Contents
    <3>2. done' < Total
      BY <2>1, CellFacts
    <3> QED  BY <1>a, <2>1, <2>4, <3>1, <3>2 DEF WriteInv, Fits, lfs_crc, Part
  <2>9. UnchangedInv'
    BY <1>a, <2>1, <2>6 DEF UnchangedInv, Broken, Fits, lfs_crc, Part
  <2> QED  BY <1>1, <2>1, <2>7, <2>8, <2>9 DEF RunInv
<1> QED  BY <1>2, <1>3

\* rtc_reset and rtc_write: from a whole block to any other.
LEMMA ChangeStep ==
    ASSUME RtcIInv, NEW m, IsBlock(m), Change(m)
    PROVE  RtcIInv'
<1> USE DEF RtcIInv, RtcInv
<1>1. /\ mode = "run" /\ mode' = "write" /\ done' = 0 /\ mem' = mem
      /\ before' = mem /\ after' = Sealed(m) /\ data' = Sealed(m)
  BY DEF Change, rtc_update
<1>2. /\ IsBlock(Sealed(m))
      /\ \A r \in Regions : Fits(Sealed(m), r)
  BY SealedFacts
<1>3. RtcTypeOK'
  BY <1>1, <1>2, CellFacts DEF RtcTypeOK
<1>4. \A r \in Regions : Fits(mem, r)
  BY <1>1 DEF RunInv
<1>5. ChecksumInv'
  BY <1>1, <1>4 DEF ChecksumInv, Contents, Fits, lfs_crc, Part
<1>6. WriteInv'
  BY <1>1, <1>2, CellFacts DEF WriteInv, Contents, Fits, lfs_crc, Part
<1>7. UnchangedInv'
  BY <1>1, <1>4 DEF UnchangedInv, Fits, lfs_crc, Part
<1> QED  BY <1>1, <1>3, <1>5, <1>6, <1>7 DEF RunInv

\* One word of the block is written.
LEMMA StoreStep ==
    ASSUME RtcIInv, StoreWord
    PROVE  RtcIInv'
<1> USE DEF RtcIInv, RtcInv
<1> DEFINE c == done + 1
<1>1. /\ mode = "write" /\ done' = c /\ UNCHANGED <<data, before, after>>
      /\ mode' = (IF c = Total THEN "run" ELSE "write")
      /\ mem' = [mem EXCEPT ![c] = data[c]]
  BY DEF StoreWord
<1>2. /\ c \in Cells /\ done \in Nat
      /\ done < Total
      /\ \A w \in 1 .. done : mem[w] = data[w]
      /\ \A r \in Regions : Fits(data, r) /\ Part(data, r) \in Contents(r)
  BY <1>1, CellFacts DEF WriteInv, RtcTypeOK, Cells
<1>3. \A w \in Cells : mem'[w] = IF w = c THEN data[c] ELSE mem[w]
  BY <1>1, <1>2 DEF RtcTypeOK, IsBlock
<1>4. \A w \in 1 .. c : mem'[w] = data[w]
  BY <1>2, <1>3, CellFacts DEF Cells
<1> HIDE DEF c
<1>5. IsBlock(mem')
  <2>1. mem' \in [Cells -> Content]
    BY <1>1, <1>2 DEF RtcTypeOK, IsBlock
  <2>2. \A r \in Regions : \A w \in Body(r) : mem'[w] \in Values
    BY <1>3, CellFacts DEF RtcTypeOK, IsBlock
  <2> QED  BY <2>1, <2>2 DEF IsBlock
<1>6. RtcTypeOK'
  BY <1>1, <1>2, <1>5, CellFacts DEF RtcTypeOK, c
<1>7. \A r \in Regions : Contents(r)' = Contents(r)
  BY <1>1 DEF Contents
<1>8. ChecksumInv'
  BY <1>2, <1>3, <1>7, CellFacts DEF ChecksumInv, Fits, lfs_crc
<1>9. UnchangedInv'
  <2> SUFFICES ASSUME NEW r \in Regions,
                      Part(before, r) = Part(after, r), Part(before, r) # Part(AllErased, r)
               PROVE  /\ Fits(mem', r) /\ Part(mem', r) = Part(before, r)
                      /\ Part(data, r) = Part(before, r)
    BY <1>1 DEF UnchangedInv, Fits, lfs_crc, Part
  <2>1. Fits(mem, r) /\ Part(mem, r) = Part(before, r) /\ Part(data, r) = Part(before, r)
    BY <1>1 DEF UnchangedInv
  <2>2. \A w \in Body(r) : mem'[w] = mem[w]
    BY <1>3, <2>1, CellFacts, PartEqual
  <2>3. Part(mem', r) = Part(mem, r)
    BY <2>2, PartEqual
  <2>4. mem'[Check(r)] = mem[Check(r)]
    BY <1>2, <1>3, <2>1, CellFacts DEF Fits, lfs_crc
  <2> QED  BY <2>1, <2>3, <2>4 DEF Fits, lfs_crc
<1>10. WriteInv'
  <2>1. mode' = "write" => c < Total
    BY <1>1, <1>2, CellFacts DEF c
  <2>2. \A r \in Regions : Fits(data', r) /\ Part(data', r) \in Contents(r)'
    BY <1>1, <1>2, <1>7
  <2>3. \A w \in 1 .. done' : mem'[w] = data'[w]
    BY <1>1, <1>4
  <2>4. \A r \in Regions : Fits(data, r)' /\ Part(data, r)' = Part(data', r)
    BY <2>2 DEF Fits, lfs_crc, Part
  <2> QED  BY <1>1, <2>1, <2>2, <2>3, <2>4 DEF WriteInv
<1>11. RunInv'
  <2> SUFFICES ASSUME c = Total, NEW r \in Regions
               PROVE  Fits(mem', r)
    BY <1>1 DEF RunInv, Fits, lfs_crc, Part
  <2>1. \A w \in Cells : mem'[w] = data[w]
    BY <1>4 DEF Cells
  <2>2. Part(mem', r) = Part(data, r) /\ mem'[Check(r)] = data[Check(r)]
    BY <2>1, CellFacts, PartEqual
  <2> QED  BY <1>2, <2>2 DEF Fits, lfs_crc
<1> QED  BY <1>6, <1>8, <1>9, <1>10, <1>11

\* A reset, wherever it comes.
LEMMA ResetStep ==
    ASSUME RtcIInv, Reset
    PROVE  RtcIInv'
<1> USE DEF RtcIInv, RtcInv
<1>1. mode' = "boot" /\ data' = AllErased /\ done' = 0 /\ UNCHANGED <<mem, before, after>>
  BY DEF Reset
<1>2. RtcTypeOK'
  BY <1>1, ErasedFacts, CellFacts DEF RtcTypeOK
<1> QED
  BY <1>1, <1>2
  DEF ChecksumInv, WriteInv, UnchangedInv, RunInv, Contents, Fits, lfs_crc, Part

-----------------------------------------------------------------------------
\* The contents of the RTC memory at every moment, between any two words.
THEOREM ContentsCorrect == RtcSpec => [](RtcTypeOK /\ RtcInv)
<1>1. RtcInit => RtcIInv
  BY RtcInitInv
<1>2. RtcIInv /\ [RtcNext]_rtcVars => RtcIInv'
  <2> SUFFICES ASSUME RtcIInv, [RtcNext]_rtcVars PROVE RtcIInv'
    OBVIOUS
  <2>1. CASE rtc_begin
    BY <2>1, BeginStep
  <2>2. CASE rtc_reset
    <3>1. IsBlock([w \in Cells |-> Erased])
      BY RtcAssumption, CellFacts DEF IsBlock, Content
    <3> QED  BY <2>2, <3>1, ChangeStep DEF rtc_reset
  <2>3. ASSUME NEW first \in Cells, NEW n \in 1 .. MaxWords,
               NEW v \in [1 .. n -> Values], rtc_write(first, v)
        PROVE  RtcIInv'
    <3> DEFINE m == [w \in Cells |->
                       IF w - first + 1 \in DOMAIN v THEN v[w - first + 1] ELSE mem[w]]
    <3>1. IsBlock(mem)
      BY DEF RtcIInv, RtcTypeOK
    <3>2. \A w \in Cells : m[w] \in Values \/ m[w] = mem[w]
      OBVIOUS
    <3>3. m \in [Cells -> Content]
      BY <3>1 DEF IsBlock, Content
    <3>4. \A r \in Regions : \A w \in Body(r) : m[w] \in Values
      BY <3>1, <3>2, CellFacts DEF IsBlock
    <3>5. IsBlock(m)
      BY <3>3, <3>4 DEF IsBlock
    <3>6. Change(m)
      BY <2>3 DEF rtc_write
    <3> HIDE DEF m
    <3> QED  BY <3>5, <3>6, ChangeStep
  <2>4. CASE StoreWord
    BY <2>4, StoreStep
  <2>5. CASE Reset
    BY <2>5, ResetStep
  <2>6. CASE UNCHANGED rtcVars
    BY <2>6 DEF rtcVars, RtcIInv, RtcInv, RtcTypeOK, ChecksumInv, WriteInv, UnchangedInv, RunInv,
       Contents, Fits, lfs_crc, Part
  <2> QED  BY <2>1, <2>2, <2>3, <2>4, <2>5, <2>6 DEF RtcNext
<1> QED  BY <1>1, <1>2, PTL DEF RtcSpec, RtcIInv

\* A checksum that fits is never over a mixture of old and new words.
LEMMA InvNoMixture == RtcTypeOK /\ RtcInv => NoMixture
<1> SUFFICES ASSUME RtcTypeOK, RtcInv, NEW r \in Regions, Fits(mem, r)
             PROVE  Part(mem, r) \in Contents(r)
  BY DEF NoMixture, Contents
<1>1. Part(mem, r) # Garbage
  BY PartType DEF RtcTypeOK
<1> QED  BY <1>1 DEF RtcInv, ChecksumInv, Fits, lfs_crc

\* A region whose checksum fits holds one of the three contents and never a mix
\* of them, in the middle of whatever rtc_update is writing.
THEOREM NoMixtureCorrect == RtcSpec => []NoMixture
<1> QED  BY ContentsCorrect, InvNoMixture, PTL

\* Once setup() has run, every region holds what it held before the last
\* change, what that change gave it, or nothing; and keeps what the change
\* left alone.
THEOREM SurviveCorrect == RtcSpec => []SettingsSurvive
<1>1. RtcTypeOK /\ RtcInv => SettingsSurvive
  <2> SUFFICES ASSUME RtcTypeOK, RtcInv, mode = "run", NEW r \in Regions
               PROVE  /\ Fits(mem, r)
                      /\ Part(mem, r) \in Contents(r)
                      /\ Part(before, r) = Part(after, r) => Part(mem, r) = Part(before, r)
    BY DEF SettingsSurvive, Contents
  <2>1. Fits(mem, r)
    BY DEF RtcInv, RunInv
  <2>2. Part(mem, r) \in Contents(r)
    BY <2>1, InvNoMixture DEF NoMixture, Contents
  <2>3. Part(before, r) = Part(after, r) => Part(mem, r) = Part(before, r)
    BY <2>2 DEF RtcInv, UnchangedInv, Contents
  <2> QED  BY <2>1, <2>2, <2>3
<1> QED  BY <1>1, ContentsCorrect, PTL
=============================================================================
