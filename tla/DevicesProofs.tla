---------------------------- MODULE DevicesProofs ----------------------------
(***************************************************************************)
(* What is proved of the programs around the devices, for every value of   *)
(* the constants: the ring of RePlayer, the frames and replies of uartd,   *)
(* the polling thread of gsensor, the state of gyrosensor and the lights.  *)
(*                                                                         *)
(* Each program has its invariant and its part of this module; at the end  *)
(* they are put together, for a step of one leaves the others alone.       *)
(***************************************************************************)
EXTENDS MCDevices, FiniteSetTheorems, SequenceTheorems, WellFoundedInduction,
        NaturalsInduction, TLAPS

\* A set of naturals that is not empty has a smallest element.
LEMMA SmallestExists ==
  ASSUME NEW S \in SUBSET Nat, S # {}
  PROVE  \E x \in S : \A y \in S : x <= y
<1>1. IsWellFoundedOn(OpToRel(<,Nat), Nat)
  BY NatLessThanWellFounded
<1>2. PICK x \in S : \A y \in S : ~(<<y, x>> \in OpToRel(<,Nat))
  BY <1>1, WFMin
<1>3. \A y \in S : ~(y < x)
  BY <1>2 DEF OpToRel
<1>4. QED
  BY <1>3

-----------------------------------------------------------------------------
(* RePlayer: neither property is inductive by itself.  What carries them is *)
(* how full the ring is at each point of the loop: a chunk is taken only from*)
(* a ring that is full, for playing is started by a full ring and after that*)
(* one chunk comes for each that goes.                                      *)

\* How full the ring is, without a remainder.
Distance(w, r) == IF r <= w THEN w - r ELSE w - r + Max

\* A remainder that is already small enough.
LEMMA SmallRemainder ==
  ASSUME NEW M \in Nat, M > 0, NEW x \in 0 .. M - 1
  PROVE  x % M = x
  OBVIOUS

\* And one that has been passed once.
LEMMA PassedRemainder ==
  ASSUME NEW M \in Nat, M > 0, NEW x \in 0 .. M - 1
  PROVE  (x + M) % M = x
  OBVIOUS

\* The modular fill of the module is this distance.
LEMMA FillIsDistance ==
  ASSUME wi \in Slots, ri \in Slots
  PROVE  Fill = Distance(wi, ri)
<1>1. CASE ri <= wi
  <2>1. wi - ri \in 0 .. Max - 1
    BY <1>1, PoolAssumption DEF Slots
  <2>2. Fill = (wi - ri + Max) % Max
    BY DEF Fill
  <2>3. QED
    BY <1>1, <2>1, <2>2, PassedRemainder, PoolAssumption DEF Distance
<1>2. CASE ~(ri <= wi)
  <2>1. wi - ri + Max \in 0 .. Max - 1
    BY <1>2, PoolAssumption DEF Slots
  <2>2. QED
    BY <1>2, <2>1, SmallRemainder, PoolAssumption DEF Fill, Distance
<1>3. QED
  BY <1>1, <1>2

\* What the ring's operations do to its distance.
LEMMA Ring ==
  ASSUME NEW w \in Slots, NEW r \in Slots
  PROVE  /\ Distance(w, r) \in 0 .. Max - 1
         /\ Distance(w, r) = 0 <=> w = r
         /\ Nxt(w) \in Slots
         /\ Distance(w, r) = Max - 1 <=> Nxt(w) = r
         /\ Nxt(w) # r => Distance(Nxt(w), r) = Distance(w, r) + 1
         /\ w # r => Distance(w, Nxt(r)) = Distance(w, r) - 1
  BY PoolAssumption DEF Slots, Distance, Nxt

-----------------------------------------------------------------------------
(* Type correctness.                                                        *)

\* Type correctness: the indices stay in the ring and the chunks in their numbers.
THEOREM RingTypeCorrect == Spec => []TypeOK
<1>1. Init => TypeOK
  <2> SUFFICES ASSUME Init
               PROVE  TypeOK
    OBVIOUS
  <2>1. 0 \in Slots /\ {0, 1} \subseteq Chunks /\ 0 \in 0 .. MaxSignals
    BY PoolAssumption, SignalAssumption DEF Slots, Chunks
  <2>2. slot \in [Slots -> Chunks]
    BY <2>1 DEF Init
  <2>3. play \in BOOLEAN /\ full \in BOOLEAN /\ pauseFlag \in BOOLEAN
    BY DEF Init
  <2>4. rec \in BOOLEAN /\ ply \in BOOLEAN
    BY DEF Init
  <2>5. ri \in Slots /\ wi \in Slots /\ next \in Chunks /\ chunk \in Chunks /\ last \in Chunks
    BY <2>1 DEF Init
  <2>6. loop = "top" /\ signals \in 0 .. MaxSignals /\ isPaused \in BOOLEAN /\ overlapped \in BOOLEAN
    BY <2>1 DEF Init
  <2>h. handler = [t \in Threads |-> "none"]
    BY DEF Init
  <2>7. QED
    BY <2>2, <2>3, <2>4, <2>5, <2>6, <2>h DEF TypeOK
<1>2. TypeOK /\ [Next]_vars => TypeOK'
  <2> SUFFICES ASSUME TypeOK, [Next]_vars
               PROVE  TypeOK'
    OBVIOUS
  <2> USE DEF TypeOK
  <2>1. CASE Top
    BY <2>1 DEF Top, pool, sigs
  <2>l. CASE Lock
    BY <2>l DEF Lock, pool, sigs
  <2>2. CASE ReadShort
    BY <2>2 DEF ReadShort, pool, sigs
  <2>3. CASE ReadOne
    <3>1. Nxt(wi) \in Slots
      BY Ring
    <3>2. next' \in Chunks
      BY <2>3, PoolAssumption DEF ReadOne, Chunks
    <3>3. slot' \in [Slots -> Chunks] /\ wi' \in Slots /\ ri' \in Slots /\ full' \in BOOLEAN
      BY <2>3, <3>1 DEF ReadOne, pool
    <3>4. QED
      BY <2>3, <3>2, <3>3 DEF ReadOne, sigs
  <2>4. CASE Decide
    BY <2>4 DEF Decide, pool, sigs
  <2>5. CASE Take
    BY <2>5, Ring DEF Take, sigs
  <2>6. CASE WriteOk
    BY <2>6 DEF WriteOk, pool, sigs
  <2>7. CASE WriteFails
    BY <2>7 DEF WriteFails, pool, sigs
  <2>8. ASSUME NEW t \in Threads, Signal(t)
        PROVE  TypeOK'
    BY <2>8, SignalAssumption DEF Signal, Goes, pool
  <2>9. ASSUME NEW t \in Threads, Toggle(t)
        PROVE  TypeOK'
    BY <2>9 DEF Toggle, Goes, pool
  <2>10. ASSUME NEW t \in Threads, SetFlag(t)
         PROVE  TypeOK'
    BY <2>10 DEF SetFlag, Goes, pool
  <2>11. ASSUME NEW t \in Threads, HandleRec(t)
         PROVE  TypeOK'
    BY <2>11 DEF HandleRec, Goes, pool
  <2>12. ASSUME NEW t \in Threads, HandlePly(t)
         PROVE  TypeOK'
    BY <2>12 DEF HandlePly, Goes, pool
  <2>13. CASE UNCHANGED vars
    BY <2>13 DEF vars, pool, sigs
  <2>14. QED
    BY <2>1, <2>l, <2>2, <2>3, <2>4, <2>5, <2>6, <2>7, <2>8, <2>9, <2>10, <2>11, <2>12, <2>13
       DEF Next, Loop, LoopStep, Handle
<1>3. QED
  BY <1>1, <1>2, PTL DEF Spec

-----------------------------------------------------------------------------
(* How full the ring is at each point of the loop.                          *)

Level == Distance(wi, ri)

Steady ==
  /\ loop \in {"top", "lock", "read"} => (play => Level = Max - 2)
  /\ loop = "decide" => Level >= 1 /\ (play \/ full => Level = Max - 1)
  /\ loop = "take"   => Level = Max - 1
  /\ loop \in {"taken", "write"} => Level = Max - 2
  /\ loop # "exited"

\* A step that leaves the ring, the loop and the flag of playing alone.
LEMMA SteadyElsewhere ==
  ASSUME Steady, UNCHANGED <<pool, loop, play, full>>
  PROVE  Steady'
  BY DEF Steady, Level, Distance, pool

\* The handler, on whatever thread, leaves the ring, the loop and its flags alone.
LEMMA HandlerElsewhere ==
  ASSUME NEW t \in Threads, Signal(t) \/ Handle(t)
  PROVE  UNCHANGED <<pool, next, play, full, loop, chunk, last>>
  BY DEF Signal, Handle, Toggle, SetFlag, HandleRec, HandlePly

\* The ring is as full as the place in the loop says, whatever the signals do.
THEOREM RingIsSteady == Spec => []Steady
<1>1. Init => Steady
  BY PoolAssumption DEF Init, Steady, Level, Distance, Slots
<1>2. TypeOK /\ Steady /\ [Next]_vars => Steady'
  <2> SUFFICES ASSUME TypeOK, Steady, [Next]_vars
               PROVE  Steady'
    OBVIOUS
  <2>0. wi \in Slots /\ ri \in Slots
    BY DEF TypeOK
  <2>1. CASE Top
    BY <2>1 DEF Top, pool, Steady, Level, Distance
  <2>l. CASE Lock
    BY <2>l DEF Lock, pool, Steady, Level, Distance
  <2>2. CASE ReadShort
    BY <2>2 DEF ReadShort, pool, Steady, Level, Distance
  <2>3. CASE ReadOne
    <3>1. CASE Nxt(wi) = ri
      <4>1. Level' = Max - 1 /\ full' = TRUE
        <5>1. wi' = wi /\ ri' = ri /\ full' = TRUE
          BY <2>3, <3>1 DEF ReadOne, pool
        <5>2. QED
          BY <2>0, <3>1, <5>1, Ring DEF Level, Distance
      <4>2. QED
        BY <2>3, <4>1, PoolAssumption DEF ReadOne, Steady
    <3>2. CASE Nxt(wi) # ri
      <4>1. Level' = Level + 1 /\ full' = FALSE
        <5>1. wi' = Nxt(wi) /\ ri' = ri /\ full' = FALSE
          BY <2>3, <3>2 DEF ReadOne
        <5>2. QED
          BY <2>0, <3>2, <5>1, Ring DEF Level, Distance
      <4>2. Level \in 0 .. Max - 1
        BY <2>0, Ring DEF Level
      <4>3. QED
        BY <2>3, <4>1, <4>2, PoolAssumption DEF ReadOne, Steady
    <3>3. QED
      BY <3>1, <3>2
  <2>4. CASE Decide
    <3>1. ~Empty
      <4>1. Level >= 1
        BY <2>4 DEF Decide, Steady
      <4>2. Level # 0
        BY <4>1
      <4>3. wi = ri => Level = 0
        BY <2>0, Ring DEF Level
      <4>4. QED
        BY <4>2, <4>3 DEF Empty
    <3>2. Level' = Level
      BY <2>4 DEF Decide, pool, Level, Distance
    <3>3. QED
      BY <2>4, <3>1, <3>2 DEF Decide, Steady, TypeOK
  <2>5. CASE Take
    <3>1. wi # ri
      BY <2>0, <2>5, Ring, PoolAssumption DEF Take, Steady, Level
    <3>2. Level' = Level - 1
      <4>1. wi' = wi /\ ri' = Nxt(ri)
        BY <2>5, <3>1 DEF Take, Empty
      <4>2. QED
        BY <2>0, <3>1, <4>1, Ring DEF Level, Distance
    <3>3. QED
      BY <2>5, <3>1, <3>2, PoolAssumption DEF Take, Empty, Steady
  <2>6. CASE WriteOk
    BY <2>6 DEF WriteOk, pool, Steady, Level, Distance
  <2>7. CASE WriteFails
    BY <2>7 DEF WriteFails, pool, Steady, Level, Distance
  <2>8. ASSUME NEW t \in Threads, Signal(t) \/ Handle(t)
        PROVE  Steady'
    BY <2>8, HandlerElsewhere, SteadyElsewhere
  <2>9. CASE UNCHANGED vars
    BY <2>9, SteadyElsewhere DEF vars
  <2>10. QED
    BY <2>1, <2>l, <2>2, <2>3, <2>4, <2>5, <2>6, <2>7, <2>8, <2>9 DEF Next, Loop, LoopStep
<1>3. QED
  BY <1>1, <1>2, RingTypeCorrect, PTL DEF Spec

-----------------------------------------------------------------------------

\* The chunk that is to be played is always in the ring: neither the exit(-1)
\* after an empty read nor the branch for a ring that ran dry is ever taken.
THEOREM ChunkIsThere == Spec => []NeverDry
<1>1. TypeOK /\ Steady => NeverDry
  <2> SUFFICES ASSUME TypeOK, Steady
               PROVE  NeverDry
    OBVIOUS
  <2>1. wi \in Slots /\ ri \in Slots
    BY DEF TypeOK
  <2>2. QED
    BY <2>1, Ring DEF NeverDry, Steady, Level, Empty
<1>2. QED
  BY <1>1, RingTypeCorrect, RingIsSteady, PTL

\* While it plays, all but two slots of the ring are filled before every read, so
\* the delay from the recorder to the player neither grows nor shrinks.
THEOREM DelayStays == Spec => []DelayIsConstant
<1>1. TypeOK /\ Steady => DelayIsConstant
  <2> SUFFICES ASSUME TypeOK, Steady
               PROVE  DelayIsConstant
    OBVIOUS
  <2>1. Fill = Level
    BY FillIsDistance DEF TypeOK, Level
  <2>2. QED
    BY <2>1 DEF DelayIsConstant, Steady
<1>2. QED
  BY <1>1, RingTypeCorrect, RingIsSteady, PTL

\* For every number of slots: no chunk is taken from an empty ring, and the delay is
\* the same before every read while it plays.
THEOREM RingKeepsDelay == Spec => []SteadyDelay
<1>1. NeverDry /\ DelayIsConstant => SteadyDelay
  BY DEF SteadyDelay
<1>2. QED
  BY <1>1, ChunkIsThere, DelayStays, PTL

-----------------------------------------------------------------------------
(* RePlayer: the chunks of the ring grow older from slot to slot.           *)

\* The ages of chunks, without a remainder.
LEMMA AgeIs ==
  ASSUME NEW n \in Chunks, NEW k \in Chunks
  PROVE  (n - k + MaxChunks) % MaxChunks = IF k <= n THEN n - k ELSE n - k + MaxChunks
<1>1. CASE k <= n
  <2>1. n - k \in 0 .. MaxChunks - 1
    BY <1>1, PoolAssumption DEF Chunks
  <2>2. QED
    BY <1>1, <2>1, PassedRemainder, PoolAssumption
<1>2. CASE ~(k <= n)
  <2>1. n - k + MaxChunks \in 0 .. MaxChunks - 1
    BY <1>2, PoolAssumption DEF Chunks
  <2>2. QED
    BY <1>2, <2>1, SmallRemainder, PoolAssumption
<1>3. QED
  BY <1>1, <1>2

\* The number of the chunk that follows, without a remainder.
LEMMA NextIs ==
  ASSUME NEW n \in Chunks
  PROVE  (n + 1) % MaxChunks = IF n + 1 < MaxChunks THEN n + 1 ELSE 0
<1>1. CASE n + 1 < MaxChunks
  <2>1. n + 1 \in 0 .. MaxChunks - 1
    BY <1>1, PoolAssumption DEF Chunks
  <2>2. QED
    BY <1>1, <2>1, SmallRemainder, PoolAssumption
<1>2. CASE ~(n + 1 < MaxChunks)
  <2>1. n + 1 = 0 + MaxChunks /\ 0 \in 0 .. MaxChunks - 1
    BY <1>2, PoolAssumption DEF Chunks
  <2>2. QED
    BY <1>2, <2>1, PassedRemainder, PoolAssumption
<1>3. QED
  BY <1>1, <1>2

\* With every chunk the recorder delivers the others get older by one.
LEMMA AgesGrow ==
  ASSUME next \in Chunks, next' = (next + 1) % MaxChunks, NEW k \in Chunks
  PROVE  /\ Age(k) \in 0 .. MaxChunks - 1
         /\ Age(k) < MaxChunks - 1 => (next' - k + MaxChunks) % MaxChunks = Age(k) + 1
         /\ (next' - next + MaxChunks) % MaxChunks = 1
<1>1. next' \in Chunks /\ next' = IF next + 1 < MaxChunks THEN next + 1 ELSE 0
  BY NextIs, PoolAssumption DEF Chunks
<1>2. Age(k) = IF k <= next THEN next - k ELSE next - k + MaxChunks
  BY AgeIs DEF Age
<1>3. (next' - k + MaxChunks) % MaxChunks = IF k <= next' THEN next' - k ELSE next' - k + MaxChunks
  BY <1>1, AgeIs
<1>4. (next' - next + MaxChunks) % MaxChunks = IF next <= next' THEN next' - next ELSE next' - next + MaxChunks
  BY <1>1, AgeIs
<1>5. QED
  BY <1>1, <1>2, <1>3, <1>4, PoolAssumption DEF Chunks

\* The slots of the ring that hold a chunk, by how far they are from the oldest.
At(s) == Distance(s, ri)
Holds(s) == At(s) < Level
Back(s) == Level - At(s)
Late == IF full THEN 1 ELSE 0

\* The ages of what waits in the ring, and of what was played last: of two chunks
\* that follow each other at most one was refused, and full says that the last was.
RingAges ==
  /\ loop \in {"top", "lock", "read"} /\ full => Level <= Max - 2
  /\ \A s \in Slots : Holds(s) =>
       /\ Age(slot[s]) >= Back(s) /\ Age(slot[s]) <= 2 * Back(s) - 1 + Late
       /\ Age(last) > Age(slot[s])
  /\ \A s, t \in Slots : Holds(s) /\ Holds(t) /\ At(s) < At(t) => Age(slot[s]) > Age(slot[t])
  /\ Age(last) >= Level + 1 /\ Age(last) <= 2 * (Level + 1) - 1 + Late

\* Every place from 0 to Max - 1 behind the reading index is that of one slot.
LEMMA Places ==
  ASSUME NEW r \in Slots, NEW s \in Slots
  PROVE  /\ Distance(s, r) \in 0 .. Max - 1
         /\ \A t \in Slots : Distance(s, r) = Distance(t, r) => s = t
         /\ Distance(r, r) = 0
         /\ s # r => Distance(s, Nxt(r)) = Distance(s, r) - 1
         /\ Distance(r, Nxt(r)) = Max - 1
  BY PoolAssumption DEF Slots, Distance, Nxt

\* A step that leaves the pool, the numbers and full alone.
LEMMA AgesElsewhere ==
  ASSUME RingAges, UNCHANGED <<pool, next, last, full>>,
         loop' \in {"top", "lock", "read"} /\ full => Level <= Max - 2
  PROVE  RingAges'
  BY DEF RingAges, Level, Distance, pool, Holds, Back, At, Late, Age

\* A step keeps the ages: a chunk written is the youngest, and one taken the oldest.
LEMMA AgesStep ==
  ASSUME TypeOK, Steady, RingAges, [Next]_vars
  PROVE  RingAges'
<1>0. /\ wi \in Slots /\ ri \in Slots /\ next \in Chunks /\ last \in Chunks
      /\ slot \in [Slots -> Chunks] /\ full \in BOOLEAN
  BY DEF TypeOK
<1>a. Level \in 0 .. Max - 1
  BY <1>0, Ring DEF Level
<1>1. CASE Top
  BY <1>1, AgesElsewhere DEF Top, RingAges
<1>l. CASE Lock
  BY <1>l, AgesElsewhere DEF Lock, RingAges
<1>2. CASE ReadShort
  BY <1>2, AgesElsewhere DEF ReadShort, RingAges
<1>3. CASE ReadOne
  <2>0. next' = (next + 1) % MaxChunks /\ last' = last /\ loop = "read" /\ loop' = "decide"
        /\ (full' <=> Nxt(wi) = ri)
    BY <1>3 DEF ReadOne
  <2>2. Age(last) <= 2 * Max - 1
    <3>1. full => Level <= Max - 2
      BY <2>0 DEF RingAges
    <3>2. QED
      BY <1>0, <1>a, <3>1, AgesGrow, <2>0, PoolAssumption DEF RingAges, Late
  <2>3. /\ Age(last)' = Age(last) + 1
        /\ \A s \in Slots : Holds(s) => (next' - slot[s] + MaxChunks) % MaxChunks = Age(slot[s]) + 1
    <3>1. Age(last)' = Age(last) + 1
      <4>1. Age(last) \in 0 .. MaxChunks - 1 /\ Age(last) < MaxChunks - 1
        BY <1>0, <2>0, <2>2, AgesGrow, PoolAssumption
      <4>2. (next' - last + MaxChunks) % MaxChunks = Age(last) + 1
        BY <1>0, <2>0, <4>1, AgesGrow
      <4>3. QED
        BY <2>0, <4>2 DEF Age
    <3>2. ASSUME NEW s \in Slots, Holds(s)
          PROVE  (next' - slot[s] + MaxChunks) % MaxChunks = Age(slot[s]) + 1
      <4>1. slot[s] \in Chunks /\ Age(slot[s]) < Age(last)
        BY <1>0, <3>2 DEF RingAges
      <4>2. Age(slot[s]) \in 0 .. MaxChunks - 1 /\ Age(last) \in 0 .. MaxChunks - 1
        BY <1>0, <2>0, <4>1, AgesGrow
      <4>3. Age(slot[s]) < MaxChunks - 1
        BY <2>2, <4>1, <4>2, PoolAssumption
      <4>4. QED
        BY <1>0, <2>0, <4>1, <4>3, AgesGrow
    <3>3. QED
      BY <3>1, <3>2
  <2>a. \A s \in Slots : Age(slot[s]) \in Int /\ Age(last) \in Int /\ At(s) \in 0 .. Max - 1
    BY <1>0, <2>0, AgesGrow, Places DEF At
  <2>4. CASE Nxt(wi) = ri
    <3>1. UNCHANGED pool /\ full' = TRUE
      BY <1>3, <2>4 DEF ReadOne
    <3>2. Level' = Level /\ \A s \in Slots : At(s)' = At(s) /\ slot'[s] = slot[s]
      BY <3>1 DEF pool, Level, At, Distance
    <3>3. Level = Max - 1
      BY <1>0, <2>4, Ring DEF Level
    <3>4. ~full
      BY <2>0, <3>3, <1>a, PoolAssumption DEF RingAges
    <3>5. \A s \in Slots : Holds(s) => Age(slot[s])' = Age(slot[s]) + 1
      BY <2>3, <3>1 DEF pool, Age
    <3>6. \A s \in Slots : (Holds(s)' <=> Holds(s)) /\ Back(s)' = Back(s)
      BY <3>2 DEF Holds, Back
    <3>7. Late = 0 /\ Late' = 1
      BY <3>1, <3>4 DEF Late
    <3>8. loop' \notin {"top", "lock", "read"}
      BY <2>0
    <3>9. ASSUME NEW s \in Slots, Holds(s)'
          PROVE  /\ Age(slot[s])' >= Back(s)' /\ Age(slot[s])' <= 2 * Back(s)' - 1 + Late'
                 /\ Age(last)' > Age(slot[s])'
      <4>1. Holds(s) /\ Back(s)' = Back(s) /\ Age(slot[s])' = Age(slot[s]) + 1 /\ Back(s) \in Int
        BY <1>a, <2>a, <3>5, <3>6, <3>9 DEF Back
      <4>2. /\ Age(slot[s]) >= Back(s) /\ Age(slot[s]) <= 2 * Back(s) - 1 + Late
            /\ Age(last) > Age(slot[s])
        BY <4>1 DEF RingAges
      <4>3. QED
        BY <2>3, <2>a, <3>7, <4>1, <4>2
    <3>10. ASSUME NEW s \in Slots, NEW t \in Slots, Holds(s)', Holds(t)', At(s)' < At(t)'
           PROVE  Age(slot[s])' > Age(slot[t])'
      <4>1. Age(slot[s]) > Age(slot[t])
        BY <3>2, <3>6, <3>10 DEF RingAges
      <4>2. QED
        BY <2>a, <3>5, <3>6, <3>10, <4>1
    <3>11. Age(last)' >= Level' + 1 /\ Age(last)' <= 2 * (Level' + 1) - 1 + Late'
      BY <1>0, <1>a, <2>3, <2>a, <3>2, <3>7 DEF RingAges
    <3>12. QED
      BY <3>8, <3>9, <3>10, <3>11 DEF RingAges
  <2>5. CASE Nxt(wi) # ri
    <3>1. slot' = [slot EXCEPT ![wi] = next] /\ wi' = Nxt(wi) /\ ri' = ri /\ full' = FALSE
      BY <1>3, <2>5 DEF ReadOne
    <3>2. Level' = Level + 1 /\ \A s \in Slots : At(s)' = At(s)
      BY <1>0, <2>5, <3>1, Ring DEF Level, At, Distance
    <3>3. At(wi) = Level /\ \A s \in Slots : At(s) = Level => s = wi
      BY <1>0, Places DEF At, Level
    <3>4. \A s \in Slots : Holds(s)' <=> Holds(s) \/ s = wi
      BY <1>0, <1>a, <2>a, <3>2, <3>3 DEF Holds
    <3>5. \A s \in Slots : Holds(s) => s # wi /\ Age(slot[s])' = Age(slot[s]) + 1
                                      /\ Back(s)' = Back(s) + 1
      BY <1>0, <1>a, <2>3, <2>a, <3>1, <3>2, <3>3 DEF Holds, Age, Back
    <3>6. ASSUME NEW s \in Slots, s = wi
          PROVE  Age(slot[s])' = 1 /\ Back(s)' = 1
      <4>1. slot'[s] = next
        BY <1>0, <3>1, <3>6
      <4>2. (next' - next + MaxChunks) % MaxChunks = 1
        BY <1>0, <2>0, AgesGrow
      <4>3. At(s)' = Level
        BY <3>2, <3>3, <3>6
      <4>4. QED
        BY <1>a, <3>2, <4>1, <4>2, <4>3 DEF Age, Back
    <3>7. Late \in {0, 1} /\ Late' = 0
      BY <3>1 DEF Late
    <3>8. loop' \notin {"top", "lock", "read"}
      BY <2>0
    <3>9. Age(last)' >= Level' + 1 /\ Age(last)' <= 2 * (Level' + 1) - 1 + Late'
      BY <1>a, <2>3, <2>a, <3>2, <3>7, <1>0 DEF RingAges
    <3>10. ASSUME NEW s \in Slots, Holds(s)'
           PROVE  /\ Age(slot[s])' >= Back(s)' /\ Age(slot[s])' <= 2 * Back(s)' - 1 + Late'
                  /\ Age(last)' > Age(slot[s])'
      <4>1. CASE s = wi
        <5>1. Age(slot[s])' = 1 /\ Back(s)' = 1
          BY <3>6, <4>1
        <5>2. Age(last)' > 1
          BY <1>a, <3>2, <3>9, <2>3, <2>a
        <5>3. QED
          BY <3>7, <5>1, <5>2
      <4>2. CASE s # wi
        <5>1. Holds(s) /\ Back(s)' = Back(s) + 1 /\ Age(slot[s])' = Age(slot[s]) + 1 /\ Back(s) \in Int
          BY <1>a, <2>a, <3>4, <3>5, <3>10, <4>2 DEF Back
        <5>2. /\ Age(slot[s]) >= Back(s) /\ Age(slot[s]) <= 2 * Back(s) - 1 + Late
              /\ Age(last) > Age(slot[s])
          BY <5>1 DEF RingAges
        <5>3. QED
          BY <2>3, <2>a, <3>7, <5>1, <5>2
      <4>3. QED
        BY <4>1, <4>2
    <3>11. ASSUME NEW s \in Slots, NEW t \in Slots, Holds(s)', Holds(t)', At(s)' < At(t)'
           PROVE  Age(slot[s])' > Age(slot[t])'
      <4>1. At(s) < At(t) /\ s # wi /\ Holds(s)
        <5>1. At(s) < At(t)
          BY <3>2, <3>11
        <5>2. At(t) <= Level
          BY <1>a, <2>a, <3>3, <3>4, <3>11 DEF Holds
        <5>3. QED
          BY <1>a, <2>a, <3>3, <3>4, <3>11, <5>1, <5>2
      <4>2. Age(slot[s])' = Age(slot[s]) + 1 /\ Age(slot[s]) >= 1
        <5>1. Back(s) >= 1
          BY <1>a, <2>a, <4>1 DEF Back, Holds
        <5>2. QED
          BY <1>a, <2>a, <3>5, <4>1, <5>1 DEF RingAges, Back
      <4>3. CASE t = wi
        BY <2>a, <3>6, <4>2, <4>3
      <4>4. CASE t # wi
        <5>1. Holds(t) /\ Age(slot[t])' = Age(slot[t]) + 1
          BY <3>4, <3>5, <3>11, <4>4
        <5>2. Age(slot[s]) > Age(slot[t])
          BY <4>1, <5>1 DEF RingAges
        <5>3. QED
          BY <2>a, <4>2, <5>1, <5>2
      <4>5. QED
        BY <4>3, <4>4
    <3>12. QED
      BY <3>8, <3>9, <3>10, <3>11 DEF RingAges
  <2>6. QED
    BY <2>4, <2>5
<1>4. CASE Decide
  <2>1. UNCHANGED <<pool, next, last, full>>
    BY <1>4 DEF Decide
  <2>2. ~(loop' \in {"top", "lock", "read"} /\ full)
    <3>1. Level >= 1
      BY <1>4 DEF Decide, Steady
    <3>2. ~Empty
      <4>1. wi = ri => Level = 0
        BY <1>0, Ring DEF Level
      <4>2. QED
        BY <3>1, <4>1 DEF Empty
    <3>3. full => loop' = "take"
      BY <1>4, <3>2 DEF Decide
    <3>4. QED
      BY <3>3
  <2>3. QED
    BY <2>1, <2>2, AgesElsewhere
<1>5. CASE Take
  <2>1. Level = Max - 1 /\ wi # ri
    <3>1. Level = Max - 1
      BY <1>5 DEF Take, Steady
    <3>2. wi = ri => Level = 0
      BY <1>0, Ring DEF Level
    <3>3. QED
      BY <3>1, <3>2, PoolAssumption
  <2>2. ri' = Nxt(ri) /\ last' = slot[ri] /\ loop' = "taken" /\ UNCHANGED <<slot, wi, next, full>>
    <3>1. ~Empty
      BY <2>1 DEF Empty
    <3>2. ri' = Nxt(ri) /\ last' = slot[ri] /\ loop' = "taken"
      BY <1>5, <3>1 DEF Take
    <3>3. UNCHANGED <<slot, wi, next, full>>
      BY <1>5 DEF Take
    <3>4. QED
      BY <3>2, <3>3
  <2>3. Level' = Level - 1 /\ At(ri) = 0 /\ Level > 0
    BY <1>0, <2>1, <2>2, Ring, PoolAssumption DEF Level, At
  <2>4. \A s \in Slots : /\ Age(slot[s])' = Age(slot[s])
                         /\ s # ri => At(s)' = At(s) - 1
                         /\ s = ri => At(s)' = Max - 1
    BY <1>0, <2>2, Places DEF At, Age
  <2>5. \A s \in Slots : Holds(s)' => s # ri /\ Holds(s) /\ Back(s)' = Back(s) /\ At(s) > 0
    <3>1. \A s \in Slots : At(s) \in 0 .. Max - 1 /\ (At(s) = 0 => s = ri)
      BY <1>0, <2>3, Places DEF At
    <3>2. QED
      BY <1>a, <2>1, <2>3, <2>4, <3>1 DEF Holds, Back
  <2>6. Holds(ri) /\ Back(ri) = Level
    BY <2>3, <1>a DEF Holds, Back
  <2>7. Age(last)' = Age(slot[ri]) /\ Late' = Late
    BY <2>2 DEF Age, Late
  <2>8. \A s, t \in Slots : Holds(s)' /\ Holds(t)' /\ At(s)' < At(t)' => At(s) < At(t)
    <3>1. \A s \in Slots : At(s) \in 0 .. Max - 1
      BY <1>0, Places DEF At
    <3>2. QED
      BY <2>4, <2>5, <3>1
  <2>9. QED
    BY <1>0, <1>a, <2>2, <2>3, <2>4, <2>5, <2>6, <2>7, <2>8 DEF RingAges
<1>6. CASE WriteOk
  <2>1. UNCHANGED <<pool, next, last, full>> /\ Level = Max - 2
    BY <1>6 DEF WriteOk, Steady
  <2>2. QED
    BY <2>1, AgesElsewhere
<1>7. CASE WriteFails
  <2>1. UNCHANGED <<pool, next, last, full>> /\ Level = Max - 2
    BY <1>7 DEF WriteFails, Steady
  <2>2. QED
    BY <2>1, PoolAssumption, AgesElsewhere
<1>8. ASSUME UNCHANGED <<pool, next, last, full, loop>>
      PROVE  RingAges'
  BY <1>8, AgesElsewhere DEF RingAges
<1>9. ASSUME NEW t \in Threads, Signal(t) \/ Handle(t)
      PROVE  RingAges'
  BY <1>8, <1>9, HandlerElsewhere
<1>10. CASE UNCHANGED vars
  BY <1>8, <1>10 DEF vars
<1>11. QED
  BY <1>1, <1>l, <1>2, <1>3, <1>4, <1>5, <1>6, <1>7, <1>9, <1>10 DEF Next, Loop, LoopStep

\* The slot of the k-th chunk that waits.
LEMMA WaitingAt ==
  ASSUME NEW r \in Slots, NEW d \in 0 .. Max - 1
  PROVE  (r + d) % Max \in Slots /\ Distance((r + d) % Max, r) = d
<1>1. CASE r + d < Max
  <2>1. r + d \in 0 .. Max - 1
    BY <1>1, PoolAssumption DEF Slots
  <2>2. (r + d) % Max = r + d
    BY <2>1, SmallRemainder, PoolAssumption
  <2>3. QED
    BY <2>1, <2>2 DEF Slots, Distance
<1>2. CASE ~(r + d < Max)
  <2>1. r + d - Max \in 0 .. Max - 1 /\ r + d = (r + d - Max) + Max
    BY <1>2, PoolAssumption DEF Slots
  <2>2. (r + d) % Max = r + d - Max
    BY <2>1, PassedRemainder, PoolAssumption
  <2>3. QED
    BY <2>1, <2>2, PoolAssumption DEF Slots, Distance
<1>3. QED
  BY <1>1, <1>2

\* From the ages of the slots follows the order of what waits, and of what was played last.
LEMMA AgesAreInOrder ==
  ASSUME TypeOK, RingAges
  PROVE  InOrder
<1> DEFINE q == [k \in 1 .. Fill |-> slot[(ri + k - 1) % Max]]
<1>0. wi \in Slots /\ ri \in Slots /\ Fill = Level /\ Level \in 0 .. Max - 1
  BY FillIsDistance, Ring DEF TypeOK, Level
<1>1. ASSUME NEW k \in 1 .. Fill
      PROVE  \E s \in Slots : At(s) = k - 1 /\ Holds(s) /\ q[k] = slot[s]
  <2>1. k - 1 \in 0 .. Max - 1 /\ ri + k - 1 = ri + (k - 1)
    BY <1>0, PoolAssumption DEF Slots
  <2>2. (ri + (k - 1)) % Max \in Slots /\ Distance((ri + (k - 1)) % Max, ri) = k - 1
    BY <1>0, <2>1, WaitingAt
  <2>3. QED
    BY <1>0, <2>1, <2>2 DEF At, Holds
<1> HIDE DEF q
<1>2. ASSUME NEW j \in 1 .. Fill, NEW k \in 1 .. Fill, j < k
      PROVE  Age(q[j]) > Age(q[k])
  <2>1. PICK s \in Slots : At(s) = j - 1 /\ Holds(s) /\ q[j] = slot[s]
    BY <1>1
  <2>2. PICK t \in Slots : At(t) = k - 1 /\ Holds(t) /\ q[k] = slot[t]
    BY <1>1
  <2>3. QED
    BY <1>2, <2>1, <2>2 DEF RingAges
<1>3. ASSUME Fill > 0
      PROVE  Age(last) > Age(q[1])
  <2>1. PICK s \in Slots : At(s) = 1 - 1 /\ Holds(s) /\ q[1] = slot[s]
    BY <1>0, <1>1, <1>3
  <2>2. QED
    BY <2>1 DEF RingAges
<1>4. QED
  BY <1>2, <1>3 DEF InOrder, q

\* For every number of slots: what waits in the ring is in the order it was recorded in,
\* and later than the chunk played last.
THEOREM PlaysInOrder == Spec => []InOrder
<1>1. Init => RingAges
  <2> SUFFICES ASSUME Init
               PROVE  RingAges
    OBVIOUS
  <2>1. Level = 0 /\ last = 0 /\ next = 1 /\ full = FALSE
    BY PoolAssumption DEF Init, Level, Distance, Slots
  <2>2. Age(last) = 1
    <3>1. 0 \in Chunks /\ 1 \in Chunks
      BY PoolAssumption DEF Chunks
    <3>2. QED
      BY <2>1, <3>1, AgeIs DEF Age
  <2>3. \A s \in Slots : ~Holds(s)
    <3>1. ri \in Slots
      BY PoolAssumption DEF Init, Slots
    <3>2. QED
      BY <2>1, <3>1, Places DEF Holds, At
  <2>4. QED
    BY <2>1, <2>2, <2>3, PoolAssumption DEF RingAges, Late
<1>2. TypeOK /\ Steady /\ RingAges /\ [Next]_vars => RingAges'
  BY AgesStep
<1>3. TypeOK /\ RingAges => InOrder
  BY AgesAreInOrder
<1>4. QED
  BY <1>1, <1>2, <1>3, RingTypeCorrect, RingIsSteady, PTL DEF Spec

-----------------------------------------------------------------------------
(* uartd                                                                    *)

\* The instance's Cardinality is that of FiniteSets.
LEMMA UartCardinality ==
  ASSUME NEW S
  PROVE  U!Cardinality(S) = Cardinality(S)
  BY DEF U!Cardinality, Cardinality

\* A frame ends at one newline only, the first.
LEMMA ClosesOnce ==
  ASSUME NEW s, NEW i \in Nat, NEW e \in Nat, NEW f \in Nat,
         U!Closes(s, i, e), U!Closes(s, i, f)
  PROVE  e = f
  BY DEF U!Closes

\* Up to p no frame of s is open.
NoneOpen(s, p) == \A j \in 1 .. p : s[j] = "^" => \E k \in j .. p : s[k] = "\n"
\* The complete frames that open up to p.
UpTo(s, p) == {i \in U!Complete(s) : i <= p}

\* A head that is not open any more at p has been closed before.
LEMMA ClosedBefore ==
  ASSUME NEW C, NEW s \in Seq(C), NEW p \in 0 .. Len(s), NoneOpen(s, p),
         NEW i \in 1 .. p, U!Opens(s, i)
  PROVE  \E e \in 1 .. p : U!Closes(s, i, e)
<1> DEFINE K == {k \in i .. p : s[k] = "\n"}
<1>1. s[i] = "^" /\ i \in Nat /\ p \in Nat
  BY DEF U!Opens
<1>2. K # {} /\ K \in SUBSET Nat
  BY <1>1 DEF NoneOpen
<1>3. PICK e \in K : \A k \in K : e <= k
  BY <1>2, SmallestExists
<1>4. e \in i .. p /\ s[e] = "\n" /\ e # i
  BY <1>1, <1>3
<1>5. \A k \in i .. e - 1 : s[k] # "\n"
  BY <1>1, <1>3, <1>4
<1>6. QED
  BY <1>1, <1>4, <1>5 DEF U!Closes

\* The complete frames up to p are its heads.
LEMMA UpToIs ==
  ASSUME NEW C, NEW s \in Seq(C), NEW p \in 0 .. Len(s), NoneOpen(s, p)
  PROVE  /\ UpTo(s, p) = {i \in 1 .. p : U!Opens(s, i)}
         /\ IsFiniteSet(UpTo(s, p))
         /\ \A i \in UpTo(s, p) : {j \in U!Complete(s) : j <= i} = {j \in 1 .. i : U!Opens(s, j)}
<1>1. Len(s) \in Nat
  OBVIOUS
<1>2. \A i \in 1 .. p : U!Opens(s, i) => i \in U!Complete(s)
  BY <1>1, ClosedBefore DEF U!Complete
<1>3. UpTo(s, p) = {i \in 1 .. p : U!Opens(s, i)}
  BY <1>1, <1>2 DEF UpTo, U!Complete
<1>4. IsFiniteSet(UpTo(s, p))
  <2>1. IsFiniteSet(1 .. p)
    BY FS_Interval
  <2>2. UpTo(s, p) \subseteq 1 .. p
    BY <1>3
  <2>3. QED
    BY <2>1, <2>2, FS_Subset
<1>5. \A i \in UpTo(s, p) : {j \in U!Complete(s) : j <= i} = {j \in 1 .. i : U!Opens(s, j)}
  BY <1>1, <1>2, <1>3 DEF U!Complete
<1>6. QED
  BY <1>3, <1>4, <1>5

\* What is received later changes nothing of the frames before.
LEMMA FramesStay ==
  ASSUME NEW C, NEW s \in Seq(C), NEW t \in Seq(C), NEW p \in 0 .. Len(s), NoneOpen(s, p),
         Len(s) <= Len(t), \A i \in 1 .. Len(s) : t[i] = s[i]
  PROVE  /\ NoneOpen(t, p) /\ UpTo(t, p) = UpTo(s, p)
         /\ \A i \in UpTo(s, p) : U!Nth(t, i) = U!Nth(s, i) /\ U!Frame(t, i) = U!Frame(s, i)
<1>0. Len(s) \in Nat /\ Len(t) \in Nat /\ p \in Nat /\ p \in 0 .. Len(t)
  OBVIOUS
<1>1. NoneOpen(t, p)
  BY <1>0 DEF NoneOpen
<1>2. \A i \in 1 .. p : U!Opens(t, i) <=> U!Opens(s, i)
  BY <1>0 DEF U!Opens
<1>3. UpTo(t, p) = UpTo(s, p)
  <2>1. UpTo(s, p) = {i \in 1 .. p : U!Opens(s, i)}
    BY UpToIs
  <2>2. UpTo(t, p) = {i \in 1 .. p : U!Opens(t, i)}
    BY <1>0, <1>1, UpToIs
  <2>3. QED
    BY <1>2, <2>1, <2>2
<1>4. ASSUME NEW i \in UpTo(s, p)
      PROVE  U!Nth(t, i) = U!Nth(s, i)
  <2>1. i \in 1 .. p
    BY UpToIs
  <2>2. {j \in 1 .. i : U!Opens(t, j)} = {j \in 1 .. i : U!Opens(s, j)}
    BY <1>2, <2>1
  <2>3. QED
    BY <1>0, <1>1, <1>3, <2>2, UpToIs DEF U!Nth
<1>5. ASSUME NEW i \in UpTo(s, p)
      PROVE  U!Frame(t, i) = U!Frame(s, i)
  <2>1. i \in 1 .. p /\ U!Opens(s, i)
    BY UpToIs
  <2>2. PICK e \in 1 .. p : U!Closes(s, i, e)
    BY <2>1, ClosedBefore
  <2>3. U!Closes(t, i, e)
    BY <1>0, <2>1, <2>2 DEF U!Closes
  <2>4. (CHOOSE f \in 1 .. Len(s) : U!Closes(s, i, f)) = e
    BY <1>0, <2>1, <2>2, ClosesOnce
  <2>5. (CHOOSE f \in 1 .. Len(t) : U!Closes(t, i, f)) = e
    BY <1>0, <2>1, <2>2, <2>3, ClosesOnce
  <2>6. SubSeq(t, i, e - 1) = SubSeq(s, i, e - 1)
    BY <1>0, <2>1, <2>2 DEF U!Closes
  <2>7. QED
    BY <2>4, <2>5, <2>6 DEF U!Frame
<1>6. QED
  BY <1>1, <1>3, <1>4, <1>5

\* What is outside a frame adds none.
LEMMA FramesSkip ==
  ASSUME NEW C, NEW s \in Seq(C), NEW p \in 0 .. Len(s), NEW q \in p .. Len(s), NoneOpen(s, p),
         \A j \in p + 1 .. q : s[j] # "^"
  PROVE  NoneOpen(s, q) /\ UpTo(s, q) = UpTo(s, p)
<1>0. Len(s) \in Nat /\ p \in Nat /\ q \in 0 .. Len(s)
  OBVIOUS
<1>1. NoneOpen(s, q)
  BY <1>0 DEF NoneOpen
<1>2. \A i \in 1 .. q : U!Opens(s, i) => i \in 1 .. p
  BY <1>0 DEF U!Opens
<1>3. QED
  BY <1>0, <1>1, <1>2, UpToIs

\* A head with the newline that follows it adds one.
LEMMA FrameAdds ==
  ASSUME NEW C, NEW s \in Seq(C), NEW p \in 0 .. Len(s), NEW e \in p + 2 .. Len(s), NoneOpen(s, p),
         s[p + 1] = "^", s[e] = "\n", \A k \in p + 1 .. e - 1 : s[k] # "\n"
  PROVE  /\ NoneOpen(s, e) /\ UpTo(s, e) = UpTo(s, p) \cup {p + 1}
         /\ p + 1 \notin UpTo(s, p)
         /\ U!Nth(s, p + 1) = Cardinality(UpTo(s, p)) + 1
         /\ \A i \in UpTo(s, p) : U!Nth(s, i) \in 1 .. Cardinality(UpTo(s, p))
         /\ U!Frame(s, p + 1) = SubSeq(s, p + 1, e - 1)
<1>0. Len(s) \in Nat /\ p \in Nat /\ e \in 0 .. Len(s) /\ e \in Nat
  OBVIOUS
<1>1. NoneOpen(s, e)
  BY <1>0 DEF NoneOpen
<1>2. U!Opens(s, p + 1)
  BY <1>0 DEF U!Opens, NoneOpen
<1>3. \A i \in p + 2 .. e : ~U!Opens(s, i)
  <2> SUFFICES ASSUME NEW i \in p + 2 .. e, U!Opens(s, i)
               PROVE  FALSE
    OBVIOUS
  <2>1. s[i] = "^" /\ i # e /\ p + 1 \in 1 .. i - 1
    BY <1>0 DEF U!Opens
  <2>2. \E k \in p + 1 .. i : s[k] = "\n"
    BY <2>1 DEF U!Opens
  <2>3. QED
    BY <1>0, <2>1, <2>2
<1>4. UpTo(s, e) = UpTo(s, p) \cup {p + 1} /\ p + 1 \notin UpTo(s, p)
  <2>1. UpTo(s, p) = {i \in 1 .. p : U!Opens(s, i)}
    BY UpToIs
  <2>2. UpTo(s, e) = {i \in 1 .. e : U!Opens(s, i)}
    BY <1>0, <1>1, UpToIs
  <2>3. QED
    BY <1>0, <1>2, <1>3, <2>1, <2>2
<1>5. IsFiniteSet(UpTo(s, p)) /\ Cardinality(UpTo(s, p)) \in Nat
  BY UpToIs, FS_CardinalityType
<1>6. U!Nth(s, p + 1) = Cardinality(UpTo(s, p)) + 1
  <2>1. {j \in U!Complete(s) : j <= p + 1} = UpTo(s, p) \cup {p + 1}
    <3>1. \A j \in U!Complete(s) : j \in Nat
      BY DEF U!Complete
    <3>2. UpTo(s, e) = {j \in U!Complete(s) : j <= e}
      BY DEF UpTo
    <3>3. QED
      BY <1>0, <1>4, <3>1, <3>2 DEF UpTo
  <2>2. QED
    BY <1>4, <1>5, <2>1, FS_AddElement, UartCardinality DEF U!Nth
<1>7. ASSUME NEW i \in UpTo(s, p)
      PROVE  U!Nth(s, i) \in 1 .. Cardinality(UpTo(s, p))
  <2> DEFINE J == {j \in U!Complete(s) : j <= i}
  <2>1. i \in 1 .. p /\ \A j \in U!Complete(s) : j \in Nat
    BY UpToIs DEF U!Complete
  <2>2. J \subseteq UpTo(s, p) /\ i \in J
    <3>1. i \in U!Complete(s) /\ i <= i
      BY <2>1 DEF UpTo
    <3>2. \A j \in J : j \in U!Complete(s) /\ j <= p
      BY <1>0, <2>1
    <3>3. QED
      BY <3>1, <3>2 DEF UpTo
  <2> HIDE DEF J
  <2>a. J \in SUBSET UpTo(s, p)
    BY <2>2
  <2>b. IsFiniteSet(J) /\ Cardinality(J) <= Cardinality(UpTo(s, p))
    BY <1>5, <2>a, FS_Subset
  <2>3. IsFiniteSet(J) /\ Cardinality(J) <= Cardinality(UpTo(s, p)) /\ Cardinality(J) \in Nat
    BY <2>b, FS_CardinalityType
  <2>4. Cardinality(J) # 0
    BY <2>2, <2>3, FS_EmptySet
  <2>5. QED
    BY <1>5, <2>3, <2>4, UartCardinality DEF U!Nth, J
<1>8. U!Frame(s, p + 1) = SubSeq(s, p + 1, e - 1)
  <2>1. U!Closes(s, p + 1, e)
    BY <1>0 DEF U!Closes
  <2>2. (CHOOSE f \in 1 .. Len(s) : U!Closes(s, p + 1, f)) = e
    BY <1>0, <2>1, ClosesOnce
  <2>3. QED
    BY <2>2 DEF U!Frame
<1>9. QED
  BY <1>1, <1>4, <1>6, <1>7, <1>8

\* The first place of a character, or 0.
LEMMA FindIs ==
  ASSUME NEW C, NEW s \in Seq(C), NEW ch
  PROVE  \/ U!Find(s, ch) = 0 /\ \A i \in 1 .. Len(s) : s[i] # ch
         \/ /\ U!Find(s, ch) \in 1 .. Len(s) /\ s[U!Find(s, ch)] = ch
            /\ \A i \in 1 .. U!Find(s, ch) - 1 : s[i] # ch
<1> DEFINE I == {i \in 1 .. Len(s) : s[i] = ch}
<1>1. U!Find(s, ch) = IF I # {} THEN U!Min(I) ELSE 0
  BY DEF U!Find, U!SelectInSeq
<1>2. CASE I = {}
  BY <1>1, <1>2
<1>3. CASE I # {}
  <2>1. \E x \in I : \A y \in I : x <= y
    <3>1. I \in SUBSET Nat
      OBVIOUS
    <3>2. QED
      BY <1>3, <3>1, SmallestExists
  <2>2. U!Min(I) \in I /\ \A y \in I : U!Min(I) <= y
    BY <2>1 DEF U!Min
  <2>3. U!Find(s, ch) \in 1 .. Len(s) /\ s[U!Find(s, ch)] = ch
    BY <1>1, <1>3, <2>2
  <2>4. \A i \in 1 .. U!Find(s, ch) - 1 : s[i] # ch
    BY <1>1, <1>3, <2>2, <2>3
  <2>5. QED
    BY <2>3, <2>4
<1>4. QED
  BY <1>2, <1>3

\* The end of a sequence.
LEMMA FromIs ==
  ASSUME NEW C, NEW s \in Seq(C), NEW k \in 1 .. Len(s) + 1
  PROVE  /\ U!From(s, k) \in Seq(C) /\ Len(U!From(s, k)) = Len(s) - k + 1
         /\ \A i \in 1 .. Len(s) - k + 1 : U!From(s, k)[i] = s[k - 1 + i]
  BY DEF U!From

\* The characters of a reply.
RC == {"^", "r", "\n"}

\* The types, with the replies as the only thing that is written.
UartTypes ==
  /\ rx \in Seq(U!Chars) /\ req \in Seq(U!Chars) /\ need \in BOOLEAN
  /\ reader \in {"read", "notify"} /\ writer \in {"take", "asleep"}
  /\ parser \in {"take", "asleep", "notify"}
  /\ cut \in Seq(Seq(U!Chars))
  /\ rq \in Seq(Seq(U!Chars)) /\ Len(rq) <= RxCap /\ \A k \in 1 .. Len(rq) : rq[k][1] = "^"
  /\ wq \in Seq({U!Reply}) /\ Len(wq) <= TxCap
  /\ rest \in Seq(RC) /\ line \in Seq(RC) /\ sent \in Nat

\* What the reader has passed of the stream, and what it has cut of it.
Passed == Len(rx) - Len(req)
UartReads ==
  /\ Passed \in 0 .. Len(rx) /\ \A i \in 1 .. Len(req) : req[i] = rx[Passed + i]
  /\ NoneOpen(rx, Passed)
  /\ need \/ (req # <<>> /\ req[1] = "^")
  /\ Len(cut) = Cardinality(UpTo(rx, Passed))
  /\ \A i \in UpTo(rx, Passed) : U!Nth(rx, i) \in 1 .. Len(cut) /\ cut[U!Nth(rx, i)] = U!Frame(rx, i)

\* Two sequences, one behind the other.
LEMMA Joined ==
  ASSUME NEW C, NEW s \in Seq(C), NEW t \in Seq(C)
  PROVE  /\ s \o t \in Seq(C) /\ Len(s \o t) = Len(s) + Len(t)
         /\ \A i \in 1 .. Len(s) : (s \o t)[i] = s[i]
         /\ \A i \in 1 .. Len(t) : (s \o t)[Len(s) + i] = t[i]
<1>1. s \o t \in Seq(C) /\ Len(s \o t) = Len(s) + Len(t)
  OBVIOUS
<1>2. \A i \in 1 .. Len(s) : (s \o t)[i] = s[i]
  OBVIOUS
<1>3. \A i \in 1 .. Len(t) : (s \o t)[Len(s) + i] = t[i]
  OBVIOUS
<1>4. QED
  BY <1>1, <1>2, <1>3

\* One read: what it appends, what it skips in front of a head, and the frame it cuts.
LEMMA ReadStep ==
  ASSUME U!CapBounds, UartTypes, UartReads, NEW n \in 1 .. MaxRead, U!ReadSome(n)
  PROVE  /\ UartTypes' /\ UartReads'
         /\ Cardinality(U!Complete(rx')) > Len(cut) => Len(cut') = Len(cut) + 1
<1>0. rx \in Seq(U!Chars) /\ req \in Seq(U!Chars) /\ need \in BOOLEAN /\ Len(rx) \in Nat
      /\ Len(req) \in Nat /\ cut \in Seq(Seq(U!Chars)) /\ Passed \in 0 .. Len(rx)
      /\ Passed = Len(rx) - Len(req) /\ n \in Nat
  BY DEF UartTypes, UartReads, Passed, U!CapBounds
<1>1. PICK new \in [1 .. n -> U!Chars] :
         LET r == U!Headed(req \o new)
             t == U!Find(r, "\n")
         IN  /\ rx' = rx \o new
             /\ IF r = <<>>
                THEN req' = <<>> /\ need' = TRUE /\ UNCHANGED <<cut, rq, reader>>
                ELSE IF t = 0
                THEN req' = r /\ need' = FALSE /\ UNCHANGED <<cut, rq, reader>>
                ELSE /\ req' = U!From(r, t + 1) /\ need' = TRUE
                     /\ cut' = Append(cut, SubSeq(r, 1, t - 1))
                     /\ IF Len(rq) < RxCap
                        THEN rq' = Append(rq, SubSeq(r, 1, t - 1)) /\ reader' = "notify"
                        ELSE UNCHANGED <<rq, reader>>
  BY DEF U!ReadSome
<1> DEFINE b == req \o new
           r == U!Headed(b)
           t == U!Find(r, "\n")
           q == Len(rx') - Len(r)
<1>2. UNCHANGED <<parser, wq, writer, rest, line, sent>>
  BY DEF U!ReadSome
<1>3. new \in Seq(U!Chars) /\ Len(new) = n
  BY <1>0, <1>1
<1>4. /\ rx' \in Seq(U!Chars) /\ Len(rx') = Len(rx) + n
      /\ \A i \in 1 .. Len(rx) : rx'[i] = rx[i]
      /\ \A i \in 1 .. n : rx'[Len(rx) + i] = new[i]
  <2>1. rx' = rx \o new
    BY <1>1
  <2>2. rx \in Seq(U!Chars)
    BY <1>0
  <2>a. new \in Seq(U!Chars)
    BY <1>3
  <2>b. /\ rx \o new \in Seq(U!Chars) /\ Len(rx \o new) = Len(rx) + Len(new)
        /\ \A i \in 1 .. Len(rx) : (rx \o new)[i] = rx[i]
        /\ \A i \in 1 .. Len(new) : (rx \o new)[Len(rx) + i] = new[i]
    BY <2>a, <2>2, Joined
  <2>3. /\ rx \o new \in Seq(U!Chars) /\ Len(rx \o new) = Len(rx) + n
        /\ \A i \in 1 .. Len(rx) : (rx \o new)[i] = rx[i]
        /\ \A i \in 1 .. n : (rx \o new)[Len(rx) + i] = new[i]
    BY <1>3, <2>b
  <2>4. QED
    BY <2>1, <2>3
<1>5. /\ b \in Seq(U!Chars) /\ Len(b) = Len(req) + n
      /\ \A i \in 1 .. Len(b) : b[i] = rx'[Passed + i]
  <2>1. b \in Seq(U!Chars) /\ Len(b) = Len(req) + n
    <3>1. req \in Seq(U!Chars)
      BY <1>0
    <3>2. QED
      BY <1>3, <3>1, Joined
  <2>2. ASSUME NEW i \in 1 .. Len(b)
        PROVE  b[i] = rx'[Passed + i]
    <3>1. CASE i <= Len(req)
      <4>0. req \in Seq(U!Chars) /\ i \in 1 .. Len(req)
        BY <1>0, <2>1, <3>1
      <4>1. b[i] = req[i] /\ req[i] = rx[Passed + i] /\ Passed + i \in 1 .. Len(rx)
        <5>1. b[i] = req[i]
          BY <1>3, <4>0, Joined
        <5>2. req[i] = rx[Passed + i]
          BY <4>0 DEF UartReads
        <5>3. Passed + i \in 1 .. Len(rx)
          BY <1>0, <4>0
        <5>4. QED
          BY <5>1, <5>2, <5>3
      <4>2. QED
        BY <1>4, <4>1
    <3>2. CASE ~(i <= Len(req))
      <4>0. req \in Seq(U!Chars) /\ i - Len(req) \in 1 .. n /\ Len(req) + (i - Len(req)) = i
        BY <1>0, <2>1, <3>2
      <4>1. b[i] = new[i - Len(req)]
        BY <1>3, <4>0, Joined
      <4>2. Passed + i = Len(rx) + (i - Len(req))
        BY <1>0, <4>0
      <4>3. QED
        BY <1>4, <4>0, <4>1, <4>2
    <3>3. QED
      BY <3>1, <3>2
  <2>3. QED
    BY <2>1, <2>2
<1>6. /\ NoneOpen(rx', Passed) /\ UpTo(rx', Passed) = UpTo(rx, Passed)
      /\ \A i \in UpTo(rx, Passed) : U!Nth(rx', i) = U!Nth(rx, i) /\ U!Frame(rx', i) = U!Frame(rx, i)
  <2>1. Passed \in 0 .. Len(rx) /\ NoneOpen(rx, Passed) /\ Len(rx) <= Len(rx')
    BY <1>0, <1>4 DEF UartReads
  <2>2. rx \in Seq(U!Chars) /\ rx' \in Seq(U!Chars) /\ \A i \in 1 .. Len(rx) : rx'[i] = rx[i]
    BY <1>0, <1>4
  <2> HIDE DEF b, r, t, q
  <2>3. QED
    BY <2>1, <2>2, FramesStay
<1> HIDE DEF b
\* What is looked at is what follows q; in between there is no head.
<1>7. /\ r \in Seq(U!Chars) /\ Len(r) \in Nat /\ q \in Passed .. Len(rx') /\ Len(rx') \in Nat
      /\ \A i \in 1 .. Len(r) : r[i] = rx'[q + i]
      /\ \A j \in Passed + 1 .. q : rx'[j] # "^"
      /\ r # <<>> => r[1] = "^"
  <2>1. CASE ~need
    <3>1. r = b
      BY <2>1 DEF U!Headed
    <3>2. req # <<>> /\ req[1] = "^"
      BY <2>1 DEF UartReads
    <3>3. r[1] = "^"
      BY <1>0, <1>3, <3>1, <3>2 DEF b
    <3>4. q = Passed /\ Len(r) \in Nat /\ Len(rx') \in Nat /\ Passed <= Len(rx')
      <4>1. Len(r) = Len(req) + n /\ Len(rx') = Len(rx) + n
        BY <1>4, <1>5, <3>1
      <4>2. n \in Nat /\ Len(req) \in Nat /\ Len(rx) \in Nat /\ Passed = Len(rx) - Len(req)
            /\ Passed \in 0 .. Len(rx)
        BY <1>0
      <4>3. q = Passed
        BY <4>1, <4>2
      <4> HIDE DEF r, q
      <4>4. QED
        BY <4>1, <4>2, <4>3
    <3>5. r \in Seq(U!Chars) /\ \A i \in 1 .. Len(r) : r[i] = rx'[q + i]
      BY <1>5, <3>1, <3>4
    <3> HIDE DEF r, q
    <3>6. q \in Passed .. Len(rx') /\ \A j \in Passed + 1 .. q : FALSE
      BY <1>0, <3>4
    <3>7. QED
      BY <3>3, <3>4, <3>5, <3>6
  <2>2. CASE need
    <3> DEFINE h == U!Find(b, "^")
    <3>1. r = IF h = 0 THEN <<>> ELSE U!From(b, h)
      BY <2>2 DEF U!Headed
    <3>2. CASE h = 0
      <4>1. r = <<>> /\ q = Len(rx') /\ Len(r) = 0
        BY <3>1, <3>2, <1>4
      <4>2. \A i \in 1 .. Len(b) : b[i] # "^"
        BY <1>5, <3>2, FindIs
      <4>3. \A j \in Passed + 1 .. Len(rx') : rx'[j] # "^"
        <5> SUFFICES ASSUME NEW j \in Passed + 1 .. Len(rx')
                     PROVE  rx'[j] # "^"
          OBVIOUS
        <5>1. j - Passed \in 1 .. Len(b) /\ Passed + (j - Passed) = j
          BY <1>0, <1>4, <1>5
        <5>2. QED
          BY <1>5, <4>2, <5>1
      <4>4. QED
        BY <1>0, <1>4, <4>1, <4>3
    <3>3. CASE h # 0
      <4>1. h \in 1 .. Len(b) /\ b[h] = "^" /\ \A i \in 1 .. h - 1 : b[i] # "^"
        BY <1>5, <3>3, FindIs
      <4> HIDE DEF h
      <4>2. r = U!From(b, h)
        BY <3>1, <3>3
      <4>3. /\ r \in Seq(U!Chars) /\ Len(r) = Len(b) - h + 1
            /\ \A i \in 1 .. Len(b) - h + 1 : r[i] = b[h - 1 + i]
        <5>1. b \in Seq(U!Chars) /\ h \in 1 .. Len(b) + 1
          BY <1>5, <4>1
        <5> HIDE DEF r
        <5>2. QED
          BY <4>2, <5>1, FromIs
      <4>4. q = Passed + h - 1 /\ Len(r) \in Nat
        BY <1>0, <1>4, <1>5, <4>1, <4>3
      <4>5. \A i \in 1 .. Len(r) : r[i] = rx'[q + i]
        <5> SUFFICES ASSUME NEW i \in 1 .. Len(r)
                     PROVE  r[i] = rx'[q + i]
          OBVIOUS
        <5>1. h - 1 + i \in 1 .. Len(b) /\ Passed + (h - 1 + i) = q + i
          <6>1. i \in Nat /\ i >= 1 /\ i <= Len(b) - h + 1 /\ h \in Nat /\ h >= 1 /\ Len(b) \in Nat
            BY <1>0, <1>5, <4>1, <4>3, <4>4
          <6> HIDE DEF r, q
          <6>2. QED
            BY <1>0, <4>4, <6>1
        <5>2. QED
          BY <1>5, <4>3, <5>1
      <4>6. \A j \in Passed + 1 .. q : rx'[j] # "^"
        <5> SUFFICES ASSUME NEW j \in Passed + 1 .. q
                     PROVE  rx'[j] # "^"
          OBVIOUS
        <5>1. j - Passed \in 1 .. h - 1 /\ j - Passed \in 1 .. Len(b) /\ Passed + (j - Passed) = j
          BY <1>0, <1>5, <4>1, <4>4
        <5>2. QED
          BY <1>5, <4>1, <5>1
      <4>7. r[1] = "^"
        BY <4>1, <4>3, <1>5
      <4>8. QED
        <5>1. q \in Passed .. Len(rx') /\ Len(rx') \in Nat
          BY <1>0, <1>4, <1>5, <4>1, <4>4
        <5>2. QED
          BY <4>3, <4>4, <4>5, <4>6, <4>7, <5>1
    <3>4. QED
      BY <3>2, <3>3
  <2>3. QED
    BY <1>0, <2>1, <2>2
<1> HIDE DEF r
<1>8. NoneOpen(rx', q) /\ UpTo(rx', q) = UpTo(rx, Passed) /\ q \in 0 .. Len(rx')
  <2>1. Passed \in 0 .. Len(rx')
    BY <1>0, <1>4
  <2>2. QED
    <3>1. rx' \in Seq(U!Chars) /\ q \in Passed .. Len(rx') /\ q \in 0 .. Len(rx')
      BY <1>0, <1>4, <1>7
    <3>2. NoneOpen(rx', Passed) /\ \A j \in Passed + 1 .. q : rx'[j] # "^"
      BY <1>6, <1>7
    <3> HIDE DEF q
    <3>3. NoneOpen(rx', q) /\ UpTo(rx', q) = UpTo(rx', Passed)
      BY <2>1, <3>1, <3>2, FramesSkip
    <3>4. QED
      BY <1>6, <3>1, <3>3
<1>9. \A i \in UpTo(rx', q) : U!Nth(rx', i) \in 1 .. Len(cut) /\ cut[U!Nth(rx', i)] = U!Frame(rx', i)
  BY <1>6, <1>8 DEF UartReads
<1>10. Len(cut) = Cardinality(UpTo(rx', q))
  BY <1>8 DEF UartReads
<1>11. CASE r = <<>> \/ t = 0
  <2>1. req' = r /\ UNCHANGED <<cut, rq, reader>> /\ need' \in BOOLEAN /\ (need' \/ r # <<>>)
    BY <1>1, <1>11 DEF r, b
  <2>2. Passed' = q
    BY <2>1 DEF Passed
  <2>3. UartTypes'
    BY <1>2, <1>4, <1>7, <2>1 DEF UartTypes
  <2>4. UartReads'
    BY <1>7, <1>8, <1>9, <1>10, <2>1, <2>2 DEF UartReads
  <2>5. U!Complete(rx') = UpTo(rx', q)
    <3> SUFFICES ASSUME NEW i \in U!Complete(rx')
                 PROVE  i <= q
      BY DEF UpTo
    <3>1. PICK e \in 1 .. Len(rx') : i < e /\ rx'[e] = "\n"
      BY DEF U!Complete, U!Closes
    <3>2. i \in Nat /\ q \in Nat /\ Len(rx') \in Nat /\ i < Len(rx')
      BY <1>7, <1>8, <3>1 DEF U!Complete
    <3>3. CASE r = <<>>
      <4>1. q = Len(rx')
        BY <1>7, <3>3 DEF q
      <4>2. QED
        BY <3>2, <4>1
    <3>4. CASE r # <<>>
      <4>1. \A k \in 1 .. Len(r) : r[k] # "\n"
        BY <1>7, <1>11, <3>4, FindIs
      <4>2. q + Len(r) = Len(rx')
        BY <1>7 DEF q
      <4> HIDE DEF t, q
      <4>3. CASE e > q
        <5>1. e - q \in 1 .. Len(r) /\ q + (e - q) = e
          BY <1>7, <3>2, <4>2, <4>3
        <5>2. QED
          BY <1>7, <3>1, <4>1, <5>1
      <4>4. CASE ~(e > q)
        BY <3>1, <3>2, <4>4
      <4>5. QED
        BY <4>3, <4>4
    <3>5. QED
      BY <3>3, <3>4
  <2>6. ~(Cardinality(U!Complete(rx')) > Len(cut))
    BY <1>0, <1>10, <2>5
  <2>7. QED
    BY <2>3, <2>4, <2>6
<1>12. CASE r # <<>> /\ t # 0
  <2>0. /\ t \in 1 .. Len(r) /\ r[t] = "\n" /\ \A i \in 1 .. t - 1 : r[i] # "\n"
    BY <1>7, <1>12, FindIs
  <2>a. /\ req' = U!From(r, t + 1) /\ need' = TRUE
        /\ cut' = Append(cut, SubSeq(r, 1, t - 1))
        /\ \/ Len(rq) < RxCap /\ rq' = Append(rq, SubSeq(r, 1, t - 1)) /\ reader' = "notify"
           \/ UNCHANGED <<rq, reader>>
    BY <1>1, <1>12 DEF r, b
  <2> HIDE DEF t
  <2>1. t >= 2
    BY <1>7, <1>12, <2>0
  <2>2. /\ req' \in Seq(U!Chars) /\ Len(req') = Len(r) - t
        /\ \A i \in 1 .. Len(r) - t : req'[i] = r[t + i]
    <3>1. t + 1 \in 1 .. Len(r) + 1 /\ Len(r) - (t + 1) + 1 = Len(r) - t
          /\ \A i \in Int : (t + 1) - 1 + i = t + i
      BY <1>7, <2>0
    <3>2. /\ U!From(r, t + 1) \in Seq(U!Chars) /\ Len(U!From(r, t + 1)) = Len(r) - (t + 1) + 1
          /\ \A i \in 1 .. Len(r) - (t + 1) + 1 : U!From(r, t + 1)[i] = r[(t + 1) - 1 + i]
      <4>1. r \in Seq(U!Chars) /\ t + 1 \in 1 .. Len(r) + 1
        BY <1>7, <3>1
      <4>2. QED
        BY <4>1, FromIs
    <3>3. /\ req' \in Seq(U!Chars) /\ Len(req') = Len(r) - t
          /\ \A i \in 1 .. Len(r) - t : req'[i] = r[(t + 1) - 1 + i]
      BY <2>a, <3>1, <3>2
    <3>4. \A i \in 1 .. Len(r) - t : (t + 1) - 1 + i = t + i
      BY <3>1
    <3>5. QED
      BY <3>3, <3>4
  <2>3. Passed' = q + t /\ q + t \in q + 2 .. Len(rx')
    BY <1>7, <2>0, <2>1, <2>2 DEF Passed
  <2>4. \A i \in 1 .. Len(req') : req'[i] = rx'[(q + t) + i]
    <3> SUFFICES ASSUME NEW i \in 1 .. Len(req')
                 PROVE  req'[i] = rx'[(q + t) + i]
      OBVIOUS
    <3>1. t + i \in 1 .. Len(r) /\ q + (t + i) = (q + t) + i
      BY <1>7, <2>0, <2>2
    <3>2. QED
      BY <1>7, <2>2, <3>1
  <2>5. SubSeq(r, 1, t - 1) = SubSeq(rx', q + 1, (q + t) - 1)
        /\ SubSeq(r, 1, t - 1) \in Seq(U!Chars) /\ SubSeq(r, 1, t - 1)[1] = "^"
    <3> DEFINE x == SubSeq(r, 1, t - 1)
               y == SubSeq(rx', q + 1, (q + t) - 1)
    <3>1. x \in Seq(U!Chars) /\ Len(x) = t - 1 /\ \A i \in 1 .. t - 1 : x[i] = r[i]
      BY <1>7, <2>0, <2>1
    <3>2. y \in Seq(U!Chars) /\ Len(y) = t - 1 /\ \A i \in 1 .. t - 1 : y[i] = rx'[q + i]
      <4>1. q + 1 \in 1 .. Len(rx') /\ (q + t) - 1 \in 1 .. Len(rx') /\ q \in Nat
        BY <1>7, <1>8, <2>0, <2>1, <2>3
      <4>2. QED
        BY <1>4, <2>0, <2>1, <4>1
    <3>3. \A i \in 1 .. t - 1 : x[i] = y[i]
      BY <1>7, <2>0, <3>1, <3>2
    <3> HIDE DEF x, y
    <3>4. x = y
      BY <3>1, <3>2, <3>3, SeqEqual
    <3>5. x[1] = "^"
      BY <1>7, <1>12, <2>1, <2>0, <3>1
    <3>6. QED
      BY <3>1, <3>4, <3>5 DEF x, y
  <2>6. /\ NoneOpen(rx', q + t) /\ UpTo(rx', q + t) = UpTo(rx', q) \cup {q + 1}
        /\ q + 1 \notin UpTo(rx', q)
        /\ U!Nth(rx', q + 1) = Cardinality(UpTo(rx', q)) + 1
        /\ U!Frame(rx', q + 1) = SubSeq(rx', q + 1, (q + t) - 1)
    <3>1. rx'[q + 1] = "^" /\ rx'[q + t] = "\n"
      BY <1>7, <1>12, <2>0
    <3>2. ASSUME NEW k \in q + 1 .. (q + t) - 1
          PROVE  rx'[k] # "\n"
      <4>1. k - q \in 1 .. t - 1 /\ k - q \in 1 .. Len(r) /\ q + (k - q) = k
        BY <1>7, <2>0, <1>8
      <4>2. QED
        BY <1>7, <2>0, <4>1
    <3>3. rx' \in Seq(U!Chars) /\ q \in 0 .. Len(rx') /\ q + t \in q + 2 .. Len(rx') /\ NoneOpen(rx', q)
      BY <1>4, <1>8, <2>3
    <3> HIDE DEF q
    <3>4. QED
      BY <3>1, <3>2, <3>3, FrameAdds
  <2>7. cut' \in Seq(Seq(U!Chars)) /\ Len(cut') = Len(cut) + 1
        /\ cut'[Len(cut) + 1] = SubSeq(r, 1, t - 1)
        /\ \A i \in 1 .. Len(cut) : cut'[i] = cut[i]
    BY <1>0, <2>a, <2>5
  <2>8. rq' \in Seq(Seq(U!Chars)) /\ Len(rq') <= RxCap /\ reader' \in {"read", "notify"}
        /\ \A k \in 1 .. Len(rq') : rq'[k][1] = "^"
    <3>1. CASE UNCHANGED <<rq, reader>>
      BY <3>1 DEF UartTypes
    <3>2. CASE Len(rq) < RxCap /\ rq' = Append(rq, SubSeq(r, 1, t - 1)) /\ reader' = "notify"
      <4>1. rq \in Seq(Seq(U!Chars)) /\ Len(rq) \in Nat /\ RxCap \in Nat
            /\ \A k \in 1 .. Len(rq) : rq[k][1] = "^"
        BY DEF UartTypes, U!CapBounds
      <4>2. rq' \in Seq(Seq(U!Chars)) /\ Len(rq') = Len(rq) + 1
            /\ rq'[Len(rq) + 1] = SubSeq(r, 1, t - 1) /\ \A k \in 1 .. Len(rq) : rq'[k] = rq[k]
        BY <2>5, <3>2, <4>1
      <4>3. Len(rq') <= RxCap
        BY <3>2, <4>1, <4>2
      <4>4. ASSUME NEW k \in 1 .. Len(rq')
            PROVE  rq'[k][1] = "^"
        <5>1. CASE k = Len(rq) + 1
          BY <2>5, <4>2, <5>1
        <5>2. CASE k # Len(rq) + 1
          <6>1. k \in 1 .. Len(rq)
            BY <4>1, <4>2, <5>2
          <6>2. QED
            BY <4>1, <4>2, <6>1
        <5>3. QED
          BY <5>1, <5>2
      <4>5. QED
        BY <3>2, <4>2, <4>3, <4>4
    <3>3. QED
      BY <2>a, <3>1, <3>2
  <2>9. UartTypes'
    BY <1>2, <1>4, <2>2, <2>7, <2>8, <2>a DEF UartTypes
  <2>10. Len(cut') = Cardinality(UpTo(rx', q + t))
    <3>1. IsFiniteSet(UpTo(rx', q))
      BY <1>4, <1>8, UpToIs
    <3>2. QED
      BY <1>10, <2>6, <2>7, <3>1, FS_AddElement
  <2>11. ASSUME NEW i \in UpTo(rx', q + t)
         PROVE  U!Nth(rx', i) \in 1 .. Len(cut') /\ cut'[U!Nth(rx', i)] = U!Frame(rx', i)
    <3>1. Len(cut) \in Nat
      BY <1>0
    <3>2. CASE i = q + 1
      <4>1. U!Nth(rx', i) = Len(cut) + 1 /\ U!Frame(rx', i) = SubSeq(r, 1, t - 1)
        BY <1>10, <2>5, <2>6, <3>2
      <4>2. QED
        BY <2>7, <3>1, <4>1
    <3>3. CASE i \in UpTo(rx', q)
      BY <1>9, <2>7, <3>1, <3>3
    <3>4. QED
      BY <2>6, <3>2, <3>3
  <2>12. Passed' \in 0 .. Len(rx')
    BY <1>7, <1>8, <2>3
  <2>13. UartReads'
    BY <2>3, <2>4, <2>6, <2>10, <2>11, <2>12, <2>a DEF UartReads
  <2>14. QED
    BY <2>7, <2>9, <2>13
<1>13. QED
  BY <1>11, <1>12
\* What is not a read leaves the reader's side alone.
Unread == UNCHANGED <<rx, req, need, cut>>

\* Every step but a read keeps the types, and the reader's side as it is.
LEMMA OthersStep ==
  ASSUME U!CapBounds, UartTypes, [U!Next]_uart, ~(\E n \in 1 .. MaxRead : U!ReadSome(n))
  PROVE  UartTypes' /\ Unread
<1>0. rq \in Seq(Seq(U!Chars)) /\ wq \in Seq({U!Reply}) /\ sent \in Nat /\ Len(wq) \in Nat
      /\ rest \in Seq(RC) /\ line \in Seq(RC) /\ Len(wq) <= TxCap /\ TxCap \in Nat
  BY DEF UartTypes, U!CapBounds
<1>1. CASE U!ReaderNotifies
  BY <1>1 DEF U!ReaderNotifies, UartTypes, Unread
<1>2. CASE U!ParserWaits
  BY <1>2 DEF U!ParserWaits, UartTypes, Unread
<1>3. CASE U!Parse
  <2>1. rq # <<>> /\ rq' = Tail(rq) /\ Unread /\ UNCHANGED <<reader, writer, rest, line>>
    BY <1>3 DEF U!Parse, Unread
  <2>2. rq' \in Seq(Seq(U!Chars)) /\ Len(rq') <= RxCap /\ \A k \in 1 .. Len(rq') : rq'[k][1] = "^"
    <3>1. Len(rq) \in Nat /\ Len(rq) <= RxCap /\ RxCap \in Nat
          /\ \A k \in 1 .. Len(rq) : rq[k][1] = "^"
      BY DEF UartTypes, U!CapBounds
    <3>2. rq' \in Seq(Seq(U!Chars)) /\ Len(rq') = Len(rq) - 1
          /\ \A k \in 1 .. Len(rq') : rq'[k] = rq[k + 1]
      BY <1>0, <2>1, HeadTailProperties
    <3>3. ASSUME NEW k \in 1 .. Len(rq')
          PROVE  rq'[k][1] = "^"
      <4>1. k + 1 \in 1 .. Len(rq)
        BY <3>1, <3>2
      <4>2. QED
        BY <3>1, <3>2, <4>1
    <3>4. Len(rq') <= RxCap
      BY <3>1, <3>2
    <3>5. QED
      BY <3>2, <3>3, <3>4
  <2>3. wq' \in Seq({U!Reply}) /\ Len(wq') <= TxCap /\ sent' \in Nat
        /\ parser' \in {"take", "asleep", "notify"}
    <3>1. CASE Len(wq) < TxCap /\ wq' = Append(wq, U!Reply) /\ sent' = sent + 1 /\ parser' = "notify"
      <4>1. Append(wq, U!Reply) \in Seq({U!Reply}) /\ Len(Append(wq, U!Reply)) = Len(wq) + 1
        BY <1>0, AppendProperties
      <4>2. QED
        BY <1>0, <3>1, <4>1
    <3>2. CASE UNCHANGED <<wq, sent, parser>>
      BY <3>2 DEF UartTypes
    <3>3. QED
      BY <1>3, <3>1, <3>2 DEF U!Parse
  <2>4. QED
    BY <2>1, <2>2, <2>3 DEF UartTypes, Unread
<1>4. CASE U!ParserNotifies
  BY <1>4 DEF U!ParserNotifies, UartTypes, Unread
<1>5. CASE U!WriterWaits
  BY <1>5 DEF U!WriterWaits, UartTypes, Unread
<1>6. CASE U!WriterTakes
  <2>1. wq # <<>> /\ wq' = Tail(wq) /\ rest' = Head(wq) /\ Unread
        /\ UNCHANGED <<reader, rq, parser, writer, line, sent>>
    BY <1>6 DEF U!WriterTakes, Unread
  <2>2. wq' \in Seq({U!Reply}) /\ Len(wq') = Len(wq) - 1 /\ Head(wq) \in {U!Reply}
    BY <1>0, <2>1, HeadTailProperties
  <2>3. rest' \in Seq(RC)
    <3>1. U!Reply \in Seq(RC)
      BY DEF U!Reply, RC
    <3>2. QED
      BY <2>1, <2>2, <3>1
  <2>4. QED
    BY <1>0, <2>1, <2>2, <2>3 DEF UartTypes, Unread
<1>7. CASE U!WriteSome
  <2>1. PICK n \in 1 .. Len(rest) : line' = line \o SubSeq(rest, 1, n) /\ rest' = U!From(rest, n + 1)
    BY <1>7 DEF U!WriteSome
  <2>2. UNCHANGED <<reader, rq, parser, wq, writer, sent>> /\ Unread
    BY <1>7 DEF U!WriteSome, Unread
  <2>3. SubSeq(rest, 1, n) \in Seq(RC) /\ U!From(rest, n + 1) \in Seq(RC)
    BY <1>0, <2>1 DEF U!From
  <2>4. line' \in Seq(RC) /\ rest' \in Seq(RC)
    BY <1>0, <2>1, <2>3, Joined
  <2>5. QED
    BY <2>2, <2>4 DEF UartTypes, Unread
<1>8. CASE UNCHANGED uart
  BY <1>8 DEF uart, UartTypes, Unread
<1>9. QED
  BY <1>1, <1>2, <1>3, <1>4, <1>5, <1>6, <1>7, <1>8 DEF U!Next, U!ParserRuns, U!WriterRuns

\* What is written in two parts is what was there.
LEMMA Parts ==
  ASSUME NEW C, NEW s \in Seq(C), NEW t \in Seq(C), NEW n \in 1 .. Len(t)
  PROVE  (s \o SubSeq(t, 1, n)) \o U!From(t, n + 1) = s \o t
<1>1. SubSeq(t, 1, n) \in Seq(C) /\ SubSeq(t, n + 1, Len(t)) \in Seq(C)
  OBVIOUS
<1>2. SubSeq(t, 1, n) \o SubSeq(t, n + 1, Len(t)) = SubSeq(t, 1, Len(t))
  BY ConcatAdjacentSubSeq
<1>3. SubSeq(t, 1, Len(t)) = t
  BY SubSeqFull
<1>4. (s \o SubSeq(t, 1, n)) \o SubSeq(t, n + 1, Len(t)) = s \o (SubSeq(t, 1, n) \o SubSeq(t, n + 1, Len(t)))
  <2> DEFINE u == SubSeq(t, 1, n)
             v == SubSeq(t, n + 1, Len(t))
  <2>1. u \in Seq(C) /\ v \in Seq(C)
    BY <1>1
  <2> HIDE DEF u, v
  <2>2. (s \o u) \o v = s \o (u \o v)
    BY <2>1, ConcatAssociative
  <2>3. QED
    BY <2>2 DEF u, v
<1>5. QED
  BY <1>2, <1>3, <1>4 DEF U!From

\* Replies stay whole: a step writes of what is there, takes what is queued,
\* or accepts one.
LEMMA RepliesStep ==
  ASSUME U!CapBounds, UartTypes, U!RepliesWhole, [U!Next]_uart
  PROVE  U!RepliesWhole'
<1> DEFINE out == line \o rest
<1>0. /\ rest \in Seq(RC) /\ line \in Seq(RC) /\ wq \in Seq({U!Reply}) /\ sent \in Nat
      /\ Len(wq) \in Nat /\ Len(line) \in Nat /\ Len(U!Reply) = 3 /\ U!Reply \in Seq(RC)
  BY DEF UartTypes, U!Reply, RC
<1>1. /\ Len(out) + 3 * Len(wq) = 3 * sent
      /\ \A i \in 1 .. Len(out) : out[i] = U!Reply[((i - 1) % 3) + 1]
      /\ \A k \in 1 .. Len(wq) : wq[k] = U!Reply
  BY <1>0 DEF U!RepliesWhole
<1>2. ASSUME out' = out, UNCHANGED <<wq, sent>>
      PROVE  U!RepliesWhole'
  BY <1>0, <1>1, <1>2 DEF U!RepliesWhole
<1>3. CASE U!Parse
  <2>1. out' = out
    BY <1>3 DEF U!Parse
  <2>2. CASE wq' = Append(wq, U!Reply) /\ sent' = sent + 1
    <3>1. wq' \in Seq({U!Reply}) /\ Len(wq') = Len(wq) + 1
      BY <1>0, <2>2, AppendProperties
    <3>2. \A k \in 1 .. Len(wq') : wq'[k] = U!Reply
      BY <3>1
    <3>3. Len(out') + 3 * Len(wq') = 3 * sent'
      <4>1. Len(out) \in Nat
        BY <1>0, Joined
      <4>2. QED
        BY <1>0, <1>1, <2>1, <2>2, <3>1, <4>1
    <3>4. QED
      BY <1>0, <1>1, <2>1, <3>2, <3>3 DEF U!RepliesWhole
  <2>3. CASE UNCHANGED <<wq, sent>>
    BY <1>2, <2>1, <2>3
  <2>4. QED
    BY <1>3, <2>2, <2>3 DEF U!Parse
<1>4. CASE U!WriterTakes
  <2>1. rest = <<>> /\ wq # <<>> /\ wq' = Tail(wq) /\ rest' = Head(wq) /\ UNCHANGED <<line, sent>>
    BY <1>4 DEF U!WriterTakes
  <2>2. wq' \in Seq({U!Reply}) /\ Len(wq') = Len(wq) - 1 /\ Head(wq) = U!Reply
    BY <1>0, <2>1, HeadTailProperties
  <2>3. out = line /\ Len(line) = 3 * (sent - Len(wq))
    <3>1. out = line
      BY <1>0, <2>1, ConcatEmptySeq
    <3>2. QED
      BY <1>0, <1>1, <3>1
  <2>4. /\ Len(out') = Len(line) + 3
        /\ \A i \in 1 .. Len(line) : out'[i] = line[i]
        /\ \A i \in 1 .. 3 : out'[Len(line) + i] = U!Reply[i]
    <3>1. out' = line \o U!Reply
      BY <2>1, <2>2
    <3>2. /\ Len(line \o U!Reply) = Len(line) + Len(U!Reply)
          /\ \A i \in 1 .. Len(line) : (line \o U!Reply)[i] = line[i]
          /\ \A i \in 1 .. Len(U!Reply) : (line \o U!Reply)[Len(line) + i] = U!Reply[i]
      <4>1. line \in Seq(RC) /\ U!Reply \in Seq(RC)
        BY <1>0
      <4>2. QED
        BY <4>1, Joined
    <3>3. QED
      BY <1>0, <3>1, <3>2
  <2>5. ASSUME NEW i \in 1 .. Len(out')
        PROVE  out'[i] = U!Reply[((i - 1) % 3) + 1]
    <3>1. CASE i <= Len(line)
      BY <1>0, <1>1, <2>3, <2>4, <3>1
    <3>2. CASE ~(i <= Len(line))
      <4>1. i - Len(line) \in 1 .. 3 /\ Len(line) + (i - Len(line)) = i /\ i \in Nat
        <5>1. Len(line) \in Nat /\ Len(out') = Len(line) + 3 /\ i \in 1 .. Len(out')
          BY <1>0, <2>4
        <5> HIDE DEF out
        <5>2. QED
          BY <3>2, <5>1
      <4>2. ((i - 1) % 3) + 1 = i - Len(line)
        <5>1. PICK d \in 0 .. 2 : i - 1 = 3 * (sent - Len(wq)) + d
          BY <2>3, <4>1, <1>0
        <5>2. (i - 1) % 3 = d
          BY <1>0, <5>1
        <5>3. QED
          BY <1>0, <2>3, <5>1, <5>2, <4>1
      <4>3. QED
        BY <2>4, <4>1, <4>2
    <3>3. QED
      BY <3>1, <3>2
  <2>6. Len(out') + 3 * Len(wq') = 3 * sent'
    <3>1. Len(line) \in Nat /\ Len(wq) \in Nat /\ sent \in Nat /\ sent' = sent
      BY <1>0, <2>1
    <3>2. Len(out') = 3 * (sent - Len(wq)) + 3 /\ Len(wq') = Len(wq) - 1
      BY <2>2, <2>3, <2>4
    <3> HIDE DEF out
    <3>3. QED
      BY <3>1, <3>2
  <2>7. \A k \in 1 .. Len(wq') : wq'[k] = U!Reply
    BY <2>2
  <2>8. QED
    BY <1>0, <2>5, <2>6, <2>7 DEF U!RepliesWhole
<1>5. CASE U!WriteSome
  <2>1. PICK n \in 1 .. Len(rest) : line' = line \o SubSeq(rest, 1, n) /\ rest' = U!From(rest, n + 1)
    BY <1>5 DEF U!WriteSome
  <2>2. (line \o SubSeq(rest, 1, n)) \o U!From(rest, n + 1) = line \o rest
    BY <1>0, Parts
  <2>3. out' = out
    BY <2>1, <2>2
  <2>4. UNCHANGED <<wq, sent>>
    BY <1>5 DEF U!WriteSome
  <2>5. QED
    BY <1>2, <2>3, <2>4
<1>6. ASSUME NEW n \in 1 .. MaxRead, U!ReadSome(n)
      PROVE  U!RepliesWhole'
  BY <1>2, <1>6 DEF U!ReadSome
<1>7. CASE U!ReaderNotifies \/ U!ParserWaits \/ U!ParserNotifies \/ U!WriterWaits \/ UNCHANGED uart
  BY <1>2, <1>7 DEF U!ReaderNotifies, U!ParserWaits, U!ParserNotifies, U!WriterWaits, uart
<1>8. QED
  BY <1>3, <1>4, <1>5, <1>6, <1>7 DEF U!Next, U!ParserRuns, U!WriterRuns

\* The invariant of uartd.
UartInv == UartTypes /\ UartReads /\ U!RepliesWhole

\* It holds before the first read.
LEMMA UartInit ==
  ASSUME U!CapBounds, U!Init
  PROVE  UartInv
<1>1. UartTypes
  BY DEF U!Init, UartTypes, U!CapBounds, RC
<1>2. Passed = 0 /\ Len(rx) = 0 /\ Len(req) = 0 /\ Len(cut) = 0 /\ need
  BY DEF U!Init, Passed
<1>3. NoneOpen(rx, 0)
  BY DEF NoneOpen
<1>4. UpTo(rx, 0) = {}
  BY DEF UpTo, U!Complete, U!Init
<1>5. UartReads
  BY <1>2, <1>3, <1>4, FS_EmptySet DEF UartReads
<1>6. U!RepliesWhole
  BY DEF U!Init, U!RepliesWhole
<1>7. QED
  BY <1>1, <1>5, <1>6 DEF UartInv

\* Every step keeps it.
LEMMA UartStep ==
  ASSUME U!CapBounds, UartInv, [U!Next]_uart
  PROVE  UartInv'
<1>1. U!RepliesWhole'
  BY RepliesStep DEF UartInv
<1>2. ASSUME NEW n \in 1 .. MaxRead, U!ReadSome(n)
      PROVE  UartTypes' /\ UartReads'
  BY <1>2, ReadStep DEF UartInv
<1>3. ASSUME ~(\E n \in 1 .. MaxRead : U!ReadSome(n))
      PROVE  UartTypes' /\ UartReads'
  <2>1. UartTypes' /\ Unread
    BY <1>3, OthersStep DEF UartInv
  <2>2. UartReads'
    BY <2>1 DEF UartInv, Unread, UartReads, Passed
  <2>3. QED
    BY <2>1, <2>2
<1>4. QED
  BY <1>1, <1>2, <1>3 DEF UartInv

\* No read passes over a complete frame.
LEMMA UartPace ==
  ASSUME U!CapBounds, UartInv, [U!Next]_uart
  PROVE  rx' # rx /\ U!Cardinality(U!Complete(rx')) > Len(cut) => Len(cut') = Len(cut) + 1
<1>1. ASSUME NEW n \in 1 .. MaxRead, U!ReadSome(n)
      PROVE  Cardinality(U!Complete(rx')) > Len(cut) => Len(cut') = Len(cut) + 1
  BY <1>1, ReadStep DEF UartInv
<1>2. ASSUME ~(\E n \in 1 .. MaxRead : U!ReadSome(n))
      PROVE  rx' = rx
  BY <1>2, OthersStep DEF UartInv, Unread
<1>3. QED
  BY <1>1, <1>2, UartCardinality

\* The frames cut are the complete ones of the stream, as far as the reader has passed it.
LEMMA UartImplies ==
  ASSUME U!CapBounds, UartInv
  PROVE  U!TypeOK /\ UartFramesWhole
<1>1. U!TypeOK
  <2>1. U!Chars \subseteq U!Chars \cup {"r"} /\ RC \subseteq U!Chars \cup {"r"}
    BY DEF U!Chars, RC
  <2>2. rx \in Seq(U!Chars \cup {"r"}) /\ req \in Seq(U!Chars \cup {"r"})
        /\ line \in Seq(U!Chars \cup {"r"}) /\ rest \in Seq(U!Chars \cup {"r"})
    BY <2>1, SeqMonotonic DEF UartInv, UartTypes
  <2>3. {rx, req, line, rest} \subseteq Seq(U!Chars \cup {"r"})
    BY <2>2, Zenon
  <2>4. rq \in Seq(Seq(U!Chars)) /\ \A k \in 1 .. Len(rq) : rq[k][1] = "^"
    BY DEF UartInv, UartTypes
  <2>5. DOMAIN rq = 1 .. Len(rq)
    BY <2>4
  <2>6. \A k \in DOMAIN rq : rq[k][1] = "^"
    BY <2>4, <2>5
  <2>7. /\ need \in BOOLEAN /\ reader \in {"read", "notify"} /\ writer \in {"take", "asleep"}
        /\ parser \in {"take", "asleep", "notify"} /\ Len(rq) <= RxCap /\ Len(wq) <= TxCap
    BY Zenon DEF UartInv, UartTypes
  <2>8. QED
    BY <2>3, <2>6, <2>7, Zenon DEF U!TypeOK
<1>2. U!CutsTheFrames
  <2>0. rx \in Seq(U!Chars) /\ NoneOpen(rx, Passed) /\ Passed \in 0 .. Len(rx)
        /\ Len(cut) = Cardinality(UpTo(rx, Passed)) /\ Len(rx) \in Nat
    BY DEF UartInv, UartTypes, UartReads
  <2>1. IsFiniteSet(U!Complete(rx)) /\ UpTo(rx, Passed) \in SUBSET U!Complete(rx)
    <3>1. IsFiniteSet(1 .. Len(rx)) /\ U!Complete(rx) \in SUBSET (1 .. Len(rx))
      BY <2>0, FS_Interval DEF U!Complete
    <3>2. QED
      BY <3>1, FS_Subset DEF UpTo
  <2>2. Len(cut) <= U!Cardinality(U!Complete(rx))
    BY <2>0, <2>1, FS_Subset, UartCardinality
  <2>3. ASSUME NEW i \in U!Complete(rx), U!Nth(rx, i) <= Len(cut)
        PROVE  cut[U!Nth(rx, i)] = U!Frame(rx, i)
    <3>1. i \in 1 .. Len(rx)
      BY DEF U!Complete
    <3>2. CASE i <= Passed
      BY <3>2 DEF UartInv, UartReads, UpTo
    <3>3. CASE ~(i <= Passed)
      <4> DEFINE J == {j \in U!Complete(rx) : j <= i}
      <4>1. UpTo(rx, Passed) \subseteq J /\ i \in J /\ i \notin UpTo(rx, Passed)
        <5>1. \A j \in UpTo(rx, Passed) : j \in U!Complete(rx) /\ j <= Passed /\ j \in 1 .. Len(rx)
          BY DEF UpTo, U!Complete
        <5>2. QED
          BY <2>0, <3>1, <3>3, <5>1
      <4>2. J \in SUBSET U!Complete(rx)
        OBVIOUS
      <4> HIDE DEF J
      <4>3. IsFiniteSet(J) /\ IsFiniteSet(UpTo(rx, Passed))
        BY <2>1, <4>2, FS_Subset
      <4>4. UpTo(rx, Passed) \cup {i} \in SUBSET J
            /\ Cardinality(UpTo(rx, Passed) \cup {i}) = Len(cut) + 1
        BY <2>0, <4>1, <4>3, FS_AddElement
      <4>5. Len(cut) + 1 <= Cardinality(J) /\ Cardinality(J) \in Nat /\ Len(cut) \in Nat
        BY <2>0, <4>3, <4>4, FS_Subset, FS_CardinalityType
      <4>6. U!Nth(rx, i) = Cardinality(J)
        BY UartCardinality DEF U!Nth, J
      <4>7. QED
        BY <2>3, <4>5, <4>6
    <3>4. QED
      BY <3>2, <3>3
  <2>4. QED
    BY <2>2, <2>3 DEF U!CutsTheFrames
<1>3. QED
  BY <1>1, <1>2 DEF UartFramesWhole, UartInv

-----------------------------------------------------------------------------
(* gsensor                                                                  *)

SensorFlags ==
  /\ state \in BOOLEAN /\ release \in BOOLEAN /\ on \in BOOLEAN
  /\ axes \in BOOLEAN /\ rushed \in BOOLEAN /\ early \in BOOLEAN
  /\ failed \subseteq {"create", "enable", "disable"}

\* The positions of the threads in the table: fewer functions were served than
\* slots were looked at.
SensorSlots ==
  /\ gslot \in [G!Threads -> G!Slots] /\ gsent \in [G!Threads -> 0 .. N]
  /\ \A t \in G!Threads : pc[t] \in {"check", "call"} => gsent[t] < gslot[t]

\* The instance's Cardinality is that of FiniteSets.
LEMMA SensorCardinality ==
  ASSUME NEW S
  PROVE  G!Cardinality(S) = Cardinality(S)
  BY DEF G!Cardinality, Cardinality

\* A step keeps the types, and count the number of slots in use.
LEMMA SensorTypeStep ==
  ASSUME G!SlotBounds, G!TypeOK, SensorSlots, [G!Next]_sensor
  PROVE  G!TypeOK' /\ SensorSlots'
<1> DEFINE Used == {i \in G!Slots : send[i] # None}
           Steps == {"none", "start", "loop", "poll", "check", "call", "exit", "cleared", "done", "crashed"}
<1> USE DEF G!SlotBounds
<1>0. IsFiniteSet(Used) /\ count = Cardinality(Used) /\ send \in [G!Slots -> Funcs \cup {None}]
  <2>1. IsFiniteSet(G!Slots)
    BY FS_Interval DEF G!Slots
  <2>2. IsFiniteSet(Used)
    BY <2>1, FS_Subset
  <2>3. count = Cardinality(Used)
    BY SensorCardinality DEF G!TypeOK
  <2>4. QED
    BY <2>2, <2>3 DEF G!TypeOK
<1>a. SensorFlags
  BY DEF G!TypeOK, SensorFlags
<1>b. /\ pc \in [G!Threads -> Steps] /\ gcalls \subseteq Funcs /\ ops \in 0 .. MaxOps
  BY DEF G!TypeOK
<1>1. ASSUME NEW f \in Funcs, G!Register(f)
      PROVE  G!TypeOK' /\ SensorSlots'
  <2> DEFINE i == G!FirstFree
  <2>1. i \in G!Slots /\ send[i] = None
    <3>1. G!Free # {} /\ G!Free \subseteq Nat
      BY <1>1 DEF G!Register, G!MayTake, G!Free, G!Slots
    <3>2. \E j \in G!Free : \A k \in G!Free : j <= k
      BY <3>1, SmallestExists
    <3>3. QED
      BY <3>2 DEF G!FirstFree, G!Free
  <2>2. send' = [send EXCEPT ![i] = f] /\ count' = count + 1
    BY <1>1 DEF G!Register
  <2> HIDE DEF i
  <2>3. Used' = Used \cup {i} /\ i \notin Used
    BY <1>0, <2>1, <2>2
  <2>4. count' = G!Cardinality(Used') /\ send' \in [G!Slots -> Funcs \cup {None}]
    BY <1>0, <2>1, <2>2, <2>3, FS_AddElement, SensorCardinality
  <2>5. pc' \in [G!Threads -> Steps] /\ state' \in BOOLEAN
        /\ \A t \in G!Threads : pc'[t] \in {"check", "call"} => pc[t] = pc'[t]
    <3>1. CASE UNCHANGED <<pc, state>>
      BY <1>a, <1>b, <3>1 DEF SensorFlags
    <3>2. CASE G!Create /\ state' = TRUE
      <4>1. PICK t \in G!Threads : pc' = [pc EXCEPT ![t] = "start"]
        BY <3>2 DEF G!Create
      <4>2. QED
        BY <1>b, <3>2, <4>1
    <3>3. UNCHANGED <<pc, state>> \/ (G!Create /\ state' = TRUE)
      BY <1>1 DEF G!Register
    <3>4. QED
      BY <3>1, <3>2, <3>3
  <2>6. UNCHANGED <<gslot, gsent>> /\ gcalls' \subseteq Funcs
    BY <1>1, <1>b DEF G!Register
  <2>a. ops' \in 0 .. MaxOps
    BY <1>1, <1>b DEF G!Register
  <2>b. SensorFlags'
    <3>1. UNCHANGED <<release, on, axes, early>> /\ rushed' \in BOOLEAN
      BY <1>1, <1>a DEF G!Register, SensorFlags
    <3>2. failed' \subseteq {"create", "enable", "disable"}
      BY <1>1, <1>a DEF G!Register, SensorFlags
    <3>3. QED
      BY <1>a, <2>5, <3>1, <3>2 DEF SensorFlags
  <2>7. QED
    BY <2>4, <2>5, <2>6, <2>a, <2>b DEF G!TypeOK, SensorSlots, SensorFlags
<1>2. ASSUME NEW i \in G!Slots, G!Unregister(i)
      PROVE  G!TypeOK' /\ SensorSlots'
  <2>2. send' = [send EXCEPT ![i] = None] /\ count' = count - 1 /\ send[i] # None
    BY <1>2 DEF G!Unregister
  <2>3. Used' = Used \ {i} /\ i \in Used
    BY <1>0, <2>2
  <2>4. count' = G!Cardinality(Used') /\ send' \in [G!Slots -> Funcs \cup {None}]
    BY <1>0, <2>2, <2>3, FS_RemoveElement, SensorCardinality
  <2>5. SensorFlags'
    <3>1. UNCHANGED <<axes, rushed>> /\ state' \in BOOLEAN /\ release' \in BOOLEAN /\ early' \in BOOLEAN
      BY <1>2, <1>a DEF G!Unregister, SensorFlags
    <3>2. on' \in BOOLEAN /\ failed' \subseteq {"create", "enable", "disable"}
      BY <1>2, <1>a DEF G!Unregister, SensorFlags
    <3>3. QED
      BY <1>a, <3>1, <3>2 DEF SensorFlags
  <2>6. UNCHANGED <<pc, gslot, gsent, gcalls>> /\ ops' \in 0 .. MaxOps
    BY <1>2, <1>b DEF G!Unregister
  <2>7. QED
    BY <1>b, <2>4, <2>5, <2>6 DEF G!TypeOK, SensorSlots, SensorFlags
<1>3. ASSUME NEW t \in G!Threads, G!Enable(t, TRUE) \/ G!Enable(t, FALSE)
      PROVE  G!TypeOK' /\ SensorSlots'
  <2>1. UNCHANGED <<send, count, state, release, axes, gslot, gsent, gcalls, rushed, early, ops>>
    BY <1>3 DEF G!Enable
  <2>2. on' \in BOOLEAN /\ failed' \subseteq {"create", "enable", "disable"}
    BY <1>3, <1>a DEF G!Enable, SensorFlags
  <2>3. pc' \in [G!Threads -> Steps]
        /\ \A u \in G!Threads : pc'[u] \in {"check", "call"} => pc[u] = pc'[u]
    BY <1>3, <1>b DEF G!Enable
  <2>4. QED
    BY <1>a, <2>1, <2>2, <2>3 DEF G!TypeOK, SensorSlots, SensorFlags
<1>4. ASSUME NEW t \in G!Threads,
             G!LoopTest(t) \/ G!PollAgain(t) \/ G!Axis(t) \/ G!ClearRelease(t) \/ G!ClearState(t)
      PROVE  G!TypeOK' /\ SensorSlots'
  <2>1. UNCHANGED <<send, count, on, gslot, gsent, gcalls, failed, rushed, early, ops>>
    BY <1>4 DEF G!LoopTest, G!PollAgain, G!Axis, G!ClearRelease, G!ClearState, G!shared, G!history
  <2>2. state' \in BOOLEAN /\ release' \in BOOLEAN /\ axes' \in BOOLEAN
    BY <1>4, <1>a DEF G!LoopTest, G!PollAgain, G!Axis, G!ClearRelease, G!ClearState, G!shared, SensorFlags
  <2>3. pc' \in [G!Threads -> Steps]
        /\ \A u \in G!Threads : pc'[u] \in {"check", "call"} => pc[u] = pc'[u]
    BY <1>4, <1>b DEF G!LoopTest, G!PollAgain, G!Axis, G!ClearRelease, G!ClearState
  <2>4. QED
    BY <1>a, <2>1, <2>2, <2>3 DEF G!TypeOK, SensorSlots, SensorFlags
<1>5. ASSUME NEW t \in G!Threads, G!Sync(t)
      PROVE  G!TypeOK' /\ SensorSlots'
  <2>1. UNCHANGED <<send, count, state, release, on, axes, gcalls, failed, rushed, early, ops>>
    BY <1>5 DEF G!Sync, G!shared, G!history
  <2>2. pc' \in [G!Threads -> Steps]
        /\ gslot' = [gslot EXCEPT ![t] = 1] /\ gsent' = [gsent EXCEPT ![t] = 0]
        /\ \A u \in G!Threads \ {t} : pc'[u] = pc[u]
    BY <1>5, <1>b DEF G!Sync
  <2>3. QED
    BY <1>a, <2>1, <2>2 DEF G!TypeOK, SensorSlots, G!Slots, SensorFlags
<1>6. ASSUME NEW t \in G!Threads, NEW n \in {gsent[t], gsent[t] + 1}, G!Advance(t, n),
             pc[t] \in {"check", "call"}
      PROVE  SensorSlots' /\ pc' \in [G!Threads -> Steps]
  <2>1. gsent[t] < gslot[t] /\ gslot[t] \in 1 .. N /\ gsent[t] \in 0 .. N
    BY <1>6 DEF SensorSlots, G!Slots
  <2>2. n \in 0 .. N /\ (gslot[t] < N => n < gslot[t] + 1)
    BY <2>1
  <2>3. /\ gsent' = [gsent EXCEPT ![t] = n]
        /\ gslot' = [gslot EXCEPT ![t] = IF gslot[t] < N THEN gslot[t] + 1 ELSE 1]
        /\ pc' = [pc EXCEPT ![t] = IF n = count \/ gslot[t] = N THEN "loop" ELSE "check"]
    BY <1>6 DEF G!Advance
  <2>4. gslot' \in [G!Threads -> G!Slots] /\ gsent' \in [G!Threads -> 0 .. N]
    BY <2>1, <2>2, <2>3 DEF SensorSlots, G!Slots
  <2>5. pc' \in [G!Threads -> Steps]
    BY <1>b, <2>3
  <2>6. ASSUME NEW u \in G!Threads, pc'[u] \in {"check", "call"}
        PROVE  gsent'[u] < gslot'[u]
    <3>1. CASE u = t
      BY <1>b, <2>1, <2>2, <2>3, <2>6, <3>1 DEF SensorSlots
    <3>2. CASE u # t
      BY <1>b, <2>3, <2>6, <3>2 DEF SensorSlots
    <3>3. QED
      BY <3>1, <3>2
  <2>7. QED
    BY <2>4, <2>5, <2>6 DEF SensorSlots
<1>7. ASSUME NEW t \in G!Threads, G!Check(t)
      PROVE  G!TypeOK' /\ SensorSlots'
  <2>1. UNCHANGED <<send, count, state, release, on, axes, gcalls, failed, rushed, early, ops>>
    BY <1>7 DEF G!Check, G!shared, G!history
  <2>2. SensorSlots' /\ pc' \in [G!Threads -> Steps]
    <3>1. CASE send[gslot[t]] # None
      BY <1>7, <1>b, <3>1 DEF G!Check, SensorSlots
    <3>2. CASE send[gslot[t]] = None
      BY <1>6, <1>7, <3>2 DEF G!Check
    <3>3. QED
      BY <3>1, <3>2
  <2>3. QED
    BY <1>a, <2>1, <2>2 DEF G!TypeOK, SensorSlots, SensorFlags
<1>8. ASSUME NEW t \in G!Threads, G!Call(t)
      PROVE  G!TypeOK' /\ SensorSlots'
  <2>1. UNCHANGED <<send, count, state, release, on, axes, failed, rushed, early, ops>>
    BY <1>8 DEF G!Call, G!shared, G!history
  <2>2. SensorSlots' /\ pc' \in [G!Threads -> Steps] /\ gcalls' \subseteq Funcs
    <3>1. CASE send[gslot[t]] = None
      BY <1>8, <1>b, <3>1 DEF G!Call, SensorSlots
    <3>2. CASE send[gslot[t]] # None
      <4>1. send[gslot[t]] \in Funcs
        BY <1>0, <3>2 DEF SensorSlots
      <4>2. QED
        BY <1>b, <1>6, <1>8, <3>2, <4>1 DEF G!Call
    <3>3. QED
      BY <3>1, <3>2
  <2>3. QED
    BY <1>a, <1>b, <2>1, <2>2 DEF G!TypeOK, SensorSlots, SensorFlags
<1>9. CASE UNCHANGED sensor
  BY <1>9 DEF sensor, G!TypeOK, SensorSlots
<1>10. QED
  BY <1>1, <1>2, <1>3, <1>4, <1>5, <1>7, <1>8, <1>9 DEF G!Next, G!Works, G!Samples, G!Syncs

-----------------------------------------------------------------------------
\* The threads that poll the device, or are about to.
Running == {"loop", "poll", "check", "call", "crashed"}

\* What the callers' flags say of the one thread there may be, as long as no function
\* was registered on its way out: it is wanted, or it is to release the device, until
\* it has cleared that flag; and a thread that is wanted has the device enabled.
SensorAlone ==
  /\ \A t, u \in G!Threads : pc[t] \notin {"none", "done"} /\ pc[u] \notin {"none", "done"} => t = u
  /\ \A t \in G!Threads :
       /\ pc[t] \in {"start", "exit"} \cup Running => (state <=> ~release)
       /\ pc[t] = "cleared" => ~(state /\ release)
       /\ pc[t] = "start" => state \/ early
       /\ pc[t] \in Running /\ state => on
  /\ \/ ~on \/ early \/ "disable" \in failed
     \/ state /\ \E t \in G!Threads : pc[t] \in Running

SensorThread == G!StateHasThread /\ (~rushed => SensorAlone)

\* While the state is set there is a thread, whatever the order of calls and thread.
LEMMA SensorStateStep ==
  ASSUME G!SlotBounds, G!TypeOK, SensorSlots, G!StateHasThread, [G!Next]_sensor
  PROVE  G!StateHasThread'
<1> DEFINE Steps == {"none", "start", "loop", "poll", "check", "call", "exit", "cleared", "done", "crashed"}
<1>0. pc \in [G!Threads -> Steps] /\ state \in BOOLEAN
  BY DEF G!TypeOK
<1>a. state => \E t \in G!Threads : pc[t] \notin {"none", "done"}
  BY DEF G!StateHasThread, G!Live
<1>b. SUFFICES ASSUME state'
               PROVE  \E t \in G!Threads : pc'[t] \notin {"none", "done"}
  BY DEF G!StateHasThread, G!Live
<1>1. ASSUME NEW f \in Funcs, G!Register(f)
      PROVE  \E t \in G!Threads : pc'[t] \notin {"none", "done"}
  BY <1>0, <1>a, <1>b, <1>1 DEF G!Register, G!Create
<1>2. ASSUME NEW i \in G!Slots, G!Unregister(i)
      PROVE  \E t \in G!Threads : pc'[t] \notin {"none", "done"}
  BY <1>0, <1>a, <1>b, <1>2 DEF G!Unregister
<1>3. ASSUME NEW t \in G!Threads, UNCHANGED state, pc[t] \notin {"none", "done"},
             \E x \in Steps \ {"none", "done"} : pc' = [pc EXCEPT ![t] = x]
      PROVE  \E u \in G!Threads : pc'[u] \notin {"none", "done"}
  BY <1>0, <1>3
<1>4. ASSUME NEW t \in G!Threads, G!Enable(t, TRUE) \/ G!Enable(t, FALSE)
      PROVE  \E u \in G!Threads : pc'[u] \notin {"none", "done"}
  BY <1>3, <1>4 DEF G!Enable
<1>5. ASSUME NEW t \in G!Threads, G!LoopTest(t) \/ G!PollAgain(t) \/ G!Axis(t) \/ G!Sync(t)
      PROVE  \E u \in G!Threads : pc'[u] \notin {"none", "done"}
  BY <1>3, <1>5 DEF G!LoopTest, G!PollAgain, G!Axis, G!Sync, G!shared
<1>6. ASSUME NEW t \in G!Threads, G!Check(t) \/ G!Call(t)
      PROVE  \E u \in G!Threads : pc'[u] \notin {"none", "done"}
  <2>1. UNCHANGED state /\ pc[t] \in {"check", "call"}
    BY <1>6 DEF G!Check, G!Call, G!shared
  <2>2. \E x \in {"loop", "check", "call", "crashed"} : pc' = [pc EXCEPT ![t] = x]
    BY <1>6 DEF G!Check, G!Call, G!Advance
  <2>3. QED
    BY <1>3, <2>1, <2>2
<1>7. ASSUME NEW t \in G!Threads, G!ClearRelease(t) \/ G!ClearState(t)
      PROVE  \E u \in G!Threads : pc'[u] \notin {"none", "done"}
  BY <1>3, <1>b, <1>7 DEF G!ClearRelease, G!ClearState
<1>8. CASE UNCHANGED sensor
  BY <1>a, <1>b, <1>8 DEF sensor
<1>9. QED
  BY <1>1, <1>2, <1>4, <1>5, <1>6, <1>7, <1>8 DEF G!Next, G!Works, G!Samples, G!Syncs

\* Where a thread can be.
SensorSteps == {"none", "start", "loop", "poll", "check", "call", "exit", "cleared", "done", "crashed"}

\* A step of a thread that polls leaves the flags alone, and ends it only for a release.
LEMMA SensorRuns ==
  ASSUME SensorAlone, UNCHANGED <<state, release, on, failed, early>>,
         pc \in [G!Threads -> SensorSteps], NEW t \in G!Threads, pc[t] \in Running,
         NEW x \in Running \cup {"exit"}, pc' = [pc EXCEPT ![t] = x], x = "exit" => release
  PROVE  SensorAlone'
<1>1. \A u \in G!Threads : u # t => pc'[u] = pc[u] /\ pc[u] \in {"none", "done"}
  BY DEF SensorAlone, Running
<1>2. pc'[t] = x /\ (state <=> ~release) /\ (state => on)
  BY DEF SensorAlone
<1>3. x \in Running \/ ~state
  BY <1>2
<1>4. QED
  BY <1>1, <1>2, <1>3 DEF SensorAlone, Running

\* A step keeps what is said of the one thread, unless it registers on its way out.
LEMMA SensorAloneStep ==
  ASSUME G!TypeOK, SensorThread, [G!Next]_sensor, ~rushed'
  PROVE  SensorAlone'
<1>0. pc \in [G!Threads -> SensorSteps]
  BY DEF G!TypeOK, SensorSteps
<1>a. SensorFlags
  BY DEF G!TypeOK, SensorFlags
<1>b. ~rushed => SensorAlone
  BY DEF SensorThread
<1>1. ASSUME NEW f \in Funcs, G!Register(f)
      PROVE  SensorAlone'
  <2>1. ~release /\ (\A t \in G!Threads : pc[t] \notin {"exit", "cleared"}) /\ SensorAlone
    BY <1>1, <1>a, <1>b DEF G!Register, G!Leaving, SensorFlags
  <2>2. UNCHANGED <<release, on, early>>
    BY <1>1 DEF G!Register
  <2>3. CASE UNCHANGED <<pc, state>> /\ ("disable" \in failed <=> "disable" \in failed')
    BY <2>1, <2>2, <2>3 DEF SensorAlone
  <2>4. CASE ~state /\ G!Create /\ state' = TRUE /\ failed' = failed \ {"create", "enable"}
    <3>1. PICK t \in G!Threads : pc[t] = "none" /\ pc' = [pc EXCEPT ![t] = "start"]
      BY <2>4 DEF G!Create
    <3>2. \A u \in G!Threads : pc[u] \in {"none", "done"}
      BY <1>0, <2>1, <2>4 DEF SensorAlone, SensorSteps, Running
    <3>3. ~on \/ early \/ "disable" \in failed'
      BY <2>1, <2>4 DEF SensorAlone
    <3>4. pc'[t] = "start" /\ \A u \in G!Threads : u # t => pc'[u] \in {"none", "done"}
      BY <1>0, <3>1, <3>2
    <3>5. QED
      BY <2>1, <2>2, <2>4, <3>3, <3>4 DEF SensorAlone, Running
  <2>5. QED
    BY <1>1, <2>3, <2>4 DEF G!Register
<1>2. ASSUME NEW i \in G!Slots, G!Unregister(i)
      PROVE  SensorAlone'
  <2>1. SensorAlone /\ UNCHANGED pc
    BY <1>2, <1>b DEF G!Unregister
  <2>2. CASE ~G!IsLast
    <3>1. UNCHANGED <<state, release, on, failed>> /\ (early => early')
      BY <1>2, <1>a, <2>2 DEF G!Unregister, SensorFlags
    <3>2. QED
      BY <2>1, <3>1 DEF SensorAlone
  <2>3. CASE G!IsLast
    <3>1. state' = FALSE /\ release' = TRUE /\ (~on' \/ "disable" \in failed')
      BY <1>2, <1>a, <2>3 DEF G!Unregister, SensorFlags
    <3>2. \A t \in G!Threads : pc[t] = "start" => early'
      BY <1>2, <2>3 DEF G!Unregister, G!Early
    <3>3. QED
      BY <2>1, <3>1, <3>2 DEF SensorAlone
  <2>4. QED
    BY <2>2, <2>3
<1>3. ASSUME NEW t \in G!Threads, NEW ok \in BOOLEAN, G!Enable(t, ok)
      PROVE  SensorAlone'
  <2>1. SensorAlone /\ UNCHANGED <<state, release, early>> /\ pc[t] = "start"
    BY <1>3, <1>b DEF G!Enable
  <2>2. \A u \in G!Threads : u # t => pc'[u] = pc[u] /\ pc[u] \in {"none", "done"}
    BY <1>0, <1>3, <2>1 DEF G!Enable, SensorAlone
  <2>3. (state <=> ~release) /\ (state \/ early)
    BY <2>1 DEF SensorAlone
  <2>4. CASE ok
    <3>1. pc'[t] = "loop" /\ on' = TRUE
      BY <1>0, <1>3, <2>4 DEF G!Enable
    <3>2. QED
      BY <2>1, <2>2, <2>3, <3>1 DEF SensorAlone, Running
  <2>5. CASE ~ok
    <3>1. pc'[t] = "exit" /\ on' = on /\ ("disable" \in failed => "disable" \in failed')
      BY <1>0, <1>3, <1>a, <2>5 DEF G!Enable, SensorFlags
    <3>2. ~on \/ early \/ "disable" \in failed
      BY <2>1, <2>2 DEF SensorAlone, Running
    <3>3. QED
      BY <2>1, <2>2, <2>3, <3>1, <3>2 DEF SensorAlone, Running
  <2>6. QED
    BY <2>4, <2>5
<1>4. ASSUME NEW t \in G!Threads, G!LoopTest(t) \/ G!PollAgain(t) \/ G!Axis(t) \/ G!Sync(t)
      PROVE  SensorAlone'
  <2>1. SensorAlone /\ UNCHANGED <<state, release, on, failed, early>>
    BY <1>4, <1>b DEF G!LoopTest, G!PollAgain, G!Axis, G!Sync, G!shared, G!history
  <2>2. pc[t] \in Running
    BY <1>4 DEF G!LoopTest, G!PollAgain, G!Axis, G!Sync, Running
  <2>3. \E x \in Running \cup {"exit"} : pc' = [pc EXCEPT ![t] = x] /\ (x = "exit" => release)
    BY <1>4 DEF G!LoopTest, G!PollAgain, G!Axis, G!Sync, Running
  <2>4. QED
    BY <1>0, <2>1, <2>2, <2>3, SensorRuns
<1>5. ASSUME NEW t \in G!Threads, G!Check(t) \/ G!Call(t)
      PROVE  SensorAlone'
  <2>1. SensorAlone /\ UNCHANGED <<state, release, on, failed, early>>
    BY <1>5, <1>b DEF G!Check, G!Call, G!shared, G!history
  <2>2. pc[t] \in Running
    BY <1>5 DEF G!Check, G!Call, Running
  <2>3. \E x \in Running \cup {"exit"} : pc' = [pc EXCEPT ![t] = x] /\ (x = "exit" => release)
    BY <1>5 DEF G!Check, G!Call, G!Advance, Running
  <2>4. QED
    BY <1>0, <2>1, <2>2, <2>3, SensorRuns
<1>6. ASSUME NEW t \in G!Threads, G!ClearRelease(t) \/ G!ClearState(t)
      PROVE  SensorAlone'
  <2>1. SensorAlone /\ UNCHANGED <<on, failed, early>> /\ pc[t] \in {"exit", "cleared"}
    BY <1>6, <1>b DEF G!ClearRelease, G!ClearState, G!history
  <2>2. \A u \in G!Threads : u # t => pc'[u] = pc[u] /\ pc[u] \in {"none", "done"}
    BY <1>0, <1>6, <2>1 DEF G!ClearRelease, G!ClearState, SensorAlone
  <2>3. ~on \/ early \/ "disable" \in failed
    BY <2>1, <2>2 DEF SensorAlone, Running
  <2>4. \/ pc'[t] = "cleared" /\ ~release'
        \/ pc'[t] = "done"
    BY <1>0, <1>6 DEF G!ClearRelease, G!ClearState
  <2>5. QED
    BY <2>1, <2>2, <2>3, <2>4 DEF SensorAlone, Running
<1>7. CASE UNCHANGED sensor
  BY <1>7, <1>b DEF sensor, SensorAlone
<1>8. QED
  BY <1>1, <1>2, <1>3, <1>4, <1>5, <1>6, <1>7 DEF G!Next, G!Works, G!Samples, G!Syncs

\* One thread at most is neither new nor done, and the device runs only for it.
LEMMA SensorImplies ==
  ASSUME G!TypeOK, SensorThread
  PROVE  SensorThreadAndDevice
<1>1. CASE rushed
  BY <1>1 DEF SensorThreadAndDevice, SensorThread, G!OneThread, G!DeviceFollows
<1>2. CASE ~rushed
  <2>0. SensorAlone /\ G!StateHasThread
    BY <1>2 DEF SensorThread
  <2>1. G!DeviceFollows
    <3>1. G!Live = {} => ~on \/ early \/ "disable" \in failed
      BY <2>0 DEF SensorAlone, G!Live, Running
    <3>2. \A t \in G!Live : pc[t] \in {"poll", "check", "call"} => on \/ release
      BY <2>0 DEF SensorAlone, G!Live, Running
    <3>3. QED
      BY <3>1, <3>2 DEF G!DeviceFollows
  <2>2. G!Live = {} \/ \E t \in G!Threads : G!Live = {t}
    BY <2>0 DEF SensorAlone, G!Live
  <2>3. Cardinality(G!Live) \in {0, 1}
    BY <2>2, FS_EmptySet, FS_Singleton
  <2>4. QED
    BY <2>0, <2>1, <2>3, SensorCardinality DEF SensorThreadAndDevice, G!OneThread
<1>3. QED
  BY <1>1, <1>2

-----------------------------------------------------------------------------
(* gyrosensor                                                               *)

\* A start that failed keeps the mutex for good; otherwise whoever has it joins
\* the thread, which is at one of the stages of its way out.
GyroStages ==
  /\ \A c \in {c1, c2} : at[c] = "join" =>
       /\ holder = c /\ ~wanted
       /\ IF thread = "none" THEN enabled => "disable" \in mishaps ELSE enabled
       /\ ending <=> thread \in {"loop", "freed"}
       /\ fifodata = IF thread = "loop" THEN "valid" ELSE "freed"
  /\ holder = Nobody =>
       /\ thread \in {"none", "loop"} /\ (wanted <=> thread = "loop") /\ ~ending
       /\ wanted => fifodata = "valid" /\ enabled
       /\ enabled /\ ~wanted => "create" \in mishaps \/ "disable" \in mishaps
       /\ fifodata = "valid" /\ ~wanted => "create" \in mishaps
  /\ (holder # Nobody /\ at[holder] # "join") => thread = "none"
  /\ device /\ ~enabled => looker = "calibrate" \/ "close" \in mishaps
  /\ enabled /\ ~device => "cut" \in mishaps

\* The types, one conjunct each.
GyroTypes ==
  /\ holder \in {c1, c2} \cup {Nobody} /\ at \in [{c1, c2} -> {"idle", "start", "stop", "join"}]
  /\ calls \in 0 .. MaxCalls
  /\ wanted \in BOOLEAN /\ ending \in BOOLEAN /\ enabled \in BOOLEAN /\ device \in BOOLEAN
  /\ fifodata \in {"null", "valid", "freed"} /\ thread \in {"none", "loop", "freed", "cleared"}
  /\ looker \in {"idle", "read", "calibrate", "crashed"}
  /\ mishaps \subseteq Y!Failures \cup {"cut"}

\* These are the types of the module.
LEMMA GyroTypesAre == GyroTypes <=> Y!TypeOK
  BY DEF GyroTypes, Y!TypeOK

\* A step keeps the types and the stages.
LEMMA GyroStep ==
  ASSUME Y!CallerBounds, GyroTypes, GyroStages, [Y!Next]_gyro
  PROVE  GyroTypes' /\ GyroStages'
<1> DEFINE GyroIInv == GyroTypes /\ GyroStages
<1> USE DEF GyroTypes, Y!CallerBounds, GyroStages
<1>1. ASSUME NEW c \in {c1, c2}, Y!Ask(c, "start") \/ Y!Ask(c, "stop")
      PROVE GyroIInv'
  BY <1>1 DEF Y!Ask
<1>2. ASSUME NEW c \in {c1, c2}, Y!Start(c)
      PROVE GyroIInv'
  <2>1. at[c] = "start" /\ holder = Nobody /\ at' = [at EXCEPT ![c] = "idle"]
        /\ UNCHANGED <<calls, ending, looker>>
    BY <1>2 DEF Y!Start
  <2>2. CASE wanted
    <3>1. UNCHANGED <<holder, wanted, enabled, device, fifodata, thread, mishaps>>
      BY <1>2, <2>2 DEF Y!Start
    <3>2. QED
      BY <2>1, <3>1
  <2>3. CASE ~wanted
    <3>1. thread = "none" /\ ~ending
      BY <2>1, <2>3
    <3>2. PICK fails \in {"malloc", "enable", "create", "nothing"} :
              /\ wanted' = (fails # "create")
              /\ fifodata' = CASE fails = "malloc" -> "null"
                               [] fails = "enable" -> "freed"
                               [] OTHER -> "valid"
              /\ holder' = IF fails \in {"malloc", "enable"} THEN c ELSE Nobody
              /\ enabled' = (enabled \/ fails \in {"create", "nothing"})
              /\ device' = (device \/ fails \in {"create", "nothing"})
              /\ thread' = IF fails = "nothing" THEN "loop" ELSE thread
              /\ mishaps' = CASE fails = "nothing" -> {}
                              [] fails = "create" -> (mishaps \ {"cut", "close"}) \cup {"create"}
                              [] OTHER -> mishaps
      BY <1>2, <2>3 DEF Y!Start
    <3>3. CASE fails = "nothing"
      BY <2>1, <3>1, <3>2, <3>3
    <3>4. CASE fails = "create"
      BY <2>1, <3>1, <3>2, <3>4 DEF Y!Failures
    <3>5. CASE fails \in {"malloc", "enable"}
      <4>1. UNCHANGED <<enabled, device, thread, mishaps>> /\ wanted' = TRUE /\ holder' = c
            /\ fifodata' \in {"null", "freed"}
        BY <3>2, <3>5
      <4>2. QED
        BY <2>1, <3>1, <4>1
    <3>6. QED
      BY <3>3, <3>4, <3>5
  <2>4. QED
    BY <2>2, <2>3
<1>3. ASSUME NEW c \in {c1, c2}, Y!Stop(c)
      PROVE GyroIInv'
  BY <1>3 DEF Y!Stop
<1>4. ASSUME NEW c \in {c1, c2}, Y!Join(c)
      PROVE GyroIInv'
  BY <1>4 DEF Y!Join
<1>5. ASSUME Y!Runs
      PROVE GyroIInv'
  <2>1. CASE Y!ThreadFrees
    BY <2>1 DEF Y!ThreadFrees
  <2>2. CASE Y!ThreadClears
    BY <2>2 DEF Y!ThreadClears
  <2>3. CASE Y!ThreadDisables
    <3>1. thread = "cleared" /\ thread' = "none"
          /\ UNCHANGED <<holder, at, calls, wanted, ending, fifodata, looker>>
      BY <2>3 DEF Y!ThreadDisables
    <3>2. CASE enabled' = FALSE /\ device' = FALSE /\ mishaps' = {}
      BY <3>1, <3>2
    <3>3. CASE mishaps' = mishaps \cup {"disable"} /\ UNCHANGED <<enabled, device>>
      BY <3>1, <3>3 DEF Y!Failures
    <3>4. QED
      BY <2>3, <3>2, <3>3 DEF Y!ThreadDisables
  <2>4. QED
    BY <1>5, <2>1, <2>2, <2>3 DEF Y!Runs
<1>6. ASSUME Y!Reads
      PROVE GyroIInv'
  <2>1. CASE Y!ReadLooks
    BY <2>1 DEF Y!ReadLooks
  <2>2. CASE Y!ReadCopies
    BY <2>2 DEF Y!ReadCopies
  <2>3. CASE Y!CalibrationStarts
    BY <2>3 DEF Y!CalibrationStarts
  <2>4. CASE Y!CalibrationCloses
    <3>1. looker = "calibrate" /\ looker' = "idle"
          /\ UNCHANGED <<holder, at, calls, wanted, ending, enabled, fifodata, thread>>
      BY <2>4 DEF Y!CalibrationCloses
    <3>2. CASE device' = FALSE /\ mishaps' = (IF enabled THEN mishaps \cup {"cut"} ELSE mishaps \ {"close"})
      BY <3>1, <3>2
    <3>3. CASE mishaps' = mishaps \cup {"close"} /\ UNCHANGED device
      BY <3>1, <3>3 DEF Y!Failures
    <3>4. QED
      BY <2>4, <3>2, <3>3 DEF Y!CalibrationCloses
  <2>5. QED
    BY <1>6, <2>1, <2>2, <2>3, <2>4 DEF Y!Reads
<1>7. CASE UNCHANGED gyro
  BY <1>7 DEF gyro
<1>8. QED
  BY <1>1, <1>2, <1>3, <1>4, <1>5, <1>6, <1>7 DEF Y!Next, Y!Serves

\* Whoever is in a call has the mutex, or nothing to do with the thread.
LEMMA GyroImplies ==
  ASSUME GyroTypes, GyroStages
  PROVE  GyroSettled
  BY DEF GyroTypes, GyroStages, GyroSettled, Y!Settled, Y!DeviceAsState

-----------------------------------------------------------------------------
(* adcKey, hotplug and adcDetect                                            *)

\* The types, one conjunct each.
BoardTypes ==
  /\ usb \in BOOLEAN /\ charged \in BOOLEAN /\ dark \in BOOLEAN /\ asking \in BOOLEAN
  /\ mUsbPlugIn \in BOOLEAN /\ mChangeFull \in BOOLEAN /\ curIsHeight \in BOOLEAN
  /\ changes \in 0 .. MaxChanges /\ samples \in 0 .. MaxSamples /\ same \in 0 .. 2
  /\ keys \in Seq({"usb", "full", "dark"} \X BOOLEAN) /\ uevents \in Seq(BOOLEAN)
  /\ keySets \in Seq(B!Sets) /\ plugSets \in Seq(B!Sets) /\ ~(asking /\ plugSets # <<>>)
  /\ gpio \in [B!Pins -> {0, 1}]

\* These are the types of the module.
LEMMA BoardTypesAre == BoardTypes <=> B!TypeOK
  BY DEF BoardTypes, B!TypeOK

\* The settings of a pin that a program has yet to run.
SetsPin(s, p) == \E i \in 1 .. Len(s) : s[i][1] = p
SetsTo(s, p, v) == \A i \in 1 .. Len(s) : s[i][1] = p => s[i][2] = v

\* The first of the queues: what follows of the rest.
LEMMA SetsTail ==
  ASSUME NEW s \in Seq(B!Sets), s # <<>>, NEW p, NEW v
  PROVE  /\ Tail(s) \in Seq(B!Sets) /\ Head(s) \in B!Sets
         /\ SetsTo(s, p, v) => SetsTo(Tail(s), p, v) /\ (Head(s)[1] = p => Head(s)[2] = v)
         /\ Head(s)[1] # p /\ SetsPin(s, p) => SetsPin(Tail(s), p)
<1>1. /\ Len(s) \in Nat \ {0} /\ Head(s) = s[1] /\ Len(Tail(s)) = Len(s) - 1
      /\ \A i \in 1 .. Len(s) - 1 : Tail(s)[i] = s[i + 1]
      /\ Tail(s) \in Seq(B!Sets) /\ s[1] \in B!Sets
  OBVIOUS
<1>2. SetsTo(s, p, v) => SetsTo(Tail(s), p, v) /\ (Head(s)[1] = p => Head(s)[2] = v)
  BY <1>1 DEF SetsTo
<1>3. ASSUME Head(s)[1] # p, SetsPin(s, p)
      PROVE  SetsPin(Tail(s), p)
  <2>1. PICK i \in 1 .. Len(s) : s[i][1] = p
    BY <1>3 DEF SetsPin
  <2>2. i # 1 /\ i - 1 \in 1 .. Len(s) - 1 /\ Tail(s)[i - 1] = s[i]
    BY <1>1, <1>3, <2>1
  <2>3. QED
    BY <1>1, <2>1, <2>2 DEF SetsPin
<1>4. QED
  BY <1>1, <1>2, <1>3

\* What the two programs that set the charge light know of the charger.
KeysTellUsb ==
  LET tells(i) == keys[i][1] = "usb" /\ \A j \in i + 1 .. Len(keys) : keys[j][1] # "usb"
  IN  /\ (\A i \in 1 .. Len(keys) : keys[i][1] # "usb") => (mUsbPlugIn <=> usb)
      /\ \A i \in 1 .. Len(keys) : tells(i) => (keys[i][2] <=> usb)

\* The last event tells whether it is plugged, and an unplugged board is asked nothing.
UeventsTellUsb ==
  /\ uevents # <<>> => (uevents[Len(uevents)] <=> usb)
  /\ (uevents = <<>> /\ ~usb) => ~asking

\* Which pins the two set, and to what, once they know of an unplugged board.
SetsAreRight ==
  \A p \in {B!Red, B!Green} :
    /\ ~mUsbPlugIn => SetsTo(keySets, p, 1)
    /\ (uevents = <<>> /\ ~usb) => SetsTo(plugSets, p, 1)
    /\ ~usb => \/ gpio[p] = 1 \/ mUsbPlugIn \/ SetsPin(keySets, p)
               \/ uevents # <<>> \/ SetsPin(plugSets, p)

\* hotplug never sets the lamp; adcDetect has set it after two samples.
LampIsSet ==
  /\ \A i \in 1 .. Len(plugSets) : plugSets[i][1] # B!Lamp
  /\ same >= 1 => (curIsHeight <=> ~dark) \/ gpio[B!Lamp] = B!Bit(dark)
  /\ same = 2 => gpio[B!Lamp] = B!Bit(dark)
\* Two settings of the charge light.
LEMMA TwoSets ==
  ASSUME NEW a \in {0, 1}, NEW b \in {0, 1}
  PROVE  LET s == <<<<B!Red, a>>, <<B!Green, b>>>>
         IN  /\ s \in Seq(B!Sets)
             /\ SetsPin(s, B!Red) /\ SetsPin(s, B!Green)
             /\ a = 1 => SetsTo(s, B!Red, 1)
             /\ b = 1 => SetsTo(s, B!Green, 1)
             /\ \A i \in 1 .. Len(s) : s[i][1] # B!Lamp
<1> DEFINE s == <<<<B!Red, a>>, <<B!Green, b>>>>
<1>1. /\ Len(s) = 2 /\ s[1] = <<B!Red, a>> /\ s[2] = <<B!Green, b>> /\ s \in Seq(B!Sets)
  BY DEF B!Sets, B!Pins
<1>2. s[1][1] = B!Red /\ s[1][2] = a /\ s[2][1] = B!Green /\ s[2][2] = b
  BY <1>1
<1> HIDE DEF s
<1>3. SetsPin(s, B!Red) /\ SetsPin(s, B!Green)
  BY <1>1, <1>2 DEF SetsPin
<1>4. /\ a = 1 => SetsTo(s, B!Red, 1)
      /\ b = 1 => SetsTo(s, B!Green, 1)
  BY <1>1, <1>2 DEF SetsTo, B!Red, B!Green
<1>5. \A i \in 1 .. Len(s) : s[i][1] # B!Lamp
  BY <1>1, <1>2 DEF B!Red, B!Green, B!Lamp
<1>6. QED
  BY <1>1, <1>3, <1>4, <1>5 DEF s

\* A step keeps the types.
LEMMA BoardTypeStep ==
  ASSUME B!BoardBounds, BoardTypes, [B!Next]_board
  PROVE  BoardTypes'
<1> USE DEF B!BoardBounds
<1>0. B!Bit(TRUE) = 1 /\ B!Bit(FALSE) = 0
  BY DEF B!Bit
<1>a. \A k \in {"usb", "full", "dark"}, b \in BOOLEAN :
         Append(keys, <<k, b>>) \in Seq({"usb", "full", "dark"} \X BOOLEAN)
  BY DEF BoardTypes
<1>1. CASE B!Plug
  <2>1. usb' \in BOOLEAN /\ changes' \in 0 .. MaxChanges
    BY <1>1 DEF B!Plug, BoardTypes
  <2>2. keys' \in Seq({"usb", "full", "dark"} \X BOOLEAN)
    BY <1>1, <1>a, <2>1 DEF B!Plug
  <2>a. uevents \in Seq(BOOLEAN) /\ uevents' = Append(uevents, usb')
    BY <1>1 DEF B!Plug, BoardTypes
  <2>b. uevents' \in Seq(BOOLEAN)
    BY <2>1, <2>a
  <2>3. QED
    BY <1>1, <2>1, <2>2, <2>b DEF B!Plug, B!adcDetect, BoardTypes
<1>2. CASE B!Charge
  <2>1. charged' \in BOOLEAN /\ changes' \in 0 .. MaxChanges
    BY <1>2 DEF B!Charge, BoardTypes
  <2>2. keys' \in Seq({"usb", "full", "dark"} \X BOOLEAN)
    BY <1>2, <1>a, <2>1 DEF B!Charge, BoardTypes
  <2>3. QED
    BY <1>2, <2>1, <2>2 DEF B!Charge, B!adcDetect, B!hotplug, BoardTypes
<1>3. ASSUME NEW noticed \in BOOLEAN, B!Dusk(noticed)
      PROVE  BoardTypes'
  <2>1. dark' \in BOOLEAN /\ changes' \in 0 .. MaxChanges /\ same' \in 0 .. 2
    BY <1>3 DEF B!Dusk, BoardTypes
  <2>2. keys' \in Seq({"usb", "full", "dark"} \X BOOLEAN)
    BY <1>3, <1>a, <2>1 DEF B!Dusk, BoardTypes
  <2>3. QED
    BY <1>3, <2>1, <2>2 DEF B!Dusk, B!hotplug, BoardTypes
<1>4. CASE B!Listen
  <2>1. keys \in Seq({"usb", "full", "dark"} \X BOOLEAN) /\ keys # <<>>
    BY <1>4 DEF B!Listen, BoardTypes
  <2>2. keys' \in Seq({"usb", "full", "dark"} \X BOOLEAN)
        /\ Head(keys) \in {"usb", "full", "dark"} \X BOOLEAN
    BY <1>4, <2>1 DEF B!Listen
  <2>3. Head(keys)[2] \in BOOLEAN
    BY <2>2
  <2>4. mUsbPlugIn' \in BOOLEAN /\ mChangeFull' \in BOOLEAN
    BY <1>4, <2>3 DEF B!Listen, BoardTypes
  <2>5. keySets' \in Seq(B!Sets)
    <3>1. CASE Head(keys)[1] = "dark"
      <4>1. keySets' = <<<<B!Lamp, B!Bit(Head(keys)[2])>>>>
        BY <1>4, <3>1 DEF B!Listen
      <4>2. B!Bit(Head(keys)[2]) \in {0, 1}
        BY <2>3 DEF B!Bit
      <4>3. <<B!Lamp, B!Bit(Head(keys)[2])>> \in B!Sets
        BY <4>2 DEF B!Sets, B!Pins
      <4>4. QED
        BY <4>1, <4>3
    <3>2. CASE Head(keys)[1] # "dark"
      <4>1. keySets' = B!RgbLight(mUsbPlugIn', mChangeFull')
        BY <1>4, <3>2 DEF B!Listen
      <4>2. B!Bit(mChangeFull') \in {0, 1} /\ B!Bit(~mChangeFull') \in {0, 1}
        BY <2>4 DEF B!Bit
      <4>3. CASE mUsbPlugIn'
        BY <4>1, <4>2, <4>3, TwoSets DEF B!RgbLight
      <4>4. CASE ~mUsbPlugIn'
        BY <4>1, <4>4, TwoSets DEF B!RgbLight
      <4>5. QED
        BY <4>3, <4>4
    <3>3. QED
      BY <3>1, <3>2
  <2>6. QED
    BY <1>4, <2>2, <2>4, <2>5 DEF B!Listen, B!world, B!hotplug, B!adcDetect, BoardTypes
<1>5. CASE B!Uevent
  <2>1. uevents \in Seq(BOOLEAN) /\ uevents # <<>> /\ plugSets = <<>>
    BY <1>5 DEF B!Uevent, BoardTypes
  <2>2. Tail(uevents) \in Seq(BOOLEAN) /\ Head(uevents) \in BOOLEAN
    BY <2>1
  <2>3. <<>> \in Seq(B!Sets) /\ <<<<B!Red, 1>>, <<B!Green, 1>>>> \in Seq(B!Sets)
    BY TwoSets
  <2>4. asking' = Head(uevents) /\ uevents' = Tail(uevents)
        /\ plugSets' = IF Head(uevents) THEN <<>> ELSE <<<<B!Red, 1>>, <<B!Green, 1>>>>
    BY <1>5 DEF B!Uevent
  <2>5. plugSets' \in Seq(B!Sets) /\ ~(asking' /\ plugSets' # <<>>)
    BY <2>2, <2>3, <2>4
  <2>6. QED
    BY <1>5, <2>2, <2>4, <2>5 DEF B!Uevent, B!world, B!adcKey, B!adcDetect, BoardTypes
<1>6. CASE B!AskFull
  <2>1. plugSets' = <<<<B!Red, 0>>, <<B!Green, B!Bit(~charged)>>>> /\ asking' = FALSE
    BY <1>6 DEF B!AskFull
  <2>2. B!Bit(~charged) \in {0, 1}
    BY DEF B!Bit
  <2>3. plugSets' \in Seq(B!Sets)
    BY <2>1, <2>2, TwoSets
  <2>4. QED
    BY <1>6, <2>1, <2>3 DEF B!AskFull, B!world, B!adcKey, B!adcDetect, BoardTypes
<1>7. CASE B!KeySets
  <2>1. keySets \in Seq(B!Sets) /\ keySets # <<>>
    BY <1>7 DEF B!KeySets, BoardTypes
  <2>2. keySets' \in Seq(B!Sets) /\ Head(keySets) \in B!Sets
    BY <1>7, <2>1 DEF B!KeySets
  <2>3. gpio' \in [B!Pins -> {0, 1}]
    BY <1>7, <2>2 DEF B!KeySets, BoardTypes, B!Sets
  <2>4. same' \in 0 .. 2
    BY <1>7 DEF B!KeySets, BoardTypes
  <2>5. QED
    BY <1>7, <2>2, <2>3, <2>4 DEF B!KeySets, B!world, B!hotplug, BoardTypes
<1>8. CASE B!PlugSets
  <2>1. plugSets \in Seq(B!Sets) /\ plugSets # <<>> /\ ~asking
    BY <1>8 DEF B!PlugSets, BoardTypes
  <2>2. plugSets' \in Seq(B!Sets) /\ Head(plugSets) \in B!Sets
    BY <1>8, <2>1 DEF B!PlugSets
  <2>3. gpio' \in [B!Pins -> {0, 1}]
    BY <1>8, <2>2 DEF B!PlugSets, BoardTypes, B!Sets
  <2>4. QED
    BY <1>8, <2>1, <2>2, <2>3 DEF B!PlugSets, B!world, B!adcKey, B!adcDetect, BoardTypes
<1>9. CASE B!Detect
  <2>1. gpio' \in [B!Pins -> {0, 1}]
    BY <1>9 DEF B!Detect, BoardTypes, B!Bit, B!Pins
  <2>2. curIsHeight' \in BOOLEAN
    BY <1>9 DEF B!Detect, BoardTypes
  <2>3. samples' \in 0 .. MaxSamples /\ same' \in 0 .. 2
    BY <1>9 DEF B!Detect, BoardTypes
  <2>4. QED
    BY <1>9, <2>1, <2>2, <2>3 DEF B!Detect, B!world, B!adcKey, B!hotplug, BoardTypes
<1>10. CASE UNCHANGED board
  BY <1>10 DEF board, BoardTypes
<1>11. QED
  BY <1>1, <1>2, <1>3, <1>4, <1>5, <1>6, <1>7, <1>8, <1>9, <1>10 DEF B!Next

\* What is read and what is appended: the last event of the charger.
LEMMA KeysStep ==
  ASSUME BoardTypes, KeysTellUsb, [B!Next]_board
  PROVE  KeysTellUsb'
<1> DEFINE Key == {"usb", "full", "dark"} \X BOOLEAN
<1>0. keys \in Seq(Key) /\ Len(keys) \in Nat /\ \A i \in 1 .. Len(keys) : keys[i] \in Key
  BY DEF BoardTypes
<1>1. ASSUME NEW e \in Key, keys' = Append(keys, e), mUsbPlugIn' = mUsbPlugIn,
             e[1] = "usb" => (e[2] <=> usb'), e[1] # "usb" => usb' = usb
      PROVE  KeysTellUsb'
  <2>1. Len(keys') = Len(keys) + 1 /\ keys'[Len(keys) + 1] = e
        /\ \A i \in 1 .. Len(keys) : keys'[i] = keys[i]
    BY <1>0, <1>1
  <2>2. CASE e[1] = "usb"
    BY <1>0, <1>1, <2>1, <2>2 DEF KeysTellUsb
  <2>3. CASE e[1] # "usb"
    <3>1. \A i \in 1 .. Len(keys') : keys'[i][1] = "usb" => i \in 1 .. Len(keys)
      BY <1>0, <2>1, <2>3
    <3>2. ASSUME NEW i \in 1 .. Len(keys'), keys'[i][1] = "usb",
                 \A j \in i + 1 .. Len(keys') : keys'[j][1] # "usb"
          PROVE  keys'[i][2] <=> usb'
      <4>1. i \in 1 .. Len(keys)
        BY <3>1, <3>2
      <4>2. \A j \in i + 1 .. Len(keys) : keys[j][1] # "usb"
        BY <1>0, <2>1, <3>2, <4>1
      <4>3. keys[i][2] <=> usb
        BY <2>1, <3>2, <4>1, <4>2 DEF KeysTellUsb
      <4>4. QED
        BY <1>1, <2>1, <2>3, <4>1, <4>3
    <3>3. (\A i \in 1 .. Len(keys') : keys'[i][1] # "usb") => (mUsbPlugIn' <=> usb')
      BY <1>0, <1>1, <2>1, <2>3 DEF KeysTellUsb
    <3>4. QED
      BY <3>2, <3>3 DEF KeysTellUsb
  <2>4. QED
    BY <2>2, <2>3
<1>2. CASE B!Plug
  <2>1. keys' = Append(keys, <<"usb", usb'>>) /\ mUsbPlugIn' = mUsbPlugIn /\ usb' \in BOOLEAN
    BY <1>2 DEF B!Plug, BoardTypes
  <2>2. <<"usb", usb'>> \in Key /\ <<"usb", usb'>>[1] = "usb" /\ <<"usb", usb'>>[2] = usb'
    BY <2>1
  <2>3. QED
    BY <1>1, <2>1, <2>2
<1>3. CASE B!Charge
  <2>1. keys' = Append(keys, <<"full", charged'>>) /\ mUsbPlugIn' = mUsbPlugIn
        /\ usb' = usb /\ charged' \in BOOLEAN
    BY <1>3 DEF B!Charge, BoardTypes
  <2>2. <<"full", charged'>> \in Key /\ <<"full", charged'>>[1] # "usb"
    BY <2>1
  <2>3. QED
    BY <1>1, <2>1, <2>2
<1>4. CASE UNCHANGED <<keys, mUsbPlugIn, usb>>
  BY <1>4 DEF KeysTellUsb
<1>5. ASSUME NEW noticed \in BOOLEAN, B!Dusk(noticed)
      PROVE  KeysTellUsb'
  <2>1. CASE noticed
    <3>1. keys' = Append(keys, <<"dark", dark'>>) /\ mUsbPlugIn' = mUsbPlugIn
          /\ usb' = usb /\ dark' \in BOOLEAN
      BY <1>5, <2>1 DEF B!Dusk, BoardTypes
    <3>2. <<"dark", dark'>> \in Key /\ <<"dark", dark'>>[1] # "usb"
      BY <3>1
    <3>3. QED
      BY <1>1, <3>1, <3>2
  <2>2. CASE ~noticed
    BY <1>4, <1>5, <2>2 DEF B!Dusk
  <2>3. QED
    BY <2>1, <2>2
<1>6. CASE B!Listen
  <2>1. keys # <<>> /\ keys' = Tail(keys) /\ usb' = usb
        /\ mUsbPlugIn' = IF Head(keys)[1] = "usb" THEN Head(keys)[2] ELSE mUsbPlugIn
    BY <1>6 DEF B!Listen, B!world
  <2>2. Len(keys') = Len(keys) - 1 /\ Len(keys) >= 1 /\ Head(keys) = keys[1]
        /\ \A i \in 1 .. Len(keys) - 1 : keys'[i] = keys[i + 1]
    BY <1>0, <2>1
  <2>3. ASSUME \A i \in 1 .. Len(keys') : keys'[i][1] # "usb"
        PROVE  mUsbPlugIn' <=> usb'
    <3>1. \A i \in 2 .. Len(keys) : keys[i][1] # "usb"
      <4> SUFFICES ASSUME NEW i \in 2 .. Len(keys)
                   PROVE  keys[i][1] # "usb"
        OBVIOUS
      <4>1. i - 1 \in 1 .. Len(keys) - 1 /\ keys'[i - 1] = keys[i]
        BY <1>0, <2>2
      <4>2. QED
        BY <2>2, <2>3, <4>1
    <3>2. CASE keys[1][1] = "usb"
      <4>1. keys[1][2] <=> usb
        BY <1>0, <2>2, <3>1, <3>2 DEF KeysTellUsb
      <4>2. QED
        BY <2>1, <2>2, <3>2, <4>1
    <3>3. CASE keys[1][1] # "usb"
      <4>1. \A i \in 1 .. Len(keys) : keys[i][1] # "usb"
        BY <1>0, <3>1, <3>3
      <4>2. QED
        BY <2>1, <2>2, <3>3, <4>1 DEF KeysTellUsb
    <3>4. QED
      BY <3>2, <3>3
  <2>4. ASSUME NEW i \in 1 .. Len(keys'), keys'[i][1] = "usb",
               \A j \in i + 1 .. Len(keys') : keys'[j][1] # "usb"
        PROVE  keys'[i][2] <=> usb'
    <3>1. i + 1 \in 1 .. Len(keys) /\ keys'[i] = keys[i + 1]
      BY <1>0, <2>2
    <3>2. ASSUME NEW j \in i + 2 .. Len(keys)
          PROVE  keys[j][1] # "usb"
      <4>1. j - 1 \in i + 1 .. Len(keys') /\ keys'[j - 1] = keys[j]
        BY <1>0, <2>2
      <4>2. QED
        BY <2>4, <4>1
    <3>3. keys[i + 1][2] <=> usb
      BY <2>4, <3>1, <3>2 DEF KeysTellUsb
    <3>4. QED
      BY <2>1, <3>1, <3>3
  <2>5. QED
    BY <2>3, <2>4 DEF KeysTellUsb
<1>7. CASE B!Uevent \/ B!AskFull \/ B!KeySets \/ B!PlugSets \/ B!Detect \/ UNCHANGED board
  BY <1>4, <1>7 DEF B!Uevent, B!AskFull, B!KeySets, B!PlugSets, B!Detect, board,
                    B!world, B!adcKey
<1>8. QED
  BY <1>2, <1>3, <1>5, <1>6, <1>7 DEF B!Next

\* A step keeps what hotplug is told: every change of the plug is its last event.
LEMMA UeventsStep ==
  ASSUME BoardTypes, UeventsTellUsb, [B!Next]_board
  PROVE  UeventsTellUsb'
<1>0. uevents \in Seq(BOOLEAN) /\ Len(uevents) \in Nat
  BY DEF BoardTypes
<1>1. CASE B!Plug
  <2>1. uevents' = Append(uevents, usb') /\ asking' = asking
    BY <1>1 DEF B!Plug
  <2>2. uevents' # <<>> /\ uevents'[Len(uevents')] = usb'
    BY <1>0, <2>1
  <2>3. QED
    BY <2>2 DEF UeventsTellUsb
<1>2. CASE B!Uevent
  <2>1. uevents # <<>> /\ uevents' = Tail(uevents) /\ asking' = Head(uevents) /\ usb' = usb
    BY <1>2 DEF B!Uevent, B!world
  <2>2. Len(uevents') = Len(uevents) - 1 /\ Len(uevents) >= 1 /\ Head(uevents) = uevents[1]
        /\ \A i \in 1 .. Len(uevents) - 1 : uevents'[i] = uevents[i + 1]
    BY <1>0, <2>1
  <2>3. uevents' = <<>> => Len(uevents) = 1
    BY <2>2
  <2>4. uevents' # <<>> => Len(uevents') \in 1 .. Len(uevents) - 1 /\ uevents'[Len(uevents')] = uevents[Len(uevents)]
    <3> SUFFICES ASSUME uevents' # <<>>
                 PROVE  Len(uevents') \in 1 .. Len(uevents) - 1 /\ uevents'[Len(uevents')] = uevents[Len(uevents)]
      OBVIOUS
    <3>1. Len(uevents') # 0
      BY <1>0, <2>1
    <3>2. QED
      BY <1>0, <2>2, <3>1
  <2>5. QED
    BY <2>1, <2>2, <2>3, <2>4 DEF UeventsTellUsb
<1>3. CASE B!AskFull
  BY <1>3 DEF B!AskFull, B!world, UeventsTellUsb
<1>4. CASE UNCHANGED <<uevents, asking, usb>>
  BY <1>4 DEF UeventsTellUsb
<1>5. ASSUME NEW noticed \in BOOLEAN, B!Dusk(noticed)
      PROVE  UeventsTellUsb'
  BY <1>4, <1>5 DEF B!Dusk, B!hotplug
<1>6. CASE B!Charge \/ B!Listen \/ B!KeySets \/ B!PlugSets \/ B!Detect \/ UNCHANGED board
  BY <1>4, <1>6 DEF B!Charge, B!Listen, B!KeySets, B!PlugSets, B!Detect, board,
                    B!world, B!hotplug
<1>7. QED
  BY <1>1, <1>2, <1>3, <1>5, <1>6 DEF B!Next

\* An empty list of settings sets nothing.
LEMMA NoSets ==
  ASSUME NEW p
  PROVE  ~SetsPin(<<>>, p) /\ SetsTo(<<>>, p, 1)
  BY DEF SetsPin, SetsTo

\* A step keeps what the settings under way do to a pin of the charge light.
LEMMA SetsStep ==
  ASSUME BoardTypes, UeventsTellUsb, UeventsTellUsb', SetsAreRight, LampIsSet, [B!Next]_board,
         NEW p \in {B!Red, B!Green}
  PROVE  /\ ~mUsbPlugIn' => SetsTo(keySets', p, 1)
         /\ (uevents' = <<>> /\ ~usb') => SetsTo(plugSets', p, 1)
         /\ ~usb' => \/ gpio'[p] = 1 \/ mUsbPlugIn' \/ SetsPin(keySets', p)
                     \/ uevents' # <<>> \/ SetsPin(plugSets', p)
<1> DEFINE R == /\ ~mUsbPlugIn' => SetsTo(keySets', p, 1)
                /\ (uevents' = <<>> /\ ~usb') => SetsTo(plugSets', p, 1)
                /\ ~usb' => \/ gpio'[p] = 1 \/ mUsbPlugIn' \/ SetsPin(keySets', p)
                            \/ uevents' # <<>> \/ SetsPin(plugSets', p)
<1>0. /\ ~mUsbPlugIn => SetsTo(keySets, p, 1)
      /\ (uevents = <<>> /\ ~usb) => SetsTo(plugSets, p, 1)
      /\ ~usb => \/ gpio[p] = 1 \/ mUsbPlugIn \/ SetsPin(keySets, p)
                 \/ uevents # <<>> \/ SetsPin(plugSets, p)
  BY DEF SetsAreRight
<1>a. p \in B!Pins /\ p # B!Lamp /\ keySets \in Seq(B!Sets) /\ plugSets \in Seq(B!Sets)
      /\ gpio \in [B!Pins -> {0, 1}]
  BY DEF BoardTypes, B!Pins, B!Red, B!Green, B!Lamp
<1>1. CASE B!Plug
  <2>1. uevents' = Append(uevents, usb') /\ UNCHANGED <<mUsbPlugIn, keySets>>
    BY <1>1 DEF B!Plug
  <2>2. uevents \in Seq(BOOLEAN)
    BY DEF BoardTypes
  <2>3. uevents' # <<>>
    BY <2>1, <2>2
  <2>4. QED
    BY <1>0, <2>1, <2>3
<1>2. CASE UNCHANGED <<mUsbPlugIn, keySets, uevents, usb, plugSets, gpio>>
  BY <1>0, <1>2
<1>3. ASSUME NEW noticed \in BOOLEAN, B!Dusk(noticed)
      PROVE  R
  BY <1>2, <1>3 DEF B!Dusk, B!hotplug
<1>4. CASE B!Charge \/ UNCHANGED board
  BY <1>2, <1>4 DEF B!Charge, B!hotplug, board
<1>5. CASE B!Listen
  <2>1. keySets = <<>> /\ UNCHANGED <<usb, uevents, plugSets, gpio>>
    BY <1>5 DEF B!Listen, B!world, B!hotplug
  <2>2. ~SetsPin(keySets, p)
    BY <2>1, NoSets
  <2>3. CASE Head(keys)[1] = "dark"
    <3>1. mUsbPlugIn' = mUsbPlugIn /\ keySets' = <<<<B!Lamp, B!Bit(Head(keys)[2])>>>>
      BY <1>5, <2>3 DEF B!Listen
    <3>2. Len(keySets') = 1 /\ keySets'[1][1] = B!Lamp
      BY <3>1
    <3>3. SetsTo(keySets', p, 1)
      BY <1>a, <3>2 DEF SetsTo
    <3>4. QED
      BY <1>0, <2>1, <2>2, <3>1, <3>3
  <2>4. CASE Head(keys)[1] # "dark"
    <3>1. keySets' = B!RgbLight(mUsbPlugIn', mChangeFull')
      BY <1>5, <2>4 DEF B!Listen
    <3>2. CASE mUsbPlugIn'
      BY <1>0, <2>1, <3>2
    <3>3. CASE ~mUsbPlugIn'
      <4>1. SetsPin(keySets', p) /\ SetsTo(keySets', p, 1)
        BY <3>1, <3>3, TwoSets DEF B!RgbLight
      <4>2. QED
        BY <1>0, <2>1, <4>1
    <3>4. QED
      BY <3>2, <3>3
  <2>5. QED
    BY <2>3, <2>4
<1>6. CASE B!Uevent
  <2>1. plugSets = <<>> /\ uevents # <<>> /\ UNCHANGED <<usb, mUsbPlugIn, keySets, gpio>>
        /\ asking' = Head(uevents)
        /\ plugSets' = IF Head(uevents) THEN <<>> ELSE <<<<B!Red, 1>>, <<B!Green, 1>>>>
    BY <1>6 DEF B!Uevent, B!world, B!adcKey
  <2>2. CASE Head(uevents)
    <3>1. plugSets' = <<>> /\ SetsTo(plugSets', p, 1)
      BY <2>1, <2>2, NoSets
    <3>2. uevents' = <<>> => usb'
      BY <2>1, <2>2 DEF UeventsTellUsb
    <3>3. QED
      BY <1>0, <2>1, <3>1, <3>2
  <2>3. CASE ~Head(uevents)
    <3>1. SetsPin(plugSets', p) /\ SetsTo(plugSets', p, 1)
      BY <2>1, <2>3, TwoSets
    <3>2. QED
      BY <1>0, <2>1, <3>1
  <2>4. QED
    BY <2>2, <2>3
<1>7. CASE B!AskFull
  <2>1. asking /\ UNCHANGED <<usb, mUsbPlugIn, keySets, uevents, gpio>>
        /\ plugSets' = <<<<B!Red, 0>>, <<B!Green, B!Bit(~charged)>>>>
    BY <1>7 DEF B!AskFull, B!world, B!adcKey
  <2>2. ~usb' => uevents' # <<>>
    BY <2>1 DEF UeventsTellUsb
  <2>3. QED
    BY <1>0, <2>1, <2>2
<1>8. CASE B!KeySets
  <2>1. keySets # <<>> /\ keySets' = Tail(keySets)
        /\ UNCHANGED <<usb, mUsbPlugIn, uevents, plugSets>>
        /\ gpio' = [gpio EXCEPT ![Head(keySets)[1]] = Head(keySets)[2]]
    BY <1>8 DEF B!KeySets, B!world, B!hotplug
  <2>2. /\ SetsTo(keySets, p, 1) => SetsTo(keySets', p, 1) /\ (Head(keySets)[1] = p => Head(keySets)[2] = 1)
        /\ Head(keySets)[1] # p /\ SetsPin(keySets, p) => SetsPin(keySets', p)
    BY <1>a, <2>1, SetsTail
  <2>3. CASE Head(keySets)[1] = p
    BY <1>0, <1>a, <2>1, <2>2, <2>3
  <2>4. CASE Head(keySets)[1] # p
    BY <1>0, <1>a, <2>1, <2>2, <2>4
  <2>5. QED
    BY <2>3, <2>4
<1>9. CASE B!PlugSets
  <2>1. plugSets # <<>> /\ plugSets' = Tail(plugSets)
        /\ UNCHANGED <<usb, mUsbPlugIn, uevents, keySets>>
        /\ gpio' = [gpio EXCEPT ![Head(plugSets)[1]] = Head(plugSets)[2]]
    BY <1>9 DEF B!PlugSets, B!world, B!adcKey
  <2>2. /\ SetsTo(plugSets, p, 1) => SetsTo(plugSets', p, 1) /\ (Head(plugSets)[1] = p => Head(plugSets)[2] = 1)
        /\ Head(plugSets)[1] # p /\ SetsPin(plugSets, p) => SetsPin(plugSets', p)
    BY <1>a, <2>1, SetsTail
  <2>3. CASE Head(plugSets)[1] = p
    BY <1>0, <1>a, <2>1, <2>2, <2>3
  <2>4. CASE Head(plugSets)[1] # p
    BY <1>0, <1>a, <2>1, <2>2, <2>4
  <2>5. QED
    BY <2>3, <2>4
<1>10. CASE B!Detect
  <2>1. UNCHANGED <<usb, mUsbPlugIn, uevents, keySets, plugSets>> /\ gpio'[p] = gpio[p]
    BY <1>10, <1>a DEF B!Detect, B!world, B!adcKey, B!hotplug
  <2>2. QED
    BY <1>0, <2>1
<1>11. QED
  BY <1>1, <1>3, <1>4, <1>5, <1>6, <1>7, <1>8, <1>9, <1>10 DEF B!Next

\* A step keeps what is said of the lamp: only adcKey and adcDetect set it.
LEMMA LampStep ==
  ASSUME BoardTypes, LampIsSet, [B!Next]_board
  PROVE  LampIsSet'
<1>0. gpio \in [B!Pins -> {0, 1}] /\ B!Lamp \in B!Pins /\ same \in 0 .. 2 /\ dark \in BOOLEAN
      /\ curIsHeight \in BOOLEAN /\ plugSets \in Seq(B!Sets)
  BY DEF BoardTypes, B!Pins
<1>1. CASE UNCHANGED <<plugSets, same, curIsHeight, dark>> /\ gpio'[B!Lamp] = gpio[B!Lamp]
  BY <1>1 DEF LampIsSet, B!Bit
<1>2. CASE B!Plug \/ B!Charge \/ B!Listen \/ UNCHANGED board
  BY <1>1, <1>2 DEF B!Plug, B!Charge, B!Listen, B!hotplug, B!adcDetect, B!world, board
<1>3. ASSUME NEW noticed \in BOOLEAN, B!Dusk(noticed)
      PROVE  LampIsSet'
  BY <1>3 DEF B!Dusk, B!hotplug, LampIsSet
<1>4. CASE B!Uevent
  <2>1. UNCHANGED <<same, curIsHeight, dark, gpio>>
        /\ plugSets' \in {<<>>, <<<<B!Red, 1>>, <<B!Green, 1>>>>}
    BY <1>4 DEF B!Uevent, B!world, B!adcDetect
  <2>2. \A i \in 1 .. Len(plugSets') : plugSets'[i][1] # B!Lamp
    BY <2>1, TwoSets
  <2>3. QED
    BY <2>1, <2>2 DEF LampIsSet, B!Bit
<1>5. CASE B!AskFull
  <2>1. UNCHANGED <<same, curIsHeight, dark, gpio>>
        /\ plugSets' = <<<<B!Red, 0>>, <<B!Green, B!Bit(~charged)>>>>
    BY <1>5 DEF B!AskFull, B!world, B!adcDetect
  <2>2. \A i \in 1 .. Len(plugSets') : plugSets'[i][1] # B!Lamp
    BY <2>1, TwoSets DEF B!Bit
  <2>3. QED
    BY <2>1, <2>2 DEF LampIsSet, B!Bit
<1>6. CASE B!KeySets
  <2>1. UNCHANGED <<plugSets, curIsHeight, dark>> /\ keySets \in Seq(B!Sets) /\ keySets # <<>>
        /\ gpio' = [gpio EXCEPT ![Head(keySets)[1]] = Head(keySets)[2]]
        /\ same' = IF Head(keySets)[1] = B!Lamp THEN 0 ELSE same
    BY <1>6 DEF B!KeySets, B!world, B!hotplug, BoardTypes
  <2>2. CASE Head(keySets)[1] = B!Lamp
    BY <2>1, <2>2 DEF LampIsSet
  <2>3. CASE Head(keySets)[1] # B!Lamp
    BY <1>0, <1>1, <2>1, <2>3
  <2>4. QED
    BY <2>2, <2>3
<1>7. CASE B!PlugSets
  <2>1. UNCHANGED <<same, curIsHeight, dark>> /\ plugSets # <<>> /\ plugSets' = Tail(plugSets)
        /\ gpio' = [gpio EXCEPT ![Head(plugSets)[1]] = Head(plugSets)[2]]
    BY <1>7 DEF B!PlugSets, B!world, B!adcDetect
  <2>2. /\ Len(plugSets) \in Nat \ {0} /\ Head(plugSets) = plugSets[1] /\ Len(plugSets') = Len(plugSets) - 1
        /\ \A i \in 1 .. Len(plugSets) - 1 : plugSets'[i] = plugSets[i + 1]
    BY <1>0, <2>1
  <2>3. Head(plugSets)[1] # B!Lamp /\ \A i \in 1 .. Len(plugSets') : plugSets'[i][1] # B!Lamp
    BY <2>2 DEF LampIsSet
  <2>4. gpio'[B!Lamp] = gpio[B!Lamp]
    BY <1>0, <2>1, <2>3
  <2>5. QED
    BY <2>1, <2>3, <2>4 DEF LampIsSet, B!Bit
<1>8. CASE B!Detect
  <2>1. UNCHANGED <<dark, plugSets>> /\ same' = IF same < 2 THEN same + 1 ELSE same
    BY <1>8 DEF B!Detect, B!world, B!hotplug
  <2>2. CASE curIsHeight <=> dark
    <3>1. UNCHANGED gpio /\ (curIsHeight' <=> ~dark)
      BY <1>0, <1>8, <2>2 DEF B!Detect
    <3>2. same >= 1 => gpio[B!Lamp] = B!Bit(dark)
      BY <1>0, <2>2 DEF LampIsSet
    <3>3. QED
      BY <1>0, <2>1, <3>1, <3>2 DEF LampIsSet, B!Bit
  <2>3. CASE curIsHeight <=> ~dark
    <3>1. gpio'[B!Lamp] = B!Bit(dark)
      BY <1>0, <1>8, <2>3 DEF B!Detect
    <3>2. QED
      BY <1>0, <2>1, <3>1 DEF LampIsSet, B!Bit
  <2>4. QED
    BY <1>0, <2>2, <2>3
<1>9. QED
  BY <1>2, <1>3, <1>4, <1>5, <1>6, <1>7, <1>8 DEF B!Next

\* With nothing under way, the pins are as the last settings left them.
LEMMA BoardImplies ==
  ASSUME BoardTypes, KeysTellUsb, SetsAreRight, LampIsSet
  PROVE  BoardLights
<1>1. B!LampFollows
  BY DEF B!LampFollows, LampIsSet
<1>2. ASSUME B!ChargeSettled, ~usb, NEW p \in {B!Red, B!Green}
      PROVE  gpio[p] = 1
  <2>1. keys = <<>> /\ uevents = <<>> /\ keySets = <<>> /\ plugSets = <<>>
    BY <1>2 DEF B!ChargeSettled
  <2>2. ~mUsbPlugIn
    BY <1>2, <2>1 DEF KeysTellUsb
  <2>3. ~SetsPin(keySets, p) /\ ~SetsPin(plugSets, p)
    BY <2>1, NoSets
  <2>4. QED
    BY <1>2, <2>1, <2>2, <2>3 DEF SetsAreRight
<1>3. B!UnpluggedIsDark
  BY <1>2 DEF B!UnpluggedIsDark
<1>4. QED
  BY <1>1, <1>3 DEF BoardLights

-----------------------------------------------------------------------------
(* The programs together.                                                  *)

\* A step of one program is a step of each of them, or leaves it alone.
LEMMA DevSteps ==
  ASSUME [DevNext]_all
  PROVE  [Next]_vars /\ [U!Next]_uart /\ [G!Next]_sensor /\ [Y!Next]_gyro /\ [B!Next]_board
  BY DEF DevNext, Player, Uart, Sensor, Gyro, Lights, all

\* What the constants of the modules may be.
LEMMA DevBounds == U!CapBounds /\ G!SlotBounds /\ Y!CallerBounds /\ B!BoardBounds
  BY InstanceAssumption

\* RePlayer keeps among the others what it keeps alone: its indices stay in the ring,
\* no chunk is taken from an empty one, the delay is constant, and chunks are played in
\* the order they were recorded in.
THEOREM PlayerAmongDevices == DevSpec => [](TypeOK /\ SteadyDelay /\ InOrder)
<1>1. DevInit => Init
  BY DEF DevInit
<1>2. [DevNext]_all => [Next]_vars
  BY DevSteps
<1>3. DevSpec => DevInit /\ [][DevNext]_all
  BY PTL DEF DevSpec
<1>4. DevSpec => Spec
  BY <1>1, <1>2, <1>3, PTL DEF Spec
<1>5. QED
  BY <1>4, RingTypeCorrect, RingKeepsDelay, PlaysInOrder, PTL

\* uartd, for every size of its fifos and of a read.
THEOREM UartInvariant == DevSpec => []UartInv
<1>1. DevInit => UartInv
  BY DevBounds, UartInit DEF DevInit
<1>2. UartInv /\ [DevNext]_all => UartInv'
  BY DevBounds, DevSteps, UartStep
<1>3. DevSpec => DevInit /\ [][DevNext]_all
  BY PTL DEF DevSpec
<1>4. QED
  BY <1>1, <1>2, <1>3, PTL

\* However the stream of bytes is cut into reads, uartd cuts its frames from it, each
\* once, whole and in order; and its replies reach the line whole and in order, however
\* write() splits them.
THEOREM FramesAreWhole == DevSpec => []UartFramesWhole
<1>1. UartInv => UartFramesWhole
  BY DevBounds, UartImplies
<1>2. QED
  BY <1>1, UartInvariant, PTL

\* A read that finds a complete frame in what has been received cuts one.
THEOREM FramesArePaced == DevSpec => U!ReadsKeepPace
<1>1. UartInv /\ [DevNext]_all =>
        [rx' # rx /\ U!Cardinality(U!Complete(rx')) > Len(cut) => Len(cut') = Len(cut) + 1]_uart
  BY DevBounds, DevSteps, UartPace
<1>2. DevSpec => DevInit /\ [][DevNext]_all
  BY PTL DEF DevSpec
<1>3. QED
  BY <1>1, <1>2, UartInvariant, PTL DEF U!ReadsKeepPace, U!vars, uart

\* gsensor: the types and the positions of its threads.
THEOREM SensorTypeCorrect == DevSpec => [](G!TypeOK /\ SensorSlots)
<1>1. DevInit => G!TypeOK /\ SensorSlots
  <2> SUFFICES ASSUME G!Init
               PROVE  G!TypeOK /\ SensorSlots
    BY DEF DevInit
  <2>0. N \in Nat \ {0} /\ MaxOps \in Nat /\ None \notin Funcs
    BY DevBounds DEF G!SlotBounds
  <2>1. {i \in G!Slots : send[i] # None} = {}
    BY DEF G!Init
  <2>2. count = Cardinality({i \in G!Slots : send[i] # None})
    BY <2>1, FS_EmptySet DEF G!Init
  <2>3. SensorFlags
    BY DEF G!Init, SensorFlags
  <2>a. SensorSlots
    <3>1. gslot = [t \in G!Threads |-> 1] /\ gsent = [t \in G!Threads |-> 0]
          /\ \A t \in G!Threads : pc[t] \in {"start", "none"}
      BY DEF G!Init
    <3>2. 1 \in G!Slots /\ 0 \in 0 .. N
      BY <2>0 DEF G!Slots
    <3>3. QED
      BY <3>1, <3>2 DEF SensorSlots
  <2>4. QED
    BY <2>0, <2>2, <2>3, <2>a, SensorCardinality
       DEF G!Init, G!TypeOK, SensorFlags, SensorSlots, G!Slots, G!Threads
<1>2. G!TypeOK /\ SensorSlots /\ [DevNext]_all => (G!TypeOK /\ SensorSlots)'
  BY DevBounds, DevSteps, SensorTypeStep
<1>3. DevSpec => DevInit /\ [][DevNext]_all
  BY PTL DEF DevSpec
<1>4. QED
  BY <1>1, <1>2, <1>3, PTL

\* For any number of slots and functions: while gsthread_state is set there is a polling
\* thread, whatever the order of calls and thread.  Unless a function was registered
\* while one was on its way out there is one at most, it polls with the device running
\* or about to be released, and without it the device is off, but for a disable that
\* failed or came before the thread's enable.
THEOREM SensorHasOneThread == DevSpec => []SensorThreadAndDevice
<1>1. DevInit => SensorThread
  <2> SUFFICES ASSUME G!Init
               PROVE  SensorThread
    BY DEF DevInit
  <2>1. 1 \in G!Threads
    BY DevBounds DEF G!SlotBounds, G!Threads
  <2>2. QED
    BY <2>1 DEF G!Init, SensorThread, SensorAlone, Running, G!StateHasThread, G!Live
<1>2. G!TypeOK /\ SensorSlots /\ SensorThread /\ [DevNext]_all => SensorThread'
  <2> SUFFICES ASSUME G!TypeOK, SensorSlots, SensorThread, [DevNext]_all
               PROVE  SensorThread'
    OBVIOUS
  <2>1. G!StateHasThread'
    BY DevBounds, DevSteps, SensorStateStep DEF SensorThread
  <2>2. ~rushed' => SensorAlone'
    BY DevSteps, SensorAloneStep
  <2>3. QED
    BY <2>1, <2>2 DEF SensorThread
<1>3. G!TypeOK /\ SensorThread => SensorThreadAndDevice
  BY SensorImplies
<1>4. DevSpec => DevInit /\ [][DevNext]_all
  BY PTL DEF DevSpec
<1>5. QED
  BY <1>1, <1>2, <1>3, <1>4, SensorTypeCorrect, PTL

\* gyrosensor, for two callers and any number of calls, whatever fails.
THEOREM GyroInvariant == DevSpec => [](GyroTypes /\ GyroStages)
<1>1. DevInit => GyroTypes /\ GyroStages
  <2> SUFFICES ASSUME Y!Init
               PROVE  GyroTypes /\ GyroStages
    BY DEF DevInit
  <2>1. Nobody \notin {c1, c2} /\ MaxCalls \in Nat
    BY DevBounds DEF Y!CallerBounds
  <2>2. GyroTypes
    <3>1. /\ wanted \in BOOLEAN /\ ending \in BOOLEAN /\ enabled \in BOOLEAN /\ device \in BOOLEAN
          /\ thread = "none" /\ looker = "idle" /\ fifodata = "null" /\ mishaps = {} /\ holder = Nobody
      BY DEF Y!Init
    <3>2. at \in [{c1, c2} -> {"idle", "start", "stop", "join"}] /\ calls \in 0 .. MaxCalls
      BY <2>1 DEF Y!Init
    <3>3. QED
      BY <3>1, <3>2 DEF GyroTypes
  <2>3. GyroStages
    BY <2>1 DEF Y!Init, GyroStages
  <2>4. QED
    BY <2>2, <2>3
<1>2. GyroTypes /\ GyroStages /\ [DevNext]_all => (GyroTypes /\ GyroStages)'
  BY DevBounds, DevSteps, GyroStep
<1>3. DevSpec => DevInit /\ [][DevNext]_all
  BY PTL DEF DevSpec
<1>4. QED
  BY <1>1, <1>2, <1>3, PTL

\* Whatever fails: when nobody is in the middle of a call, the state of gyrosensor, its
\* buffer and its thread agree, and at any time its device and its state do, but for
\* what a thread that could not be created, a disable, a close or a calibration that
\* ran meanwhile has left.
THEOREM GyroStateAgrees == DevSpec => []GyroSettled
<1>1. GyroTypes /\ GyroStages => GyroSettled
  BY GyroImplies
<1>2. QED
  BY <1>1, GyroInvariant, PTL

\* The invariant of the board.
BoardInv == BoardTypes /\ KeysTellUsb /\ UeventsTellUsb /\ SetsAreRight /\ LampIsSet

\* The board: what each program has been told, and what the settings under way will do.
THEOREM BoardInvariant == DevSpec => []BoardInv
<1>1. DevInit => BoardInv
  <2> SUFFICES ASSUME B!Init
               PROVE  BoardInv
    BY DEF DevInit
  <2>1. BoardTypes
    <3>1. usb \in BOOLEAN /\ charged \in BOOLEAN /\ dark \in BOOLEAN /\ asking \in BOOLEAN
          /\ mUsbPlugIn \in BOOLEAN /\ mChangeFull \in BOOLEAN /\ curIsHeight \in BOOLEAN
      BY DEF B!Init
    <3>2. changes \in 0 .. MaxChanges /\ samples \in 0 .. MaxSamples /\ same \in 0 .. 2
      BY DevBounds DEF B!Init, B!BoardBounds
    <3>3. keys \in Seq({"usb", "full", "dark"} \X BOOLEAN) /\ uevents \in Seq(BOOLEAN)
          /\ keySets \in Seq(B!Sets) /\ plugSets \in Seq(B!Sets) /\ ~(asking /\ plugSets # <<>>)
      BY DEF B!Init
    <3>4. gpio \in [B!Pins -> {0, 1}]
      BY DEF B!Init
    <3>5. QED
      BY <3>1, <3>2, <3>3, <3>4 DEF BoardTypes
  <2>2. KeysTellUsb /\ UeventsTellUsb
    BY DEF B!Init, KeysTellUsb, UeventsTellUsb
  <2>3. SetsAreRight
    BY NoSets DEF B!Init, SetsAreRight, B!Pins, B!Red, B!Green, B!Lamp
  <2>4. LampIsSet
    BY DEF B!Init, LampIsSet
  <2>5. QED
    BY <2>1, <2>2, <2>3, <2>4 DEF BoardInv
<1>2. BoardInv /\ [DevNext]_all => BoardInv'
  <2> SUFFICES ASSUME BoardInv, [B!Next]_board
               PROVE  BoardInv'
    BY DevSteps
  <2>1. BoardTypes' /\ KeysTellUsb' /\ UeventsTellUsb' /\ LampIsSet'
    BY DevBounds, BoardTypeStep, KeysStep, UeventsStep, LampStep DEF BoardInv
  <2>2. SetsAreRight'
    BY <2>1, SetsStep DEF BoardInv, SetsAreRight
  <2>3. QED
    BY <2>1, <2>2 DEF BoardInv
<1>3. DevSpec => DevInit /\ [][DevNext]_all
  BY PTL DEF DevSpec
<1>4. QED
  BY <1>1, <1>2, <1>3, PTL

\* However the commands of adcKey and hotplug are interleaved, an unplugged board shows
\* no charge light once both have handled everything, and the lamp follows the dark
\* within two samples.
THEOREM LightsAreRight == DevSpec => []BoardLights
<1>1. BoardInv => BoardLights
  BY BoardImplies DEF BoardInv
<1>2. QED
  BY <1>1, BoardInvariant, PTL

\* Every variable of the five programs keeps its type, for every size of the rings,
\* fifos and tables, and whatever fails.
THEOREM DevicesTypeCorrect == DevSpec => []TypesOK
<1>1. UartInv => U!TypeOK
  BY DevBounds, UartImplies
<1>2. (GyroTypes <=> Y!TypeOK) /\ (BoardInv => B!TypeOK)
  BY GyroTypesAre, BoardTypesAre DEF BoardInv
<1>3. TypeOK /\ U!TypeOK /\ G!TypeOK /\ Y!TypeOK /\ B!TypeOK => TypesOK
  BY DEF TypesOK
<1>4. QED
  BY <1>1, <1>2, <1>3, PlayerAmongDevices, UartInvariant, SensorTypeCorrect, GyroInvariant,
     BoardInvariant, PTL
=============================================================================
