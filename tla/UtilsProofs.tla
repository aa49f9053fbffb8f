----------------------------- MODULE UtilsProofs -----------------------------
(***************************************************************************)
(* For every value of the constants of lzUtils and of the sound device of  *)
(* allPlay: the list is a deque; a paused stream is quiet and an aborted   *)
(* one takes nothing; the queue's reader does not sleep on data, and one   *)
(* writer keeps to the size; the voice is loud before it starts and silent *)
(* before it ends; the device of allPlay gets a chunk's frames once each;  *)
(* and what base64 makes of a file is made into that file again.           *)
(* StreamProofs has the parts that carry a stream of bytes.                *)
(*                                                                         *)
(* Each part has an inductive invariant of its own, kept by each of its    *)
(* steps; the last section puts them together, a step of one part being a  *)
(* step or a stutter of every other one.                                   *)
(***************************************************************************)
EXTENDS MCUtils, FiniteSetTheorems, SequenceTheorems, WellFoundedInduction,
        NaturalsInduction, TLAPS

-----------------------------------------------------------------------------
(* Numbers and sequences.                                                   *)

\* A set of numbers that is not empty has a smallest one.
LEMMA SmallestExists ==
  ASSUME NEW T \in SUBSET Nat, T # {}
  PROVE  \E x \in T : \A y \in T : x <= y
<1>1. IsWellFoundedOn(OpToRel(<,Nat), Nat)
  BY NatLessThanWellFounded
<1>2. PICK x \in T : \A y \in T : ~(<<y, x>> \in OpToRel(<,Nat))
  BY <1>1, WFMin
<1>3. \A y \in T : ~(y < x)
  BY <1>2 DEF OpToRel
<1>4. QED
  BY <1>3

\* The end of a sequence, element by element.
LEMMA SubSeqFacts ==
  ASSUME NEW T, NEW s \in Seq(T), NEW m \in 1 .. Len(s) + 1, NEW n \in m - 1 .. Len(s)
  PROVE  /\ SubSeq(s, m, n) \in Seq(T) /\ Len(SubSeq(s, m, n)) = n - m + 1
         /\ \A i \in 1 .. n - m + 1 : SubSeq(s, m, n)[i] = s[m + i - 1]
  OBVIOUS

\* The beginning of a sequence.
LEMMA BeginningIs ==
  ASSUME NEW T, NEW s \in Seq(T), NEW n \in 0 .. Len(s)
  PROVE  /\ SubSeq(s, 1, n) \in Seq(T) /\ Len(SubSeq(s, 1, n)) = n
         /\ \A k \in 1 .. n : SubSeq(s, 1, n)[k] = s[k]
<1>1. Len(s) \in Nat /\ n \in Nat /\ 1 \in 1 .. Len(s) + 1 /\ n \in 1 - 1 .. Len(s)
  OBVIOUS
<1>2. /\ SubSeq(s, 1, n) \in Seq(T) /\ Len(SubSeq(s, 1, n)) = n - 1 + 1
      /\ \A k \in 1 .. n - 1 + 1 : SubSeq(s, 1, n)[k] = s[1 + k - 1]
  BY <1>1, SubSeqFacts
<1>3. n - 1 + 1 = n /\ \A k \in 1 .. n : 1 + k - 1 = k
  BY <1>1
<1> QED BY <1>2, <1>3

\* Two sequences, one after the other.
LEMMA Joined ==
  ASSUME NEW T, NEW s \in Seq(T), NEW t \in Seq(T), NEW w, w = s \o t
  PROVE  /\ w \in Seq(T) /\ Len(w) = Len(s) + Len(t)
         /\ \A k \in 1 .. Len(s) : w[k] = s[k]
         /\ \A k \in 1 .. Len(t) : w[Len(s) + k] = t[k]
<1>1. /\ (s \o t) \in Seq(T) /\ Len(s \o t) = Len(s) + Len(t)
      /\ \A k \in 1 .. Len(s) + Len(t) : (s \o t)[k] = IF k <= Len(s) THEN s[k] ELSE t[k - Len(s)]
  OBVIOUS
<1>2. Len(s) \in Nat /\ Len(t) \in Nat
  OBVIOUS
<1>3. ASSUME NEW k \in 1 .. Len(s) PROVE w[k] = s[k]
  <2>1. k \in 1 .. Len(s) + Len(t) /\ k <= Len(s)
    BY <1>2
  <2> QED BY <1>1, <2>1
<1>4. ASSUME NEW k \in 1 .. Len(t) PROVE w[Len(s) + k] = t[k]
  <2>1. /\ Len(s) + k \in 1 .. Len(s) + Len(t) /\ ~(Len(s) + k <= Len(s))
        /\ (Len(s) + k) - Len(s) = k
    BY <1>2
  <2> QED BY <1>1, <2>1
<1> QED BY <1>1, <1>3, <1>4

-----------------------------------------------------------------------------
(* A step of one part, seen from the others.                               *)

\* What the constants of the modules may be.
LEMMA UtilsBounds == /\ R!RingBounds /\ L!NodeBounds /\ Q!QueueBounds /\ V!ConfirmBounds
                     /\ A!SizeBounds /\ F!FifoBounds /\ S!ControllerBounds /\ B!Base64Bounds
  BY InstanceAssumption

\* A step of one part is a step of each of them, or leaves it alone.
LEMMA UtilsSteps ==
  ASSUME [UtilsNext]_all
  PROVE  /\ [Next]_vars /\ [R!Next]_ring /\ [L!Next]_list /\ [Q!Next]_queue /\ [V!Next]_vad
         /\ [A!Next]_block /\ [F!Next]_fifo /\ [S!Next]_sound /\ [B!Next]_code
  BY DEF UtilsNext, Alsa, Ring, List, Queue, Voice, Block, Fifo, Sound, Code, all, older, newer

\* The parts begin as their modules say.
LEMMA UtilsStarts ==
  ASSUME UtilsInit
  PROVE  /\ Init /\ R!Init /\ L!Init /\ Q!Init /\ V!Init /\ A!Init /\ F!Init /\ S!Init
         /\ B!Init
  BY DEF UtilsInit

\* A behaviour of the parts, without its fairness.
LEMMA UtilsRuns == UtilsSpec => UtilsInit /\ [][UtilsNext]_all
  BY PTL DEF UtilsSpec

-----------------------------------------------------------------------------
(* dll_fifo: the nodes of the list in their order, linked both ways; each    *)
(* operation puts one in, takes one out or empties it, and so it does with   *)
(* the sequence of their data.                                               *)

\* t is s with x put in at place e.
PutIn(s, t, e, x) ==
  /\ e \in 1 .. Len(s) + 1 /\ Len(t) = Len(s) + 1 /\ t[e] = x
  /\ \A k \in 1 .. Len(s) : IF k < e THEN t[k] = s[k] ELSE t[k + 1] = s[k]

\* t is s without what is at place e.
TakenOut(s, t, e) ==
  /\ e \in 1 .. Len(s) /\ Len(t) = Len(s) - 1
  /\ \A k \in 1 .. Len(t) : t[k] = IF k < e THEN s[k] ELSE s[k + 1]

\* One element in, at any place.
LEMMA InsertedIs ==
  ASSUME NEW T, NEW s \in Seq(T), NEW x \in T, NEW e \in 1 .. Len(s) + 1,
         NEW t, t = L!D!InsertAt(s, e, x)
  PROVE  t \in Seq(T) /\ PutIn(s, t, e, x)
<1>1. Len(s) \in Nat
  OBVIOUS
<1>2. PICK u, v, w : u = SubSeq(s, 1, e - 1) /\ v = <<x>> /\ w = SubSeq(s, e, Len(s))
  OBVIOUS
<1>3. t = (u \o v) \o w
  BY <1>2 DEF L!D!InsertAt
<1>4. PICK m : m = e - 1
  OBVIOUS
<1>5. m \in 0 .. Len(s) /\ e = m + 1
  BY <1>1, <1>4
<1>6. u \in Seq(T) /\ Len(u) = m /\ \A k \in 1 .. m : u[k] = s[k]
  <2>1. 1 \in 1 .. Len(s) + 1 /\ m \in 1 - 1 .. Len(s) /\ m - 1 + 1 = m
    BY <1>1, <1>5
  <2>2. u = SubSeq(s, 1, m)
    BY <1>2, <1>4
  <2>3. /\ SubSeq(s, 1, m) \in Seq(T) /\ Len(SubSeq(s, 1, m)) = m - 1 + 1
        /\ \A k \in 1 .. m - 1 + 1 : SubSeq(s, 1, m)[k] = s[1 + k - 1]
    BY <2>1, SubSeqFacts
  <2>4. \A k \in 1 .. m : 1 + k - 1 = k
    OBVIOUS
  <2> QED BY <2>1, <2>2, <2>3, <2>4
<1>7. /\ w \in Seq(T) /\ Len(w) = Len(s) - m
      /\ \A k \in 1 .. Len(s) - m : w[k] = s[m + k]
  <2>1. e \in 1 .. Len(s) + 1 /\ Len(s) \in e - 1 .. Len(s) /\ Len(s) - e + 1 = Len(s) - m
    BY <1>1, <1>5
  <2>2. PICK n : n = Len(s)
    OBVIOUS
  <2>3. /\ SubSeq(s, e, n) \in Seq(T) /\ Len(SubSeq(s, e, n)) = n - e + 1
        /\ \A k \in 1 .. n - e + 1 : SubSeq(s, e, n)[k] = s[e + k - 1]
    BY <2>1, <2>2, SubSeqFacts
  <2>4. \A k \in 1 .. Len(s) - m : e + k - 1 = m + k
    BY <1>1, <1>5
  <2> QED BY <1>2, <2>1, <2>2, <2>3, <2>4
<1>8. v \in Seq(T) /\ Len(v) = 1 /\ v[1] = x
  BY <1>2
<1>9. PICK y : y = u \o v
  OBVIOUS
<1>10. /\ y \in Seq(T) /\ Len(y) = m + 1 /\ y[m + 1] = x
       /\ \A k \in 1 .. m : y[k] = s[k]
  <2>1. u \in Seq(T) /\ v \in Seq(T)
    BY <1>6, <1>8
  <2>2. /\ y \in Seq(T) /\ Len(y) = Len(u) + Len(v)
        /\ \A k \in 1 .. Len(u) : y[k] = u[k]
        /\ \A k \in 1 .. Len(v) : y[Len(u) + k] = v[k]
    BY <1>9, <2>1, Joined
  <2>3. 1 \in 1 .. Len(v)
    BY <1>8
  <2> QED BY <1>6, <1>8, <2>2, <2>3
<1>11. /\ t \in Seq(T) /\ Len(t) = (m + 1) + (Len(s) - m)
       /\ \A k \in 1 .. m + 1 : t[k] = y[k]
       /\ \A k \in 1 .. Len(s) - m : t[(m + 1) + k] = s[m + k]
  <2>1. y \in Seq(T) /\ w \in Seq(T) /\ t = y \o w
    BY <1>3, <1>7, <1>9, <1>10
  <2>2. /\ t \in Seq(T) /\ Len(t) = Len(y) + Len(w)
        /\ \A k \in 1 .. Len(y) : t[k] = y[k]
        /\ \A k \in 1 .. Len(w) : t[Len(y) + k] = w[k]
    BY <2>1, Joined
  <2> QED BY <1>7, <1>10, <2>2
<1>12. ASSUME NEW k \in 1 .. Len(s)
       PROVE  IF k < e THEN t[k] = s[k] ELSE t[k + 1] = s[k]
  <2>1. CASE k < e
    <3>1. k \in 1 .. m /\ k \in 1 .. m + 1
      BY <1>1, <1>5, <2>1
    <3>2. t[k] = y[k] /\ y[k] = s[k]
      BY <1>10, <1>11, <3>1
    <3> QED BY <2>1, <3>2
  <2>2. CASE ~(k < e)
    <3>1. PICK l : l = k - m
      OBVIOUS
    <3>2. l \in 1 .. Len(s) - m /\ (m + 1) + l = k + 1 /\ m + l = k
      BY <1>1, <1>5, <2>2, <3>1
    <3>3. t[(m + 1) + l] = s[m + l]
      BY <1>11, <3>2
    <3> QED BY <2>2, <3>2, <3>3
  <2> QED BY <2>1, <2>2
<1>13. Len(t) = Len(s) + 1
  BY <1>1, <1>5, <1>11
<1>14. t[e] = x
  <2>1. m + 1 \in 1 .. m + 1
    BY <1>5
  <2> QED BY <1>5, <1>10, <1>11, <2>1
<1> QED BY <1>11, <1>12, <1>13, <1>14 DEF PutIn

\* One element out, at any place.
LEMMA RemovedIs ==
  ASSUME NEW T, NEW s \in Seq(T), NEW e \in 1 .. Len(s), NEW t, t = L!D!RemoveAt(s, e)
  PROVE  t \in Seq(T) /\ TakenOut(s, t, e)
<1>1. Len(s) \in Nat
  OBVIOUS
<1>2. PICK m, n : m = e - 1 /\ n = Len(s)
  OBVIOUS
<1>3. m \in 0 .. Len(s) /\ e = m + 1 /\ e <= n /\ n \in Nat
  BY <1>1, <1>2
<1>4. PICK u, w : u = SubSeq(s, 1, m) /\ w = SubSeq(s, e + 1, n)
  OBVIOUS
<1>5. t = u \o w
  BY <1>2, <1>4 DEF L!D!RemoveAt
<1>6. u \in Seq(T) /\ Len(u) = m /\ \A k \in 1 .. m : u[k] = s[k]
  <2>1. 1 \in 1 .. Len(s) + 1 /\ m \in 1 - 1 .. Len(s) /\ m - 1 + 1 = m
    BY <1>1, <1>3
  <2>3. /\ SubSeq(s, 1, m) \in Seq(T) /\ Len(SubSeq(s, 1, m)) = m - 1 + 1
        /\ \A k \in 1 .. m - 1 + 1 : SubSeq(s, 1, m)[k] = s[1 + k - 1]
    BY <2>1, SubSeqFacts
  <2>4. \A k \in 1 .. m : 1 + k - 1 = k
    OBVIOUS
  <2> QED BY <1>4, <2>1, <2>3, <2>4
<1>7. /\ w \in Seq(T) /\ Len(w) = n - e
      /\ \A k \in 1 .. n - e : w[k] = s[e + k]
  <2>1. PICK b : b = e + 1
    OBVIOUS
  <2>2. b \in 1 .. Len(s) + 1 /\ n \in b - 1 .. Len(s) /\ n - b + 1 = n - e
    BY <1>1, <1>2, <1>3, <2>1
  <2>3. /\ SubSeq(s, b, n) \in Seq(T) /\ Len(SubSeq(s, b, n)) = n - b + 1
        /\ \A k \in 1 .. n - b + 1 : SubSeq(s, b, n)[k] = s[b + k - 1]
    BY <2>2, SubSeqFacts
  <2>4. \A k \in 1 .. n - e : b + k - 1 = e + k
    BY <1>3, <2>1
  <2> QED BY <1>4, <2>1, <2>2, <2>3, <2>4
<1>8. /\ t \in Seq(T) /\ Len(t) = m + (n - e)
      /\ \A k \in 1 .. m : t[k] = s[k]
      /\ \A k \in 1 .. n - e : t[m + k] = s[e + k]
  <2>1. u \in Seq(T) /\ w \in Seq(T)
    BY <1>6, <1>7
  <2>2. /\ t \in Seq(T) /\ Len(t) = Len(u) + Len(w)
        /\ \A k \in 1 .. Len(u) : t[k] = u[k]
        /\ \A k \in 1 .. Len(w) : t[Len(u) + k] = w[k]
    BY <1>5, <2>1, Joined
  <2> QED BY <1>6, <1>7, <2>2
<1>9. Len(t) = Len(s) - 1
  <2>1. m + (n - e) = n - 1
    BY <1>3
  <2> QED BY <1>2, <1>8, <2>1
<1>10. ASSUME NEW k \in 1 .. Len(t)
       PROVE  t[k] = IF k < e THEN s[k] ELSE s[k + 1]
  <2>0. k \in 1 .. n - 1
    BY <1>2, <1>9
  <2>1. CASE k < e
    <3>1. k \in 1 .. m
      BY <1>3, <2>0, <2>1
    <3> QED BY <1>8, <2>1, <3>1
  <2>2. CASE ~(k < e)
    <3>1. PICK l : l = k - m
      OBVIOUS
    <3>2. l \in 1 .. n - e /\ m + l = k /\ e + l = k + 1
      BY <1>3, <2>0, <2>2, <3>1
    <3>3. t[m + l] = s[e + l]
      BY <1>8, <3>2
    <3> QED BY <2>2, <3>2, <3>3
  <2> QED BY <2>1, <2>2
<1> QED BY <1>2, <1>8, <1>9, <1>10 DEF TakenOut

\* Two sequences that are another one with the same element in are the same.
LEMMA PutInOnce ==
  ASSUME NEW T, NEW s \in Seq(T), NEW t \in Seq(T), NEW u \in Seq(T), NEW e, NEW x,
         PutIn(s, t, e, x), PutIn(s, u, e, x)
  PROVE  t = u
<1>1. Len(s) \in Nat /\ e \in 1 .. Len(s) + 1 /\ Len(t) = Len(s) + 1 /\ Len(u) = Len(t)
  <2>1. Len(s) \in Nat
    OBVIOUS
  <2> QED BY <2>1 DEF PutIn
<1>2. ASSUME NEW k \in 1 .. Len(t) PROVE t[k] = u[k]
  <2>1. CASE k < e
    <3>1. k \in 1 .. Len(s)
      BY <1>1, <2>1
    <3> QED BY <2>1, <3>1 DEF PutIn
  <2>2. CASE k = e
    BY <2>2 DEF PutIn
  <2>3. CASE k > e
    <3>1. PICK l : l = k - 1
      OBVIOUS
    <3>2. l \in 1 .. Len(s) /\ ~(l < e) /\ l + 1 = k
      BY <1>1, <2>3, <3>1
    <3> QED BY <3>2 DEF PutIn
  <2> QED BY <1>1, <2>1, <2>2, <2>3
<1> QED BY <1>1, <1>2, SeqEqual

\* Two sequences that are another one without the same place are the same.
LEMMA TakenOutOnce ==
  ASSUME NEW T, NEW s \in Seq(T), NEW t \in Seq(T), NEW u \in Seq(T), NEW e,
         TakenOut(s, t, e), TakenOut(s, u, e)
  PROVE  t = u
<1>1. Len(t) = Len(u) /\ \A k \in 1 .. Len(t) : t[k] = u[k]
  BY DEF TakenOut
<1> QED BY <1>1, SeqEqual

\* What the deque makes of it when an element is put in.
LEMMA DequeIn ==
  ASSUME NEW T, NEW s \in Seq(T), NEW t \in Seq(T), NEW x \in T, NEW e, PutIn(s, t, e, x)
  PROVE  /\ e = Len(s) + 1 => t = Append(s, x)
         /\ e = 1 => t = <<x>> \o s
         /\ t = L!D!InsertAt(s, e, x)
<1>1. Len(s) \in Nat /\ e \in 1 .. Len(s) + 1
  <2>1. Len(s) \in Nat
    OBVIOUS
  <2> QED BY <2>1 DEF PutIn
<1>2. ASSUME e = Len(s) + 1 PROVE t = Append(s, x)
  <2>1. PICK u : u = Append(s, x)
    OBVIOUS
  <2>2. /\ u \in Seq(T) /\ Len(u) = Len(s) + 1 /\ u[Len(s) + 1] = x
        /\ \A k \in 1 .. Len(s) : u[k] = s[k]
    BY <2>1
  <2>3. \A k \in 1 .. Len(s) : k < e
    BY <1>1, <1>2
  <2>4. PutIn(s, u, e, x)
    BY <1>1, <1>2, <2>2, <2>3 DEF PutIn
  <2> QED BY <2>1, <2>2, <2>4, PutInOnce
<1>3. ASSUME e = 1 PROVE t = <<x>> \o s
  <2>1. PICK v, u : v = <<x>> /\ u = v \o s
    OBVIOUS
  <2>2. v \in Seq(T) /\ Len(v) = 1 /\ v[1] = x
    BY <2>1
  <2>3. /\ u \in Seq(T) /\ Len(u) = Len(v) + Len(s)
        /\ \A k \in 1 .. Len(v) : u[k] = v[k]
        /\ \A k \in 1 .. Len(s) : u[Len(v) + k] = s[k]
    BY <2>1, <2>2, Joined
  <2>4. \A k \in 1 .. Len(s) : ~(k < e) /\ 1 + k = k + 1
    BY <1>1, <1>3
  <2>5. 1 \in 1 .. Len(v) /\ Len(u) = Len(s) + 1
    BY <1>1, <2>2, <2>3
  <2>6. u[1] = x
    BY <2>2, <2>3, <2>5
  <2>7. \A k \in 1 .. Len(s) : u[k + 1] = s[k]
    BY <2>2, <2>3, <2>4
  <2>8. PutIn(s, u, e, x)
    BY <1>1, <1>3, <2>4, <2>5, <2>6, <2>7 DEF PutIn
  <2> QED BY <2>1, <2>3, <2>8, PutInOnce
<1>4. t = L!D!InsertAt(s, e, x)
  <2>1. PICK u : u = L!D!InsertAt(s, e, x)
    OBVIOUS
  <2>2. u \in Seq(T) /\ PutIn(s, u, e, x)
    BY <1>1, <2>1, InsertedIs
  <2> QED BY <2>1, <2>2, PutInOnce
<1> QED BY <1>2, <1>3, <1>4

\* What the deque makes of it when one is taken out.
LEMMA DequeOut ==
  ASSUME NEW T, NEW s \in Seq(T), NEW t \in Seq(T), NEW e, TakenOut(s, t, e)
  PROVE  /\ e = 1 => t = Tail(s)
         /\ e = Len(s) => t = L!D!Front(s)
         /\ t = L!D!RemoveAt(s, e)
<1>1. Len(s) \in Nat /\ e \in 1 .. Len(s) /\ Len(t) = Len(s) - 1
  <2>1. Len(s) \in Nat
    OBVIOUS
  <2> QED BY <2>1 DEF TakenOut
<1>2. ASSUME e = 1 PROVE t = Tail(s)
  <2>1. PICK u : u = Tail(s)
    OBVIOUS
  <2>2. Len(s) # 0
    BY <1>1
  <2>3. u \in Seq(T) /\ Len(u) = Len(s) - 1 /\ \A k \in 1 .. Len(s) - 1 : u[k] = s[k + 1]
    BY <1>1, <2>1, <2>2
  <2>4. \A k \in 1 .. Len(s) - 1 : ~(k < e)
    BY <1>1, <1>2
  <2>5. TakenOut(s, u, e)
    BY <1>1, <2>3, <2>4 DEF TakenOut
  <2> QED BY <2>1, <2>3, <2>5, TakenOutOnce
<1>3. ASSUME e = Len(s) PROVE t = L!D!Front(s)
  <2>1. PICK n, u : n = Len(s) - 1 /\ u = SubSeq(s, 1, n)
    OBVIOUS
  <2>2. u = L!D!Front(s)
    BY <2>1 DEF L!D!Front
  <2>3. 1 \in 1 .. Len(s) + 1 /\ n \in 1 - 1 .. Len(s) /\ n - 1 + 1 = n
    BY <1>1, <2>1
  <2>4. /\ u \in Seq(T) /\ Len(u) = n - 1 + 1
        /\ \A k \in 1 .. n - 1 + 1 : u[k] = s[1 + k - 1]
    BY <2>1, <2>3, SubSeqFacts
  <2>5. \A k \in 1 .. n : k < e /\ 1 + k - 1 = k
    BY <1>1, <1>3, <2>1
  <2>6. Len(u) = n /\ \A k \in 1 .. n : u[k] = s[k]
    BY <2>3, <2>4, <2>5
  <2>7. TakenOut(s, u, e)
    BY <1>1, <2>1, <2>5, <2>6 DEF TakenOut
  <2> QED BY <2>2, <2>4, <2>7, TakenOutOnce
<1>4. t = L!D!RemoveAt(s, e)
  <2>1. PICK u : u = L!D!RemoveAt(s, e)
    OBVIOUS
  <2>2. u \in Seq(T) /\ TakenOut(s, u, e)
    BY <1>1, <2>1, RemovedIs
  <2> QED BY <2>1, <2>2, TakenOutOnce
<1> QED BY <1>2, <1>3, <1>4

\* The first place of an element is the one it is erased from.
LEMMA ErasedIs ==
  ASSUME NEW T, NEW s \in Seq(T), NEW x, NEW e \in 1 .. Len(s), s[e] = x,
         \A k \in 1 .. e - 1 : s[k] # x
  PROVE  L!D!RemoveFirst(s, x) = L!D!RemoveAt(s, e)
<1>1. Len(s) \in Nat
  OBVIOUS
<1>2. PICK I : I = {k \in 1 .. Len(s) : s[k] = x}
  OBVIOUS
<1>3. e \in I
  BY <1>2
<1>4. \A k \in I : e <= k
  <2>1. ASSUME NEW k \in I PROVE e <= k
    <3>1. k \in 1 .. Len(s) /\ s[k] = x
      BY <1>2
    <3>2. k \notin 1 .. e - 1
      BY <3>1
    <3> QED BY <1>1, <3>1, <3>2
  <2> QED BY <2>1
<1>5. \A y \in I : (\A k \in I : y <= k) => y = e
  <2>1. ASSUME NEW y \in I, \A k \in I : y <= k PROVE y = e
    <3>1. y <= e /\ e <= y /\ y \in Nat /\ e \in Nat
      BY <1>1, <1>2, <1>3, <1>4, <2>1
    <3> QED BY <3>1
  <2> QED BY <2>1
<1>6. L!D!Min(I) = e
  BY <1>3, <1>4, <1>5 DEF L!D!Min
<1>7. L!D!RemoveFirst(s, x) = L!D!RemoveAt(s, L!D!Min(I))
  BY <1>2, <1>3 DEF L!D!RemoveFirst, L!D!SelectInSeq
<1> QED BY <1>6, <1>7

\* What is after a place of a sequence of nodes.
AfterIn(s, k)  == IF k < Len(s) THEN s[k + 1] ELSE NULL

\* What is before it.
BeforeIn(s, k) == IF k > 1 THEN s[k - 1] ELSE NULL

\* The types, one by one.
ListTypes ==
  /\ next \in [Nodes -> Nodes \cup {NULL}] /\ prev \in [Nodes -> Nodes \cup {NULL}]
  /\ data \in [Nodes -> Data]
  /\ used \subseteq Nodes /\ nodes = Cardinality(used)
  /\ front \in Nodes \cup {NULL} /\ back \in Nodes \cup {NULL}
  /\ crashed \in BOOLEAN /\ (crashed => WalkEmpty)

\* s has the nodes of the list, each once.
Chain(s) ==
  /\ s \in Seq(Nodes) /\ Len(s) = nodes
  /\ \A i, j \in 1 .. Len(s) : s[i] = s[j] => i = j
  /\ \A x \in Nodes : x \in used <=> \E i \in 1 .. Len(s) : s[i] = x

\* They are linked in this order.
Links(s) ==
  /\ \A i \in 1 .. Len(s) : next[s[i]] = AfterIn(s, i) /\ prev[s[i]] = BeforeIn(s, i)
  /\ Len(s) > 0 => front = s[1] /\ back = s[Len(s)]

\* The invariant of the list: its nodes are those of some sequence.
ListInv == ListTypes /\ \E s : Chain(s) /\ Links(s)

\* The module's own copies.
LEMMA NodesCardinality == ASSUME NEW T PROVE L!Cardinality(T) = Cardinality(T)
  BY DEF L!Cardinality, Cardinality

\* The other copy.
LEMMA NodesFinite == ASSUME NEW T PROVE L!IsFiniteSet(T) <=> IsFiniteSet(T)
  BY DEF L!IsFiniteSet, IsFiniteSet

\* The constants of the list.
LEMMA ListSizes ==
  /\ IsFiniteSet(Nodes) /\ Cardinality(Nodes) \in Nat
  /\ L!Cardinality(Nodes) = Cardinality(Nodes) /\ NULL \notin Nodes /\ WalkEmpty \in BOOLEAN
<1>1. L!IsFiniteSet(Nodes) /\ NULL \notin Nodes /\ WalkEmpty \in BOOLEAN
  BY UtilsBounds DEF L!NodeBounds
<1>2. IsFiniteSet(Nodes)
  BY <1>1, NodesFinite
<1> QED BY <1>1, <1>2, FS_CardinalityType, NodesCardinality

\* The step of a walk.
OnFrom(x) == IF x = NULL THEN NULL ELSE next[x]

\* w goes along the links for n nodes.
Walks(w, n) == /\ w \in [1 .. n -> Nodes \cup {NULL}]
               /\ \A i \in 1 .. n : w[i] = IF i = 1 THEN front ELSE OnFrom(w[i - 1])

\* One may go along them for any number of nodes.
LEMMA WalkExists ==
  ASSUME ListTypes, NEW n \in Nat
  PROVE  \E w : Walks(w, n)
<1> DEFINE T == {m \in Nat : ~\E w : Walks(w, m)}
<1> SUFFICES ASSUME T # {} PROVE FALSE
  OBVIOUS
<1>1. PICK m \in T : \A y \in T : m <= y
  BY SmallestExists
<1>2. front \in Nodes \cup {NULL} /\ next \in [Nodes -> Nodes \cup {NULL}]
  BY DEF ListTypes
<1>3. CASE m = 0
  <2>1. PICK w : w = [i \in 1 .. 0 |-> front]
    OBVIOUS
  <2>2. w \in [1 .. 0 -> Nodes \cup {NULL}] /\ \A i \in 1 .. 0 : FALSE
    BY <1>2, <2>1
  <2>3. Walks(w, 0)
    BY <2>2 DEF Walks
  <2> QED BY <1>1, <1>3, <2>3
<1>4. CASE m # 0
  <2>1. PICK l : l = m - 1
    OBVIOUS
  <2>2. l \in Nat /\ m = l + 1 /\ ~(m <= l)
    BY <1>1, <1>4, <2>1
  <2>3. l \notin T
    BY <1>1, <2>2
  <2>4. PICK w : Walks(w, l)
    BY <2>2, <2>3
  <2>5. PICK x : x = IF m = 1 THEN front ELSE OnFrom(w[l])
    OBVIOUS
  <2>6. x \in Nodes \cup {NULL}
    <3>1. CASE m = 1
      BY <1>2, <2>5, <3>1
    <3>2. CASE m # 1
      <4>1. l \in 1 .. l
        BY <2>2, <3>2
      <4>2. w[l] \in Nodes \cup {NULL}
        BY <2>4, <4>1 DEF Walks
      <4> QED BY <1>2, <2>5, <3>2, <4>2 DEF OnFrom
    <3> QED BY <3>1, <3>2
  <2>7. PICK v : v = [i \in 1 .. m |-> IF i = m THEN x ELSE w[i]]
    OBVIOUS
  <2>8. ASSUME NEW i \in 1 .. m
        PROVE  /\ v[i] \in Nodes \cup {NULL}
               /\ v[i] = IF i = 1 THEN front ELSE OnFrom(v[i - 1])
    <3>1. CASE i = m
      <4>1. v[i] = x
        BY <2>7, <3>1
      <4>2. CASE m = 1
        BY <2>5, <2>6, <3>1, <4>1, <4>2
      <4>3. CASE m # 1
        <5>1. i - 1 = l /\ l \in 1 .. m /\ l # m
          BY <2>2, <3>1, <4>3
        <5>2. v[l] = w[l]
          BY <2>7, <5>1
        <5> QED BY <2>5, <2>6, <3>1, <4>1, <4>3, <5>1, <5>2
      <4> QED BY <4>2, <4>3
    <3>2. CASE i # m
      <4>1. i \in 1 .. l
        BY <2>2, <3>2
      <4>2. v[i] = w[i]
        BY <2>7, <3>2
      <4>3. w[i] \in Nodes \cup {NULL} /\ w[i] = IF i = 1 THEN front ELSE OnFrom(w[i - 1])
        BY <2>4, <4>1 DEF Walks
      <4>4. CASE i = 1
        BY <4>2, <4>3, <4>4
      <4>5. CASE i # 1
        <5>1. i - 1 \in 1 .. m /\ i - 1 # m
          BY <2>2, <4>1, <4>5
        <5>2. v[i - 1] = w[i - 1]
          BY <2>7, <5>1
        <5> QED BY <4>2, <4>3, <4>5, <5>2
      <4> QED BY <4>4, <4>5
    <3> QED BY <3>1, <3>2
  <2>9. v \in [1 .. m -> Nodes \cup {NULL}]
    BY <2>7, <2>8
  <2>10. Walks(v, m)
    BY <2>8, <2>9 DEF Walks
  <2> QED BY <1>1, <2>10
<1> QED BY <1>3, <1>4

\* What Walk is, in terms of one that goes along the links.
LEMMA WalkIs ==
  ASSUME ListTypes
  PROVE  \E w : /\ Walks(w, Cardinality(Nodes))
                /\ L!Walk = [i \in {j \in 1 .. Cardinality(Nodes) : w[j] # NULL} |-> w[i]]
<1>1. PICK n : n = Cardinality(Nodes) /\ n \in Nat /\ n = L!Cardinality(Nodes)
  BY ListSizes
<1>2. PICK w : Walks(w, n)
  BY <1>1, WalkExists
<1> DEFINE Along(f) == f = [i \in 1 .. n |-> IF i = 1 THEN front
                                ELSE IF f[i - 1] = NULL THEN NULL ELSE next[f[i - 1]]]
<1>3. Along(w)
  <2>1. w \in [1 .. n -> Nodes \cup {NULL}]
    BY <1>2 DEF Walks
  <2>2. w = [i \in 1 .. n |-> w[i]]
    BY <2>1
  <2>3. \A i \in 1 .. n : w[i] = IF i = 1 THEN front
                                ELSE IF w[i - 1] = NULL THEN NULL ELSE next[w[i - 1]]
    BY <1>2 DEF Walks, OnFrom
  <2> QED BY <2>2, <2>3
<1>4. PICK v : v = CHOOSE f : Along(f)
  OBVIOUS
<1>5. Along(v)
  <2>1. \E f : Along(f)
    BY <1>3
  <2> HIDE DEF Along
  <2> QED BY <1>4, <2>1
<1>6. DOMAIN v = 1 .. n
  BY <1>5
<1>7. \A i \in 1 .. n : v[i] = IF i = 1 THEN front ELSE OnFrom(v[i - 1])
  BY <1>5 DEF OnFrom
<1>8. L!Walk = [i \in {j \in DOMAIN v : v[j] # NULL} |-> v[i]]
  BY <1>1, <1>4 DEF L!Walk
<1>9. \A i \in 1 .. n : v[i] \in Nodes \cup {NULL}
  <2> DEFINE T == {i \in 1 .. n : v[i] \notin Nodes \cup {NULL}}
  <2> SUFFICES ASSUME T # {} PROVE FALSE
    OBVIOUS
  <2>1. T \in SUBSET Nat
    BY <1>1
  <2>2. PICK i \in T : \A y \in T : i <= y
    BY <2>1, SmallestExists
  <2>3. i \in 1 .. n /\ v[i] \notin Nodes \cup {NULL}
    BY <2>2
  <2>4. i # 1
    BY <1>7, <2>3 DEF ListTypes
  <2>5. i - 1 \in 1 .. n /\ ~(i <= i - 1)
    BY <1>1, <2>3, <2>4
  <2>6. v[i - 1] \in Nodes \cup {NULL}
    BY <2>2, <2>5
  <2>7. v[i] = OnFrom(v[i - 1])
    BY <1>7, <2>3, <2>4
  <2> QED BY <2>3, <2>6, <2>7 DEF OnFrom, ListTypes
<1>10. v = [i \in 1 .. n |-> v[i]]
  BY <1>5
<1>11. v \in [1 .. n -> Nodes \cup {NULL}]
  BY <1>9, <1>10
<1>12. Walks(v, n)
  BY <1>7, <1>11 DEF Walks
<1> QED BY <1>1, <1>6, <1>8, <1>12

\* A list that is not empty is walked from one end to the other.
LEMMA WalkChain ==
  ASSUME ListTypes, NEW s, Chain(s), Links(s), nodes > 0
  PROVE  L!Walk = s
<1>1. PICK n : n = Cardinality(Nodes) /\ n \in Nat
  BY ListSizes
<1>2. s \in Seq(Nodes) /\ Len(s) \in Nat /\ Len(s) = nodes
  BY DEF Chain
<1>3. Len(s) <= n /\ Len(s) > 0
  <2>1. IsFiniteSet(Nodes) /\ used \subseteq Nodes /\ nodes = Cardinality(used)
    BY ListSizes DEF ListTypes
  <2>2. Cardinality(used) <= Cardinality(Nodes)
    BY <2>1, FS_Subset
  <2> QED BY <1>1, <1>2, <2>1, <2>2
<1>4. PICK w : /\ Walks(w, n)
               /\ L!Walk = [i \in {j \in 1 .. n : w[j] # NULL} |-> w[i]]
  BY <1>1, WalkIs
<1>5. \A i \in 1 .. n : w[i] = IF i = 1 THEN front ELSE OnFrom(w[i - 1])
  BY <1>4 DEF Walks
<1>6. \A i \in 1 .. Len(s) : s[i] \in Nodes /\ s[i] # NULL
  BY <1>2, ListSizes
<1> DEFINE T == {i \in 1 .. n : w[i] # IF i <= Len(s) THEN s[i] ELSE NULL}
<1>7. T = {}
  <2> SUFFICES ASSUME T # {} PROVE FALSE
    OBVIOUS
  <2>1. T \in SUBSET Nat
    BY <1>1
  <2>2. PICK i \in T : \A y \in T : i <= y
    BY <2>1, SmallestExists
  <2>3. i \in 1 .. n /\ w[i] # IF i <= Len(s) THEN s[i] ELSE NULL
    BY <2>2
  <2>4. i # 1
    <3>1. 1 \in 1 .. n /\ 1 <= Len(s)
      BY <1>1, <1>2, <1>3
    <3>2. w[1] = s[1]
      BY <1>3, <1>5, <3>1 DEF Links
    <3> QED BY <2>3, <3>1, <3>2
  <2>5. PICK l : l = i - 1
    OBVIOUS
  <2>6. l \in 1 .. n /\ ~(i <= l) /\ i = l + 1
    BY <1>1, <2>3, <2>4, <2>5
  <2>7. w[l] = IF l <= Len(s) THEN s[l] ELSE NULL
    BY <2>2, <2>6
  <2>8. w[i] = OnFrom(w[l])
    BY <1>5, <2>3, <2>4, <2>5
  <2>9. CASE l <= Len(s)
    <3>1. l \in 1 .. Len(s)
      BY <1>2, <2>6, <2>9
    <3>2. w[l] = s[l] /\ s[l] # NULL
      BY <1>6, <2>7, <2>9, <3>1
    <3>3. w[i] = AfterIn(s, l)
      BY <2>8, <3>1, <3>2 DEF OnFrom, Links
    <3>4. l < Len(s) <=> i <= Len(s)
      BY <1>2, <2>6
    <3> QED BY <2>3, <2>6, <3>3, <3>4 DEF AfterIn
  <2>10. CASE ~(l <= Len(s))
    <3>1. w[i] = NULL
      BY <2>7, <2>8, <2>10 DEF OnFrom
    <3>2. ~(i <= Len(s))
      BY <1>2, <2>6, <2>10
    <3> QED BY <2>3, <3>1, <3>2
  <2> QED BY <2>9, <2>10
<1>8. {j \in 1 .. n : w[j] # NULL} = 1 .. Len(s)
  <2>1. ASSUME NEW j \in 1 .. n PROVE w[j] # NULL <=> j <= Len(s)
    <3>1. w[j] = IF j <= Len(s) THEN s[j] ELSE NULL
      BY <1>7
    <3>2. CASE j <= Len(s)
      <4>1. j \in 1 .. Len(s)
        BY <1>2, <3>2
      <4> QED BY <1>6, <3>1, <3>2, <4>1
    <3> QED BY <3>1, <3>2
  <2>2. \A j \in 1 .. Len(s) : j \in 1 .. n
    BY <1>1, <1>2, <1>3
  <2>3. \A j \in 1 .. n : j <= Len(s) => j \in 1 .. Len(s)
    BY <1>1, <1>2
  <2>4. \A j \in 1 .. Len(s) : j <= Len(s)
    BY <1>2
  <2> QED BY <2>1, <2>2, <2>3, <2>4
<1>9. \A j \in 1 .. Len(s) : w[j] = s[j]
  <2>1. \A j \in 1 .. Len(s) : j \in 1 .. n /\ j <= Len(s)
    BY <1>1, <1>2, <1>3
  <2> QED BY <1>7, <2>1
<1>10. s = [j \in 1 .. Len(s) |-> s[j]]
  BY <1>2
<1> QED BY <1>4, <1>8, <1>9, <1>10

\* An empty list that may be walked is walked over nothing.
LEMMA WalkNothing ==
  ASSUME ListTypes, nodes = 0, L!Sane
  PROVE  L!Walk = <<>>
<1>1. PICK n : n = Cardinality(Nodes) /\ n \in Nat
  BY ListSizes
<1>2. PICK w : /\ Walks(w, n)
               /\ L!Walk = [i \in {j \in 1 .. n : w[j] # NULL} |-> w[i]]
  BY <1>1, WalkIs
<1>3. \A i \in 1 .. n : w[i] = IF i = 1 THEN front ELSE OnFrom(w[i - 1])
  BY <1>2 DEF Walks
<1>4. used = {}
  <2>1. IsFiniteSet(used)
    BY ListSizes, FS_Subset DEF ListTypes
  <2> QED BY <2>1, FS_EmptySet DEF ListTypes
<1>5. \A j \in 1 .. n : w[j] = NULL
  <2>1. DOMAIN L!Walk = {j \in 1 .. n : w[j] # NULL}
    BY <1>2
  <2>2. \A j \in DOMAIN L!Walk : FALSE
    BY <1>4 DEF L!Sane
  <2> QED BY <2>1, <2>2
<1>6. {j \in 1 .. n : w[j] # NULL} = {}
  BY <1>5
<1>7. L!Walk = [i \in {} |-> w[i]]
  BY <1>2, <1>6
<1> QED BY <1>7

\* The deque is the data of the nodes, in their order.
ContentsOfChain ==
  \A s : ListTypes /\ Chain(s) /\ Links(s) => L!Contents = [i \in 1 .. Len(s) |-> data[s[i]]]

\* Whatever the order.
LEMMA ContentsIs == ContentsOfChain
<1> SUFFICES ASSUME NEW s, ListTypes, Chain(s), Links(s)
             PROVE  L!Contents = [i \in 1 .. Len(s) |-> data[s[i]]]
  BY DEF ContentsOfChain
<1>1. s \in Seq(Nodes) /\ Len(s) \in Nat /\ Len(s) = nodes
  BY DEF Chain
<1>2. CASE nodes = 0
  <2>1. L!Contents = <<>>
    BY <1>2 DEF L!Contents
  <2>2. 1 .. Len(s) = {}
    BY <1>1, <1>2
  <2> QED BY <2>1, <2>2
<1>3. CASE nodes # 0
  <2>1. L!Walk = s
    BY <1>1, <1>3, WalkChain
  <2>2. DOMAIN s = 1 .. Len(s)
    BY <1>1
  <2>3. L!Contents = [i \in DOMAIN L!Walk |-> data[L!Walk[i]]]
    BY <1>3 DEF L!Contents
  <2> QED BY <2>1, <2>2, <2>3
<1> QED BY <1>2, <1>3

\* After a step as well.
LEMMA ContentsAfter ==
  ASSUME ListTypes', NEW s, Chain(s)', Links(s)'
  PROVE  L!Contents' = [i \in 1 .. Len(s) |-> data'[s[i]]]
<1>1. ContentsOfChain'
  BY ContentsIs, PTL
<1> QED BY <1>1 DEF ContentsOfChain

\* The data of a chain, as a sequence.
LEMMA DataOfChain ==
  ASSUME NEW f \in [Nodes -> Data], NEW s \in Seq(Nodes), NEW v, v = [i \in 1 .. Len(s) |-> f[s[i]]]
  PROVE  v \in Seq(Data) /\ Len(v) = Len(s) /\ \A i \in 1 .. Len(s) : v[i] = f[s[i]]
<1>1. Len(s) \in Nat /\ \A i \in 1 .. Len(s) : s[i] \in Nodes
  OBVIOUS
<1>2. v \in [1 .. Len(s) -> Data]
  BY <1>1
<1>3. v \in Seq(Data) /\ Len(v) = Len(s)
  BY <1>1, <1>2
<1> QED BY <1>3

\* What the links become when x is put in at place e.
Threaded(s, e, x) ==
  /\ next' \in [Nodes -> Nodes \cup {NULL}] /\ prev' \in [Nodes -> Nodes \cup {NULL}]
  /\ next'[x] = (IF e <= Len(s) THEN s[e] ELSE NULL) /\ prev'[x] = BeforeIn(s, e)
  /\ \A i \in 1 .. Len(s) : /\ next'[s[i]] = IF i = e - 1 THEN x ELSE next[s[i]]
                            /\ prev'[s[i]] = IF i = e THEN x ELSE prev[s[i]]
  /\ front' = (IF e = 1 THEN x ELSE front) /\ back' = (IF e = Len(s) + 1 THEN x ELSE back)

\* The nodes, with x among them.
LEMMA ChainPut ==
  ASSUME NEW s, Chain(s), NEW t, NEW e, NEW x \in Nodes \ used, t \in Seq(Nodes), PutIn(s, t, e, x),
         used' = used \cup {x}, nodes' = nodes + 1
  PROVE  Chain(t)'
<1>1. s \in Seq(Nodes) /\ Len(s) \in Nat /\ Len(s) = nodes
  BY DEF Chain
<1>2. e \in 1 .. Len(s) + 1 /\ Len(t) = Len(s) + 1 /\ t[e] = x
  BY DEF PutIn
<1>3. ASSUME NEW k \in 1 .. Len(t), k # e
      PROVE  \E i \in 1 .. Len(s) : t[k] = s[i] /\ i = IF k < e THEN k ELSE k - 1
  <2>1. CASE k < e
    <3>1. k \in 1 .. Len(s)
      BY <1>1, <1>2, <2>1
    <3> QED BY <2>1, <3>1 DEF PutIn
  <2>2. CASE ~(k < e)
    <3>1. PICK i : i = k - 1
      OBVIOUS
    <3>2. i \in 1 .. Len(s) /\ ~(i < e) /\ i + 1 = k
      BY <1>1, <1>2, <1>3, <2>2, <3>1
    <3>3. t[i + 1] = s[i]
      BY <3>2 DEF PutIn
    <3> QED BY <2>2, <3>1, <3>2, <3>3
  <2> QED BY <2>1, <2>2
<1>4. \A i \in 1 .. Len(s) : s[i] \in used /\ s[i] # x
  <2>1. \A i \in 1 .. Len(s) : s[i] \in Nodes
    BY <1>1
  <2> QED BY <2>1 DEF Chain
<1>5. ASSUME NEW k \in 1 .. Len(t), NEW l \in 1 .. Len(t), t[k] = t[l] PROVE k = l
  <2>1. CASE k = e
    <3>1. l = e
      BY <1>2, <1>3, <1>4, <1>5, <2>1
    <3> QED BY <2>1, <3>1
  <2>2. CASE l = e
    <3>1. k = e
      BY <1>2, <1>3, <1>4, <1>5, <2>2
    <3> QED BY <2>2, <3>1
  <2>3. CASE k # e /\ l # e
    <3>1. PICK i \in 1 .. Len(s) : t[k] = s[i] /\ i = IF k < e THEN k ELSE k - 1
      BY <1>3, <2>3
    <3>2. PICK j \in 1 .. Len(s) : t[l] = s[j] /\ j = IF l < e THEN l ELSE l - 1
      BY <1>3, <2>3
    <3>3. i = j
      BY <1>5, <3>1, <3>2 DEF Chain
    <3> QED BY <1>1, <1>2, <2>3, <3>1, <3>2, <3>3
  <2> QED BY <2>1, <2>2, <2>3
<1>6. ASSUME NEW y \in Nodes PROVE y \in used' <=> \E k \in 1 .. Len(t) : t[k] = y
  <2>1. ASSUME y \in used' PROVE \E k \in 1 .. Len(t) : t[k] = y
    <3>1. CASE y = x
      <4>1. e \in 1 .. Len(t)
        BY <1>1, <1>2
      <4> QED BY <1>2, <3>1, <4>1
    <3>2. CASE y # x
      <4>1. y \in used
        BY <2>1, <3>2
      <4>2. PICK i \in 1 .. Len(s) : s[i] = y
        BY <4>1 DEF Chain
      <4>3. i \in 1 .. Len(t) /\ i + 1 \in 1 .. Len(t)
        BY <1>1, <1>2
      <4>4. IF i < e THEN t[i] = s[i] ELSE t[i + 1] = s[i]
        BY DEF PutIn
      <4> QED BY <4>2, <4>3, <4>4
    <3> QED BY <3>1, <3>2
  <2>2. ASSUME NEW k \in 1 .. Len(t), t[k] = y PROVE y \in used'
    <3>1. CASE k = e
      BY <1>2, <2>2, <3>1
    <3>2. CASE k # e
      <4>1. PICK i \in 1 .. Len(s) : t[k] = s[i]
        BY <1>3, <3>2
      <4> QED BY <1>4, <2>2, <4>1
    <3> QED BY <3>1, <3>2
  <2> QED BY <2>1, <2>2
<1>7. Len(t) = nodes'
  BY <1>1, <1>2
<1> QED BY <1>5, <1>6, <1>7 DEF Chain

\* Their links.
LEMMA LinksPut ==
  ASSUME NEW s, Chain(s), Links(s), NEW t, NEW e, NEW x, PutIn(s, t, e, x), Threaded(s, e, x)
  PROVE  Links(t)'
<1>1. Len(s) \in Nat
  BY DEF Chain
<1>2. e \in 1 .. Len(s) + 1 /\ Len(t) = Len(s) + 1 /\ t[e] = x
  BY DEF PutIn
<1>3. \A k \in 1 .. Len(s) : IF k < e THEN t[k] = s[k] ELSE t[k + 1] = s[k]
  BY DEF PutIn
<1>4. ASSUME NEW k \in 1 .. Len(t), k < e
      PROVE  next'[t[k]] = AfterIn(t, k) /\ prev'[t[k]] = BeforeIn(t, k)
  <2>1. k \in 1 .. Len(s) /\ k # e /\ k < Len(t) /\ (k = e - 1 <=> k + 1 = e)
    BY <1>1, <1>2, <1>4
  <2>2. t[k] = s[k]
    BY <1>3, <1>4, <2>1
  <2>3. next'[t[k]] = AfterIn(t, k)
    <3>1. AfterIn(t, k) = t[k + 1]
      BY <2>1 DEF AfterIn
    <3>2. CASE k = e - 1
      BY <1>2, <2>1, <2>2, <3>1, <3>2 DEF Threaded
    <3>3. CASE k # e - 1
      <4>1. k + 1 \in 1 .. Len(s) /\ k + 1 < e /\ k < Len(s)
        BY <1>1, <1>2, <1>4, <3>3
      <4>2. t[k + 1] = s[k + 1]
        BY <1>3, <4>1
      <4>3. next'[s[k]] = next[s[k]] /\ next[s[k]] = AfterIn(s, k)
        BY <2>1, <3>3 DEF Threaded, Links
      <4> QED BY <2>2, <3>1, <4>1, <4>2, <4>3 DEF AfterIn
    <3> QED BY <3>2, <3>3
  <2>4. prev'[t[k]] = BeforeIn(t, k)
    <3>1. prev'[s[k]] = prev[s[k]] /\ prev[s[k]] = BeforeIn(s, k)
      BY <2>1 DEF Threaded, Links
    <3>2. CASE k = 1
      BY <2>2, <3>1, <3>2 DEF BeforeIn
    <3>3. CASE k # 1
      <4>1. k - 1 \in 1 .. Len(s) /\ k - 1 < e /\ k > 1
        BY <1>1, <1>2, <1>4, <2>1, <3>3
      <4>2. t[k - 1] = s[k - 1]
        BY <1>3, <4>1
      <4> QED BY <2>2, <3>1, <4>1, <4>2 DEF BeforeIn
    <3> QED BY <3>2, <3>3
  <2> QED BY <2>3, <2>4
<1>5. next'[t[e]] = AfterIn(t, e) /\ prev'[t[e]] = BeforeIn(t, e)
  <2>1. next'[t[e]] = AfterIn(t, e)
    <3>1. e <= Len(s) <=> e < Len(t)
      BY <1>1, <1>2
    <3>2. CASE e <= Len(s)
      <4>1. e \in 1 .. Len(s) /\ ~(e < e)
        BY <1>1, <1>2, <3>2
      <4>2. t[e + 1] = s[e]
        BY <1>3, <4>1
      <4> QED BY <1>2, <3>1, <3>2, <4>2 DEF Threaded, AfterIn
    <3>3. CASE ~(e <= Len(s))
      BY <1>2, <3>1, <3>3 DEF Threaded, AfterIn
    <3> QED BY <3>2, <3>3
  <2>2. prev'[t[e]] = BeforeIn(t, e)
    <3>1. prev'[t[e]] = BeforeIn(s, e)
      BY <1>2 DEF Threaded
    <3>2. CASE e > 1
      <4>1. e - 1 \in 1 .. Len(s) /\ e - 1 < e
        BY <1>1, <1>2, <3>2
      <4>2. t[e - 1] = s[e - 1]
        BY <1>3, <4>1
      <4> QED BY <3>1, <3>2, <4>2 DEF BeforeIn
    <3>3. CASE ~(e > 1)
      BY <3>1, <3>3 DEF BeforeIn
    <3> QED BY <3>2, <3>3
  <2> QED BY <2>1, <2>2
<1>6. ASSUME NEW k \in 1 .. Len(t), k > e
      PROVE  next'[t[k]] = AfterIn(t, k) /\ prev'[t[k]] = BeforeIn(t, k)
  <2>1. PICK l : l = k - 1
    OBVIOUS
  <2>2. l \in 1 .. Len(s) /\ l + 1 = k /\ ~(l < e) /\ l # e - 1 /\ k > 1
    BY <1>1, <1>2, <1>6, <2>1
  <2>3. t[k] = s[l]
    BY <1>3, <2>2
  <2>4. next'[t[k]] = AfterIn(t, k)
    <3>1. next'[s[l]] = AfterIn(s, l)
      BY <2>2 DEF Threaded, Links
    <3>2. l < Len(s) <=> k < Len(t)
      BY <1>1, <1>2, <2>2
    <3>3. CASE l < Len(s)
      <4>1. k \in 1 .. Len(s) /\ ~(k < e)
        BY <1>1, <1>2, <1>6, <2>2, <3>3
      <4>2. t[k + 1] = s[k]
        BY <1>3, <4>1
      <4>3. AfterIn(t, k) = t[k + 1]
        BY <3>2, <3>3 DEF AfterIn
      <4>4. AfterIn(s, l) = s[k]
        BY <2>2, <3>3 DEF AfterIn
      <4> QED BY <2>3, <3>1, <4>2, <4>3, <4>4
    <3>4. CASE ~(l < Len(s))
      BY <2>3, <3>1, <3>2, <3>4 DEF AfterIn
    <3> QED BY <3>3, <3>4
  <2>5. prev'[t[k]] = BeforeIn(t, k)
    <3>1. prev'[s[l]] = IF l = e THEN x ELSE BeforeIn(s, l)
      BY <2>2 DEF Threaded, Links
    <3>2. BeforeIn(t, k) = t[l]
      BY <2>1, <2>2 DEF BeforeIn
    <3>3. CASE l = e
      BY <1>2, <2>3, <3>1, <3>2, <3>3
    <3>4. CASE l # e
      <4>1. PICK m : m = l - 1
        OBVIOUS
      <4>2. m \in 1 .. Len(s) /\ m + 1 = l /\ ~(m < e) /\ l > 1
        BY <1>1, <1>2, <2>2, <3>4, <4>1
      <4>3. t[l] = s[m]
        BY <1>3, <4>2
      <4>4. BeforeIn(s, l) = s[m]
        BY <4>1, <4>2 DEF BeforeIn
      <4> QED BY <2>3, <3>1, <3>2, <3>4, <4>3, <4>4
    <3> QED BY <3>3, <3>4
  <2> QED BY <2>4, <2>5
<1>7. ASSUME NEW k \in 1 .. Len(t)
      PROVE  next'[t[k]] = AfterIn(t, k) /\ prev'[t[k]] = BeforeIn(t, k)
  <2>1. k < e \/ k = e \/ k > e
    BY <1>1, <1>2
  <2> QED BY <1>4, <1>5, <1>6, <2>1
<1>8. front' = t[1]
  <2>1. CASE e = 1
    BY <1>2, <2>1 DEF Threaded
  <2>2. CASE e # 1
    <3>1. 1 \in 1 .. Len(s) /\ 1 < e /\ Len(s) > 0
      BY <1>1, <1>2, <2>2
    <3>2. t[1] = s[1]
      BY <1>3, <3>1
    <3> QED BY <2>2, <3>1, <3>2 DEF Threaded, Links
  <2> QED BY <2>1, <2>2
<1>9. back' = t[Len(t)]
  <2>1. CASE e = Len(s) + 1
    BY <1>2, <2>1 DEF Threaded
  <2>2. CASE e # Len(s) + 1
    <3>1. Len(s) \in 1 .. Len(s) /\ ~(Len(s) < e) /\ Len(s) > 0
      BY <1>1, <1>2, <2>2
    <3>2. t[Len(s) + 1] = s[Len(s)]
      BY <1>3, <3>1
    <3> QED BY <1>2, <2>2, <3>1, <3>2 DEF Threaded, Links
  <2> QED BY <2>1, <2>2
<1>10. /\ \A k \in 1 .. Len(t) : next'[t[k]] = AfterIn(t, k) /\ prev'[t[k]] = BeforeIn(t, k)
       /\ Len(t) > 0 => front' = t[1] /\ back' = t[Len(t)]
  BY <1>7, <1>8, <1>9
<1> QED BY <1>10 DEF Links, AfterIn, BeforeIn

\* What the links become when what is at place e is taken out.
Unthreaded(s, e) ==
  /\ next' \in [Nodes -> Nodes \cup {NULL}] /\ prev' \in [Nodes -> Nodes \cup {NULL}]
  /\ \A i \in 1 .. Len(s) : i # e =>
       /\ next'[s[i]] = IF i = e - 1 THEN AfterIn(s, e) ELSE next[s[i]]
       /\ prev'[s[i]] = IF i = e + 1 THEN BeforeIn(s, e) ELSE prev[s[i]]
  /\ Len(s) > 1 => /\ front' = (IF e = 1 THEN s[2] ELSE front)
                   /\ back' = (IF e = Len(s) THEN s[Len(s) - 1] ELSE back)

\* The nodes without it.
LEMMA ChainTake ==
  ASSUME NEW s, Chain(s), NEW t, NEW e, t \in Seq(Nodes), TakenOut(s, t, e),
         used' = used \ {s[e]}, nodes' = nodes - 1
  PROVE  Chain(t)'
<1>1. s \in Seq(Nodes) /\ Len(s) \in Nat /\ Len(s) = nodes
  BY DEF Chain
<1>2. e \in 1 .. Len(s) /\ Len(t) = Len(s) - 1
  BY DEF TakenOut
<1>3. ASSUME NEW k \in 1 .. Len(t)
      PROVE  \E i \in 1 .. Len(s) : t[k] = s[i] /\ i # e /\ i = IF k < e THEN k ELSE k + 1
  <2>1. k \in 1 .. Len(s) /\ k + 1 \in 1 .. Len(s)
    BY <1>1, <1>2
  <2>2. t[k] = IF k < e THEN s[k] ELSE s[k + 1]
    BY DEF TakenOut
  <2>3. k < e => k # e
    BY <1>1, <1>2
  <2>4. ~(k < e) => k + 1 # e
    BY <1>1, <1>2
  <2> QED BY <2>1, <2>2, <2>3, <2>4
<1>4. ASSUME NEW k \in 1 .. Len(t), NEW l \in 1 .. Len(t), t[k] = t[l] PROVE k = l
  <2>1. PICK i \in 1 .. Len(s) : t[k] = s[i] /\ i = IF k < e THEN k ELSE k + 1
    BY <1>3
  <2>2. PICK j \in 1 .. Len(s) : t[l] = s[j] /\ j = IF l < e THEN l ELSE l + 1
    BY <1>3
  <2>3. i = j
    BY <1>4, <2>1, <2>2 DEF Chain
  <2> QED BY <1>1, <1>2, <2>1, <2>2, <2>3
<1>5. ASSUME NEW y \in Nodes PROVE y \in used' <=> \E k \in 1 .. Len(t) : t[k] = y
  <2>1. ASSUME y \in used' PROVE \E k \in 1 .. Len(t) : t[k] = y
    <3>1. PICK i \in 1 .. Len(s) : s[i] = y
      BY <2>1 DEF Chain
    <3>2. i # e
      BY <2>1, <3>1
    <3>3. CASE i < e
      <4>1. i \in 1 .. Len(t)
        BY <1>1, <1>2, <3>3
      <4>2. t[i] = s[i]
        BY <3>3, <4>1 DEF TakenOut
      <4> QED BY <3>1, <4>1, <4>2
    <3>4. CASE i > e
      <4>1. PICK k : k = i - 1
        OBVIOUS
      <4>2. k \in 1 .. Len(t) /\ ~(k < e) /\ k + 1 = i
        BY <1>1, <1>2, <3>4, <4>1
      <4>3. t[k] = s[k + 1]
        BY <4>2 DEF TakenOut
      <4> QED BY <3>1, <4>2, <4>3
    <3> QED BY <1>1, <1>2, <3>2, <3>3, <3>4
  <2>2. ASSUME NEW k \in 1 .. Len(t), t[k] = y PROVE y \in used'
    <3>1. PICK i \in 1 .. Len(s) : t[k] = s[i] /\ i # e
      BY <1>3
    <3>2. y \in used
      BY <2>2, <3>1 DEF Chain
    <3>3. y # s[e]
      BY <1>2, <2>2, <3>1 DEF Chain
    <3> QED BY <3>2, <3>3
  <2> QED BY <2>1, <2>2
<1>6. Len(t) = nodes'
  BY <1>1, <1>2
<1> QED BY <1>4, <1>5, <1>6 DEF Chain

\* Their links.
LEMMA LinksTake ==
  ASSUME NEW s, Chain(s), Links(s), NEW t, NEW e, TakenOut(s, t, e), Unthreaded(s, e)
  PROVE  Links(t)'
<1>1. Len(s) \in Nat
  BY DEF Chain
<1>2. e \in 1 .. Len(s) /\ Len(t) = Len(s) - 1
  BY DEF TakenOut
<1>3. \A k \in 1 .. Len(t) : t[k] = IF k < e THEN s[k] ELSE s[k + 1]
  BY DEF TakenOut
<1>4. ASSUME NEW k \in 1 .. Len(t), k < e
      PROVE  next'[t[k]] = AfterIn(t, k) /\ prev'[t[k]] = BeforeIn(t, k)
  <2>1. k \in 1 .. Len(s) /\ k # e /\ k # e + 1 /\ k < Len(s)
    BY <1>1, <1>2, <1>4
  <2>2. t[k] = s[k]
    BY <1>3, <1>4
  <2>3. next'[t[k]] = AfterIn(t, k)
    <3>1. next'[s[k]] = IF k = e - 1 THEN AfterIn(s, e) ELSE AfterIn(s, k)
      BY <2>1 DEF Unthreaded, Links
    <3>2. CASE k = e - 1
      <4>1. e < Len(s) <=> k < Len(t)
        BY <1>1, <1>2, <2>1, <3>2
      <4>2. CASE e < Len(s)
        <5>1. k + 1 \in 1 .. Len(t) /\ ~(k + 1 < e) /\ (k + 1) + 1 = e + 1
          BY <1>1, <1>2, <2>1, <3>2, <4>2
        <5>2. t[k + 1] = s[(k + 1) + 1]
          BY <1>3, <5>1
        <5>3. AfterIn(s, e) = s[e + 1]
          BY <4>2 DEF AfterIn
        <5>4. AfterIn(t, k) = t[k + 1]
          BY <4>1, <4>2 DEF AfterIn
        <5> QED BY <2>2, <3>1, <3>2, <5>1, <5>2, <5>3, <5>4
      <4>3. CASE ~(e < Len(s))
        BY <2>2, <3>1, <3>2, <4>1, <4>3 DEF AfterIn
      <4> QED BY <4>2, <4>3
    <3>3. CASE k # e - 1
      <4>1. k + 1 \in 1 .. Len(t) /\ k + 1 < e /\ k < Len(t)
        BY <1>1, <1>2, <1>4, <2>1, <3>3
      <4>2. t[k + 1] = s[k + 1]
        BY <1>3, <4>1
      <4> QED BY <2>1, <2>2, <3>1, <3>3, <4>1, <4>2 DEF AfterIn
    <3> QED BY <3>2, <3>3
  <2>4. prev'[t[k]] = BeforeIn(t, k)
    <3>1. prev'[s[k]] = BeforeIn(s, k)
      BY <2>1 DEF Unthreaded, Links
    <3>2. CASE k > 1
      <4>1. k - 1 \in 1 .. Len(t) /\ k - 1 < e
        BY <1>1, <1>2, <1>4, <3>2
      <4>2. t[k - 1] = s[k - 1]
        BY <1>3, <4>1
      <4> QED BY <2>2, <3>1, <3>2, <4>2 DEF BeforeIn
    <3>3. CASE ~(k > 1)
      BY <2>2, <3>1, <3>3 DEF BeforeIn
    <3> QED BY <3>2, <3>3
  <2> QED BY <2>3, <2>4
<1>5. ASSUME NEW k \in 1 .. Len(t), ~(k < e)
      PROVE  next'[t[k]] = AfterIn(t, k) /\ prev'[t[k]] = BeforeIn(t, k)
  <2>1. PICK l : l = k + 1
    OBVIOUS
  <2>2. l \in 1 .. Len(s) /\ l # e /\ l # e - 1 /\ k \in Nat /\ k >= 1 /\ k >= e /\ l - 1 = k
    BY <1>1, <1>2, <1>5, <2>1
  <2>3. t[k] = s[l]
    BY <1>3, <1>5, <2>1
  <2>4. next'[t[k]] = AfterIn(t, k)
    <3>1. next'[s[l]] = AfterIn(s, l)
      BY <2>2 DEF Unthreaded, Links
    <3>2. l < Len(s) <=> k < Len(t)
      BY <1>1, <1>2, <2>1, <2>2
    <3>3. CASE l < Len(s)
      <4>1. l \in 1 .. Len(t) /\ ~(l < e)
        BY <1>1, <1>2, <2>1, <2>2, <3>3
      <4>2. t[l] = s[l + 1]
        BY <1>3, <4>1
      <4>3. AfterIn(t, k) = t[l]
        BY <2>1, <3>2, <3>3 DEF AfterIn
      <4>4. AfterIn(s, l) = s[l + 1]
        BY <3>3 DEF AfterIn
      <4> QED BY <2>3, <3>1, <4>2, <4>3, <4>4
    <3>4. CASE ~(l < Len(s))
      BY <2>3, <3>1, <3>2, <3>4 DEF AfterIn
    <3> QED BY <3>3, <3>4
  <2>5. prev'[t[k]] = BeforeIn(t, k)
    <3>1. prev'[s[l]] = IF l = e + 1 THEN BeforeIn(s, e) ELSE BeforeIn(s, l)
      BY <2>2 DEF Unthreaded, Links
    <3>2. CASE k = e
      <4>1. prev'[t[k]] = BeforeIn(s, e)
        BY <2>1, <2>3, <3>1, <3>2
      <4>2. CASE e > 1
        <5>1. e - 1 \in 1 .. Len(t) /\ e - 1 < e
          BY <1>1, <1>2, <4>2
        <5>2. t[e - 1] = s[e - 1]
          BY <1>3, <5>1
        <5> QED BY <3>2, <4>1, <4>2, <5>2 DEF BeforeIn
      <4>3. CASE ~(e > 1)
        BY <3>2, <4>1, <4>3 DEF BeforeIn
      <4> QED BY <4>2, <4>3
    <3>3. CASE k # e
      <4>1. PICK m : m = k - 1
        OBVIOUS
      <4>2. m \in 1 .. Len(t) /\ ~(m < e) /\ m + 1 = k /\ k > 1 /\ l > 1 /\ l # e + 1
        BY <1>1, <1>2, <2>1, <2>2, <3>3, <4>1
      <4>3. t[m] = s[k]
        BY <1>3, <4>2
      <4>4. BeforeIn(t, k) = t[m]
        BY <4>1, <4>2 DEF BeforeIn
      <4>5. BeforeIn(s, l) = s[k]
        BY <2>2, <4>2 DEF BeforeIn
      <4> QED BY <2>3, <3>1, <4>2, <4>3, <4>4, <4>5
    <3> QED BY <3>2, <3>3
  <2> QED BY <2>4, <2>5
<1>6. ASSUME Len(t) > 0 PROVE front' = t[1] /\ back' = t[Len(t)]
  <2>1. Len(s) > 1 /\ 1 \in 1 .. Len(t) /\ Len(t) \in 1 .. Len(t)
    BY <1>1, <1>2, <1>6
  <2>2. front' = t[1]
    <3>1. CASE e = 1
      <4>1. ~(1 < e) /\ 1 + 1 = 2
        BY <3>1
      <4>2. t[1] = s[1 + 1]
        BY <1>3, <2>1, <4>1
      <4> QED BY <2>1, <3>1, <4>1, <4>2 DEF Unthreaded
    <3>2. CASE e # 1
      <4>1. 1 < e
        BY <1>1, <1>2, <3>2
      <4>2. t[1] = s[1]
        BY <1>3, <2>1, <4>1
      <4>3. Len(s) > 0
        BY <1>1, <2>1
      <4> QED BY <2>1, <3>2, <4>2, <4>3 DEF Unthreaded, Links
    <3> QED BY <3>1, <3>2
  <2>3. back' = t[Len(t)]
    <3>1. CASE e = Len(s)
      <4>1. Len(t) < e /\ Len(t) = Len(s) - 1
        BY <1>1, <1>2, <3>1
      <4>2. t[Len(t)] = s[Len(t)]
        BY <1>3, <2>1, <4>1
      <4> QED BY <2>1, <3>1, <4>1, <4>2 DEF Unthreaded
    <3>2. CASE e # Len(s)
      <4>1. ~(Len(t) < e) /\ Len(t) + 1 = Len(s) /\ Len(s) > 0
        BY <1>1, <1>2, <2>1, <3>2
      <4>2. t[Len(t)] = s[Len(t) + 1]
        BY <1>3, <2>1, <4>1
      <4> QED BY <2>1, <3>2, <4>1, <4>2 DEF Unthreaded, Links
    <3> QED BY <3>1, <3>2
  <2> QED BY <2>2, <2>3
<1>7. /\ \A k \in 1 .. Len(t) : next'[t[k]] = AfterIn(t, k) /\ prev'[t[k]] = BeforeIn(t, k)
      /\ Len(t) > 0 => front' = t[1] /\ back' = t[Len(t)]
  BY <1>4, <1>5, <1>6
<1> QED BY <1>7 DEF Links, AfterIn, BeforeIn

\* A node is put in: the sequence of the data has its datum in that place.
LEMMA ListPut ==
  ASSUME ListTypes, NEW s, Chain(s), Links(s), NEW x \in Nodes \ used, NEW d \in Data,
         NEW e \in 1 .. Len(s) + 1, Threaded(s, e, x),
         used' = used \cup {x}, nodes' = nodes + 1, data' = [data EXCEPT ![x] = d],
         crashed' = crashed
  PROVE  /\ ListInv'
         /\ L!Contents \in Seq(Data) /\ L!Contents' \in Seq(Data)
         /\ Len(L!Contents) = Len(s) /\ PutIn(L!Contents, L!Contents', e, d)
<1>1. s \in Seq(Nodes) /\ Len(s) \in Nat /\ Len(s) = nodes
  BY DEF Chain
<1>2. PICK t : t = L!D!InsertAt(s, e, x)
  OBVIOUS
<1>3. t \in Seq(Nodes) /\ PutIn(s, t, e, x)
  BY <1>1, <1>2, InsertedIs
<1>4. Chain(t)'
  BY <1>3, ChainPut
<1>5. Links(t)'
  BY <1>3, LinksPut
<1>6. data \in [Nodes -> Data] /\ data' \in [Nodes -> Data]
  BY DEF ListTypes
<1>7. ListTypes'
  <2>1. IsFiniteSet(used)
    BY ListSizes, FS_Subset DEF ListTypes
  <2>2. Cardinality(used \cup {x}) = Cardinality(used) + 1
    BY <2>1, FS_AddElement
  <2>3. used' \subseteq Nodes /\ nodes' = Cardinality(used')
    BY <2>2 DEF ListTypes
  <2>4. /\ next' \in [Nodes -> Nodes \cup {NULL}] /\ prev' \in [Nodes -> Nodes \cup {NULL}]
        /\ front' \in Nodes \cup {NULL} /\ back' \in Nodes \cup {NULL}
    BY DEF ListTypes, Threaded
  <2>5. crashed' \in BOOLEAN /\ (crashed' => WalkEmpty)
    BY DEF ListTypes
  <2> QED BY <1>6, <2>3, <2>4, <2>5 DEF ListTypes
<1>8. ListInv'
  BY <1>4, <1>5, <1>7 DEF ListInv
<1>9. PICK u : u = L!Contents /\ u = [i \in 1 .. Len(s) |-> data[s[i]]]
  BY ContentsIs DEF ContentsOfChain
<1>10. PICK v : v = L!Contents' /\ v = [i \in 1 .. Len(t) |-> data'[t[i]]]
  BY <1>4, <1>5, <1>7, ContentsAfter
<1>11. u \in Seq(Data) /\ Len(u) = Len(s) /\ \A i \in 1 .. Len(s) : u[i] = data[s[i]]
  BY <1>1, <1>6, <1>9, DataOfChain
<1>12. v \in Seq(Data) /\ Len(v) = Len(t) /\ \A i \in 1 .. Len(t) : v[i] = data'[t[i]]
  BY <1>3, <1>6, <1>10, DataOfChain
<1>13. Len(t) = Len(s) + 1 /\ t[e] = x
  BY <1>3 DEF PutIn
<1>14. v[e] = d
  <2>1. e \in 1 .. Len(t)
    BY <1>1, <1>13
  <2>2. data'[x] = d
    BY <1>6
  <2> QED BY <1>12, <1>13, <2>1, <2>2
<1>15. ASSUME NEW k \in 1 .. Len(s)
       PROVE  IF k < e THEN v[k] = u[k] ELSE v[k + 1] = u[k]
  <2>1. IF k < e THEN t[k] = s[k] ELSE t[k + 1] = s[k]
    BY <1>3 DEF PutIn
  <2>2. k \in 1 .. Len(t) /\ k + 1 \in 1 .. Len(t)
    BY <1>1, <1>13
  <2>3. s[k] \in Nodes /\ s[k] # x
    <3>1. s[k] \in Nodes
      BY <1>1
    <3> QED BY <3>1 DEF Chain
  <2>4. data'[s[k]] = data[s[k]]
    BY <1>6, <2>3
  <2>5. v[k] = data'[t[k]] /\ v[k + 1] = data'[t[k + 1]] /\ u[k] = data[s[k]]
    BY <1>11, <1>12, <2>2
  <2> QED BY <2>1, <2>4, <2>5
<1>16. PutIn(u, v, e, d)
  BY <1>11, <1>12, <1>13, <1>14, <1>15 DEF PutIn
<1> QED BY <1>8, <1>9, <1>10, <1>11, <1>12, <1>16

\* A node is taken out, and so is its datum.
LEMMA ListTake ==
  ASSUME ListTypes, NEW s, Chain(s), Links(s), NEW e \in 1 .. Len(s), Unthreaded(s, e),
         used' = used \ {s[e]}, nodes' = nodes - 1, data' = data, crashed' = crashed,
         front' \in Nodes \cup {NULL}, back' \in Nodes \cup {NULL}
  PROVE  /\ ListInv'
         /\ L!Contents \in Seq(Data) /\ L!Contents' \in Seq(Data)
         /\ Len(L!Contents) = Len(s) /\ TakenOut(L!Contents, L!Contents', e)
<1>1. s \in Seq(Nodes) /\ Len(s) \in Nat /\ Len(s) = nodes
  BY DEF Chain
<1>2. PICK t : t = L!D!RemoveAt(s, e)
  OBVIOUS
<1>3. t \in Seq(Nodes) /\ TakenOut(s, t, e)
  BY <1>1, <1>2, RemovedIs
<1>4. Chain(t)'
  BY <1>3, ChainTake
<1>5. Links(t)'
  BY <1>3, LinksTake
<1>6. data \in [Nodes -> Data] /\ data' \in [Nodes -> Data]
  BY DEF ListTypes
<1>7. ListTypes'
  <2>1. IsFiniteSet(used)
    BY ListSizes, FS_Subset DEF ListTypes
  <2>2. s[e] \in Nodes
    BY <1>1
  <2>3. s[e] \in used
    BY <2>2 DEF Chain
  <2>4. Cardinality(used \ {s[e]}) = Cardinality(used) - 1
    BY <2>1, <2>3, FS_RemoveElement
  <2>5. used' \subseteq Nodes /\ nodes' = Cardinality(used')
    BY <2>4 DEF ListTypes
  <2>6. next' \in [Nodes -> Nodes \cup {NULL}] /\ prev' \in [Nodes -> Nodes \cup {NULL}]
    BY DEF Unthreaded
  <2>7. crashed' \in BOOLEAN /\ (crashed' => WalkEmpty)
    BY DEF ListTypes
  <2> QED BY <1>6, <2>5, <2>6, <2>7 DEF ListTypes
<1>8. ListInv'
  BY <1>4, <1>5, <1>7 DEF ListInv
<1>9. PICK u : u = L!Contents /\ u = [i \in 1 .. Len(s) |-> data[s[i]]]
  BY ContentsIs DEF ContentsOfChain
<1>10. PICK v : v = L!Contents' /\ v = [i \in 1 .. Len(t) |-> data'[t[i]]]
  BY <1>4, <1>5, <1>7, ContentsAfter
<1>11. u \in Seq(Data) /\ Len(u) = Len(s) /\ \A i \in 1 .. Len(s) : u[i] = data[s[i]]
  BY <1>1, <1>6, <1>9, DataOfChain
<1>12. v \in Seq(Data) /\ Len(v) = Len(t) /\ \A i \in 1 .. Len(t) : v[i] = data'[t[i]]
  BY <1>3, <1>6, <1>10, DataOfChain
<1>13. Len(t) = Len(s) - 1
  BY <1>3 DEF TakenOut
<1>14. ASSUME NEW k \in 1 .. Len(v)
       PROVE  v[k] = IF k < e THEN u[k] ELSE u[k + 1]
  <2>1. k \in 1 .. Len(t) /\ k \in 1 .. Len(s) /\ k + 1 \in 1 .. Len(s)
    BY <1>1, <1>12, <1>13
  <2>2. t[k] = IF k < e THEN s[k] ELSE s[k + 1]
    BY <1>3, <2>1 DEF TakenOut
  <2>3. v[k] = data[t[k]] /\ u[k] = data[s[k]] /\ u[k + 1] = data[s[k + 1]]
    BY <1>11, <1>12, <2>1
  <2> QED BY <2>2, <2>3
<1>15. TakenOut(u, v, e)
  BY <1>11, <1>12, <1>13, <1>14 DEF TakenOut
<1> QED BY <1>8, <1>9, <1>10, <1>11, <1>12, <1>15

\* What is known of the nodes of a chain.
LEMMA ChainNodes ==
  ASSUME ListTypes, NEW s, Chain(s)
  PROVE  /\ s \in Seq(Nodes) /\ Len(s) \in Nat /\ Len(s) = nodes
         /\ \A i \in 1 .. Len(s) : s[i] \in Nodes /\ s[i] \in used /\ s[i] # NULL
         /\ \A i, j \in 1 .. Len(s) : s[i] = s[j] <=> i = j
<1>1. s \in Seq(Nodes) /\ Len(s) \in Nat /\ Len(s) = nodes
  BY DEF Chain
<1>2. \A i \in 1 .. Len(s) : s[i] \in Nodes
  BY <1>1
<1>3. \A i \in 1 .. Len(s) : s[i] \in used /\ s[i] # NULL
  BY <1>2, ListSizes DEF Chain
<1>4. \A i, j \in 1 .. Len(s) : s[i] = s[j] <=> i = j
  BY DEF Chain
<1> QED BY <1>1, <1>2, <1>3, <1>4

\* dll_fifo_push_back puts at the end.
LEMMA ListPushBack ==
  ASSUME ListInv, NEW x \in Nodes, NEW d \in Data, L!PushBack(x, d)
  PROVE  ListInv' /\ L!D!PushBack(d)
<1>1. PICK s : ListTypes /\ Chain(s) /\ Links(s)
  BY DEF ListInv
<1>2. /\ x \in Nodes \ used /\ used' = used \cup {x} /\ nodes' = nodes + 1
      /\ data' = [data EXCEPT ![x] = d] /\ crashed' = crashed
  BY DEF L!PushBack, L!Alloc
<1>3. /\ s \in Seq(Nodes) /\ Len(s) \in Nat /\ Len(s) = nodes
      /\ \A i \in 1 .. Len(s) : s[i] \in Nodes /\ s[i] \in used /\ s[i] # NULL
      /\ \A i, j \in 1 .. Len(s) : s[i] = s[j] <=> i = j
  BY <1>1, ChainNodes
<1>4. PICK e : e = Len(s) + 1
  OBVIOUS
<1>5. e \in 1 .. Len(s) + 1 /\ ~(e <= Len(s))
  BY <1>3, <1>4
<1>6. next \in [Nodes -> Nodes \cup {NULL}] /\ prev \in [Nodes -> Nodes \cup {NULL}]
  BY <1>1 DEF ListTypes
<1>7. Threaded(s, e, x)
  <2>1. CASE nodes = 0
    <3>1. /\ front' = x /\ back' = x
          /\ prev' = [prev EXCEPT ![x] = NULL] /\ next' = [next EXCEPT ![x] = NULL]
      BY <2>1 DEF L!PushBack
    <3>2. e = 1 /\ ~(e > 1) /\ 1 .. Len(s) = {}
      BY <1>3, <1>4, <2>1
    <3>3. next' \in [Nodes -> Nodes \cup {NULL}] /\ prev' \in [Nodes -> Nodes \cup {NULL}]
      BY <1>2, <1>6, <3>1
    <3>4. next'[x] = NULL /\ prev'[x] = NULL
      BY <1>2, <1>6, <3>1
    <3> QED BY <1>4, <1>5, <3>1, <3>2, <3>3, <3>4 DEF Threaded, BeforeIn
  <2>2. CASE nodes # 0
    <3>1. /\ prev' = [prev EXCEPT ![x] = back]
          /\ next' = [next EXCEPT ![x] = NULL, ![back] = x]
          /\ back' = x /\ front' = front
      BY <2>2 DEF L!PushBack
    <3>2. e # 1 /\ e > 1 /\ e - 1 = Len(s) /\ Len(s) \in 1 .. Len(s) /\ Len(s) > 0
      BY <1>3, <1>4, <2>2
    <3>3. back = s[Len(s)] /\ back \in Nodes /\ back # x
      BY <1>1, <1>2, <1>3, <3>2 DEF Links
    <3>4. next' \in [Nodes -> Nodes \cup {NULL}] /\ prev' \in [Nodes -> Nodes \cup {NULL}]
      BY <1>2, <1>6, <3>1, <3>3
    <3>5. next'[x] = NULL /\ prev'[x] = s[e - 1]
      BY <1>2, <1>6, <3>1, <3>2, <3>3
    <3>6. ASSUME NEW i \in 1 .. Len(s)
          PROVE  /\ next'[s[i]] = IF i = e - 1 THEN x ELSE next[s[i]]
                 /\ prev'[s[i]] = IF i = e THEN x ELSE prev[s[i]]
      <4>1. s[i] \in Nodes /\ s[i] # x /\ i # e
        BY <1>2, <1>3, <1>5
      <4>2. s[i] = back <=> i = e - 1
        BY <1>3, <3>2, <3>3
      <4> QED BY <1>6, <3>1, <3>3, <4>1, <4>2
    <3>7. BeforeIn(s, e) = s[e - 1]
      BY <3>2 DEF BeforeIn
    <3>8. front' = front /\ back' = x
      BY <3>1
    <3>9. next'[x] = (IF e <= Len(s) THEN s[e] ELSE NULL) /\ prev'[x] = BeforeIn(s, e)
      BY <1>5, <3>5, <3>7
    <3>10. front' = (IF e = 1 THEN x ELSE front) /\ back' = (IF e = Len(s) + 1 THEN x ELSE back)
      BY <1>4, <3>2, <3>8
    <3> QED BY <3>4, <3>6, <3>9, <3>10 DEF Threaded
  <2> QED BY <2>1, <2>2
<1>8. /\ ListInv' /\ L!Contents \in Seq(Data) /\ L!Contents' \in Seq(Data)
      /\ Len(L!Contents) = Len(s) /\ PutIn(L!Contents, L!Contents', e, d)
  BY <1>1, <1>2, <1>5, <1>7, ListPut
<1>9. PICK u, v : u = L!Contents /\ v = L!Contents'
  OBVIOUS
<1>10. v = Append(u, d)
  BY <1>4, <1>8, <1>9, DequeIn
<1> QED BY <1>8, <1>9, <1>10 DEF L!D!PushBack

\* dll_fifo_push_front puts at the front.
LEMMA ListPushFront ==
  ASSUME ListInv, NEW x \in Nodes, NEW d \in Data, L!PushFront(x, d)
  PROVE  ListInv' /\ L!D!PushFront(d)
<1>1. PICK s : ListTypes /\ Chain(s) /\ Links(s)
  BY DEF ListInv
<1>2. /\ x \in Nodes \ used /\ used' = used \cup {x} /\ nodes' = nodes + 1
      /\ data' = [data EXCEPT ![x] = d] /\ crashed' = crashed
  BY DEF L!PushFront, L!Alloc
<1>3. /\ s \in Seq(Nodes) /\ Len(s) \in Nat /\ Len(s) = nodes
      /\ \A i \in 1 .. Len(s) : s[i] \in Nodes /\ s[i] \in used /\ s[i] # NULL
      /\ \A i, j \in 1 .. Len(s) : s[i] = s[j] <=> i = j
  BY <1>1, ChainNodes
<1>4. PICK e : e = 1
  OBVIOUS
<1>5. e \in 1 .. Len(s) + 1 /\ ~(e > 1) /\ \A i \in 1 .. Len(s) : i # e - 1
  BY <1>3, <1>4
<1>6. next \in [Nodes -> Nodes \cup {NULL}] /\ prev \in [Nodes -> Nodes \cup {NULL}]
  BY <1>1 DEF ListTypes
<1>7. Threaded(s, e, x)
  <2>1. CASE nodes = 0
    <3>1. /\ front' = x /\ back' = x
          /\ prev' = [prev EXCEPT ![x] = NULL] /\ next' = [next EXCEPT ![x] = NULL]
      BY <2>1 DEF L!PushFront
    <3>2. e = Len(s) + 1 /\ ~(e <= Len(s)) /\ 1 .. Len(s) = {}
      BY <1>3, <1>4, <2>1
    <3>3. next' \in [Nodes -> Nodes \cup {NULL}] /\ prev' \in [Nodes -> Nodes \cup {NULL}]
      BY <1>2, <1>6, <3>1
    <3>4. next'[x] = NULL /\ prev'[x] = NULL
      BY <1>2, <1>6, <3>1
    <3> QED BY <1>4, <1>5, <3>1, <3>2, <3>3, <3>4 DEF Threaded, BeforeIn
  <2>2. CASE nodes # 0
    <3>1. /\ prev' = [prev EXCEPT ![x] = NULL, ![front] = x]
          /\ next' = [next EXCEPT ![x] = front]
          /\ front' = x /\ back' = back
      BY <2>2 DEF L!PushFront
    <3>2. e # Len(s) + 1 /\ e <= Len(s) /\ 1 \in 1 .. Len(s) /\ Len(s) > 0
      BY <1>3, <1>4, <2>2
    <3>3. front = s[1] /\ front \in Nodes /\ front # x
      BY <1>1, <1>2, <1>3, <3>2 DEF Links
    <3>4. next' \in [Nodes -> Nodes \cup {NULL}] /\ prev' \in [Nodes -> Nodes \cup {NULL}]
      BY <1>2, <1>6, <3>1, <3>3
    <3>5. next'[x] = s[e] /\ prev'[x] = NULL
      BY <1>2, <1>4, <1>6, <3>1, <3>3
    <3>6. ASSUME NEW i \in 1 .. Len(s)
          PROVE  /\ next'[s[i]] = IF i = e - 1 THEN x ELSE next[s[i]]
                 /\ prev'[s[i]] = IF i = e THEN x ELSE prev[s[i]]
      <4>1. s[i] \in Nodes /\ s[i] # x /\ i # e - 1
        BY <1>2, <1>3, <1>5
      <4>2. s[i] = front <=> i = e
        BY <1>3, <1>4, <3>2, <3>3
      <4> QED BY <1>6, <3>1, <3>3, <4>1, <4>2
    <3> QED BY <1>4, <1>5, <3>1, <3>2, <3>4, <3>5, <3>6 DEF Threaded, BeforeIn
  <2> QED BY <2>1, <2>2
<1>8. /\ ListInv' /\ L!Contents \in Seq(Data) /\ L!Contents' \in Seq(Data)
      /\ Len(L!Contents) = Len(s) /\ PutIn(L!Contents, L!Contents', e, d)
  BY <1>1, <1>2, <1>5, <1>7, ListPut
<1>9. PICK u, v : u = L!Contents /\ v = L!Contents'
  OBVIOUS
<1>10. v = <<d>> \o u
  BY <1>4, <1>8, <1>9, DequeIn
<1> QED BY <1>8, <1>9, <1>10 DEF L!D!PushFront

\* dll_fifo_insert puts before the place it is told.
LEMMA ListInsert ==
  ASSUME ListInv, NEW x \in Nodes, NEW d \in Data, NEW n \in Nat, L!Insert(x, d, n)
  PROVE  ListInv' /\ n \in 1 .. Len(L!Contents) - 1 /\ L!D!InsertBefore(d, n)
<1>1. PICK s : ListTypes /\ Chain(s) /\ Links(s)
  BY DEF ListInv
<1>2. /\ x \in Nodes \ used /\ used' = used \cup {x} /\ nodes' = nodes + 1
      /\ data' = [data EXCEPT ![x] = d] /\ crashed' = crashed
      /\ front' = front /\ back' = back /\ n > 0 /\ n < nodes
  BY DEF L!Insert, L!Alloc
<1>3. /\ s \in Seq(Nodes) /\ Len(s) \in Nat /\ Len(s) = nodes
      /\ \A i \in 1 .. Len(s) : s[i] \in Nodes /\ s[i] \in used /\ s[i] # NULL
      /\ \A i, j \in 1 .. Len(s) : s[i] = s[j] <=> i = j
  BY <1>1, ChainNodes
<1>4. PICK e : e = n + 1
  OBVIOUS
<1>5. /\ e \in 1 .. Len(s) + 1 /\ e \in 1 .. Len(s) /\ n \in 1 .. Len(s) /\ n \in 1 .. Len(s) - 1
      /\ e # 1 /\ e > 1 /\ e - 1 = n /\ e # Len(s) + 1 /\ e <= Len(s) /\ nodes > 0
  BY <1>2, <1>3, <1>4
<1>6. next \in [Nodes -> Nodes \cup {NULL}] /\ prev \in [Nodes -> Nodes \cup {NULL}]
  BY <1>1 DEF ListTypes
<1>7. Threaded(s, e, x)
  <2>1. L!Walk = s
    BY <1>1, <1>5, WalkChain
  <2>2. prev[s[e]] = s[n]
    BY <1>1, <1>5 DEF Links, BeforeIn
  <2>3. /\ next' = [next EXCEPT ![x] = s[e], ![s[n]] = x]
        /\ prev' = [prev EXCEPT ![x] = s[n], ![s[e]] = x]
    BY <1>4, <2>1, <2>2 DEF L!Insert
  <2>4. s[n] \in Nodes /\ s[n] # x /\ s[e] \in Nodes /\ s[e] # x
    BY <1>2, <1>3, <1>5
  <2>5. next' \in [Nodes -> Nodes \cup {NULL}] /\ prev' \in [Nodes -> Nodes \cup {NULL}]
    BY <1>2, <1>6, <2>3, <2>4
  <2>6. next'[x] = s[e] /\ prev'[x] = s[n]
    BY <1>2, <1>6, <2>3, <2>4
  <2>7. ASSUME NEW i \in 1 .. Len(s)
        PROVE  /\ next'[s[i]] = IF i = e - 1 THEN x ELSE next[s[i]]
               /\ prev'[s[i]] = IF i = e THEN x ELSE prev[s[i]]
    <3>1. s[i] \in Nodes /\ s[i] # x
      BY <1>2, <1>3
    <3>2. (s[i] = s[n] <=> i = e - 1) /\ (s[i] = s[e] <=> i = e)
      BY <1>3, <1>5
    <3> QED BY <1>6, <2>3, <2>4, <3>1, <3>2
  <2> QED BY <1>2, <1>5, <2>5, <2>6, <2>7 DEF Threaded, BeforeIn
<1>8. /\ ListInv' /\ L!Contents \in Seq(Data) /\ L!Contents' \in Seq(Data)
      /\ Len(L!Contents) = Len(s) /\ PutIn(L!Contents, L!Contents', e, d)
  BY <1>1, <1>2, <1>5, <1>7, ListPut
<1>9. PICK u, v : u = L!Contents /\ v = L!Contents'
  OBVIOUS
<1>10. v = L!D!InsertAt(u, e, d)
  <2>1. u \in Seq(Data) /\ v \in Seq(Data) /\ PutIn(u, v, e, d)
    BY <1>8, <1>9
  <2>2. /\ e = Len(u) + 1 => v = Append(u, d)
        /\ e = 1 => v = <<d>> \o u
        /\ v = L!D!InsertAt(u, e, d)
    BY <2>1, DequeIn
  <2> QED BY <2>2
<1>11. n \in 1 .. Len(L!Contents) - 1
  BY <1>5, <1>8
<1> QED BY <1>4, <1>8, <1>9, <1>10, <1>11 DEF L!D!InsertBefore

\* dll_fifo_pop_front takes the first.
LEMMA ListPopFront ==
  ASSUME ListInv, L!PopFront
  PROVE  ListInv' /\ L!D!PopFront
<1>1. PICK s : ListTypes /\ Chain(s) /\ Links(s)
  BY DEF ListInv
<1>2. /\ s \in Seq(Nodes) /\ Len(s) \in Nat /\ Len(s) = nodes
      /\ \A i \in 1 .. Len(s) : s[i] \in Nodes /\ s[i] \in used /\ s[i] # NULL
      /\ \A i, j \in 1 .. Len(s) : s[i] = s[j] <=> i = j
  BY <1>1, ChainNodes
<1>3. PICK e : e = 1
  OBVIOUS
<1>4. /\ nodes > 0 /\ used' = used \ {front} /\ nodes' = nodes - 1
      /\ next' = next /\ data' = data /\ back' = back /\ crashed' = crashed
  BY DEF L!PopFront
<1>5. e \in 1 .. Len(s) /\ Len(s) > 0 /\ e # 0 /\ ~(e > 1) /\ \A i \in 1 .. Len(s) : i # e - 1
  BY <1>2, <1>3, <1>4
<1>6. front = s[e] /\ s[e] \in Nodes
  BY <1>1, <1>2, <1>3, <1>5 DEF Links
<1>7. next \in [Nodes -> Nodes \cup {NULL}] /\ prev \in [Nodes -> Nodes \cup {NULL}]
  BY <1>1 DEF ListTypes
<1>8. /\ Unthreaded(s, e) /\ front' \in Nodes \cup {NULL} /\ back' \in Nodes \cup {NULL}
  <2>0. back' \in Nodes \cup {NULL}
    BY <1>1, <1>4 DEF ListTypes
  <2>1. CASE nodes = 1
    <3>1. front' = NULL /\ prev' = prev
      BY <2>1 DEF L!PopFront
    <3>2. ~(Len(s) > 1) /\ \A i \in 1 .. Len(s) : i = e
      BY <1>2, <1>3, <2>1
    <3> QED BY <1>4, <1>7, <2>0, <3>1, <3>2 DEF Unthreaded
  <2>2. CASE nodes # 1
    <3>1. front' = next[front] /\ prev' = [prev EXCEPT ![next[front]] = NULL]
      BY <2>2 DEF L!PopFront
    <3>2. Len(s) > 1 /\ e < Len(s) /\ e # Len(s) /\ e + 1 = 2 /\ 2 \in 1 .. Len(s)
      BY <1>2, <1>3, <1>4, <2>2
    <3>3. next[front] = s[2] /\ s[2] \in Nodes
      BY <1>1, <1>2, <1>3, <1>5, <1>6, <3>2 DEF Links, AfterIn
    <3>4. prev' \in [Nodes -> Nodes \cup {NULL}]
      BY <1>7, <3>1, <3>3
    <3>5. ASSUME NEW i \in 1 .. Len(s)
          PROVE  /\ next'[s[i]] = IF i = e - 1 THEN AfterIn(s, e) ELSE next[s[i]]
                 /\ prev'[s[i]] = IF i = e + 1 THEN BeforeIn(s, e) ELSE prev[s[i]]
      <4>1. i # e - 1 /\ s[i] \in Nodes /\ (s[i] = s[2] <=> i = e + 1)
        BY <1>2, <1>5, <3>2
      <4>2. prev'[s[i]] = IF s[i] = s[2] THEN NULL ELSE prev[s[i]]
        BY <1>7, <3>1, <3>3, <4>1
      <4>3. BeforeIn(s, e) = NULL
        BY <1>5 DEF BeforeIn
      <4> QED BY <1>4, <4>1, <4>2, <4>3
    <3>6. front' = s[2] /\ back' = back
      BY <1>4, <3>1, <3>3
    <3>7. /\ front' = (IF e = 1 THEN s[2] ELSE front)
          /\ back' = (IF e = Len(s) THEN s[Len(s) - 1] ELSE back)
      BY <1>3, <3>2, <3>6
    <3>8. next' \in [Nodes -> Nodes \cup {NULL}]
      BY <1>4, <1>7
    <3>9. Unthreaded(s, e)
      BY <3>4, <3>5, <3>7, <3>8 DEF Unthreaded
    <3> QED BY <2>0, <3>3, <3>6, <3>9
  <2> QED BY <2>1, <2>2
<1>9. used' = used \ {s[e]}
  BY <1>4, <1>6
<1>10. /\ ListInv' /\ L!Contents \in Seq(Data) /\ L!Contents' \in Seq(Data)
       /\ Len(L!Contents) = Len(s) /\ TakenOut(L!Contents, L!Contents', e)
  BY <1>1, <1>4, <1>5, <1>8, <1>9, ListTake
<1>11. PICK u, v : u = L!Contents /\ v = L!Contents'
  OBVIOUS
<1>12. u \in Seq(Data) /\ v \in Seq(Data) /\ TakenOut(u, v, e) /\ Len(u) > 0
  BY <1>5, <1>10, <1>11
<1>13. /\ e = 1 => v = Tail(u)
       /\ e = Len(u) => v = L!D!Front(u)
       /\ v = L!D!RemoveAt(u, e)
  BY <1>12, DequeOut
<1>14. u # <<>>
  BY <1>12
<1>15. v = Tail(u)
  BY <1>3, <1>13
<1> QED BY <1>10, <1>11, <1>14, <1>15 DEF L!D!PopFront

\* dll_fifo_pop_back takes the last.
LEMMA ListPopBack ==
  ASSUME ListInv, L!PopBack
  PROVE  ListInv' /\ L!D!PopBack
<1>1. PICK s : ListTypes /\ Chain(s) /\ Links(s)
  BY DEF ListInv
<1>2. /\ s \in Seq(Nodes) /\ Len(s) \in Nat /\ Len(s) = nodes
      /\ \A i \in 1 .. Len(s) : s[i] \in Nodes /\ s[i] \in used /\ s[i] # NULL
      /\ \A i, j \in 1 .. Len(s) : s[i] = s[j] <=> i = j
  BY <1>1, ChainNodes
<1>3. PICK e : e = Len(s)
  OBVIOUS
<1>4. /\ nodes > 0 /\ used' = used \ {back} /\ nodes' = nodes - 1
      /\ prev' = prev /\ data' = data /\ front' = front /\ crashed' = crashed
  BY DEF L!PopBack
<1>5. e \in 1 .. Len(s) /\ Len(s) > 0 /\ ~(e < Len(s)) /\ \A i \in 1 .. Len(s) : i # e + 1
  BY <1>2, <1>3, <1>4
<1>6. back = s[e] /\ s[e] \in Nodes
  BY <1>1, <1>2, <1>3, <1>5 DEF Links
<1>7. next \in [Nodes -> Nodes \cup {NULL}] /\ prev \in [Nodes -> Nodes \cup {NULL}]
  BY <1>1 DEF ListTypes
<1>8. /\ Unthreaded(s, e) /\ front' \in Nodes \cup {NULL} /\ back' \in Nodes \cup {NULL}
  <2>0. front' \in Nodes \cup {NULL}
    BY <1>1, <1>4 DEF ListTypes
  <2>1. CASE nodes = 1
    <3>1. back' = NULL /\ next' = next
      BY <2>1 DEF L!PopBack
    <3>2. ~(Len(s) > 1) /\ \A i \in 1 .. Len(s) : i = e
      BY <1>2, <1>3, <2>1
    <3> QED BY <1>4, <1>7, <2>0, <3>1, <3>2 DEF Unthreaded
  <2>2. CASE nodes # 1
    <3>0. PICK m : m = Len(s) - 1
      OBVIOUS
    <3>1. back' = prev[back] /\ next' = [next EXCEPT ![prev[back]] = NULL]
      BY <2>2 DEF L!PopBack
    <3>2. Len(s) > 1 /\ e > 1 /\ e # 1 /\ e - 1 = m /\ m \in 1 .. Len(s)
      BY <1>2, <1>3, <1>4, <2>2, <3>0
    <3>3. prev[back] = s[m] /\ s[m] \in Nodes
      BY <1>1, <1>2, <1>5, <1>6, <3>2 DEF Links, BeforeIn
    <3>4. next' \in [Nodes -> Nodes \cup {NULL}]
      BY <1>7, <3>1, <3>3
    <3>5. ASSUME NEW i \in 1 .. Len(s)
          PROVE  /\ next'[s[i]] = IF i = e - 1 THEN AfterIn(s, e) ELSE next[s[i]]
                 /\ prev'[s[i]] = IF i = e + 1 THEN BeforeIn(s, e) ELSE prev[s[i]]
      <4>1. i # e + 1 /\ s[i] \in Nodes /\ (s[i] = s[m] <=> i = e - 1)
        BY <1>2, <1>5, <3>2
      <4>2. next'[s[i]] = IF s[i] = s[m] THEN NULL ELSE next[s[i]]
        BY <1>7, <3>1, <3>3, <4>1
      <4>3. AfterIn(s, e) = NULL
        BY <1>5 DEF AfterIn
      <4> QED BY <1>4, <4>1, <4>2, <4>3
    <3>6. back' = s[Len(s) - 1] /\ front' = front
      BY <1>4, <3>0, <3>1, <3>3
    <3>7. /\ front' = (IF e = 1 THEN s[2] ELSE front)
          /\ back' = (IF e = Len(s) THEN s[Len(s) - 1] ELSE back)
      BY <1>3, <3>2, <3>6
    <3>8. prev' \in [Nodes -> Nodes \cup {NULL}]
      BY <1>4, <1>7
    <3>9. Unthreaded(s, e)
      BY <3>4, <3>5, <3>7, <3>8 DEF Unthreaded
    <3>10. back' \in Nodes
      BY <3>1, <3>3
    <3> QED BY <2>0, <3>9, <3>10
  <2> QED BY <2>1, <2>2
<1>9. used' = used \ {s[e]}
  BY <1>4, <1>6
<1>10. /\ ListInv' /\ L!Contents \in Seq(Data) /\ L!Contents' \in Seq(Data)
       /\ Len(L!Contents) = Len(s) /\ TakenOut(L!Contents, L!Contents', e)
  BY <1>1, <1>4, <1>5, <1>8, <1>9, ListTake
<1>11. PICK u, v : u = L!Contents /\ v = L!Contents'
  OBVIOUS
<1>12. u \in Seq(Data) /\ v \in Seq(Data) /\ TakenOut(u, v, e) /\ Len(u) > 0
  BY <1>5, <1>10, <1>11
<1>13. /\ e = 1 => v = Tail(u)
       /\ e = Len(u) => v = L!D!Front(u)
       /\ v = L!D!RemoveAt(u, e)
  BY <1>12, DequeOut
<1>14. u # <<>>
  BY <1>12
<1>15. v = L!D!Front(u)
  BY <1>3, <1>10, <1>11, <1>13
<1> QED BY <1>10, <1>11, <1>14, <1>15 DEF L!D!PopBack

\* Unlink takes out the node it is told, in any place.
LEMMA ListUnlink ==
  ASSUME ListTypes, NEW s, Chain(s), Links(s), NEW e \in 1 .. Len(s), L!Unlink(s[e])
  PROVE  /\ ListInv'
         /\ L!Contents \in Seq(Data) /\ L!Contents' \in Seq(Data)
         /\ Len(L!Contents) = Len(s) /\ TakenOut(L!Contents, L!Contents', e)
<1>1. /\ s \in Seq(Nodes) /\ Len(s) \in Nat /\ Len(s) = nodes
      /\ \A i \in 1 .. Len(s) : s[i] \in Nodes /\ s[i] \in used /\ s[i] # NULL
      /\ \A i, j \in 1 .. Len(s) : s[i] = s[j] <=> i = j
  BY ChainNodes
<1>2. next \in [Nodes -> Nodes \cup {NULL}] /\ prev \in [Nodes -> Nodes \cup {NULL}]
  BY DEF ListTypes
<1>3. front \in Nodes \cup {NULL} /\ back \in Nodes \cup {NULL}
  BY DEF ListTypes
<1>4. used' = used \ {s[e]} /\ nodes' = nodes - 1 /\ data' = data /\ crashed' = crashed
  BY DEF L!Unlink
<1>5. next[s[e]] = AfterIn(s, e) /\ prev[s[e]] = BeforeIn(s, e)
  BY DEF Links
<1>6. \A i \in 1 .. Len(s) : i # e => next'[s[i]] = IF i = e - 1 THEN AfterIn(s, e) ELSE next[s[i]]
  <2>1. CASE e = 1
    <3>1. BeforeIn(s, e) = NULL /\ \A i \in 1 .. Len(s) : i # e - 1
      BY <1>1, <2>1 DEF BeforeIn
    <3>2. next' = next
      BY <1>5, <3>1 DEF L!Unlink
    <3> QED BY <3>1, <3>2
  <2>2. CASE e # 1
    <3>1. e > 1 /\ e - 1 \in 1 .. Len(s)
      BY <1>1, <2>2
    <3>2. BeforeIn(s, e) = s[e - 1] /\ s[e - 1] # NULL /\ s[e - 1] \in Nodes
      BY <1>1, <3>1 DEF BeforeIn
    <3>3. next' = [next EXCEPT ![s[e - 1]] = AfterIn(s, e)]
      BY <1>5, <3>2 DEF L!Unlink
    <3>4. ASSUME NEW i \in 1 .. Len(s)
          PROVE  next'[s[i]] = IF i = e - 1 THEN AfterIn(s, e) ELSE next[s[i]]
      <4>1. s[i] \in Nodes /\ (s[i] = s[e - 1] <=> i = e - 1)
        BY <1>1, <3>1
      <4> QED BY <1>2, <3>2, <3>3, <4>1
    <3> QED BY <3>4
  <2> QED BY <2>1, <2>2
<1>7. \A i \in 1 .. Len(s) : i # e => prev'[s[i]] = IF i = e + 1 THEN BeforeIn(s, e) ELSE prev[s[i]]
  <2>1. CASE e = Len(s)
    <3>1. AfterIn(s, e) = NULL /\ \A i \in 1 .. Len(s) : i # e + 1
      BY <1>1, <2>1 DEF AfterIn
    <3>2. prev' = prev
      BY <1>5, <3>1 DEF L!Unlink
    <3> QED BY <3>1, <3>2
  <2>2. CASE e # Len(s)
    <3>1. e < Len(s) /\ e + 1 \in 1 .. Len(s)
      BY <1>1, <2>2
    <3>2. AfterIn(s, e) = s[e + 1] /\ s[e + 1] # NULL /\ s[e + 1] \in Nodes
      BY <1>1, <3>1 DEF AfterIn
    <3>3. prev' = [prev EXCEPT ![s[e + 1]] = BeforeIn(s, e)]
      BY <1>5, <3>2 DEF L!Unlink
    <3>4. ASSUME NEW i \in 1 .. Len(s)
          PROVE  prev'[s[i]] = IF i = e + 1 THEN BeforeIn(s, e) ELSE prev[s[i]]
      <4>1. s[i] \in Nodes /\ (s[i] = s[e + 1] <=> i = e + 1)
        BY <1>1, <3>1
      <4> QED BY <1>2, <3>2, <3>3, <4>1
    <3> QED BY <3>4
  <2> QED BY <2>1, <2>2
<1>8. AfterIn(s, e) \in Nodes \cup {NULL} /\ BeforeIn(s, e) \in Nodes \cup {NULL}
  <2>1. s[e] \in Nodes
    BY <1>1
  <2> QED BY <1>2, <1>5, <2>1
<1>9. front' = IF e = 1 THEN AfterIn(s, e) ELSE front
  <2>1. CASE e = 1
    <3>1. BeforeIn(s, e) = NULL
      BY <1>1, <2>1 DEF BeforeIn
    <3> QED BY <1>5, <2>1, <3>1 DEF L!Unlink
  <2>2. CASE e # 1
    <3>1. e > 1 /\ e - 1 \in 1 .. Len(s)
      BY <1>1, <2>2
    <3>2. BeforeIn(s, e) # NULL
      BY <1>1, <3>1 DEF BeforeIn
    <3> QED BY <1>5, <2>2, <3>2 DEF L!Unlink
  <2> QED BY <2>1, <2>2
<1>10. back' = IF e = Len(s) THEN BeforeIn(s, e) ELSE back
  <2>1. CASE e = Len(s)
    <3>1. AfterIn(s, e) = NULL
      BY <1>1, <2>1 DEF AfterIn
    <3> QED BY <1>5, <2>1, <3>1 DEF L!Unlink
  <2>2. CASE e # Len(s)
    <3>1. e < Len(s) /\ e + 1 \in 1 .. Len(s)
      BY <1>1, <2>2
    <3>2. AfterIn(s, e) # NULL
      BY <1>1, <3>1 DEF AfterIn
    <3> QED BY <1>5, <2>2, <3>2 DEF L!Unlink
  <2> QED BY <2>1, <2>2
<1>11. front' \in Nodes \cup {NULL} /\ back' \in Nodes \cup {NULL}
  BY <1>3, <1>8, <1>9, <1>10
<1>12. next' \in [Nodes -> Nodes \cup {NULL}] /\ prev' \in [Nodes -> Nodes \cup {NULL}]
  <2>1. next' = next \/ next' = [next EXCEPT ![BeforeIn(s, e)] = AfterIn(s, e)]
    BY <1>5 DEF L!Unlink
  <2>2. prev' = prev \/ prev' = [prev EXCEPT ![AfterIn(s, e)] = BeforeIn(s, e)]
    BY <1>5 DEF L!Unlink
  <2> QED BY <1>2, <1>8, <2>1, <2>2
<1>13. Len(s) > 1 => /\ front' = (IF e = 1 THEN s[2] ELSE front)
                     /\ back' = (IF e = Len(s) THEN s[Len(s) - 1] ELSE back)
  <2>1. ASSUME Len(s) > 1, e = 1 PROVE AfterIn(s, e) = s[2]
    BY <2>1 DEF AfterIn
  <2>2. ASSUME Len(s) > 1, e = Len(s) PROVE BeforeIn(s, e) = s[Len(s) - 1]
    BY <2>2 DEF BeforeIn
  <2> QED BY <1>9, <1>10, <2>1, <2>2
<1>14. Unthreaded(s, e)
  BY <1>6, <1>7, <1>12, <1>13 DEF Unthreaded
<1> QED BY <1>4, <1>11, <1>14, ListTake

\* A walk that meets no freed node is one over the list, empty or not.
LEMMA SaneWalk ==
  ASSUME ListTypes, NEW s, Chain(s), Links(s), L!Sane
  PROVE  L!Walk = s
<1>1. s \in Seq(Nodes) /\ Len(s) \in Nat /\ Len(s) = nodes
  BY ChainNodes
<1>2. CASE nodes = 0
  <2>1. s = <<>>
    BY <1>1, <1>2
  <2> QED BY <1>2, <2>1, WalkNothing
<1>3. CASE nodes # 0
  <2>1. nodes > 0
    BY <1>1, <1>3
  <2> QED BY <2>1, WalkChain
<1> QED BY <1>2, <1>3

\* dll_fifo_remove takes the one it is told.
LEMMA ListRemove ==
  ASSUME ListInv, NEW n \in Nat, L!Remove(n)
  PROVE  ListInv' /\ n + 1 \in 1 .. Len(L!Contents) /\ L!D!RemoveNth(n + 1)
<1>1. PICK s : ListTypes /\ Chain(s) /\ Links(s)
  BY DEF ListInv
<1>2. L!Walk = s
  BY <1>1, SaneWalk DEF L!Remove
<1>3. s \in Seq(Nodes) /\ Len(s) \in Nat
  BY <1>1, ChainNodes
<1>4. PICK e : e = n + 1
  OBVIOUS
<1>5. e \in 1 .. Len(s) /\ L!Unlink(s[e])
  <2>1. n < Len(s) /\ L!Unlink(s[n + 1])
    BY <1>2 DEF L!Remove
  <2> QED BY <1>3, <1>4, <2>1
<1>6. /\ ListInv' /\ L!Contents \in Seq(Data) /\ L!Contents' \in Seq(Data)
      /\ Len(L!Contents) = Len(s) /\ TakenOut(L!Contents, L!Contents', e)
  BY <1>1, <1>5, ListUnlink
<1>7. PICK u, v : u = L!Contents /\ v = L!Contents'
  OBVIOUS
<1>8. u \in Seq(Data) /\ v \in Seq(Data) /\ TakenOut(u, v, e) /\ e \in 1 .. Len(u)
  BY <1>5, <1>6, <1>7
<1>9. /\ e = 1 => v = Tail(u)
      /\ e = Len(u) => v = L!D!Front(u)
      /\ v = L!D!RemoveAt(u, e)
  BY <1>8, DequeOut
<1> QED BY <1>4, <1>6, <1>7, <1>8, <1>9 DEF L!D!RemoveNth

\* dll_fifo_erase takes the first that has the value.
LEMMA ListErase ==
  ASSUME ListInv, NEW d \in Data, L!Erase(d)
  PROVE  ListInv' /\ L!D!Erase(d)
<1>1. PICK s : ListTypes /\ Chain(s) /\ Links(s)
  BY DEF ListInv
<1>2. L!Walk = s
  BY <1>1, SaneWalk DEF L!Erase
<1>3. s \in Seq(Nodes) /\ Len(s) \in Nat
  BY <1>1, ChainNodes
<1>4. PICK e \in 1 .. Len(s) : /\ data[s[e]] = d /\ L!Unlink(s[e])
                               /\ \A j \in 1 .. e - 1 : data[s[j]] # d
  <2>1. DOMAIN s = 1 .. Len(s)
    BY <1>3
  <2> QED BY <1>2, <2>1 DEF L!Erase
<1>5. /\ ListInv' /\ L!Contents \in Seq(Data) /\ L!Contents' \in Seq(Data)
      /\ Len(L!Contents) = Len(s) /\ TakenOut(L!Contents, L!Contents', e)
  BY <1>1, <1>4, ListUnlink
<1>6. PICK u, v : u = L!Contents /\ v = L!Contents'
  OBVIOUS
<1>7. u \in Seq(Data) /\ v \in Seq(Data) /\ TakenOut(u, v, e) /\ Len(u) = Len(s)
  BY <1>5, <1>6
<1>8. /\ e = 1 => v = Tail(u)
      /\ e = Len(u) => v = L!D!Front(u)
      /\ v = L!D!RemoveAt(u, e)
  BY <1>7, DequeOut
<1>9. u = [i \in 1 .. Len(s) |-> data[s[i]]]
  BY <1>1, <1>6, ContentsIs DEF ContentsOfChain
<1>10. e \in 1 .. Len(u) /\ u[e] = d /\ \A j \in 1 .. e - 1 : u[j] # d
  <2>1. \A j \in 1 .. e - 1 : j \in 1 .. Len(s)
    BY <1>3
  <2> QED BY <1>4, <1>7, <1>9, <2>1
<1>11. L!D!RemoveFirst(u, d) = L!D!RemoveAt(u, e)
  BY <1>7, <1>10, ErasedIs
<1>12. v = L!D!RemoveFirst(u, d) /\ \E i \in 1 .. Len(u) : u[i] = d
  BY <1>8, <1>10, <1>11
<1> QED BY <1>5, <1>6, <1>12 DEF L!D!Erase

\* A list of no nodes.
LEMMA NoChain ==
  ASSUME used = {}, nodes = 0
  PROVE  Chain(<<>>) /\ Links(<<>>)
<1>1. <<>> \in Seq(Nodes) /\ Len(<<>>) = 0 /\ 1 .. Len(<<>>) = {}
  OBVIOUS
<1> QED BY <1>1 DEF Chain, Links

\* dll_fifo_clear takes all.
LEMMA ListClear ==
  ASSUME ListInv, L!Clear
  PROVE  ListInv' /\ L!D!Clear
<1>1. PICK s : ListTypes /\ Chain(s) /\ Links(s)
  BY DEF ListInv
<1>2. L!Walk = s
  BY <1>1, SaneWalk DEF L!Clear
<1>3. s \in Seq(Nodes) /\ Len(s) \in Nat /\ DOMAIN s = 1 .. Len(s)
  BY <1>1, ChainNodes
<1>4. /\ used' = used \ {s[i] : i \in 1 .. Len(s)}
      /\ front' = NULL /\ back' = NULL /\ nodes' = 0
      /\ next' = next /\ prev' = prev /\ data' = data /\ crashed' = crashed
  BY <1>2, <1>3 DEF L!Clear
<1>5. used' = {}
  <2>1. used \subseteq Nodes
    BY <1>1 DEF ListTypes
  <2>2. \A x \in used : \E i \in 1 .. Len(s) : s[i] = x
    BY <1>1, <2>1 DEF Chain
  <2> QED BY <1>4, <2>2
<1>6. ListTypes'
  <2>1. nodes' = Cardinality(used')
    BY <1>4, <1>5, FS_EmptySet
  <2> QED BY <1>1, <1>4, <1>5, <2>1 DEF ListTypes
<1>7. Chain(<<>>)' /\ Links(<<>>)'
  <2>1. <<>> \in Seq(Nodes) /\ Len(<<>>) = 0 /\ 1 .. Len(<<>>) = {}
    OBVIOUS
  <2> QED BY <1>4, <1>5, <2>1 DEF Chain, Links
<1>8. L!Contents' = <<>>
  BY <1>4 DEF L!Contents
<1> QED BY <1>6, <1>7, <1>8 DEF ListInv, L!D!Clear

\* Nothing changes but what is known of a crash.
LEMMA ListStays ==
  ASSUME ListInv, UNCHANGED <<next, prev, data, used, nodes, front, back>>,
         crashed' \in BOOLEAN, crashed' => WalkEmpty
  PROVE  ListInv' /\ L!Contents' = L!Contents
<1>1. PICK s : ListTypes /\ Chain(s) /\ Links(s)
  BY DEF ListInv
<1>2. ListTypes'
  BY <1>1 DEF ListTypes
<1>3. Chain(s)'
  BY <1>1 DEF Chain
<1>4. Links(s)'
  BY <1>1 DEF Links, AfterIn, BeforeIn
<1>5. L!Contents = [i \in 1 .. Len(s) |-> data[s[i]]]
  BY <1>1, ContentsIs DEF ContentsOfChain
<1>6. L!Contents' = [i \in 1 .. Len(s) |-> data'[s[i]]]
  BY <1>2, <1>3, <1>4, ContentsAfter
<1> QED BY <1>2, <1>3, <1>4, <1>5, <1>6 DEF ListInv

\* A look changes nothing, and only one at an empty list can meet a freed node.
LEMMA ListLook ==
  ASSUME ListInv, L!Look
  PROVE  ListInv' /\ L!Contents' = L!Contents
<1>1. PICK s : ListTypes /\ Chain(s) /\ Links(s)
  BY DEF ListInv
<1>2. crashed' \in BOOLEAN
  BY DEF L!Look, L!Sane
<1>3. ASSUME crashed' PROVE WalkEmpty
  <2>1. ~L!Sane /\ (WalkEmpty \/ nodes > 0)
    BY <1>3 DEF L!Look, L!MayWalk
  <2>2. ASSUME nodes > 0 PROVE L!Sane
    <3>1. L!Walk = s
      BY <1>1, <2>2, WalkChain
    <3>2. /\ s \in Seq(Nodes) /\ Len(s) \in Nat
          /\ \A i \in 1 .. Len(s) : s[i] \in used
      BY <1>1, ChainNodes
    <3>3. DOMAIN s = 1 .. Len(s)
      BY <3>2
    <3> QED BY <3>1, <3>2, <3>3 DEF L!Sane
  <2> QED BY <2>1, <2>2
<1>4. UNCHANGED <<next, prev, data, used, nodes, front, back>>
  BY DEF L!Look
<1> QED BY <1>2, <1>3, <1>4, ListStays

\* The invariant holds from the start, when the deque is empty.
LEMMA ListInit == ASSUME UtilsInit PROVE ListInv /\ L!D!Init
<1>1. /\ next = [nd \in Nodes |-> NULL] /\ prev = [nd \in Nodes |-> NULL]
      /\ data \in {[nd \in Nodes |-> d] : d \in Data}
      /\ used = {} /\ front = NULL /\ back = NULL /\ nodes = 0 /\ crashed = FALSE
  BY DEF UtilsInit, L!Init
<1>2. data \in [Nodes -> Data]
  BY <1>1
<1>3. ListTypes
  BY <1>1, <1>2, FS_EmptySet DEF ListTypes
<1>4. Chain(<<>>) /\ Links(<<>>)
  BY <1>1, NoChain
<1>5. L!Contents = <<>>
  BY <1>1 DEF L!Contents
<1> QED BY <1>3, <1>4, <1>5 DEF ListInv, L!D!Init

\* A list that is not empty reads the same from both ends.
LEMMA ListBothWays == ASSUME ListInv PROVE L!LinkedBothWays
<1> SUFFICES ASSUME nodes > 0
             PROVE  /\ Len(L!Walk) = nodes /\ L!Walk[nodes] = back /\ prev[front] = NULL
                    /\ \A i \in 2 .. nodes : prev[L!Walk[i]] = L!Walk[i - 1]
  BY DEF L!LinkedBothWays
<1>1. PICK s : ListTypes /\ Chain(s) /\ Links(s)
  BY DEF ListInv
<1>2. L!Walk = s /\ Len(s) = nodes /\ Len(s) \in Nat
  BY <1>1, WalkChain, ChainNodes
<1>3. front = s[1] /\ back = s[Len(s)] /\ 1 \in 1 .. Len(s)
  BY <1>1, <1>2 DEF Links
<1>4. prev[s[1]] = NULL
  BY <1>1, <1>3 DEF Links, BeforeIn
<1>5. ASSUME NEW i \in 2 .. nodes PROVE prev[s[i]] = s[i - 1]
  <2>1. i \in 1 .. Len(s) /\ i > 1
    BY <1>2
  <2> QED BY <1>1, <2>1 DEF Links, BeforeIn
<1> QED BY <1>2, <1>3, <1>4, <1>5

\* Each operation, and what it is to the deque.
LEMMA ListStep ==
  ASSUME ListInv, L!Next
  PROVE  ListInv' /\ (L!D!Next \/ L!Contents' = L!Contents)
<1>1. PICK u : u = L!Contents /\ Len(u) \in Nat
  <2>1. PICK s : ListTypes /\ Chain(s) /\ Links(s)
    BY DEF ListInv
  <2>2. L!Contents = [i \in 1 .. Len(s) |-> data[s[i]]]
    BY <2>1, ContentsIs DEF ContentsOfChain
  <2>3. s \in Seq(Nodes) /\ Len(s) \in Nat /\ data \in [Nodes -> Data]
    BY <2>1, ChainNodes DEF ListTypes
  <2>4. L!Contents \in Seq(Data)
    BY <2>2, <2>3, DataOfChain
  <2> QED BY <2>4
<1>2. nodes \in Nat
  <2>1. PICK s : ListTypes /\ Chain(s) /\ Links(s)
    BY DEF ListInv
  <2> QED BY <2>1, ChainNodes
<1>3. ASSUME NEW x \in Nodes, NEW d \in Data, L!PushBack(x, d)
      PROVE  ListInv' /\ L!D!Next
  <2>1. ListInv' /\ L!D!PushBack(d)
    BY <1>3, ListPushBack
  <2> QED BY <2>1 DEF L!D!Next
<1>4. ASSUME NEW x \in Nodes, NEW d \in Data, L!PushFront(x, d)
      PROVE  ListInv' /\ L!D!Next
  <2>1. ListInv' /\ L!D!PushFront(d)
    BY <1>4, ListPushFront
  <2> QED BY <2>1 DEF L!D!Next
<1>5. ASSUME NEW x \in Nodes, NEW d \in Data, NEW n \in 1 .. nodes, L!Insert(x, d, n)
      PROVE  ListInv' /\ L!D!Next
  <2>1. n \in Nat
    BY <1>2
  <2>2. ListInv' /\ n \in 1 .. Len(L!Contents) - 1 /\ L!D!InsertBefore(d, n)
    BY <1>5, <2>1, ListInsert
  <2> QED BY <2>2 DEF L!D!Next
<1>6. ASSUME NEW n \in 0 .. nodes, L!Remove(n)
      PROVE  ListInv' /\ L!D!Next
  <2>1. n \in Nat
    BY <1>2
  <2>2. ListInv' /\ n + 1 \in 1 .. Len(L!Contents) /\ L!D!RemoveNth(n + 1)
    BY <1>6, <2>1, ListRemove
  <2>3. PICK m : m = n + 1
    OBVIOUS
  <2>4. m \in 1 .. Len(L!Contents) /\ L!D!RemoveNth(m)
    BY <2>2, <2>3
  <2> QED BY <2>2, <2>4 DEF L!D!Next
<1>7. ASSUME NEW d \in Data, L!Erase(d)
      PROVE  ListInv' /\ L!D!Next
  <2>1. ListInv' /\ L!D!Erase(d)
    BY <1>7, ListErase
  <2> QED BY <2>1 DEF L!D!Next
<1>8. L!PopFront => ListInv' /\ L!D!Next
  BY ListPopFront DEF L!D!Next
<1>9. L!PopBack => ListInv' /\ L!D!Next
  BY ListPopBack DEF L!D!Next
<1>10. L!Clear => ListInv' /\ L!D!Next
  BY ListClear DEF L!D!Next
<1>11. L!Look => ListInv' /\ L!Contents' = L!Contents
  BY ListLook
<1>12. \/ \E x \in Nodes, d \in Data : L!PushBack(x, d) \/ L!PushFront(x, d)
       \/ \E x \in Nodes, d \in Data, n \in 1 .. nodes : L!Insert(x, d, n)
       \/ L!PopFront \/ L!PopBack \/ L!Clear \/ L!Look
       \/ \E n \in 0 .. nodes : L!Remove(n)
       \/ \E d \in Data : L!Erase(d)
  BY DEF L!Next
<1> QED BY <1>3, <1>4, <1>5, <1>6, <1>7, <1>8, <1>9, <1>10, <1>11, <1>12

\* A stutter of the list is one of the deque.
LEMMA ListIdle ==
  ASSUME ListInv, UNCHANGED list
  PROVE  ListInv' /\ L!Contents' = L!Contents
<1>1. UNCHANGED <<next, prev, data, used, nodes, front, back>> /\ crashed' = crashed
  BY DEF list
<1>2. crashed' \in BOOLEAN /\ (crashed' => WalkEmpty)
  BY <1>1 DEF ListInv, ListTypes
<1> QED BY <1>1, <1>2, ListStays

-----------------------------------------------------------------------------
(* alsa_ctrl: a pause that succeeded leaves the device in a state that no    *)
(* write can leave, whatever part of its chunk the writer has still to       *)
(* write; and the flag of an abort is set only while no writer has the       *)
(* mutex, so that the chunk before it is complete.                           *)

\* What a pause and an abort leave behind, as long as nobody has the mutex for more.
Settled == /\ quiet => pcm \in {"paused", "setup"}
           /\ abort_flag => left = 0

\* With it the types of the module.
CtrlInv == TypeOK /\ Settled

\* The sizes, one by one.
LEMMA Frames == /\ Buffer \in Nat /\ Chunk \in Nat /\ MaxCalls \in Nat
                /\ Buffer > 0 /\ Chunk > 0 /\ MaxCalls > 0
  BY FrameAssumption

\* A new device.
LEMMA CtrlInit ==
  ASSUME Init
  PROVE  CtrlInv
<1> USE Frames
<1>1. abort_flag \in BOOLEAN /\ quiet \in BOOLEAN
  BY DEF Init
<1>2. QED
  BY <1>1 DEF Init, CtrlInv, TypeOK, Settled

\* The mutex keeps what a pause and an abort rely on.
LEMMA CtrlStep ==
  ASSUME CtrlInv, [Next]_vars
  PROVE  CtrlInv'
<1> USE Frames
<1> USE DEF CtrlInv, TypeOK, Settled, Controls
<1>1. CASE Plays
  BY <1>1 DEF Plays
<1>2. CASE Write
  BY <1>2 DEF Write, Locked
<1>3. CASE Writei
  BY <1>3 DEF Writei, Locked
<1>4. CASE WriteFails
  BY <1>4 DEF WriteFails, Locked
<1>5. ASSUME NEW x \in Controls, Call(x)
      PROVE  CtrlInv'
  BY <1>5 DEF Call
<1>6. CASE Controlled
  <2> USE DEF Has, Locked
  <2>1. CASE Prepare
    <3>1. abort_flag' \in BOOLEAN /\ quiet' \in BOOLEAN
      BY <2>1 DEF Prepare
    <3>2. fill' \in 0 .. Buffer
      BY <2>1 DEF Prepare
    <3>3. QED
      BY <2>1, <3>1, <3>2 DEF Prepare
  <2>2. CASE Pause
    <3>1. abort_flag' \in BOOLEAN /\ quiet' \in BOOLEAN
      BY <2>2 DEF Pause
    <3>2. fill' \in 0 .. Buffer
      BY <2>2 DEF Pause, Dropped
    <3>3. QED
      BY <2>2, <3>1, <3>2 DEF Pause, Dropped
  <2>3. CASE Resume
    <3>1. abort_flag' \in BOOLEAN /\ quiet' \in BOOLEAN
      BY <2>3 DEF Resume
    <3>2. fill' \in 0 .. Buffer
      BY <2>3 DEF Resume
    <3>3. QED
      BY <2>3, <3>1, <3>2 DEF Resume
  <2>4. CASE Abort
    <3>1. abort_flag' \in BOOLEAN /\ quiet' \in BOOLEAN
      BY <2>4 DEF Abort
    <3>2. fill' \in 0 .. Buffer
      BY <2>4 DEF Abort
    <3>3. QED
      BY <2>4, <3>1, <3>2 DEF Abort
  <2>5. CASE ClearIt
    <3>1. abort_flag' \in BOOLEAN /\ quiet' \in BOOLEAN
      BY <2>5 DEF ClearIt
    <3>2. fill' \in 0 .. Buffer
      BY <2>5 DEF ClearIt, Dropped
    <3>3. QED
      BY <2>5, <3>1, <3>2 DEF ClearIt, Dropped
  <2>6. CASE Close
    <3>1. abort_flag' \in BOOLEAN /\ quiet' \in BOOLEAN
      BY <2>6 DEF Close
    <3>2. fill' \in 0 .. Buffer
      BY <2>6 DEF Close
    <3>3. QED
      BY <2>6, <3>1, <3>2 DEF Close
  <2>7. CASE Reset
    <3>1. abort_flag' \in BOOLEAN /\ quiet' \in BOOLEAN
      BY <2>7 DEF Reset
    <3>2. fill' \in 0 .. Buffer
      BY <2>7 DEF Reset
    <3>3. QED
      BY <2>7, <3>1, <3>2 DEF Reset
  <2>8. QED
    BY <1>6, <2>1, <2>2, <2>3, <2>4, <2>5, <2>6, <2>7 DEF Controlled
<1>7. CASE UNCHANGED vars
  BY <1>7 DEF vars
<1>8. QED
  BY <1>1, <1>2, <1>3, <1>4, <1>5, <1>6, <1>7 DEF Next

\* A writer has nothing to give once the flag is set.
LEMMA CtrlAborted ==
  ASSUME CtrlInv, Next, abort_flag
  PROVE  fill' <= fill
<1>0. fill \in Nat /\ left = 0
  BY DEF CtrlInv, TypeOK, Settled
<1>1. ~Writei
  BY <1>0 DEF Writei, Locked
<1>2. fill' = fill \/ fill' = fill - 1 \/ fill' = 0
  BY <1>1 DEF Next, Plays, Write, WriteFails, Call, Controlled, Has, Prepare, Pause,
              Resume, Abort, ClearIt, Close, Reset, Dropped
<1>3. fill - 1 <= fill /\ 0 <= fill
  BY <1>0
<1>4. QED
  BY <1>0, <1>2, <1>3

-----------------------------------------------------------------------------
(* dfq_fifo: whoever was woken was woken by a writer other than itself, so   *)
(* that a writer which adds without looking at the size is the second one.  *)

\* Where a thread may be.
QueuePlaces == {"idle", "wait", "woken", "spin", "timed", "timed woken", "pushed"}

\* The types, one by one.
QueueTypes ==
  /\ size \in Nat /\ pushes \in Nat /\ size <= pushes /\ pushes <= MaxPushes
  /\ wrote \subseteq Writers
  /\ exit \in BOOLEAN /\ holds \in BOOLEAN /\ cycled \in BOOLEAN /\ swallowed \in BOOLEAN
  /\ at \in [Q!Threads -> QueuePlaces]

\* A writer that is woken was so by a writer, and not by itself.
WokenByAnother ==
  /\ \A w \in Writers : at[w] = "pushed" => w \in wrote
  /\ ~exit => \A w \in Writers : at[w] = "woken" => \E v \in wrote : v # w

\* Nobody else has written.
OneWrote == \A v, w \in wrote : v = w

\* The invariant of the queue.
QueueInv == /\ QueueTypes /\ WokenByAnother
            /\ Q!NobodySleepsOnData
            /\ OneWrote /\ ~cycled /\ ~exit => size <= Max

\* The module's own copies of FiniteSets.
LEMMA QueueCardinality == ASSUME NEW T PROVE Q!Cardinality(T) = Cardinality(T)
  BY DEF Q!Cardinality, Cardinality

\* The other copy.
LEMMA QueueFinite == ASSUME NEW T PROVE Q!IsFiniteSet(T) <=> IsFiniteSet(T)
  BY DEF Q!IsFiniteSet, IsFiniteSet

\* A set with at most one element.
LEMMA AtMostOne ==
  ASSUME NEW T, IsFiniteSet(T)
  PROVE  Cardinality(T) <= 1 <=> \A v, w \in T : v = w
<1>1. ASSUME Cardinality(T) <= 1 PROVE \A v, w \in T : v = w
  <2>1. Cardinality(T) = 0 \/ Cardinality(T) = 1
    BY <1>1, FS_CardinalityType
  <2>2. T = {} \/ \E x : T = {x}
    BY <2>1, FS_EmptySet, FS_Singleton
  <2> QED BY <2>2
<1>2. ASSUME \A v, w \in T : v = w PROVE Cardinality(T) <= 1
  <2>1. CASE T = {}
    BY <2>1, FS_EmptySet
  <2>2. CASE T # {}
    <3>1. PICK x \in T : TRUE
      BY <2>2
    <3>2. T = {x}
      BY <1>2, <3>1
    <3> QED BY <3>2, FS_Singleton
  <2> QED BY <2>1, <2>2
<1> QED BY <1>1, <1>2

\* A new queue.
LEMMA QueueInit ==
  ASSUME Q!QueueBounds, Q!Init
  PROVE  QueueInv
<1>1. /\ size = 0 /\ pushes = 0 /\ wrote = {} /\ at = [t \in Q!Threads |-> "idle"]
      /\ Max \in Nat /\ MaxPushes \in Nat
  BY DEF Q!Init, Q!QueueBounds
<1>2. exit = FALSE /\ holds = FALSE /\ cycled = FALSE /\ swallowed = FALSE
  BY DEF Q!Init
<1>3. at \in [Q!Threads -> QueuePlaces] /\ \A t \in Q!Threads : at[t] = "idle"
  BY <1>1 DEF QueuePlaces
<1>4. QueueTypes
  <2>1. exit \in BOOLEAN /\ holds \in BOOLEAN /\ cycled \in BOOLEAN /\ swallowed \in BOOLEAN
    BY <1>2
  <2>2. size \in Nat /\ pushes \in Nat /\ size <= pushes /\ pushes <= MaxPushes
    BY <1>1
  <2>3. wrote \subseteq Writers
    BY <1>1
  <2> QED BY <1>3, <2>1, <2>2, <2>3 DEF QueueTypes
<1>5. WokenByAnother
  <2>1. \A w \in Writers : at[w] = "idle"
    BY <1>3 DEF Q!Threads
  <2> QED BY <2>1 DEF WokenByAnother
<1>6. Q!NobodySleepsOnData /\ size <= Max
  BY <1>1 DEF Q!NobodySleepsOnData
<1> QED BY <1>4, <1>5, <1>6 DEF QueueInv

\* The only reader.
LEMMA OnlyReader ==
  ASSUME Q!QueueBounds, Q!Cardinality(Readers) = 1
  PROVE  \E r : Readers = {r}
  BY QueueCardinality, QueueFinite, FS_Singleton DEF Q!QueueBounds

\* What a writer that adds an element does.
LEMMA QueuePush ==
  ASSUME Q!QueueBounds, QueueTypes, NEW w \in Writers, Q!Push(w), at[w] # "pushed",
         size' \in {size, size + 1}, UNCHANGED <<exit, holds>>,
         cycled' \in BOOLEAN, swallowed' \in BOOLEAN
  PROVE  /\ QueueTypes'
         /\ WokenByAnother => WokenByAnother'
         /\ Q!NobodySleepsOnData'
<1>0. /\ pushes < MaxPushes /\ pushes' = pushes + 1 /\ wrote' = wrote \cup {w}
      /\ at' = [at EXCEPT ![w] = "pushed"] /\ MaxPushes \in Nat /\ w \in Q!Threads
  BY DEF Q!Push, Q!Goes, Q!QueueBounds, Q!Threads
<1>1. QueueTypes'
  <2>1. at' \in [Q!Threads -> QueuePlaces]
    BY <1>0 DEF QueueTypes, QueuePlaces
  <2>2. size' \in Nat /\ pushes' \in Nat /\ size' <= pushes' /\ pushes' <= MaxPushes
    BY <1>0 DEF QueueTypes
  <2>3. exit' \in BOOLEAN /\ holds' \in BOOLEAN
    BY DEF QueueTypes
  <2> QED BY <1>0, <2>1, <2>2, <2>3 DEF QueueTypes
<1>2. at'[w] = "pushed" /\ \A t \in Q!Threads : t # w => at'[t] = at[t]
  BY <1>0 DEF QueueTypes
<1>3. Q!NobodySleepsOnData'
  BY <1>0, <1>2 DEF Q!NobodySleepsOnData
<1>4. WokenByAnother => WokenByAnother'
  BY <1>0, <1>2 DEF WokenByAnother, Q!Threads
<1> QED BY <1>1, <1>3, <1>4

\* What a step does that only moves a thread t to another place.
LEMMA QueueGoes ==
  ASSUME Q!QueueBounds, QueueTypes, NEW t \in Q!Threads, NEW q \in QueuePlaces, Q!Goes(t, q),
         q # "pushed", q = "woken" => t \notin Writers,
         size' \in Nat, size' <= size, UNCHANGED <<exit, pushes, wrote, cycled>>,
         holds' \in BOOLEAN, swallowed' \in BOOLEAN
  PROVE  /\ QueueTypes'
         /\ WokenByAnother => WokenByAnother'
         /\ at'[t] = q
         /\ \A u \in Q!Threads : u # t => at'[u] = at[u]
<1>0. at' = [at EXCEPT ![t] = q]
  BY DEF Q!Goes
<1>1. QueueTypes'
  BY <1>0 DEF QueueTypes
<1>2. at'[t] = q /\ \A u \in Q!Threads : u # t => at'[u] = at[u]
  BY <1>0 DEF QueueTypes
<1>3. WokenByAnother => WokenByAnother'
  BY <1>2 DEF WokenByAnother, Q!Threads
<1> QED BY <1>1, <1>2, <1>3

\* Every step of the queue keeps the invariant.
LEMMA QueueStep ==
  ASSUME Q!QueueBounds, QueueInv, [Q!Next]_queue
  PROVE  QueueInv'
<1>0. /\ QueueTypes /\ WokenByAnother /\ Q!NobodySleepsOnData
      /\ OneWrote /\ ~cycled /\ ~exit => size <= Max
      /\ Max \in Nat /\ Max > 0 /\ MaxPushes \in Nat /\ Long \in BOOLEAN
      /\ Readers \cap Writers = {}
  BY DEF QueueInv, Q!QueueBounds
<1>t. size \in Nat /\ exit \in BOOLEAN /\ cycled \in BOOLEAN /\ holds \in BOOLEAN
      /\ swallowed \in BOOLEAN
  BY <1>0 DEF QueueTypes
<1>1. ASSUME NEW r \in Readers, Q!Read(r) \/ Q!TdRead(r)
      PROVE  QueueInv'
  <2>0. r \in Q!Threads
    BY DEF Q!Threads
  <2>1. \E q \in {"wait", "idle", "spin"} :
          /\ Q!Goes(r, q) /\ (q = "wait" => size' = 0)
    BY <1>1, <1>0, <1>t DEF Q!Read, Q!TdRead
  <2>2. PICK q \in {"wait", "idle", "spin"} : Q!Goes(r, q) /\ (q = "wait" => size' = 0)
    BY <2>1
  <2>3. /\ size' \in Nat /\ size' <= size /\ UNCHANGED <<exit, pushes, wrote, cycled>>
        /\ swallowed' \in BOOLEAN
    BY <1>1, <1>0, <1>t DEF Q!Read, Q!TdRead
  <2>4. holds' \in BOOLEAN
    BY <1>1, <1>0, <1>t DEF Q!Read, Q!TdRead
  <2>5. /\ QueueTypes' /\ WokenByAnother' /\ at'[r] = q
        /\ \A u \in Q!Threads : u # r => at'[u] = at[u]
    BY <1>0, <2>0, <2>2, <2>3, <2>4, QueueGoes DEF QueuePlaces
  <2>6. Q!NobodySleepsOnData'
    <3> SUFFICES ASSUME Q!Cardinality(Readers) = 1, size' > 0, NEW s \in Readers, at'[s] = "wait"
                 PROVE  FALSE
      BY DEF Q!NobodySleepsOnData
    <3>1. s = r
      BY OnlyReader
    <3> QED BY <3>1, <2>2, <2>5
  <2>7. OneWrote' /\ ~cycled' /\ ~exit' => size' <= Max
    BY <1>0, <1>t, <2>3 DEF OneWrote
  <2> QED BY <2>5, <2>6, <2>7 DEF QueueInv
<1>2. ASSUME NEW w \in Writers,
             Q!Write(w) \/ Q!WriteWoken(w) \/ Q!TdWriteEnds(w) \/ Q!CycWrite(w, TRUE)
               \/ Q!CycWrite(w, FALSE), Q!Push(w)
      PROVE  QueueInv'
  <2>1. /\ at[w] # "pushed" /\ size' \in {size, size + 1} /\ UNCHANGED <<exit, holds>>
        /\ swallowed' = swallowed
    <3>1. CASE Q!Write(w)
      BY <3>1 DEF Q!Write
    <3>2. CASE Q!WriteWoken(w)
      BY <3>2 DEF Q!WriteWoken
    <3>3. CASE Q!TdWriteEnds(w)
      <4>1. ~Q!Goes(w, "idle")
        BY <1>0, <1>2 DEF Q!Push, Q!Goes, QueueTypes, Q!Threads
      <4> QED BY <3>3, <4>1 DEF Q!TdWriteEnds
    <3>4. CASE Q!CycWrite(w, TRUE) \/ Q!CycWrite(w, FALSE)
      BY <3>4 DEF Q!CycWrite
    <3> QED BY <1>2, <3>1, <3>2, <3>3, <3>4
  <2>2. cycled' \in BOOLEAN
    BY <1>2, <1>t DEF Q!Write, Q!WriteWoken, Q!TdWriteEnds, Q!CycWrite
  <2>3. QueueTypes' /\ WokenByAnother' /\ Q!NobodySleepsOnData'
    BY <1>0, <1>2, <1>t, <2>1, <2>2, QueuePush
  <2>4. ASSUME OneWrote', ~cycled', ~exit'
        PROVE  size' <= Max
    <3>1. wrote' = wrote \cup {w} /\ exit' = exit
      BY <1>2, <2>1 DEF Q!Push
    <3>2. OneWrote
      BY <2>4, <3>1 DEF OneWrote
    <3>3. at[w] # "woken"
      BY <1>0, <2>4, <3>1 DEF WokenByAnother, OneWrote
    <3>4. ~cycled
      BY <1>2, <2>4 DEF Q!Write, Q!WriteWoken, Q!TdWriteEnds, Q!CycWrite
    <3>5. size <= Max
      BY <1>0, <2>4, <3>1, <3>2, <3>4
    <3>6. size' = size \/ size < Max
      <4>1. CASE Q!Write(w)
        <5>1. ~Q!Goes(w, "wait")
          BY <1>0, <1>2 DEF Q!Push, Q!Goes, QueueTypes, Q!Threads
        <5> QED BY <4>1, <5>1, <1>0, <1>t DEF Q!Write
      <4>2. CASE Q!WriteWoken(w)
        BY <4>2, <3>3 DEF Q!WriteWoken
      <4>3. CASE Q!TdWriteEnds(w)
        <5>1. size >= Max => UNCHANGED size
          BY <4>3 DEF Q!TdWriteEnds
        <5> QED BY <5>1, <1>0, <1>t
      <4>4. CASE Q!CycWrite(w, TRUE)
        BY <4>4 DEF Q!CycWrite
      <4>5. CASE Q!CycWrite(w, FALSE)
        <5>1. ~(size >= Max)
          BY <4>5, <2>4 DEF Q!CycWrite
        <5> QED BY <5>1, <1>0, <1>t
      <4> QED BY <1>2, <4>1, <4>2, <4>3, <4>4, <4>5
    <3> QED BY <3>5, <3>6, <2>1, <1>t, <1>0
  <2> QED BY <2>3, <2>4 DEF QueueInv
<1>3. ASSUME NEW w \in Writers, Q!Write(w) \/ Q!TdWrite(w) \/ Q!TdWriteEnds(w), ~Q!Push(w)
      PROVE  QueueInv'
  <2>0. w \in Q!Threads
    BY DEF Q!Threads
  <2>1. PICK q \in {"wait", "timed", "idle"} :
          /\ Q!Goes(w, q)
          /\ at[w] = "timed woken" => swallowed'
          /\ at[w] \in {"idle", "timed", "timed woken"}
    BY <1>3 DEF Q!Write, Q!TdWrite, Q!TdWriteEnds
  <2>a. UNCHANGED <<size, exit, holds, pushes, wrote, cycled>>
    BY <1>3 DEF Q!Write, Q!TdWrite, Q!TdWriteEnds
  <2>b. swallowed => swallowed'
    BY <1>3 DEF Q!Write, Q!TdWrite, Q!TdWriteEnds
  <2>2. UNCHANGED <<size, exit, holds, pushes, wrote, cycled>> /\ (swallowed => swallowed')
    BY <2>a, <2>b
  <2>3. swallowed' \in BOOLEAN
    BY <1>3, <1>t DEF Q!Write, Q!TdWrite, Q!TdWriteEnds
  <2>4. /\ QueueTypes' /\ WokenByAnother' /\ at'[w] = q
        /\ \A u \in Q!Threads : u # w => at'[u] = at[u]
    <3>1. size' \in Nat /\ size' <= size /\ holds' \in BOOLEAN
      BY <1>t, <2>a
    <3>2. q \in QueuePlaces /\ q # "pushed" /\ q # "woken"
      BY DEF QueuePlaces
    <3> QED BY <1>0, <2>0, <2>1, <2>a, <2>3, <3>1, <3>2, QueueGoes
  <2>5. Q!NobodySleepsOnData'
    <3> SUFFICES ASSUME Q!Cardinality(Readers) = 1, size > 0, NEW r \in Readers, at'[r] = "wait",
                        ~swallowed'
                 PROVE  \E t \in Q!Threads : at'[t] \in {"woken", "timed woken", "pushed"}
      BY <2>2 DEF Q!NobodySleepsOnData
    <3>1. at[r] = "wait"
      BY <1>0, <2>4 DEF Q!Threads
    <3>2. PICK t \in Q!Threads : at[t] \in {"woken", "timed woken", "pushed"}
      BY <1>0, <2>2, <3>1 DEF Q!NobodySleepsOnData
    <3>3. t # w
      BY <2>1, <3>2
    <3> QED BY <2>4, <3>2, <3>3
  <2> QED BY <1>0, <2>2, <2>4, <2>5 DEF QueueInv, OneWrote
<1>4. ASSUME NEW w \in Writers, Q!Signal(w)
      PROVE  QueueInv'
  <2>0. /\ w \in Q!Threads /\ at[w] = "pushed" /\ w \in wrote
        /\ UNCHANGED <<size, exit, holds, pushes, wrote, cycled, swallowed>>
    BY <1>0, <1>4 DEF Q!Threads, Q!Signal, WokenByAnother
  <2>1. CASE Q!Waiting = {}
    <3>1. at' = [at EXCEPT ![w] = "idle"]
      BY <1>4, <2>1 DEF Q!Signal, Q!Goes
    <3>2. at'[w] = "idle" /\ \A u \in Q!Threads : u # w => at'[u] = at[u]
      BY <1>0, <3>1, <2>0 DEF QueueTypes
    <3>3. QueueTypes'
      BY <1>0, <2>0, <3>1 DEF QueueTypes, QueuePlaces
    <3>4. WokenByAnother'
      BY <1>0, <2>0, <3>2 DEF WokenByAnother, Q!Threads
    <3>5. Q!NobodySleepsOnData'
      BY <1>0, <2>0, <2>1, <3>2 DEF Q!NobodySleepsOnData, Q!Waiting, Q!Threads
    <3> QED BY <1>0, <2>0, <3>3, <3>4, <3>5 DEF QueueInv, OneWrote
  <2>2. CASE Q!Waiting # {}
    <3>1. PICK t \in Q!Waiting : at' = [at EXCEPT ![w] = "idle", ![t] = Q!Woken(t)]
      BY <1>4, <2>2 DEF Q!Signal
    <3>2. t \in Q!Threads /\ at[t] \in {"wait", "timed"} /\ t # w
      BY <3>1, <2>0 DEF Q!Waiting
    <3>3. /\ at'[w] = "idle" /\ at'[t] = Q!Woken(t)
          /\ \A u \in Q!Threads : u # w /\ u # t => at'[u] = at[u]
      BY <1>0, <2>0, <3>1, <3>2 DEF QueueTypes
    <3>a. Q!Woken(t) \in {"woken", "timed woken"}
      BY DEF Q!Woken
    <3>4. QueueTypes'
      BY <1>0, <2>0, <3>1, <3>a DEF QueueTypes, QueuePlaces
    <3>5. WokenByAnother'
      BY <1>0, <2>0, <3>2, <3>3, <3>a DEF WokenByAnother, Q!Threads
    <3>6. Q!NobodySleepsOnData'
      BY <3>2, <3>3, <3>a DEF Q!NobodySleepsOnData
    <3> QED BY <1>0, <2>0, <3>4, <3>5, <3>6 DEF QueueInv, OneWrote
  <2> QED BY <2>1, <2>2
<1>5. CASE Q!SetExit
  <2>1. /\ at' = [t \in Q!Threads |-> IF t \in Q!Waiting THEN Q!Woken(t) ELSE at[t]]
        /\ exit' = TRUE /\ UNCHANGED <<size, holds, pushes, wrote, cycled, swallowed>>
    BY <1>5 DEF Q!SetExit
  <2>2. \A t : Q!Woken(t) \in {"woken", "timed woken"}
    BY DEF Q!Woken
  <2>3. QueueTypes'
    BY <1>0, <2>1, <2>2 DEF QueueTypes, QueuePlaces
  <2>4. \A t \in Q!Threads : at'[t] # "wait"
    BY <1>0, <2>1, <2>2 DEF Q!Waiting
  <2>5. WokenByAnother'
    BY <1>0, <2>1, <2>2 DEF WokenByAnother, Q!Threads
  <2>6. Q!NobodySleepsOnData'
    BY <2>4 DEF Q!NobodySleepsOnData, Q!Threads
  <2> QED BY <2>1, <2>3, <2>5, <2>6 DEF QueueInv
<1>6. CASE Q!Clear
  <2>1. size' = 0 /\ UNCHANGED <<exit, at, holds, pushes, wrote, cycled, swallowed>>
    BY <1>6 DEF Q!Clear
  <2>2. QueueTypes'
    BY <1>0, <2>1 DEF QueueTypes
  <2>3. WokenByAnother'
    BY <1>0, <2>1 DEF WokenByAnother
  <2>4. Q!NobodySleepsOnData'
    <3>1. ~(size' > 0)
      BY <2>1
    <3> QED BY <3>1 DEF Q!NobodySleepsOnData
  <2>5. size' <= Max
    <3>1. size' = 0 /\ Max \in Nat
      BY <2>1 DEF Q!QueueBounds
    <3> QED BY <3>1
  <2> QED BY <2>2, <2>3, <2>4, <2>5 DEF QueueInv
<1>7. CASE UNCHANGED queue
  BY <1>0, <1>7 DEF queue, QueueInv, QueueTypes, WokenByAnother, OneWrote, Q!NobodySleepsOnData
<1>8. ASSUME NEW w \in Writers, Q!WriteWoken(w) \/ Q!CycWrite(w, TRUE) \/ Q!CycWrite(w, FALSE)
      PROVE  Q!Push(w)
  BY <1>8 DEF Q!WriteWoken, Q!CycWrite
<1>9. ASSUME NEW w \in Writers,
             Q!Write(w) \/ Q!WriteWoken(w) \/ Q!TdWrite(w) \/ Q!TdWriteEnds(w)
               \/ Q!CycWrite(w, TRUE) \/ Q!CycWrite(w, FALSE)
      PROVE  QueueInv'
  <2>1. CASE Q!TdWrite(w)
    <3>1. CASE Q!Push(w)
      BY <2>1, <3>1, <1>0 DEF Q!TdWrite, Q!Push, Q!Goes, QueueTypes, Q!Threads
    <3> QED BY <1>3, <2>1, <3>1
  <2> QED BY <1>2, <1>3, <1>8, <1>9, <2>1
<1> QED BY <1>1, <1>4, <1>5, <1>6, <1>7, <1>9 DEF Q!Next

\* What the invariant gives.
LEMMA QueueImplies ==
  ASSUME Q!QueueBounds, QueueInv
  PROVE  Q!TypeOK /\ QueueHolds
<1>1. Q!TypeOK
  <2>1. {exit, holds, cycled, swallowed} \subseteq BOOLEAN
    BY DEF QueueInv, QueueTypes
  <2>2. size \in 0 .. MaxPushes /\ pushes \in 0 .. MaxPushes
    BY DEF QueueInv, QueueTypes, Q!QueueBounds
  <2> QED BY <2>1, <2>2 DEF QueueInv, QueueTypes, QueuePlaces, Q!TypeOK
<1>2. ASSUME Q!Cardinality(wrote) <= 1
      PROVE  OneWrote
  <2>1. IsFiniteSet(wrote)
    BY QueueFinite, FS_Subset DEF Q!QueueBounds, QueueInv, QueueTypes
  <2> QED BY <1>2, <2>1, QueueCardinality, AtMostOne DEF OneWrote
<1> QED BY <1>1, <1>2 DEF QueueInv, QueueHolds, Q!KeepsToItsSize

-----------------------------------------------------------------------------
(* vad_op: while nobody speaks the count is that of the loud chunks in a    *)
(* row, and afterwards that of the silent ones.                             *)

\* The invariant of the detection.
VoiceInv ==
  /\ V!TypeOK
  /\ startedConfirmCount \in 0 .. MaxConfirm /\ finishedConfirmCount \in 0 .. MaxConfirm
  /\ savedStatus = "IDEL" => confirmCount = loud
  /\ savedStatus = "STARTED" =>
       loud >= startedConfirmCount /\ confirmCount = 0 /\ silent = 0
  /\ savedStatus = "SPEAKING" =>
       confirmCount = silent /\ (silent < finishedConfirmCount \/ silent <= 1)

\* Nobody has spoken yet.
LEMMA VoiceInit ==
  ASSUME V!ConfirmBounds, V!Init
  PROVE  VoiceInv
  BY DEF V!ConfirmBounds, V!Init, V!TypeOK, VoiceInv

\* A chunk, and what the status was before it.
LEMMA VoiceChunk ==
  ASSUME V!ConfirmBounds, VoiceInv, NEW speaking \in BOOLEAN, V!GetVadStatus(speaking)
  PROVE  /\ VoiceInv'
         /\ savedStatus = "SPEAKING" /\ savedStatus' = "FINISHED"
              => silent' >= finishedConfirmCount
<1> USE DEF V!GetVadStatus, V!AtMost, V!ConfirmBounds, V!TypeOK, VoiceInv
<1>1. CASE savedStatus = "IDEL"
  BY <1>1 DEF V!Idle
<1>2. CASE savedStatus = "STARTED"
  BY <1>2 DEF V!Started
<1>3. CASE savedStatus = "SPEAKING"
  BY <1>3 DEF V!Speaking
<1>4. CASE savedStatus = "FINISHED"
  BY <1>4
<1> QED BY <1>1, <1>2, <1>3, <1>4

\* Every step keeps the invariant, and an end comes after the silence.
LEMMA VoiceStep ==
  ASSUME V!ConfirmBounds, VoiceInv, [V!Next]_vad
  PROVE  /\ VoiceInv'
         /\ [savedStatus = "SPEAKING" /\ savedStatus' = "FINISHED"
               => silent' >= finishedConfirmCount]_vad
<1>1. CASE UNCHANGED vad
  BY <1>1 DEF vad, VoiceInv, V!TypeOK
<1>2. CASE V!Next
  <2>1. PICK unitCount, overTimes : V!GetVadStatus(V!IsChunkSpeaking(unitCount, overTimes))
    BY <1>2 DEF V!Next
  <2>2. V!IsChunkSpeaking(unitCount, overTimes) \in BOOLEAN
    BY DEF V!IsChunkSpeaking
  <2> QED BY <2>1, <2>2, VoiceChunk
<1> QED BY <1>1, <1>2

-----------------------------------------------------------------------------
(* The sound device of allPlay: the pointer is as far as what the device    *)
(* took; a chunk is written only for a player that is neither paused nor    *)
(* idle; and the device has been dropped under the decoder's feet only where *)
(* a pause or a resume is to prepare it.                                    *)

\* The types, one by one.
SoundTypes ==
  /\ canPause \in BOOLEAN /\ pauseFlag \in BOOLEAN /\ stopFlag \in BOOLEAN /\ late \in BOOLEAN
  /\ state \in {"prepared", "running", "paused", "setup", "xrun", "suspended", "closed"}
  /\ dec \in {"none", "due", "fed"}
  /\ status \in {"IDLE", "PLAY", "STOP"} /\ api \in {"idle", "resume", "stop"}
  /\ apiCalls \in 0 .. MaxCalls /\ faults \in 0 .. MaxFaults

\* The frames that the device took and those that are to come.
SoundFrames ==
  /\ c \in Nat /\ p \in Nat /\ c + p <= Chunk /\ (c > 0 => c + p = Chunk)
  /\ given = [i \in 1 .. p |-> i]

\* What the player, the decoder and the device may be at the same time.
SoundStages ==
  /\ c > 0 => dec = "fed" /\ status # "IDLE" /\ ~pauseFlag
  /\ status = "IDLE" => /\ state \in {"prepared", "setup", "closed"}
                        /\ stopFlag \/ dec = "none"
  /\ api = "stop" => stopFlag
  /\ api = "resume" => ~pauseFlag /\ status # "IDLE"
  /\ state \in {"running", "xrun", "suspended", "paused"} => dec = "fed"
  /\ state = "closed" => api = "idle"
  /\ state = "setup" /\ dec = "fed" => ~canPause /\ (pauseFlag \/ api = "resume")
  /\ canPause /\ status = "STOP" => dec = "fed" /\ state \in {"paused", "closed"}
  /\ status = "STOP" /\ ~late => pauseFlag \/ api = "resume"

\* The invariant of the sound device.
SoundInv == SoundTypes /\ SoundFrames /\ SoundStages /\ S!PausedIsQuiet

\* A new player.
LEMMA SoundInit ==
  ASSUME S!ControllerBounds, S!Init
  PROVE  SoundInv
<1>1. SoundTypes
  <2>1. canPause \in BOOLEAN /\ pauseFlag \in BOOLEAN /\ stopFlag \in BOOLEAN /\ late \in BOOLEAN
    BY DEF S!Init
  <2>2. apiCalls \in 0 .. MaxCalls /\ faults \in 0 .. MaxFaults
    BY DEF S!Init, S!ControllerBounds
  <2> QED BY <2>1, <2>2 DEF S!Init, SoundTypes
<1>2. SoundFrames
  BY DEF S!Init, S!ControllerBounds, SoundFrames
<1>3. SoundStages /\ S!PausedIsQuiet
  BY DEF S!Init, SoundStages, S!PausedIsQuiet
<1> QED BY <1>1, <1>2, <1>3 DEF SoundInv

\* The play thread starts a chunk or writes on it.
LEMMA SoundWrite ==
  ASSUME S!ControllerBounds, SoundInv, S!Write \/ S!PushStream
  PROVE  /\ SoundInv'
         /\ c > 0 /\ c' = 0 => Len(given') = Chunk \/ api = "resume"
<1>0. SoundTypes /\ SoundFrames /\ SoundStages /\ S!PausedIsQuiet /\ Chunk \in Nat /\ Chunk > 0
  BY DEF SoundInv, S!ControllerBounds
<1>1. ASSUME NEW n \in 1 .. c, S!Takes(n)
      PROVE  SoundInv' /\ (c' = 0 => Len(given') = Chunk)
  <2>1. /\ c > 0 /\ state \in {"prepared", "running", "paused"}
        /\ given' = given \o S!Frames(n) /\ c' = c - n /\ p' = p + n
        /\ state' = IF state = "prepared" THEN "running" ELSE state
        /\ UNCHANGED <<canPause, status, pauseFlag, stopFlag, dec, late, api, apiCalls, faults>>
    BY <1>1 DEF S!Takes, S!Writing, S!flags, S!bounds
  <2>2. SoundTypes'
    BY <1>0, <2>1 DEF SoundTypes
  <2>3. given' = [i \in 1 .. p' |-> i]
    BY <1>0, <2>1 DEF SoundFrames, S!Frames
  <2>4. SoundFrames'
    BY <1>0, <2>1, <2>3 DEF SoundFrames
  <2>5. SoundStages' /\ S!PausedIsQuiet'
    BY <1>0, <2>1 DEF SoundFrames, SoundStages, S!PausedIsQuiet
  <2>6. Len(given') = p' /\ (c' = 0 => p' = Chunk)
    BY <1>0, <2>1, <2>3 DEF SoundFrames
  <2> QED BY <2>2, <2>4, <2>5, <2>6 DEF SoundInv
<1>2. CASE S!Recovers \/ S!Wakes
  <2>1. /\ state \in {"xrun", "suspended"} /\ state' \in {"prepared", "running"} /\ c > 0
        /\ UNCHANGED <<canPause, c, p, given, status, pauseFlag, stopFlag, dec, late, api,
                       apiCalls, faults>>
    BY <1>2 DEF S!Recovers, S!Wakes, S!Writing, S!flags, S!bounds
  <2>2. SoundTypes'
    BY <1>0, <2>1 DEF SoundTypes
  <2>3. SoundFrames' /\ c' = c
    BY <1>0, <2>1 DEF SoundFrames
  <2>4. SoundStages' /\ S!PausedIsQuiet'
    BY <1>0, <2>1 DEF SoundStages, S!PausedIsQuiet
  <2> QED BY <2>1, <2>2, <2>3, <2>4 DEF SoundInv
<1>3. CASE S!GivesUp
  <2>1. /\ state = "setup" /\ c > 0 /\ c' = 0
        /\ UNCHANGED <<canPause, state, p, given, status, pauseFlag, stopFlag, dec, late, api,
                       apiCalls, faults>>
    BY <1>3 DEF S!GivesUp, S!Writing, S!flags, S!bounds
  <2>2. SoundTypes'
    BY <1>0, <2>1 DEF SoundTypes
  <2>3. SoundFrames'
    BY <1>0, <2>1 DEF SoundFrames
  <2>4. SoundStages' /\ S!PausedIsQuiet'
    BY <1>0, <2>1 DEF SoundStages, S!PausedIsQuiet
  <2>5. api = "resume"
    BY <1>0, <2>1 DEF SoundStages
  <2> QED BY <2>2, <2>3, <2>4, <2>5 DEF SoundInv
<1>4. CASE S!PushStream
  <2>1. /\ dec = "fed" /\ ~(c > 0) /\ ~pauseFlag /\ ~stopFlag /\ state # "closed"
        /\ c' = Chunk /\ p' = 0 /\ given' = <<>>
        /\ UNCHANGED <<canPause, state, status, pauseFlag, stopFlag, dec, late, api,
                       apiCalls, faults>>
    BY <1>4 DEF S!PushStream, S!Writing, S!flags, S!bounds
  <2>2. SoundTypes'
    BY <1>0, <2>1 DEF SoundTypes
  <2>3. SoundFrames'
    BY <1>0, <2>1 DEF SoundFrames
  <2>4. SoundStages' /\ S!PausedIsQuiet'
    BY <1>0, <2>1 DEF SoundStages, S!PausedIsQuiet
  <2> QED BY <2>1, <2>2, <2>3, <2>4 DEF SoundInv
<1> QED BY <1>1, <1>2, <1>3, <1>4 DEF S!Write

\* What the decoder, the device by itself and the calls do: none of them touches a chunk.
LEMMA SoundCall ==
  ASSUME S!ControllerBounds, SoundInv, S!AlsaPrepare \/ S!Fault \/ S!Api
  PROVE  SoundInv' /\ c' = c
<1>0. SoundTypes /\ SoundFrames /\ SoundStages /\ S!PausedIsQuiet
  BY DEF SoundInv
<1>c. UNCHANGED <<canPause, c, p, given>>
  BY DEF S!AlsaPrepare, S!Fault, S!Api, S!Pause, S!Resume, S!AlsaResume, S!Stop, S!AlsaClear,
         S!Play, S!Close, S!device
<1>f. SoundFrames' /\ c' = c /\ c \in Nat
  BY <1>0, <1>c DEF SoundFrames
<1>t. /\ apiCalls' \in 0 .. MaxCalls
      /\ faults' \in 0 .. MaxFaults
  <2>1. UNCHANGED apiCalls \/ S!Calls
    BY DEF S!AlsaPrepare, S!Fault, S!Api, S!Pause, S!Resume, S!AlsaResume, S!Stop, S!AlsaClear,
           S!Play, S!Close, S!bounds
  <2>2. UNCHANGED faults \/ (faults < MaxFaults /\ faults' = faults + 1)
    BY DEF S!AlsaPrepare, S!Fault, S!Api, S!Pause, S!Resume, S!AlsaResume, S!Stop, S!AlsaClear,
           S!Play, S!Close, S!bounds
  <2> QED BY <1>0, <2>1, <2>2 DEF S!ControllerBounds, S!Calls, SoundTypes
<1> USE DEF S!Writing, S!Calls
<1>1. CASE S!AlsaPrepare
  <2>1. SoundTypes'
    BY <1>0, <1>t, <1>1 DEF SoundTypes, S!AlsaPrepare, S!Prepared
  <2>2. SoundStages' /\ S!PausedIsQuiet'
    BY <1>0, <1>1 DEF SoundTypes, SoundStages, S!PausedIsQuiet, S!AlsaPrepare, S!Prepared
  <2> QED BY <1>f, <2>1, <2>2 DEF SoundInv
<1>2. CASE S!Fault
  <2>1. SoundTypes'
    BY <1>0, <1>t, <1>2 DEF SoundTypes, S!Fault, S!flags
  <2>2. SoundStages' /\ S!PausedIsQuiet'
    BY <1>0, <1>2 DEF SoundTypes, SoundStages, S!PausedIsQuiet, S!Fault, S!flags
  <2> QED BY <1>f, <2>1, <2>2 DEF SoundInv
<1>3. CASE S!Pause
  <2>1. SoundTypes'
    BY <1>0, <1>t, <1>3 DEF SoundTypes, S!Pause, S!Pauses
  <2>2. SoundStages' /\ S!PausedIsQuiet'
    BY <1>0, <1>3 DEF SoundTypes, SoundStages, S!PausedIsQuiet, S!Pause, S!Pauses
  <2> QED BY <1>f, <2>1, <2>2 DEF SoundInv
<1>4. CASE S!Resume
  <2>1. SoundTypes'
    BY <1>0, <1>t, <1>4 DEF SoundTypes, S!Resume, S!device
  <2>2. SoundStages' /\ S!PausedIsQuiet'
    BY <1>0, <1>4 DEF SoundTypes, SoundStages, S!PausedIsQuiet, S!Resume, S!device
  <2> QED BY <1>f, <2>1, <2>2 DEF SoundInv
<1>5. CASE S!AlsaResume
  <2>1. SoundTypes'
    <3>1. late' \in BOOLEAN /\ pauseFlag' \in BOOLEAN /\ stopFlag' \in BOOLEAN
      BY <1>0, <1>5 DEF SoundTypes, S!AlsaResume
    <3> QED BY <1>0, <1>t, <1>c, <1>5, <3>1 DEF SoundTypes, S!AlsaResume
  <2>a. PICK awake \in IF state = "suspended" THEN {"running", "suspended"} ELSE {state} :
          /\ late' = (awake = "running")
          /\ IF canPause
             THEN /\ state' = IF awake = "paused" THEN "running" ELSE awake
                  /\ status' = IF awake = "paused" THEN "PLAY" ELSE status
             ELSE /\ state' = IF awake = "running" THEN awake ELSE "prepared"
                  /\ status' = IF awake = "running" THEN status ELSE "PLAY"
    BY <1>5 DEF S!AlsaResume
  <2>b. /\ api = "resume" /\ api' = "idle"
        /\ UNCHANGED <<canPause, c, pauseFlag, stopFlag, dec>>
    BY <1>5 DEF S!AlsaResume
  <2>2. SoundStages' /\ S!PausedIsQuiet'
    <3>1. late' <=> awake = "running"
      BY <2>a
    <3>2. CASE canPause
      <4>1. /\ state' = IF awake = "paused" THEN "running" ELSE awake
            /\ status' = IF awake = "paused" THEN "PLAY" ELSE status
            /\ (state = "suspended" /\ awake \in {"running", "suspended"}) \/ awake = state
        BY <2>a, <3>2
      <4> QED BY <1>0, <2>b, <3>1, <3>2, <4>1 DEF SoundTypes, SoundStages, S!PausedIsQuiet
    <3>3. CASE ~canPause
      <4>1. /\ state' = IF awake = "running" THEN awake ELSE "prepared"
            /\ status' = IF awake = "running" THEN status ELSE "PLAY"
            /\ (state = "suspended" /\ awake \in {"running", "suspended"}) \/ awake = state
        BY <2>a, <3>3
      <4> QED BY <1>0, <2>b, <3>1, <3>3, <4>1 DEF SoundTypes, SoundStages, S!PausedIsQuiet
    <3> QED BY <3>2, <3>3
  <2> QED BY <1>f, <2>1, <2>2 DEF SoundInv
<1>6. CASE S!Stop
  <2>1. SoundTypes'
    BY <1>0, <1>t, <1>6 DEF SoundTypes, S!Stop, S!device
  <2>2. SoundStages' /\ S!PausedIsQuiet'
    BY <1>0, <1>6 DEF SoundTypes, SoundStages, S!PausedIsQuiet, S!Stop, S!device
  <2> QED BY <1>f, <2>1, <2>2 DEF SoundInv
<1>7. CASE S!AlsaClear
  <2>1. SoundTypes'
    BY <1>0, <1>t, <1>7 DEF SoundTypes, S!AlsaClear, S!bounds
  <2>2. SoundStages' /\ S!PausedIsQuiet'
    BY <1>0, <1>7 DEF SoundTypes, SoundStages, S!PausedIsQuiet, S!AlsaClear, S!bounds
  <2> QED BY <1>f, <2>1, <2>2 DEF SoundInv
<1>8. CASE S!Play
  <2>1. SoundTypes'
    BY <1>0, <1>t, <1>8 DEF SoundTypes, S!Play, S!device
  <2>2. SoundStages' /\ S!PausedIsQuiet'
    BY <1>0, <1>8 DEF SoundTypes, SoundStages, S!PausedIsQuiet, S!Play, S!device
  <2> QED BY <1>f, <2>1, <2>2 DEF SoundInv
<1>9. CASE S!Close
  <2>1. SoundTypes'
    BY <1>0, <1>t, <1>9 DEF SoundTypes, S!Close
  <2>2. SoundStages' /\ S!PausedIsQuiet'
    BY <1>0, <1>9 DEF SoundTypes, SoundStages, S!PausedIsQuiet, S!Close
  <2> QED BY <1>f, <2>1, <2>2 DEF SoundInv
<1> QED BY <1>1, <1>2, <1>3, <1>4, <1>5, <1>6, <1>7, <1>8, <1>9 DEF S!Api

\* Every step keeps the invariant, and a chunk ends whole or in a resume.
LEMMA SoundStep ==
  ASSUME S!ControllerBounds, SoundInv, [S!Next]_sound
  PROVE  /\ SoundInv'
         /\ [c > 0 /\ c' = 0 => Len(given') = Chunk \/ api = "resume"]_sound
<1>1. CASE S!Write \/ S!PushStream
  BY <1>1, SoundWrite
<1>2. CASE S!AlsaPrepare \/ S!Fault \/ S!Api
  <2>1. SoundInv' /\ c' = c /\ c \in Nat
    BY <1>2, SoundCall DEF SoundInv, SoundFrames
  <2> QED BY <2>1
<1>3. CASE UNCHANGED sound
  BY <1>3 DEF sound, SoundInv, SoundTypes, SoundFrames, SoundStages, S!PausedIsQuiet
<1> QED BY <1>1, <1>2, <1>3 DEF S!Next

\* The invariant has what the module states of the device.
LEMMA SoundImplies ==
  ASSUME S!ControllerBounds, SoundInv
  PROVE  S!TypeOK /\ S!GivenInOrder /\ S!PausedIsQuiet
<1>1. given \in Seq(1 .. Chunk) /\ c \in 0 .. Chunk /\ p \in 0 .. Chunk /\ S!GivenInOrder
  BY DEF SoundInv, SoundFrames, S!ControllerBounds, S!GivenInOrder
<1>2. {canPause, pauseFlag, stopFlag, late} \subseteq BOOLEAN
  BY DEF SoundInv, SoundTypes
<1> QED BY <1>1, <1>2 DEF SoundInv, SoundTypes, S!TypeOK

-----------------------------------------------------------------------------
(* Base64Tool: a line stands for its block, group by group.                 *)

\* Whole groups of three.
LEMMA GroupsIs ==
  ASSUME NEW n \in Nat
  PROVE  /\ (n + 2) \div 3 \in Nat /\ 3 * ((n + 2) \div 3) >= n /\ 3 * ((n + 2) \div 3) <= n + 2
         /\ B!GetEnSafeOutBytes(n) = 4 * ((n + 2) \div 3)
  BY DEF B!GetEnSafeOutBytes

\* A byte, or what the last group has in its place.
Byte(b, k) == IF k <= Len(b) THEN b[k] ELSE 0

\* The four characters of a group.
Chars(b, g) ==
  <<Byte(b, 3 * g - 2) \div 4,
    (Byte(b, 3 * g - 2) % 4) * 16 + (Byte(b, 3 * g - 1) \div 16),
    IF 3 * g - 1 > Len(b) THEN 64 ELSE (Byte(b, 3 * g - 1) % 16) * 4 + (Byte(b, 3 * g) \div 64),
    IF 3 * g > Len(b) THEN 64 ELSE Byte(b, 3 * g) % 64>>

\* As DataEncode makes them of the bytes of the group.
LEMMA GroupIs ==
  ASSUME NEW b \in Seq(0 .. 255), NEW g \in Nat, g >= 1, 3 * g <= Len(b) + 2
  PROVE  B!Group(SubSeq(b, 3 * g - 2, B!Least(3 * g, Len(b)))) = Chars(b, g)
<1>1. PICK n, e, t : n = Len(b) /\ e = B!Least(3 * g, n) /\ t = SubSeq(b, 3 * g - 2, e)
  OBVIOUS
<1>2. n \in Nat
  BY <1>1
<1>3. /\ e \in Nat /\ e <= n /\ e <= 3 * g /\ (e = n \/ e = 3 * g) /\ 3 * g - 2 <= e
      /\ 3 * g - 2 \in 1 .. n + 1 /\ e \in (3 * g - 2) - 1 .. n
  BY <1>1, <1>2 DEF B!Least
<1>4. PICK f : f = 3 * g - 2
  OBVIOUS
<1>5. /\ Len(t) = e - f + 1 /\ \A i \in 1 .. e - f + 1 : t[i] = b[f + i - 1]
  <2>1. f \in 1 .. Len(b) + 1 /\ e \in f - 1 .. Len(b)
    BY <1>1, <1>3, <1>4
  <2>2. /\ Len(SubSeq(b, f, e)) = e - f + 1
        /\ \A i \in 1 .. e - f + 1 : SubSeq(b, f, e)[i] = b[f + i - 1]
    BY <2>1, SubSeqFacts
  <2> QED BY <1>1, <1>4, <2>2
<1>6. /\ B!At(t, 1) = Byte(b, f) /\ B!At(t, 2) = Byte(b, f + 1) /\ B!At(t, 3) = Byte(b, f + 2)
      /\ Len(t) = 1 <=> f + 1 > n
      /\ Len(t) < 3 <=> f + 2 > n
  <2>1. ASSUME NEW i \in 1 .. 3
        PROVE  B!At(t, i) = Byte(b, f + i - 1)
    <3>1. i <= Len(t) <=> f + i - 1 <= n
      BY <1>2, <1>3, <1>4, <1>5
    <3>2. i <= Len(t) => t[i] = b[f + i - 1]
      BY <1>2, <1>3, <1>4, <1>5
    <3> QED BY <1>1, <3>1, <3>2 DEF B!At, Byte
  <2>2. f + 1 - 1 = f /\ f + 2 - 1 = f + 1 /\ f + 3 - 1 = f + 2
    BY <1>3, <1>4
  <2>3. 1 \in 1 .. 3 /\ 2 \in 1 .. 3 /\ 3 \in 1 .. 3
    OBVIOUS
  <2>4. B!At(t, 1) = Byte(b, f) /\ B!At(t, 2) = Byte(b, f + 1) /\ B!At(t, 3) = Byte(b, f + 2)
    BY <2>1, <2>2, <2>3
  <2> QED BY <1>2, <1>3, <1>4, <1>5, <2>4
<1>7. f = 3 * g - 2 /\ f + 1 = 3 * g - 1 /\ f + 2 = 3 * g
  BY <1>4
<1>8. B!Group(t) = Chars(b, g)
  BY <1>1, <1>6, <1>7 DEF B!Group, B!PAD, Chars
<1> QED BY <1>1, <1>8

LEMMA ByteIs ==
  ASSUME NEW b \in Seq(0 .. 255), NEW k \in Nat, k >= 1
  PROVE  Byte(b, k) \in 0 .. 255
<1>1. PICK n : n = Len(b)
  OBVIOUS
<1>2. n \in Nat /\ \A i \in 1 .. n : b[i] \in 0 .. 255
  <2>1. Len(b) \in Nat /\ \A i \in 1 .. Len(b) : b[i] \in 0 .. 255
    BY ElementOfSeq
  <2> QED BY <1>1, <2>1
<1>3. k <= n => b[k] \in 0 .. 255
  BY <1>2
<1> QED BY <1>1, <1>3 DEF Byte

\* v is the line of b and m the groups it has.
LineOf(b, v, m) == v = B!DataEncode(b) /\ m = (Len(b) + 2) \div 3

\* v has m groups of b.
Encodes(v, b, m) ==
  \A g \in 1 .. m : /\ v[4 * g - 3] = Chars(b, g)[1] /\ v[4 * g - 2] = Chars(b, g)[2]
                     /\ v[4 * g - 1] = Chars(b, g)[3] /\ v[4 * g] = Chars(b, g)[4]

\* The line of a block, character by character.
LEMMA EncodedIs ==
  ASSUME NEW b \in Seq(0 .. 255), NEW v, NEW m, LineOf(b, v, m)
  PROVE  v \in Seq(0 .. 64) /\ Len(v) = 4 * m /\ Encodes(v, b, m)
<1>. v = B!DataEncode(b) /\ m = (Len(b) + 2) \div 3
  BY DEF LineOf
<1>1. Len(b) \in Nat /\ m \in Nat /\ 3 * m <= Len(b) + 2 /\ 3 * m >= Len(b)
  <2>1. Len(b) \in Nat
    OBVIOUS
  <2> QED BY <2>1, GroupsIs
<1>2. ASSUME NEW g \in 1 .. m
      PROVE  B!Group(SubSeq(b, 3 * g - 2, B!Least(3 * g, Len(b)))) = Chars(b, g)
  <2>1. g \in Nat /\ g >= 1 /\ 3 * g <= Len(b) + 2
    BY <1>1
  <2> QED BY <2>1, GroupIs
<1>3. v = [k \in 1 .. 4 * m |->
             B!Group(SubSeq(b, 3 * ((k + 3) \div 4) - 2, B!Least(3 * ((k + 3) \div 4), Len(b))))
               [k - 4 * (((k + 3) \div 4) - 1)]]
  BY DEF B!DataEncode
<1>4. ASSUME NEW k \in 1 .. 4 * m, NEW g, g = (k + 3) \div 4
      PROVE  v[k] = Chars(b, g)[k - 4 * (g - 1)] /\ g \in 1 .. m /\ k - 4 * (g - 1) \in 1 .. 4
  <2>1. g \in 1 .. m /\ k - 4 * (g - 1) \in 1 .. 4
    BY <1>1, <1>4
  <2> QED BY <1>2, <1>3, <1>4, <2>1
<1>5. ASSUME NEW g \in 1 .. m, NEW r \in 1 .. 4
      PROVE  v[4 * (g - 1) + r] = Chars(b, g)[r]
  <2>1. PICK k : k = 4 * (g - 1) + r
    OBVIOUS
  <2>2. k \in 1 .. 4 * m /\ (k + 3) \div 4 = g /\ k - 4 * (g - 1) = r
    BY <1>1, <2>1
  <2> QED BY <1>4, <2>1, <2>2
<1>6. ASSUME NEW g \in 1 .. m
      PROVE  /\ v[4 * g - 3] = Chars(b, g)[1] /\ v[4 * g - 2] = Chars(b, g)[2]
             /\ v[4 * g - 1] = Chars(b, g)[3] /\ v[4 * g] = Chars(b, g)[4]
  <2>1. /\ 4 * g - 3 = 4 * (g - 1) + 1 /\ 4 * g - 2 = 4 * (g - 1) + 2
        /\ 4 * g - 1 = 4 * (g - 1) + 3 /\ 4 * g = 4 * (g - 1) + 4
    BY <1>1
  <2>2. 1 \in 1 .. 4 /\ 2 \in 1 .. 4 /\ 3 \in 1 .. 4 /\ 4 \in 1 .. 4
    OBVIOUS
  <2> QED BY <1>5, <2>1, <2>2
<1>7. ASSUME NEW g \in 1 .. m, NEW r \in 1 .. 4
      PROVE  Chars(b, g)[r] \in 0 .. 64
  <2>1. PICK x, y, z : x = Byte(b, 3 * g - 2) /\ y = Byte(b, 3 * g - 1) /\ z = Byte(b, 3 * g)
    OBVIOUS
  <2>2. x \in 0 .. 255 /\ y \in 0 .. 255 /\ z \in 0 .. 255
    <3>1. /\ 3 * g - 2 \in Nat /\ 3 * g - 2 >= 1 /\ 3 * g - 1 \in Nat /\ 3 * g - 1 >= 1
          /\ 3 * g \in Nat /\ 3 * g >= 1
      BY <1>1
    <3> QED BY <2>1, <3>1, ByteIs
  <2>3. /\ x \div 4 \in 0 .. 64 /\ (x % 4) * 16 + (y \div 16) \in 0 .. 64
        /\ (y % 16) * 4 + (z \div 64) \in 0 .. 64 /\ z % 64 \in 0 .. 64
    BY <2>2
  <2>4. Chars(b, g)[1] \in 0 .. 64 /\ Chars(b, g)[2] \in 0 .. 64
    BY <2>1, <2>3 DEF Chars
  <2>5. Chars(b, g)[3] \in 0 .. 64 /\ Chars(b, g)[4] \in 0 .. 64
    <3>1. PICK n, u, w : n = 64 /\ u = (y % 16) * 4 + (z \div 64) /\ w = z % 64
      OBVIOUS
    <3>2. Chars(b, g)[3] \in {n, u} /\ Chars(b, g)[4] \in {n, w}
      BY <2>1, <3>1 DEF Chars
    <3>3. n \in 0 .. 64 /\ u \in 0 .. 64 /\ w \in 0 .. 64
      BY <2>3, <3>1
    <3> QED BY <3>2, <3>3
  <2>6. r = 1 \/ r = 2 \/ r = 3 \/ r = 4
    OBVIOUS
  <2>7. PICK t : t = Chars(b, g)
    OBVIOUS
  <2>8. t[r] \in 0 .. 64
    BY <2>4, <2>5, <2>6, <2>7
  <2> QED BY <2>7, <2>8
<1>8. \A k \in 1 .. 4 * m : v[k] \in 0 .. 64
  <2> SUFFICES ASSUME NEW k \in 1 .. 4 * m PROVE v[k] \in 0 .. 64
    OBVIOUS
  <2>1. PICK g, j : g = (k + 3) \div 4 /\ j = k - 4 * (g - 1)
    OBVIOUS
  <2>2. v[k] = Chars(b, g)[j] /\ g \in 1 .. m /\ j \in 1 .. 4
    BY <1>4, <2>1
  <2> QED BY <1>7, <2>2
<1>9. v \in [1 .. 4 * m -> 0 .. 64]
  BY <1>3, <1>8
<1>10. v \in Seq(0 .. 64) /\ Len(v) = 4 * m
  <2>1. 4 * m \in Nat
    BY <1>1
  <2>2. PICK n : n = 4 * m
    OBVIOUS
  <2>3. n \in Nat /\ v \in [1 .. n -> 0 .. 64]
    BY <1>9, <2>1, <2>2
  <2>4. v \in Seq(0 .. 64) /\ Len(v) = n
    BY <2>3
  <2> QED BY <2>2, <2>4
<1> QED BY <1>6, <1>10 DEF Encodes

\* A line has pads in place of the bytes that its last group lacks.
LEMMA PadsAre ==
  ASSUME NEW b \in Seq(0 .. 255), NEW v, NEW m, LineOf(b, v, m), NEW k \in 1 .. 4 * m
  PROVE  v[k] = 64 <=> k > 4 * m - (3 * m - Len(b))
<1>. v = B!DataEncode(b) /\ m = (Len(b) + 2) \div 3
  BY DEF LineOf
<1>0. Len(b) \in Nat /\ m \in Nat /\ 3 * m <= Len(b) + 2 /\ 3 * m >= Len(b)
  <2>1. Len(b) \in Nat
    OBVIOUS
  <2> QED BY <2>1, GroupsIs
<1>1. PICK n, g, r : n = Len(b) /\ g = (k + 3) \div 4 /\ r = k - 4 * (g - 1)
  OBVIOUS
<1>2. /\ n \in Nat /\ g \in 1 .. m /\ r \in {1, 2, 3, 4} /\ k = 4 * (g - 1) + r
      /\ 3 * m <= n + 2 /\ 3 * m >= n
  BY <1>0, <1>1
<1>3. PICK x, y, z : x = Byte(b, 3 * g - 2) /\ y = Byte(b, 3 * g - 1) /\ z = Byte(b, 3 * g)
  OBVIOUS
<1>4. x \in 0 .. 255 /\ y \in 0 .. 255 /\ z \in 0 .. 255
  <2>1. /\ 3 * g - 2 \in Nat /\ 3 * g - 2 >= 1 /\ 3 * g - 1 \in Nat /\ 3 * g - 1 >= 1
        /\ 3 * g \in Nat /\ 3 * g >= 1
    BY <1>2
  <2> QED BY <1>3, <2>1, ByteIs
<1>5. /\ x \div 4 < 64 /\ (x % 4) * 16 + (y \div 16) < 64
      /\ (y % 16) * 4 + (z \div 64) < 64 /\ z % 64 < 64
      /\ x \div 4 \in Int /\ (x % 4) * 16 + (y \div 16) \in Int
      /\ (y % 16) * 4 + (z \div 64) \in Int /\ z % 64 \in Int
  BY <1>4
<1>6. PICK s, t, u, w : /\ s = x \div 4 /\ t = (x % 4) * 16 + (y \div 16)
                        /\ u = (y % 16) * 4 + (z \div 64) /\ w = z % 64
  OBVIOUS
<1>7. /\ v[4 * g - 3] = s /\ v[4 * g - 2] = t
      /\ v[4 * g - 1] = (IF 3 * g - 1 > n THEN 64 ELSE u)
      /\ v[4 * g] = (IF 3 * g > n THEN 64 ELSE w)
  <2>1. /\ v[4 * g - 3] = Chars(b, g)[1] /\ v[4 * g - 2] = Chars(b, g)[2]
        /\ v[4 * g - 1] = Chars(b, g)[3] /\ v[4 * g] = Chars(b, g)[4]
    <3>1. Encodes(v, b, m)
      BY EncodedIs
    <3> QED BY <1>2, <3>1 DEF Encodes
  <2>2. /\ Chars(b, g)[1] = s /\ Chars(b, g)[2] = t
        /\ Chars(b, g)[3] = (IF 3 * g - 1 > n THEN 64 ELSE u)
        /\ Chars(b, g)[4] = (IF 3 * g > n THEN 64 ELSE w)
    BY <1>1, <1>3, <1>6 DEF Chars
  <2> QED BY <2>1, <2>2
<1>8. s # 64 /\ t # 64 /\ u # 64 /\ w # 64
  BY <1>5, <1>6
<1>9. CASE r = 1
  <2>1. k = 4 * g - 3 /\ ~(k > 4 * m - (3 * m - n))
    BY <1>2, <1>9
  <2> QED BY <1>1, <1>7, <1>8, <2>1
<1>10. CASE r = 2
  <2>1. k = 4 * g - 2 /\ ~(k > 4 * m - (3 * m - n))
    BY <1>2, <1>10
  <2> QED BY <1>1, <1>7, <1>8, <2>1
<1>11. CASE r = 3
  <2>1. k = 4 * g - 1 /\ (k > 4 * m - (3 * m - n) <=> 3 * g - 1 > n)
    BY <1>2, <1>11
  <2> QED BY <1>1, <1>7, <1>8, <2>1
<1>12. CASE r = 4
  <2>1. k = 4 * g /\ (k > 4 * m - (3 * m - n) <=> 3 * g > n)
    BY <1>2, <1>12
  <2> QED BY <1>1, <1>7, <1>8, <2>1
<1> QED BY <1>2, <1>9, <1>10, <1>11, <1>12

\* w is what v, the line of b with its m groups, has of the first j of them, which
\* stand for n bytes.
PartOf(b, v, m, j, w, n) ==
  LineOf(b, v, m) /\ w = SubSeq(v, 1, 4 * j) /\ n = B!Least(3 * j, Len(b))

\* How many bytes are decoded of a line, or of its first j groups.
Count(w) == (B!Plain(w) * 3) \div 4

LEMMA PlainIs ==
  ASSUME NEW b \in Seq(0 .. 255), NEW v, NEW m, NEW j \in 0 .. m, NEW w, NEW n,
         PartOf(b, v, m, j, w, n)
  PROVE  Count(w) = n /\ n \in 0 .. Len(b) /\ n <= 3 * j
<1>. /\ LineOf(b, v, m) /\ v = B!DataEncode(b) /\ m = (Len(b) + 2) \div 3
     /\ w = SubSeq(v, 1, 4 * j) /\ n = B!Least(3 * j, Len(b))
  BY DEF PartOf, LineOf
<1>0. Len(b) \in Nat /\ m \in Nat /\ 3 * m <= Len(b) + 2 /\ 3 * m >= Len(b)
  <2>1. Len(b) \in Nat
    OBVIOUS
  <2> QED BY <2>1, GroupsIs
<1>1. Len(w) = 4 * j /\ \A k \in 1 .. 4 * j : w[k] = v[k]
  <2>1. v \in Seq(0 .. 64) /\ Len(v) = 4 * m
    BY EncodedIs
  <2>2. 1 \in 1 .. Len(v) + 1 /\ 4 * j \in 1 - 1 .. Len(v)
    BY <1>0, <2>1
  <2>3. /\ Len(w) = 4 * j - 1 + 1
        /\ \A k \in 1 .. 4 * j - 1 + 1 : w[k] = v[1 + k - 1]
    BY <2>1, <2>2, SubSeqFacts
  <2>4. 4 * j - 1 + 1 = 4 * j
    BY <1>0
  <2>5. \A k \in 1 .. 4 * j : 1 + k - 1 = k
    BY <1>0
  <2> QED BY <2>3, <2>4, <2>5
<1>2. PICK T : T = {k \in 1 .. Len(w) : w[k] = 64}
  OBVIOUS
<1>3. T = {k \in 1 .. 4 * j : k > 4 * m - (3 * m - Len(b))}
  <2>1. ASSUME NEW k \in 1 .. 4 * j
        PROVE  w[k] = 64 <=> k > 4 * m - (3 * m - Len(b))
    <3>1. k \in 1 .. 4 * m
      BY <1>0
    <3>2. v[k] = 64 <=> k > 4 * m - (3 * m - Len(b))
      BY <3>1, PadsAre
    <3> QED BY <1>1, <3>2
  <2> QED BY <1>1, <1>2, <2>1
<1>4. B!Plain(w) = IF T = {} THEN 4 * j ELSE B!Min(T) - 1
  BY <1>1, <1>2 DEF B!Plain, B!PAD
<1>5. CASE 3 * j <= Len(b)
  <2>1. T = {}
    BY <1>0, <1>3, <1>5
  <2>2. B!Plain(w) = 4 * j /\ n = 3 * j
    BY <1>0, <1>4, <1>5, <2>1 DEF B!Least
  <2>3. j \in Nat /\ (4 * j * 3) \div 4 = 3 * j
    BY <1>0
  <2>4. Count(w) = n
    BY <2>2, <2>3 DEF Count
  <2> QED BY <1>0, <1>5, <2>2, <2>3, <2>4
<1>6. CASE 3 * j > Len(b)
  <2>1. j = m /\ n = Len(b)
    BY <1>0, <1>6 DEF B!Least
  <2>2. PICK t : t = 4 * m - (3 * m - Len(b)) + 1
    OBVIOUS
  <2>3. t \in Nat /\ t \in T /\ \A k \in T : t <= k
    BY <1>0, <1>3, <1>6, <2>1, <2>2
  <2>4. B!Min(T) = t
    <3>1. T \subseteq Nat
      BY <1>0, <1>3
    <3>2. \E x \in T : \A y \in T : x <= y
      BY <2>3
    <3>3. B!Min(T) \in T /\ \A k \in T : B!Min(T) <= k
      BY <3>2 DEF B!Min
    <3>4. B!Min(T) <= t /\ t <= B!Min(T) /\ B!Min(T) \in Nat /\ t \in Nat
      BY <2>3, <3>1, <3>3
    <3> QED BY <3>4
  <2>5. B!Plain(w) = 4 * m - (3 * m - Len(b))
    BY <1>0, <1>4, <2>2, <2>3, <2>4
  <2>6. PICK u : u = Len(b)
    OBVIOUS
  <2>7. ((4 * m - (3 * m - u)) * 3) \div 4 = u
    BY <1>0, <2>6
  <2>8. Count(w) = n
    BY <2>1, <2>5, <2>6, <2>7 DEF Count
  <2> QED BY <1>0, <1>6, <2>1, <2>8
<1> QED BY <1>0, <1>5, <1>6

\* Three bytes come back from their four characters.
FourOf(x, y, z, s, t, u, w) ==
  /\ s = x \div 4 /\ t = (x % 4) * 16 + (y \div 16)
  /\ u = (y % 16) * 4 + (z \div 64) /\ w = z % 64
ThreeOf(s, t, u, w, x, y, z) ==
  /\ ((s * 4) % 256) + (t \div 16) = x /\ (t % 16) * 16 + (u \div 4) = y
  /\ (u % 4) * 64 + w = z

LEMMA BytesComeBack ==
  ASSUME NEW x \in 0 .. 255, NEW y \in 0 .. 255, NEW z \in 0 .. 255,
         NEW s, NEW t, NEW u, NEW w, FourOf(x, y, z, s, t, u, w)
  PROVE  ThreeOf(s, t, u, w, x, y, z)
<1>1. PICK x1, x0 : x1 = x \div 4 /\ x0 = x % 4
  OBVIOUS
<1>2. PICK y1, y0 : y1 = y \div 16 /\ y0 = y % 16
  OBVIOUS
<1>3. PICK z1, z0 : z1 = z \div 64 /\ z0 = z % 64
  OBVIOUS
<1>4. x1 \in 0 .. 63 /\ x0 \in 0 .. 3 /\ x = 4 * x1 + x0
  BY <1>1
<1>5. y1 \in 0 .. 15 /\ y0 \in 0 .. 15 /\ y = 16 * y1 + y0
  BY <1>2
<1>6. z1 \in 0 .. 3 /\ z0 \in 0 .. 63 /\ z = 64 * z1 + z0
  BY <1>3
<1>7. s = x1 /\ t = x0 * 16 + y1 /\ u = y0 * 4 + z1 /\ w = z0
  BY <1>1, <1>2, <1>3 DEF FourOf
<1>8. (s * 4) % 256 = 4 * x1
  BY <1>4, <1>7
<1>9. t \div 16 = x0 /\ t % 16 = y1
  BY <1>4, <1>5, <1>7
<1>10. u \div 4 = y0 /\ u % 4 = z1
  BY <1>5, <1>6, <1>7
<1>11. 4 * x1 + x0 = x
  BY <1>4
<1>12. ((s * 4) % 256) + (t \div 16) = x
  BY <1>8, <1>9, <1>11
<1>13. (t % 16) * 16 + (u \div 4) = y
  BY <1>5, <1>9, <1>10
<1>14. (u % 4) * 64 + w = z
  BY <1>6, <1>7, <1>10
<1> QED BY <1>12, <1>13, <1>14 DEF ThreeOf

\* What a whole line, or its first j groups, are decoded to is that much of the block.
LEMMA DecodedIs ==
  ASSUME NEW b \in Seq(0 .. 255), NEW v, NEW m, NEW j \in 0 .. m, NEW w, NEW n,
         PartOf(b, v, m, j, w, n)
  PROVE  B!DataDecode(w) = SubSeq(b, 1, n) /\ n \in 0 .. Len(b) /\ n <= 3 * j
<1>. /\ LineOf(b, v, m) /\ v = B!DataEncode(b) /\ m = (Len(b) + 2) \div 3
     /\ w = SubSeq(v, 1, 4 * j) /\ n = B!Least(3 * j, Len(b))
  BY DEF PartOf, LineOf
<1>0. Len(b) \in Nat /\ m \in Nat /\ n \in 0 .. Len(b) /\ n <= 3 * j /\ n \in Nat /\ j \in Nat
  <2>1. Len(b) \in Nat
    OBVIOUS
  <2>2. m \in Nat
    BY <2>1, GroupsIs
  <2>3. n \in 0 .. Len(b) /\ n <= 3 * j
    BY PlainIs
  <2> QED BY <2>1, <2>2, <2>3
<1>1. Len(w) = 4 * j /\ w \in Seq(0 .. 64) /\ \A k \in 1 .. 4 * j : w[k] = v[k]
  <2>1. v \in Seq(0 .. 64) /\ Len(v) = 4 * m
    BY EncodedIs
  <2>2. PICK e : e = 4 * j
    OBVIOUS
  <2>3. e \in 0 .. Len(v)
    BY <1>0, <2>1, <2>2
  <2>4. /\ SubSeq(v, 1, e) \in Seq(0 .. 64) /\ Len(SubSeq(v, 1, e)) = e
        /\ \A k \in 1 .. e : SubSeq(v, 1, e)[k] = v[k]
    BY <2>1, <2>3, BeginningIs
  <2>5. w = SubSeq(v, 1, e)
    BY <2>2
  <2> QED BY <2>2, <2>4, <2>5
<1>2. Encodes(v, b, m)
  BY EncodedIs
<1>3. PICK d : d = B!DataDecode(w)
  OBVIOUS
<1>4. d = [k \in 1 .. n |->
             B!Ungroup(SubSeq(w, 4 * ((k + 2) \div 3) - 3, 4 * ((k + 2) \div 3)))
               [k - 3 * (((k + 2) \div 3) - 1)]]
  <2>1. PICK o : o = Count(w)
    OBVIOUS
  <2>2. Count(w) = n
    BY PlainIs
  <2>3. d = [k \in 1 .. o |->
               B!Ungroup(SubSeq(w, 4 * ((k + 2) \div 3) - 3, 4 * ((k + 2) \div 3)))
                 [k - 3 * (((k + 2) \div 3) - 1)]]
    BY <1>3, <2>1 DEF B!DataDecode, Count
  <2> QED BY <2>1, <2>2, <2>3
<1>5. ASSUME NEW k \in 1 .. n
      PROVE  d[k] = b[k]
  <2>1. PICK g, r : g = (k + 2) \div 3 /\ r = k - 3 * (g - 1)
    OBVIOUS
  <2>2. /\ g \in 1 .. j /\ r \in {1, 2, 3} /\ k = 3 * (g - 1) + r
        /\ k \in Nat /\ k <= Len(b) /\ g \in 1 .. m
    <3>1. k \in Nat /\ k >= 1
      BY <1>0
    <3> QED BY <1>0, <2>1, <3>1
  <2>3. PICK t : t = SubSeq(w, 4 * g - 3, 4 * g)
    OBVIOUS
  <2>4. d[k] = B!Ungroup(t)[r]
    BY <1>4, <2>1, <2>3
  <2>5. t[1] = v[4 * g - 3] /\ t[2] = v[4 * g - 2] /\ t[3] = v[4 * g - 1] /\ t[4] = v[4 * g]
    <3>1. PICK e, f : e = 4 * g - 3 /\ f = 4 * g
      OBVIOUS
    <3>2. /\ e \in Nat /\ f \in Nat /\ e >= 1 /\ f <= 4 * j /\ f = e + 3
          /\ e \in 1 .. Len(w) + 1 /\ f \in e - 1 .. Len(w) /\ f - e + 1 = 4
      BY <1>0, <1>1, <2>2, <3>1
    <3>3. \A i \in 1 .. f - e + 1 : SubSeq(w, e, f)[i] = w[e + i - 1]
      BY <1>1, <3>2, SubSeqFacts
    <3>4. t = SubSeq(w, e, f)
      BY <2>3, <3>1
    <3>5. 1 \in 1 .. f - e + 1 /\ 2 \in 1 .. f - e + 1 /\ 3 \in 1 .. f - e + 1 /\ 4 \in 1 .. f - e + 1
      BY <3>2
    <3>6. t[1] = w[e + 1 - 1] /\ t[2] = w[e + 2 - 1] /\ t[3] = w[e + 3 - 1] /\ t[4] = w[e + 4 - 1]
      BY <3>3, <3>4, <3>5
    <3>7. e + 1 - 1 = 4 * g - 3 /\ e + 2 - 1 = 4 * g - 2 /\ e + 3 - 1 = 4 * g - 1 /\ e + 4 - 1 = 4 * g
      BY <2>2, <3>1
    <3>8. /\ 4 * g - 3 \in 1 .. 4 * j /\ 4 * g - 2 \in 1 .. 4 * j /\ 4 * g - 1 \in 1 .. 4 * j
          /\ 4 * g \in 1 .. 4 * j
      BY <1>0, <2>2
    <3> QED BY <1>1, <3>6, <3>7, <3>8
  <2>6. /\ t[1] = Chars(b, g)[1] /\ t[2] = Chars(b, g)[2]
        /\ t[3] = Chars(b, g)[3] /\ t[4] = Chars(b, g)[4]
    BY <1>2, <2>2, <2>5 DEF Encodes
  <2>7. PICK x, y, z : x = Byte(b, 3 * g - 2) /\ y = Byte(b, 3 * g - 1) /\ z = Byte(b, 3 * g)
    OBVIOUS
  <2>8. x \in 0 .. 255 /\ y \in 0 .. 255 /\ z \in 0 .. 255
    <3>1. /\ 3 * g - 2 \in Nat /\ 3 * g - 2 >= 1 /\ 3 * g - 1 \in Nat /\ 3 * g - 1 >= 1
          /\ 3 * g \in Nat /\ 3 * g >= 1
      BY <2>2
    <3> QED BY <2>7, <3>1, ByteIs
  <2>9. PICK s, q, u, h : FourOf(x, y, z, s, q, u, h)
    BY DEF FourOf
  <2>10. ThreeOf(s, q, u, h, x, y, z)
    BY <2>8, <2>9, BytesComeBack
  <2>11. /\ t[1] = s /\ t[2] = q /\ (3 * g - 1 <= Len(b) => t[3] = u)
         /\ (3 * g <= Len(b) => t[4] = h)
    <3>1. Chars(b, g)[1] = s /\ Chars(b, g)[2] = q
      BY <2>7, <2>9 DEF Chars, FourOf
    <3>2. Chars(b, g)[3] = (IF 3 * g - 1 > Len(b) THEN 64 ELSE u)
      BY <2>7, <2>9 DEF Chars, FourOf
    <3>3. Chars(b, g)[4] = (IF 3 * g > Len(b) THEN 64 ELSE h)
      BY <2>7, <2>9 DEF Chars, FourOf
    <3>4. 3 * g - 1 <= Len(b) => ~(3 * g - 1 > Len(b))
      BY <1>0, <2>2
    <3>5. 3 * g <= Len(b) => ~(3 * g > Len(b))
      BY <1>0, <2>2
    <3> QED BY <2>6, <3>1, <3>2, <3>3, <3>4, <3>5
  <2>12. /\ B!Ungroup(t)[1] = ((t[1] * 4) % 256) + (t[2] \div 16)
         /\ B!Ungroup(t)[2] = (t[2] % 16) * 16 + (t[3] \div 4)
         /\ B!Ungroup(t)[3] = (t[3] % 4) * 64 + t[4]
    BY DEF B!Ungroup
  <2>13. CASE r = 1
    <3>1. k = 3 * g - 2
      BY <2>2, <2>13
    <3>2. x = b[k]
      BY <2>2, <2>7, <3>1 DEF Byte
    <3> QED BY <2>4, <2>10, <2>11, <2>12, <2>13, <3>2 DEF ThreeOf
  <2>14. CASE r = 2
    <3>1. k = 3 * g - 1
      BY <2>2, <2>14
    <3>2. y = b[k]
      BY <2>2, <2>7, <3>1 DEF Byte
    <3>3. t[3] = u
      BY <2>2, <2>11, <3>1
    <3> QED BY <2>4, <2>10, <2>11, <2>12, <2>14, <3>2, <3>3 DEF ThreeOf
  <2>15. CASE r = 3
    <3>1. k = 3 * g /\ 3 * g - 1 <= Len(b)
      BY <1>0, <2>2, <2>15
    <3>2. z = b[k]
      BY <2>2, <2>7, <3>1 DEF Byte
    <3>3. t[3] = u /\ t[4] = h
      BY <2>2, <2>11, <3>1
    <3> QED BY <2>4, <2>10, <2>11, <2>12, <2>15, <3>2, <3>3 DEF ThreeOf
  <2> QED BY <2>2, <2>13, <2>14, <2>15
<1>6. PICK f : f = SubSeq(b, 1, n)
  OBVIOUS
<1>7. f \in Seq(0 .. 255) /\ Len(f) = n /\ \A k \in 1 .. n : f[k] = b[k]
  <2>1. 1 \in 1 .. Len(b) + 1 /\ n \in 1 - 1 .. Len(b)
    BY <1>0
  <2>2. /\ SubSeq(b, 1, n) \in Seq(0 .. 255) /\ Len(SubSeq(b, 1, n)) = n - 1 + 1
        /\ \A k \in 1 .. n - 1 + 1 : SubSeq(b, 1, n)[k] = b[1 + k - 1]
    BY <2>1, SubSeqFacts
  <2>3. n - 1 + 1 = n /\ \A k \in 1 .. n : 1 + k - 1 = k
    BY <1>0
  <2> QED BY <1>6, <2>2, <2>3
<1>8. d = f
  <2>1. f = [k \in 1 .. n |-> f[k]]
    BY <1>7
  <2>2. d = [k \in 1 .. n |-> d[k]]
    BY <1>4
  <2> QED BY <1>5, <1>7, <2>1, <2>2
<1> QED BY <1>0, <1>3, <1>6, <1>8

\* Two sequences with the same elements.
LEMMA SameElements ==
  ASSUME NEW T, NEW s \in Seq(T), NEW t \in Seq(T), Len(s) = Len(t),
         \A k \in 1 .. Len(s) : s[k] = t[k]
  PROVE  s = t
<1>1. PICK n : n = Len(s)
  OBVIOUS
<1>2. s = [k \in 1 .. n |-> s[k]] /\ t = [k \in 1 .. n |-> t[k]]
  BY <1>1
<1> QED BY <1>1, <1>2

\* All of it, and none.
LEMMA WholeIs ==
  ASSUME NEW T, NEW s \in Seq(T)
  PROVE  SubSeq(s, 1, Len(s)) = s /\ SubSeq(s, 1, 0) = << >>
<1>1. Len(s) \in Nat /\ Len(s) \in 0 .. Len(s) /\ 0 \in 0 .. Len(s)
  OBVIOUS
<1>2. SubSeq(s, 1, Len(s)) = s
  BY <1>1, BeginningIs, SameElements
<1>3. SubSeq(s, 1, 0) \in Seq(T) /\ Len(SubSeq(s, 1, 0)) = 0
  BY <1>1, BeginningIs
<1> QED BY <1>2, <1>3

\* b is what f has after its first a elements.
After(f, a, b) == a + Len(b) <= Len(f) /\ \A k \in 1 .. Len(b) : b[k] = f[a + k]

LEMMA Continues ==
  ASSUME NEW T, NEW f \in Seq(T), NEW a \in 0 .. Len(f), NEW b \in Seq(T), After(f, a, b),
         NEW n \in 0 .. Len(b)
  PROVE  SubSeq(f, 1, a) \o SubSeq(b, 1, n) = SubSeq(f, 1, a + n) /\ a + n \in 0 .. Len(f)
<1>1. Len(f) \in Nat /\ Len(b) \in Nat /\ a \in Nat /\ n \in Nat /\ a + n \in 0 .. Len(f)
  BY DEF After
<1>2. PICK u, w, t, s : /\ u = SubSeq(f, 1, a) /\ w = SubSeq(b, 1, n) /\ t = SubSeq(f, 1, a + n)
                        /\ s = u \o w
  OBVIOUS
<1>3. u \in Seq(T) /\ Len(u) = a /\ \A k \in 1 .. a : u[k] = f[k]
  BY <1>2, BeginningIs
<1>4. w \in Seq(T) /\ Len(w) = n /\ \A k \in 1 .. n : w[k] = b[k]
  BY <1>2, BeginningIs
<1>5. t \in Seq(T) /\ Len(t) = a + n /\ \A k \in 1 .. a + n : t[k] = f[k]
  BY <1>1, <1>2, BeginningIs
<1>6. /\ s \in Seq(T) /\ Len(s) = a + n /\ \A k \in 1 .. a : s[k] = u[k]
      /\ \A k \in 1 .. n : s[a + k] = w[k]
  BY <1>2, <1>3, <1>4, Joined
<1>7. ASSUME NEW k \in 1 .. a + n PROVE s[k] = t[k]
  <2>1. CASE k <= a
    <3>1. k \in 1 .. a
      BY <1>1, <2>1
    <3> QED BY <1>3, <1>5, <1>6, <3>1
  <2>2. CASE k > a
    <3>1. PICK i : i = k - a
      OBVIOUS
    <3>2. i \in 1 .. n /\ k = a + i /\ i \in 1 .. Len(b)
      BY <1>1, <2>2, <3>1
    <3>3. s[k] = b[i] /\ b[i] = f[a + i]
      BY <1>4, <1>6, <3>2 DEF After
    <3> QED BY <1>5, <3>2, <3>3
  <2> QED BY <1>1, <2>1, <2>2
<1>8. s = t
  BY <1>5, <1>6, <1>7, SameElements
<1> QED BY <1>1, <1>2, <1>8

-----------------------------------------------------------------------------
\* Where block i of e bytes begins.
StartOf(e, i) == (i - 1) * e

LEMMA StartNext ==
  ASSUME NEW e \in Nat, NEW i \in Nat, i >= 1
  PROVE  /\ StartOf(e, i) \in Nat /\ StartOf(e, i + 1) = StartOf(e, i) + e /\ StartOf(e, 1) = 0
<1>1. PICK k : k = i - 1
  OBVIOUS
<1>2. k \in Nat /\ i = k + 1
  BY <1>1
<1>3. k * e \in Nat /\ (k + 1) * e = k * e + e /\ 0 * e = 0
  BY <1>2
<1>4. StartOf(e, i) = k * e
  BY <1>1 DEF StartOf
<1>5. StartOf(e, i + 1) = (k + 1) * e
  <2>1. (i + 1) - 1 = k + 1
    BY <1>2
  <2> QED BY <2>1 DEF StartOf
<1>6. StartOf(e, 1) = 0
  <2>1. 1 - 1 = 0
    OBVIOUS
  <2> QED BY <1>3, <2>1 DEF StartOf
<1> QED BY <1>3, <1>4, <1>5, <1>6

\* b is the block of f of at most e bytes that begins after the first a.
BlockOf(f, e, a, b) ==
  /\ f \in Seq(0 .. 255) /\ e \in Nat /\ e >= 1 /\ a \in Nat /\ a <= Len(f)
  /\ b = SubSeq(f, a + 1, B!Least(a + e, Len(f)))

LEMMA BlockIs ==
  ASSUME NEW f, NEW e, NEW a, NEW b, BlockOf(f, e, a, b)
  PROVE  /\ b \in Seq(0 .. 255) /\ Len(b) \in Nat /\ Len(b) <= e
         /\ a + Len(b) = B!Least(a + e, Len(f)) /\ After(f, a, b)
<1>0. f \in Seq(0 .. 255) /\ Len(f) \in Nat /\ e \in Nat /\ e >= 1 /\ a \in Nat /\ a <= Len(f)
  BY DEF BlockOf
<1>1. PICK n, i : n = B!Least(a + e, Len(f)) /\ i = a + 1
  OBVIOUS
<1>2. n \in Nat /\ n >= a /\ n <= Len(f) /\ n <= a + e
  BY <1>0, <1>1 DEF B!Least
<1>3. i \in 1 .. Len(f) + 1 /\ n \in i - 1 .. Len(f) /\ i \in Nat
  BY <1>0, <1>1, <1>2
<1>4. /\ SubSeq(f, i, n) \in Seq(0 .. 255) /\ Len(SubSeq(f, i, n)) = n - i + 1
      /\ \A k \in 1 .. n - i + 1 : SubSeq(f, i, n)[k] = f[i + k - 1]
  BY <1>0, <1>3, SubSeqFacts
<1>5. b = SubSeq(f, i, n)
  BY <1>1 DEF BlockOf
<1>6. n - i + 1 = n - a /\ \A k \in 1 .. n - a : i + k - 1 = a + k
  BY <1>0, <1>1, <1>2
<1>7. b \in Seq(0 .. 255) /\ Len(b) = n - a /\ \A k \in 1 .. n - a : b[k] = f[a + k]
  BY <1>4, <1>5, <1>6
<1>8. Len(b) \in Nat /\ Len(b) <= e /\ a + Len(b) = n /\ a + Len(b) <= Len(f)
  BY <1>0, <1>2, <1>7
<1> QED BY <1>1, <1>7, <1>8 DEF After

-----------------------------------------------------------------------------
CodeTypes ==
  /\ file \in Seq(Bytes) /\ file \in Seq(0 .. 255) /\ output \in Seq(0 .. 255)
  /\ eniBytes \in 1 .. MaxBlock /\ dniBytes \in 1 .. MaxBlock
  /\ pos \in 0 .. Len(file) /\ lines \in Seq(Seq(0 .. 64)) /\ line \in 1 .. Len(lines) + 1
  /\ phase \in {"encode", "decode", "done"}

\* v is the line of the block of f that begins after the first a bytes.
LineAt(f, e, a, v) == \E b : BlockOf(f, e, a, b) /\ v = B!DataEncode(b)

\* Each line stands for the block of its number.
CodeLines == \A i \in 1 .. Len(lines) : LineAt(file, eniBytes, StartOf(eniBytes, i), lines[i])

\* The encoder is at the end of the last of them until it has read the whole file.
CodeRead ==
  IF phase = "encode"
  THEN pos = StartOf(eniBytes, Len(lines) + 1) /\ output = << >> /\ line = 1
  ELSE StartOf(eniBytes, Len(lines) + 1) > Len(file)

\* The decoder has given back the blocks of the lines it read.
CodeGiven ==
  /\ phase = "decode" =>
       output = SubSeq(file, 1, B!Least(StartOf(eniBytes, line), Len(file)))
  /\ phase = "done" =>
       /\ \E n \in 0 .. Len(file) : output = SubSeq(file, 1, n)
       /\ B!EnoBytes(eniBytes) <= B!EnoBytes(dniBytes) => output = file

\* The invariant of Base64Tool.
CodeInv == CodeTypes /\ CodeLines /\ CodeRead /\ CodeGiven

LEMMA CodeInit ==
  ASSUME B!Base64Bounds, B!Init
  PROVE  CodeInv
<1>1. PICK n \in 0 .. MaxFile : file \in [1 .. n -> Bytes]
  BY DEF B!Init
<1>2. n \in Nat /\ Bytes \subseteq 0 .. 255 /\ MaxBlock \in Nat
  BY <1>1 DEF B!Base64Bounds
<1>3. file \in Seq(Bytes)
  BY <1>1, <1>2
<1>4. file \in Seq(0 .. 255) /\ Len(file) \in Nat
  <2>1. file \in [1 .. n -> 0 .. 255]
    BY <1>1, <1>2
  <2> QED BY <1>2, <2>1
<1>5. lines = << >> /\ Len(lines) = 0 /\ lines \in Seq(Seq(0 .. 64)) /\ output \in Seq(0 .. 255)
  BY DEF B!Init
<1>6. CodeTypes
  BY <1>3, <1>4, <1>5 DEF B!Init, CodeTypes
<1>7. CodeLines
  BY <1>5 DEF CodeLines
<1>8. CodeRead
  <2>1. eniBytes \in Nat /\ StartOf(eniBytes, 1) = 0
    BY <1>2, <1>6, StartNext DEF CodeTypes
  <2> QED BY <1>5, <2>1 DEF B!Init, CodeRead
<1>9. CodeGiven
  BY DEF B!Init, CodeGiven
<1> QED BY <1>6, <1>7, <1>8, <1>9 DEF CodeInv

\* A block, its line.
LEMMA BlockLine ==
  ASSUME NEW b \in Seq(0 .. 255), NEW v, v = B!DataEncode(b)
  PROVE  v \in Seq(0 .. 64) /\ Len(v) = B!GetEnSafeOutBytes(Len(b))
<1>1. PICK m : m = (Len(b) + 2) \div 3
  OBVIOUS
<1>2. LineOf(b, v, m)
  BY <1>1 DEF LineOf
<1>3. v \in Seq(0 .. 64) /\ Len(v) = 4 * m
  BY <1>2, EncodedIs
<1>4. Len(b) \in Nat
  OBVIOUS
<1>5. B!GetEnSafeOutBytes(Len(b)) = 4 * m
  BY <1>1, <1>4, GroupsIs
<1> QED BY <1>3, <1>5

LEMMA CodeEncodes ==
  ASSUME B!Base64Bounds, CodeInv, B!EncodeLine
  PROVE  CodeInv'
<1>1. PICK a, e, o, n, b, v :
        /\ a = pos /\ e = eniBytes /\ o = Len(file) /\ n = B!Least(e, o - a)
        /\ b = SubSeq(file, a + 1, a + n) /\ v = B!DataEncode(b)
  OBVIOUS
<1>2. /\ phase = "encode" /\ lines' = Append(lines, v) /\ pos' = a + n
      /\ phase' = (IF n < e THEN "decode" ELSE "encode")
      /\ UNCHANGED <<file, eniBytes, dniBytes, line, output>>
  BY <1>1 DEF B!EncodeLine
<1>3. /\ a \in Nat /\ e \in Nat /\ e >= 1 /\ o \in Nat /\ a <= o /\ n \in Nat /\ n <= e
      /\ a + n = B!Least(a + e, o) /\ a + n <= o /\ (n < e <=> a + e > o)
      /\ (n = e => a + n = a + e)
  <2>1. /\ a \in Nat /\ e \in Nat /\ e >= 1 /\ o \in Nat /\ a <= o
    BY <1>1 DEF CodeInv, CodeTypes, B!Base64Bounds
  <2> QED BY <1>1, <2>1 DEF B!Least
<1>4. BlockOf(file, e, a, b)
  BY <1>1, <1>3 DEF BlockOf, CodeInv, CodeTypes
<1>5. v \in Seq(0 .. 64)
  <2>1. b \in Seq(0 .. 255)
    BY <1>4, BlockIs
  <2> QED BY <1>1, <2>1, BlockLine
<1>6. PICK l : l = Len(lines)
  OBVIOUS
<1>7. l \in Nat /\ lines \in Seq(Seq(0 .. 64))
  BY <1>6 DEF CodeInv, CodeTypes
<1>8. /\ lines' \in Seq(Seq(0 .. 64)) /\ Len(lines') = l + 1 /\ lines'[l + 1] = v
      /\ \A i \in 1 .. l : lines'[i] = lines[i]
  BY <1>2, <1>5, <1>6, <1>7
<1>9. a = StartOf(e, l + 1) /\ output = << >> /\ line = 1
  BY <1>1, <1>2, <1>6 DEF CodeInv, CodeRead
<1>10. StartOf(e, l + 1 + 1) = a + e /\ StartOf(e, 1) = 0
  <2>1. l + 1 \in Nat /\ l + 1 >= 1
    BY <1>7
  <2> QED BY <1>3, <1>9, <2>1, StartNext
<1>11. CodeTypes'
  <2>1. line \in 1 .. l + 1 + 1
    BY <1>7, <1>9
  <2>2. a + n \in 0 .. o
    BY <1>3
  <2> QED BY <1>1, <1>2, <1>8, <2>1, <2>2 DEF CodeInv, CodeTypes
<1>12. CodeLines'
  <2>1. LineAt(file, e, a, v)
    BY <1>1, <1>4 DEF LineAt
  <2>2. ASSUME NEW i \in 1 .. l + 1 PROVE LineAt(file, e, StartOf(e, i), lines'[i])
    <3>1. CASE i = l + 1
      BY <1>8, <1>9, <2>1, <3>1
    <3>2. CASE i # l + 1
      <4>1. i \in 1 .. l
        BY <1>7, <3>2
      <4> QED BY <1>1, <1>6, <1>8, <4>1 DEF CodeInv, CodeLines
    <3> QED BY <3>1, <3>2
  <2> QED BY <1>1, <1>2, <1>8, <2>2 DEF CodeLines
<1>13. CodeRead'
  <2>1. CASE n < e
    <3>1. phase' = "decode" /\ StartOf(e, l + 1 + 1) > o
      BY <1>2, <1>3, <1>10, <2>1
    <3> QED BY <1>1, <1>2, <1>8, <3>1 DEF CodeRead
  <2>2. CASE ~(n < e)
    <3>1. phase' = "encode" /\ pos' = StartOf(e, l + 1 + 1)
      BY <1>2, <1>3, <1>10, <2>2
    <3> QED BY <1>1, <1>2, <1>8, <1>9, <3>1 DEF CodeRead
  <2> QED BY <2>1, <2>2
<1>14. CodeGiven'
  <2>1. SubSeq(file, 1, 0) = << >>
    BY WholeIs DEF CodeInv, CodeTypes
  <2>2. B!Least(0, o) = 0
    BY <1>3 DEF B!Least
  <2>3. phase' # "done"
    BY <1>2
  <2>4. output' = SubSeq(file, 1, B!Least(StartOf(e, line), o))
    BY <1>2, <1>9, <1>10, <2>1, <2>2
  <2> QED BY <1>1, <1>2, <2>3, <2>4 DEF CodeGiven
<1> QED BY <1>11, <1>12, <1>13, <1>14 DEF CodeInv

LEMMA CodeDecodes ==
  ASSUME B!Base64Bounds, CodeInv, B!DecodeLine
  PROVE  CodeInv'
<1>1. PICK e, d, o, l, i : /\ e = eniBytes /\ d = dniBytes /\ o = Len(file) /\ l = Len(lines)
                            /\ i = line
  OBVIOUS
<1>2. /\ e \in Nat /\ e >= 1 /\ d \in Nat /\ d >= 1 /\ o \in Nat /\ l \in Nat /\ i \in 1 .. l + 1
      /\ file \in Seq(0 .. 255)
  BY <1>1 DEF CodeInv, CodeTypes, B!Base64Bounds
<1>3. /\ phase = "decode" /\ UNCHANGED <<file, eniBytes, dniBytes, pos, lines>>
      /\ output = SubSeq(file, 1, B!Least(StartOf(e, i), o)) /\ StartOf(e, l + 1) > o
  BY <1>1 DEF B!DecodeLine, CodeInv, CodeRead, CodeGiven
<1>4. CodeLines'
  BY <1>3 DEF CodeInv, CodeLines
<1>5. phase' # "encode" => CodeRead'
  BY <1>1, <1>3 DEF CodeRead
<1>6. CASE i > l
  <2>1. phase' = "done" /\ UNCHANGED <<line, output>>
    BY <1>1, <1>6 DEF B!DecodeLine
  <2>2. i = l + 1 /\ i \in Nat /\ i >= 1
    BY <1>2, <1>6
  <2>3. StartOf(e, l + 1) \in Nat
    BY <1>2, <2>2, StartNext
  <2>4. B!Least(StartOf(e, i), o) = o
    BY <1>2, <1>3, <2>2, <2>3 DEF B!Least
  <2>5. output = file /\ output = SubSeq(file, 1, o)
    BY <1>1, <1>2, <1>3, <2>4, WholeIs
  <2>6. o \in 0 .. o
    BY <1>2
  <2>7. CodeGiven'
    BY <1>1, <1>3, <2>1, <2>5, <2>6 DEF CodeGiven
  <2>8. CodeTypes'
    BY <1>3, <2>1 DEF CodeInv, CodeTypes
  <2> QED BY <1>4, <1>5, <2>1, <2>7, <2>8 DEF CodeInv
<1>7. CASE i <= l
  <2>1. PICK v, k, w : /\ v = lines[i] /\ k = B!EnoBytes(d) - 1
                       /\ w = SubSeq(v, 1, B!Least(Len(v), k))
    OBVIOUS
  <2>2. /\ output' = output \o B!DataDecode(w) /\ line' = i + 1
        /\ phase' = (IF v = << >> \/ ~(Len(v) <= k) THEN "done" ELSE phase)
    BY <1>1, <1>2, <1>7, <2>1 DEF B!DecodeLine, B!Fits
  <2>3. PICK a : a = StartOf(e, i)
    OBVIOUS
  <2>4. PICK b : BlockOf(file, e, a, b) /\ v = B!DataEncode(b)
    <3>1. i \in 1 .. l
      BY <1>2, <1>7
    <3> QED BY <1>1, <2>1, <2>3, <3>1 DEF CodeInv, CodeLines, LineAt
  <2>5. /\ b \in Seq(0 .. 255) /\ Len(b) \in Nat /\ Len(b) <= e
        /\ a + Len(b) = B!Least(a + e, o) /\ After(file, a, b)
    BY <1>1, <2>4, BlockIs
  <2>6. a \in Nat /\ a <= o /\ StartOf(e, i + 1) = a + e
    <3>1. i \in Nat /\ i >= 1
      BY <1>2
    <3>2. a <= o
      BY <1>1, <2>4 DEF BlockOf
    <3> QED BY <1>2, <2>3, <3>1, <3>2, StartNext
  <2>7. output = SubSeq(file, 1, a)
    <3>1. B!Least(a, o) = a
      BY <1>2, <2>6 DEF B!Least
    <3> QED BY <1>3, <2>3, <3>1
  <2>8. PICK m, h, j, n : /\ m = (Len(b) + 2) \div 3 /\ h = (d + 2) \div 3
                           /\ j = B!Least(m, h) /\ n = B!Least(3 * j, Len(b))
    OBVIOUS
  <2>9. /\ m \in Nat /\ h \in Nat /\ 3 * m >= Len(b) /\ 3 * m <= Len(b) + 2
        /\ j \in 0 .. m /\ 4 * j = B!Least(4 * m, 4 * h) /\ j \in Nat
        /\ (m <= h => n = Len(b)) /\ (m = 0 => Len(b) = 0)
    <3>1. m \in Nat /\ h \in Nat /\ 3 * m >= Len(b) /\ 3 * m <= Len(b) + 2
      BY <1>2, <2>5, <2>8, GroupsIs
    <3>2. j \in 0 .. m /\ 4 * j = B!Least(4 * m, 4 * h) /\ j \in Nat
      BY <2>8, <3>1 DEF B!Least
    <3>3. m <= h => n = Len(b)
      BY <2>5, <2>8, <3>1 DEF B!Least
    <3> QED BY <2>5, <3>1, <3>2, <3>3
  <2>10. LineOf(b, v, m)
    BY <2>4, <2>8 DEF LineOf
  <2>11. v \in Seq(0 .. 64) /\ Len(v) = 4 * m
    BY <2>5, <2>10, EncodedIs
  <2>12. k = 4 * h
    <3>1. B!GetEnSafeOutBytes(d) = 4 * h
      BY <1>2, <2>8, GroupsIs
    <3> QED BY <2>1, <2>9, <3>1 DEF B!EnoBytes
  <2>13. w = SubSeq(v, 1, 4 * j)
    BY <2>1, <2>9, <2>11, <2>12
  <2>14. PartOf(b, v, m, j, w, n)
    BY <2>8, <2>10, <2>13 DEF PartOf
  <2>15. B!DataDecode(w) = SubSeq(b, 1, n) /\ n \in 0 .. Len(b)
    BY <2>5, <2>9, <2>14, DecodedIs
  <2>16. output' = SubSeq(file, 1, a + n) /\ a + n \in 0 .. o
    <3>1. a \in 0 .. o
      BY <1>2, <2>6
    <3>2. SubSeq(file, 1, a) \o SubSeq(b, 1, n) = SubSeq(file, 1, a + n) /\ a + n \in 0 .. Len(file)
      BY <1>1, <1>2, <2>5, <2>15, <3>1, Continues
    <3> QED BY <1>1, <2>2, <2>7, <2>15, <3>2
  <2>17. CodeTypes'
    <3>1. output' \in Seq(0 .. 255)
      BY <1>1, <1>2, <2>16, BeginningIs
    <3>2. line' \in 1 .. l + 1
      BY <1>2, <1>7, <2>2
    <3>3. phase' \in {"encode", "decode", "done"}
      BY <1>3, <2>2
    <3> QED BY <1>1, <1>3, <3>1, <3>2, <3>3 DEF CodeInv, CodeTypes
  <2>18. phase' # "encode"
    BY <1>3, <2>2
  <2>19. CASE v = << >>
    <3>1. Len(v) = 0
      BY <2>19
    <3>2. m = 0
      BY <2>9, <2>11, <3>1
    <3>3. Len(b) = 0
      BY <2>9, <3>2
    <3>4. n = 0
      BY <2>15, <3>3
    <3>5. a = o
      BY <1>2, <2>5, <2>6, <3>3 DEF B!Least
    <3>6. output' = file
      BY <1>1, <1>2, <2>6, <2>16, <3>4, <3>5, WholeIs
    <3>7. phase' = "done"
      BY <2>2, <2>19
    <3>8. CodeGiven'
      BY <1>1, <1>3, <2>16, <3>6, <3>7 DEF CodeGiven
    <3> QED BY <1>4, <1>5, <2>17, <2>18, <3>8 DEF CodeInv
  <2>20. CASE v # << >> /\ Len(v) <= k
    <3>1. phase' = "decode"
      BY <1>3, <2>2, <2>20
    <3>2. m <= h
      BY <2>9, <2>11, <2>12, <2>20
    <3>3. a + n = B!Least(StartOf(e, i + 1), o)
      BY <2>5, <2>6, <2>9, <3>2
    <3>4. CodeGiven'
      BY <1>1, <1>3, <2>2, <2>16, <3>1, <3>3 DEF CodeGiven
    <3> QED BY <1>4, <1>5, <2>17, <2>18, <3>4 DEF CodeInv
  <2>21. CASE ~(Len(v) <= k)
    <3>1. phase' = "done"
      BY <2>2, <2>21
    <3>2. m > h
      BY <2>9, <2>11, <2>12, <2>21
    <3>3. PICK g : g = (e + 2) \div 3
      OBVIOUS
    <3>4. g \in Nat /\ B!EnoBytes(e) = 4 * g + 1
      BY <1>2, <3>3, GroupsIs DEF B!EnoBytes
    <3>5. m <= g
      BY <1>2, <2>5, <2>8, <3>3
    <3>6. B!EnoBytes(d) = 4 * h + 1
      BY <1>2, <2>8, GroupsIs DEF B!EnoBytes
    <3>7. ~(B!EnoBytes(e) <= B!EnoBytes(d))
      BY <2>9, <3>2, <3>4, <3>5, <3>6
    <3>8. CodeGiven'
      <4>1. ~(B!EnoBytes(eniBytes) <= B!EnoBytes(dniBytes))'
        BY <1>1, <1>3, <3>7 DEF B!EnoBytes, B!GetEnSafeOutBytes
      <4> QED BY <1>1, <1>3, <2>16, <3>1, <4>1 DEF CodeGiven
    <3> QED BY <1>4, <1>5, <2>17, <2>18, <3>8 DEF CodeInv
  <2> QED BY <2>19, <2>20, <2>21
<1> QED BY <1>2, <1>6, <1>7

LEMMA CodeStep ==
  ASSUME B!Base64Bounds, CodeInv, [B!Next]_code
  PROVE  CodeInv'
<1>1. CASE B!EncodeLine
  BY <1>1, CodeEncodes
<1>2. CASE B!DecodeLine
  BY <1>2, CodeDecodes
<1>3. CASE UNCHANGED code
  BY <1>3 DEF code, CodeInv, CodeTypes, CodeLines, CodeRead, CodeGiven
<1> QED BY <1>1, <1>2, <1>3 DEF B!Next

\* The invariant has what the module states.
LEMMA CodeImplies ==
  ASSUME B!Base64Bounds, CodeInv
  PROVE  B!TypeOK /\ B!RoundTrip /\ B!DecodesABeginning /\ B!BuffersHold
<1>1. B!TypeOK
  BY DEF CodeInv, CodeTypes, B!TypeOK
<1>2. B!RoundTrip
  BY DEF CodeInv, CodeGiven, B!RoundTrip
<1>3. file \in Seq(0 .. 255) /\ Len(file) \in Nat /\ eniBytes \in Nat /\ dniBytes \in Nat
  BY DEF CodeInv, CodeTypes, B!Base64Bounds
<1>4. \E n \in 0 .. Len(file) : output = SubSeq(file, 1, n)
  <2>1. SubSeq(file, 1, 0) = << >> /\ 0 \in 0 .. Len(file)
    BY <1>3, WholeIs
  <2>2. CASE phase = "encode"
    BY <2>1, <2>2 DEF CodeInv, CodeRead
  <2>3. CASE phase = "decode"
    <3>1. PICK i : i = StartOf(eniBytes, line)
      OBVIOUS
    <3>2. i \in Nat
      <4>1. line \in Nat /\ line >= 1
        BY DEF CodeInv, CodeTypes
      <4> QED BY <1>3, <3>1, <4>1, StartNext
    <3>3. B!Least(i, Len(file)) \in 0 .. Len(file)
      BY <1>3, <3>2 DEF B!Least
    <3> QED BY <2>3, <3>1, <3>3 DEF CodeInv, CodeGiven
  <2>4. CASE phase = "done"
    BY <2>4 DEF CodeInv, CodeGiven
  <2> QED BY <2>2, <2>3, <2>4 DEF CodeInv, CodeTypes
<1>5. B!DecodesABeginning
  <2>1. PICK n \in 0 .. Len(file) : output = SubSeq(file, 1, n)
    BY <1>4
  <2>2. Len(output) = n /\ n <= Len(file)
    BY <1>3, <2>1, BeginningIs
  <2>3. output \in Seq(0 .. 255)
    BY DEF CodeInv, CodeTypes
  <2>4. SubSeq(output, 1, Len(output)) = output
    BY <2>3, WholeIs
  <2> QED BY <2>1, <2>2, <2>4 DEF B!DecodesABeginning, B!IsPrefix
<1>6. B!BuffersHold
  <2>1. PICK e, d : e = eniBytes /\ d = dniBytes
    OBVIOUS
  <2>2. ASSUME NEW i \in DOMAIN lines
        PROVE  /\ Len(lines[i]) + 1 <= B!EnoBytes(e)
               /\ Len(lines[i]) <= B!EnoBytes(d) - 1 => Len(B!DataDecode(lines[i])) <= B!DeoBytes(d)
    <3>1. i \in 1 .. Len(lines)
      BY DEF CodeInv, CodeTypes
    <3>2. PICK v, a : v = lines[i] /\ a = StartOf(e, i)
      OBVIOUS
    <3>3. PICK b : BlockOf(file, e, a, b) /\ v = B!DataEncode(b)
      BY <2>1, <3>1, <3>2 DEF CodeInv, CodeLines, LineAt
    <3>4. b \in Seq(0 .. 255) /\ Len(b) \in Nat /\ Len(b) <= e
      BY <3>3, BlockIs
    <3>5. PICK m, g, h : m = (Len(b) + 2) \div 3 /\ g = (e + 2) \div 3 /\ h = (d + 2) \div 3
      OBVIOUS
    <3>6. /\ m \in Nat /\ g \in Nat /\ h \in Nat /\ 3 * m >= Len(b)
          /\ B!EnoBytes(e) = 4 * g + 1 /\ B!EnoBytes(d) = 4 * h + 1
      BY <1>3, <2>1, <3>4, <3>5, GroupsIs DEF B!EnoBytes
    <3>7. m <= g
      BY <1>3, <2>1, <3>4, <3>5
    <3>8. LineOf(b, v, m)
      BY <3>3, <3>5 DEF LineOf
    <3>9. v \in Seq(0 .. 64) /\ Len(v) = 4 * m
      BY <3>4, <3>8, EncodedIs
    <3>10. Len(v) <= B!EnoBytes(d) - 1 => Len(B!DataDecode(v)) <= B!DeoBytes(d)
      <4> SUFFICES ASSUME Len(v) <= B!EnoBytes(d) - 1
                   PROVE  Len(B!DataDecode(v)) <= B!DeoBytes(d)
        OBVIOUS
      <4>1. m <= h
        BY <3>6, <3>9
      <4>2. B!DeoBytes(d) = 3 * h
        BY <3>6 DEF B!DeoBytes, B!GetDeSafeOutBytes
      <4>3. PICK n : n = B!Least(3 * m, Len(b))
        OBVIOUS
      <4>4. v = SubSeq(v, 1, 4 * m)
        BY <3>9, WholeIs
      <4>5. PartOf(b, v, m, m, v, n) /\ m \in 0 .. m
        BY <3>6, <3>8, <4>3, <4>4 DEF PartOf
      <4>6. B!DataDecode(v) = SubSeq(b, 1, n) /\ n \in 0 .. Len(b) /\ n <= 3 * m
        BY <3>4, <4>5, DecodedIs
      <4>7. Len(SubSeq(b, 1, n)) = n
        BY <3>4, <4>6, BeginningIs
      <4> QED BY <3>6, <4>1, <4>2, <4>6, <4>7
    <3> QED BY <3>2, <3>6, <3>7, <3>9, <3>10
  <2> QED BY <2>1, <2>2 DEF B!BuffersHold, B!Fits
<1> QED BY <1>1, <1>2, <1>5, <1>6

-----------------------------------------------------------------------------
(* The parts together.                                                     *)

\* The nodes of dll_fifo in their order.
THEOREM ListInvariant == UtilsSpec => []ListInv
<1>1. UtilsInit => ListInv
  BY ListInit
<1>2. ListInv /\ [UtilsNext]_all => ListInv'
  BY UtilsSteps, ListStep, ListIdle
<1> QED BY <1>1, <1>2, UtilsRuns, PTL

\* However many nodes calloc may return, and whatever they were used for before, a list
\* of dll_fifo that is not empty reads the same from both ends, and each of its
\* operations does to the sequence of its data what a deque promises.
THEOREM ListImplementsDeque == UtilsSpec => ListIsDeque
<1>1. UtilsInit => L!D!Init
  BY ListInit
<1>2. ListInv => L!LinkedBothWays
  BY ListBothWays
<1>3. ListInv /\ [UtilsNext]_all => [L!D!Next]_(L!Contents)
  BY UtilsSteps, ListStep, ListIdle
<1> QED BY <1>1, <1>2, <1>3, UtilsRuns, ListInvariant, PTL DEF ListIsDeque, L!IsDeque, L!D!Spec

\* What the counts of vad_op stand for, in every behaviour of the parts.
THEOREM VoiceInvariant == UtilsSpec => []VoiceInv
<1>1. UtilsInit => VoiceInv
  BY UtilsBounds, UtilsStarts, VoiceInit
<1>2. VoiceInv /\ [UtilsNext]_all => VoiceInv'
  BY UtilsBounds, UtilsSteps, VoiceStep
<1> QED BY <1>1, <1>2, UtilsRuns, PTL

\* Whatever the numbers of chunks, vad_op reports a start after enough loud ones in a
\* row, and an end when enough of them were silent, and then.
THEOREM VoicesAreInRows == UtilsSpec => VoiceInRows
<1>1. VoiceInv => V!StartsLoud
  BY DEF VoiceInv, V!StartsLoud
<1>2. VoiceInv => (savedStatus = "SPEAKING" => silent < finishedConfirmCount \/ silent <= 1)
  BY DEF VoiceInv
<1>3. VoiceInv /\ [UtilsNext]_all =>
        [savedStatus = "SPEAKING" /\ savedStatus' = "FINISHED"
            => silent' >= finishedConfirmCount]_(V!vars)
  BY UtilsBounds, UtilsSteps, VoiceStep DEF vad, V!vars
<1> QED BY <1>1, <1>2, <1>3, UtilsRuns, VoiceInvariant, PTL DEF VoiceInRows, V!FinishesOnTime

\* What a pause and an abort of alsa_ctrl rely on.
THEOREM CtrlInvariant == UtilsSpec => []CtrlInv
<1>1. UtilsInit => CtrlInv
  BY UtilsStarts, CtrlInit
<1>2. CtrlInv /\ [UtilsNext]_all => CtrlInv'
  BY UtilsSteps, CtrlStep
<1> QED BY <1>1, <1>2, UtilsRuns, PTL

\* Whatever the sizes of buffer and chunk, a pause of alsa_ctrl keeps the device
\* quiet and an abort keeps frames from it until a call ends them, although abort
\* does not end the write that is under way and reset does not clear the flag.
THEOREM ControlsTakeHold == UtilsSpec => ControlsHold
<1>1. CtrlInv => PauseHolds
  BY DEF CtrlInv, Settled, PauseHolds
<1>2. CtrlInv /\ [UtilsNext]_all => [abort_flag => fill' <= fill]_vars
  BY UtilsSteps, CtrlAborted
<1> QED BY <1>1, <1>2, UtilsRuns, CtrlInvariant, PTL DEF ControlsHold, AbortHolds

\* Whoever sleeps in dfq_fifo.
THEOREM QueueInvariant == UtilsSpec => []QueueInv
<1>1. UtilsInit => QueueInv
  BY UtilsBounds, UtilsStarts, QueueInit
<1>2. QueueInv /\ [UtilsNext]_all => QueueInv'
  BY UtilsBounds, UtilsSteps, QueueStep
<1> QED BY <1>1, <1>2, UtilsRuns, PTL

\* However many threads read and write, the only reader of a dfq_fifo does not
\* sleep while there are elements, unless a timed write took its signal; and the
\* elements of one writer keep to the size, unless cycWrite or setExit was called.
THEOREM QueueKeepsItsWord == UtilsSpec => []QueueHolds
<1>1. QueueInv => QueueHolds
  BY UtilsBounds, QueueImplies
<1> QED BY <1>1, QueueInvariant, PTL

\* The pointer of allPlay's device and who may drop it.
THEOREM SoundInvariant == UtilsSpec => []SoundInv
<1>1. UtilsInit => SoundInv
  BY UtilsBounds, UtilsStarts, SoundInit
<1>2. SoundInv /\ [UtilsNext]_all => SoundInv'
  BY UtilsBounds, UtilsSteps, SoundStep
<1> QED BY <1>1, <1>2, UtilsRuns, PTL

\* Whatever the size of a chunk, the faults of the device and the order of the
\* calls: its frames are taken in order and once each, a paused player is not
\* heard, and only a resume that has not prepared the device yet cuts it short.
THEOREM ChunksArriveWhole == UtilsSpec => SoundHolds
<1>1. SoundInv => S!GivenInOrder /\ S!PausedIsQuiet
  BY UtilsBounds, SoundImplies
<1>2. SoundInv /\ [UtilsNext]_all =>
        [S!Writing /\ c' = 0 => Len(given') = Chunk \/ api = "resume"]_(S!vars)
  BY UtilsBounds, UtilsSteps, SoundStep
     DEF sound, S!Writing, S!vars, S!device, S!flags, S!bounds
<1> QED BY <1>1, <1>2, UtilsRuns, SoundInvariant, PTL DEF SoundHolds, S!ChunkIsWhole

\* What the lines of a Base64 file stand for.
THEOREM CodeInvariant == UtilsSpec => []CodeInv
<1>1. UtilsInit => CodeInv
  BY UtilsBounds, UtilsStarts, CodeInit
<1>2. CodeInv /\ [UtilsNext]_all => CodeInv'
  BY UtilsBounds, UtilsSteps, CodeStep
<1> QED BY <1>1, <1>2, UtilsRuns, PTL

\* Whatever the bytes of a file, its length and the sizes of the blocks, the code of
\* it comes back as the file if the lines fit the decoder's buffer, and else as its
\* beginning; the code of a block fits the encoder's buffers, and what a line that was
\* read whole stands for fits the decoder's.
THEOREM CodesComeBack == UtilsSpec => []CodeRoundTrips
<1>1. CodeInv => CodeRoundTrips
  BY UtilsBounds, CodeImplies DEF CodeRoundTrips
<1> QED BY <1>1, CodeInvariant, PTL
=============================================================================
