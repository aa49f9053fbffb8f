---------------------------- MODULE MTQueueProofs ----------------------------
(***************************************************************************)
(* MTQueue for any number of threads, any capacity and any set of          *)
(* operations.  Whatever a step does to the threads, what it does to the   *)
(* queue is one of the five effects below (lemma Effects); the invariants  *)
(* and the refinement of BoundedFifo follow from these effects alone.      *)
(***************************************************************************)
EXTENDS MTQueue, SequencesExt, SequenceTheorems, TLAPS

(* Facts about Front, Last, Reverse and ToSet, for a queue that keeps its   *)
(* newest element first and is read in reverse.                             *)

\* Front drops the last element.
LEMMA FrontFacts ==
  ASSUME NEW S, NEW s \in Seq(S), s # <<>>
  PROVE  /\ Front(s) \in Seq(S) /\ Len(Front(s)) = Len(s) - 1 /\ Len(s) \in Nat \ {0}
         /\ \A i \in 1..(Len(s) - 1) : Front(s)[i] = s[i]
         /\ Last(s) \in S
<1>1. Len(s) \in Nat \ {0}
  BY EmptySeq
<1>2. Last(s) \in S
  BY <1>1, ElementOfSeq DEF Last
<1>3. Front(s) \in Seq(S)
  BY DEF Front
<1>4. \A i \in 1..(Len(s) - 1) : Front(s)[i] = s[i]
  BY DEF Front
<1>5. Len(Front(s)) = Len(s) - 1
  <2>1. ASSUME NEW n, n = Len(s), n \in Nat \ {0}
        PROVE  Len(SubSeq(s, 1, n - 1)) = n - 1
    <3>1. n - 1 \in Int /\ \A i \in 1..(n - 1) : s[i] \in S
      BY <2>1, ElementOfSeq
    <3>2. CASE n = 1
      <4>1. SubSeq(s, 1, n - 1) = <<>>
        BY <3>2, SubSeqEmpty
      <4>2. QED
        BY <4>1, <3>2
    <3>3. CASE n > 1
      <4>1. 1 <= n - 1 /\ n - 1 - 1 + 1 = n - 1
        BY <2>1, <3>3
      <4>2. QED
        BY <3>1, <4>1, SubSeqProperties
    <3>4. QED
      BY <2>1, <3>2, <3>3
  <2>2. QED
    BY <1>1, <2>1, Zenon DEF Front
<1>6. QED
  BY <1>1, <1>2, <1>3, <1>4, <1>5, Zenon

\* Putting an element in front.
LEMMA ConsFacts ==
  ASSUME NEW S, NEW s \in Seq(S), NEW e \in S
  PROVE  /\ <<e>> \o s \in Seq(S) /\ Len(<<e>> \o s) = Len(s) + 1 /\ Len(s) \in Nat
         /\ (<<e>> \o s)[1] = e
         /\ \A i \in 2..(Len(s) + 1) : (<<e>> \o s)[i] = s[i - 1]
<1>1. <<e>> \in Seq(S) /\ Len(<<e>>) = 1 /\ <<e>>[1] = e
  OBVIOUS
<1>2. Len(s) \in Nat
  BY LenProperties
<1>3. QED
  BY <1>1, <1>2, ConcatProperties

\* Reverse, element by element.
LEMMA ReverseFacts ==
  ASSUME NEW S, NEW s \in Seq(S)
  PROVE  /\ Reverse(s) \in Seq(S) /\ Len(Reverse(s)) = Len(s) /\ Len(s) \in Nat
         /\ \A i \in 1..Len(s) : Reverse(s)[i] = s[Len(s) - i + 1]
<1>1. Len(s) \in Nat
  BY LenProperties
<1>2. \A i \in 1..Len(s) : s[Len(s) - i + 1] \in S
  BY <1>1, ElementOfSeq
<1>3. QED
  BY <1>1, <1>2 DEF Reverse

\* A new first element is a new last element of the reversed sequence.
LEMMA ReverseCons ==
  ASSUME NEW S, NEW s \in Seq(S), NEW e \in S
  PROVE  Reverse(<<e>> \o s) = Append(Reverse(s), e)
<1>a. PICK t : t = <<e>> \o s
  OBVIOUS
<1>b. t \in Seq(S) /\ Len(t) = Len(s) + 1 /\ Len(s) \in Nat
  BY <1>a, ConsFacts
<1>c. t[1] = e /\ \A i \in 2..(Len(s) + 1) : t[i] = s[i - 1]
  BY <1>a, ConsFacts
<1> SUFFICES Reverse(t) = Append(Reverse(s), e)
  BY <1>a
<1>1. /\ Reverse(t) \in Seq(S) /\ Len(Reverse(t)) = Len(s) + 1
      /\ \A i \in 1..(Len(s) + 1) : Reverse(t)[i] = t[Len(s) + 1 - i + 1]
  BY <1>b, ReverseFacts
<1>2. /\ Reverse(s) \in Seq(S) /\ Len(Reverse(s)) = Len(s)
      /\ \A i \in 1..Len(s) : Reverse(s)[i] = s[Len(s) - i + 1]
  BY ReverseFacts
<1>3. /\ Append(Reverse(s), e) \in Seq(S) /\ Len(Append(Reverse(s), e)) = Len(s) + 1
      /\ \A i \in 1..Len(s) : Append(Reverse(s), e)[i] = Reverse(s)[i]
      /\ Append(Reverse(s), e)[Len(s) + 1] = e
  BY <1>2, AppendProperties
<1>4. ASSUME NEW i \in 1..(Len(s) + 1)
      PROVE  Reverse(t)[i] = Append(Reverse(s), e)[i]
  <2>1. CASE i = Len(s) + 1
    BY <2>1, <1>b, <1>c, <1>1, <1>3
  <2>2. CASE i \in 1..Len(s)
    <3>1. Len(s) + 1 - i + 1 \in 2..(Len(s) + 1) /\ Len(s) + 1 - i + 1 - 1 = Len(s) - i + 1
      BY <2>2, <1>b
    <3>2. Reverse(t)[i] = t[Len(s) + 1 - i + 1]
      BY <1>1, Zenon
    <3>4. t[Len(s) + 1 - i + 1] = s[Len(s) + 1 - i + 1 - 1]
      BY <3>1, <1>c
    <3>3. QED
      BY <3>1, <3>2, <3>4, <2>2, <1>2, <1>3
  <2>3. i = Len(s) + 1 \/ i \in 1..Len(s)
    BY <1>b
  <2>4. QED
    BY <2>1, <2>2, <2>3, Zenon
<1>5. QED
  BY <1>1, <1>3, <1>4, SeqEqual

\* Dropping the last element is taking the tail of the reversed sequence.
LEMMA ReverseFront ==
  ASSUME NEW S, NEW s \in Seq(S), s # <<>>
  PROVE  Reverse(Front(s)) = Tail(Reverse(s)) /\ Head(Reverse(s)) = Last(s) /\ Reverse(s) # <<>>
<1>1. /\ Front(s) \in Seq(S) /\ Len(Front(s)) = Len(s) - 1 /\ Len(s) \in Nat \ {0}
      /\ \A i \in 1..(Len(s) - 1) : Front(s)[i] = s[i]
  BY FrontFacts
<1>2. /\ Reverse(s) \in Seq(S) /\ Len(Reverse(s)) = Len(s)
      /\ \A i \in 1..Len(s) : Reverse(s)[i] = s[Len(s) - i + 1]
  BY ReverseFacts
<1>3. Reverse(s) # <<>>
  BY <1>1, <1>2
<1>4. Head(Reverse(s)) = Last(s)
  BY <1>1, <1>2 DEF Last
<1>5. /\ Reverse(Front(s)) \in Seq(S) /\ Len(Reverse(Front(s))) = Len(s) - 1
      /\ \A i \in 1..(Len(s) - 1) : Reverse(Front(s))[i] = Front(s)[Len(s) - 1 - i + 1]
  BY <1>1, ReverseFacts
<1>6. /\ Tail(Reverse(s)) \in Seq(S) /\ Len(Tail(Reverse(s))) = Len(s) - 1
      /\ \A i \in 1..(Len(s) - 1) : Tail(Reverse(s))[i] = Reverse(s)[i + 1]
  BY <1>2, <1>3, HeadTailProperties
<1>7. ASSUME NEW i \in 1..(Len(s) - 1)
      PROVE  Reverse(Front(s))[i] = Tail(Reverse(s))[i]
  <2>1. Len(s) - 1 - i + 1 \in 1..(Len(s) - 1) /\ Len(s) - 1 - i + 1 = Len(s) - (i + 1) + 1
    BY <1>1
  <2>2. i + 1 \in 1..Len(s)
    BY <1>1
  <2>3. QED
    BY <2>1, <2>2, <1>1, <1>2, <1>5, <1>6
<1>8. QED
  BY <1>3, <1>4, <1>5, <1>6, <1>7, SeqEqual

\* Reversing changes no element.
LEMMA ReverseToSet ==
  ASSUME NEW S, NEW s \in Seq(S)
  PROVE  ToSet(Reverse(s)) = ToSet(s)
<1>1. /\ Reverse(s) \in Seq(S) /\ Len(Reverse(s)) = Len(s) /\ Len(s) \in Nat
      /\ \A i \in 1..Len(s) : Reverse(s)[i] = s[Len(s) - i + 1]
  BY ReverseFacts
<1>2. DOMAIN s = 1..Len(s) /\ DOMAIN Reverse(s) = 1..Len(s)
  BY <1>1, LenProperties
<1>3. ASSUME NEW i \in 1..Len(s)
      PROVE  /\ Len(s) - i + 1 \in 1..Len(s)
             /\ Reverse(s)[i] = s[Len(s) - i + 1]
             /\ s[i] = Reverse(s)[Len(s) - i + 1]
  <2>1. Len(s) - i + 1 \in 1..Len(s) /\ Len(s) - (Len(s) - i + 1) + 1 = i
    BY <1>1
  <2>2. QED
    BY <2>1, <1>1
<1>4. QED
  BY <1>2, <1>3 DEF ToSet

\* The elements after a new first element, and before a dropped last one.
LEMMA ToSetCons ==
  ASSUME NEW S, NEW s \in Seq(S), NEW e \in S
  PROVE  ToSet(<<e>> \o s) = ToSet(s) \cup {e}
<1> DEFINE t == <<e>> \o s
<1>1. /\ t \in Seq(S) /\ Len(t) = Len(s) + 1 /\ Len(s) \in Nat /\ t[1] = e
      /\ \A i \in 2..(Len(s) + 1) : t[i] = s[i - 1]
  BY ConsFacts
<1> HIDE DEF t
<1>2. DOMAIN t = 1..(Len(s) + 1) /\ DOMAIN s = 1..Len(s)
  BY <1>1, LenProperties
<1>3. \A i \in 1..Len(s) : i + 1 \in 1..(Len(s) + 1) /\ s[i] = t[i + 1]
  BY <1>1
<1>4. \A i \in 1..(Len(s) + 1) : i = 1 \/ (i - 1 \in 1..Len(s) /\ t[i] = s[i - 1])
  BY <1>1
<1>5. ToSet(t) \subseteq ToSet(s) \cup {e}
  BY <1>1, <1>2, <1>4 DEF ToSet
<1>6. ToSet(s) \subseteq ToSet(t)
  BY <1>2, <1>3 DEF ToSet
<1>7. e \in ToSet(t)
  BY <1>1, <1>2 DEF ToSet
<1>8. QED
  BY <1>5, <1>6, <1>7 DEF t

LEMMA ToSetFront ==
  ASSUME NEW S, NEW s \in Seq(S), s # <<>>
  PROVE  ToSet(s) = ToSet(Front(s)) \cup {Last(s)}
<1>1. /\ Front(s) \in Seq(S) /\ Len(Front(s)) = Len(s) - 1 /\ Len(s) \in Nat \ {0}
      /\ \A i \in 1..(Len(s) - 1) : Front(s)[i] = s[i]
  BY FrontFacts
<1>2. DOMAIN s = 1..Len(s) /\ DOMAIN Front(s) = 1..(Len(s) - 1)
  BY <1>1, LenProperties
<1>3. 1..Len(s) = 1..(Len(s) - 1) \cup {Len(s)}
  BY <1>1
<1>4. QED
  BY <1>1, <1>2, <1>3 DEF ToSet, Last

-----------------------------------------------------------------------------
(* The effects of the steps on the queue.                                  *)

Pushes ==
  /\ Len(q) < MaxCount
  /\ made' = made + 1 /\ q' = <<made + 1>> \o q
  /\ UNCHANGED <<taken, destroyed, forgotten>>

PushesOut ==
  /\ Len(q) = MaxCount
  /\ made' = made + 1 /\ q' = <<made + 1>> \o Front(q)
  /\ destroyed' = destroyed \cup {Last(q)}
  /\ UNCHANGED <<taken, forgotten>>

Takes ==
  /\ q # <<>>
  /\ q' = Front(q) /\ taken' = taken \cup {Last(q)}
  /\ UNCHANGED <<made, destroyed, forgotten>>

Forgets ==
  /\ q' = <<>> /\ forgotten' = forgotten \cup ToSet(q)
  /\ UNCHANGED <<made, taken, destroyed>>

Keeps == UNCHANGED <<q, made, taken, destroyed, forgotten>>

\* TypeOK in two parts.
QueueOK == made \in Nat /\ q \in Seq(1..made) /\ Len(q) <= MaxCount

ThreadsOK ==
  /\ waitExited \in BOOLEAN
  /\ pc \in [Threads -> {"idle", "waiting", "woken", "timedOut", "notify"}]
  /\ timed \in [Threads -> BOOLEAN]

LEMMA TypeParts == TypeOK <=> QueueOK /\ ThreadsOK
  BY DEF TypeOK, QueueOK, ThreadsOK

-----------------------------------------------------------------------------
LEMMA Effects ==
  ASSUME TypeOK, [Next]_vars
  PROVE  Pushes \/ PushesOut \/ Takes \/ Forgets \/ Keeps
<1> USE MTQueueAssumption DEF Pushes, PushesOut, Takes, Forgets, Keeps, Content
<1>1. MaxCount \in Nat /\ Len(q) \in Nat /\ Len(q) <= MaxCount
  BY LenProperties DEF TypeOK
<1>2. ASSUME NEW t, NEW b, Read(t, b) PROVE Takes \/ Keeps
  BY <1>2 DEF Read, TakeBack
<1>3. ASSUME NEW t, TimedWrite(t) PROVE Pushes \/ Keeps
  BY <1>3 DEF TimedWrite, PushFront
<1>4. ASSUME NEW t, Write(t) PROVE Pushes
  BY <1>4 DEF Write, PushFront
<1>5. ASSUME NEW t, CycWrite(t) PROVE Pushes \/ PushesOut
  <2>1. Len(q) >= MaxCount => Len(q) = MaxCount
    BY <1>1
  <2>2. ~(Len(q) >= MaxCount) => Len(q) < MaxCount
    BY <1>1
  <2>3. QED
    BY <1>5, <2>1, <2>2, Zenon DEF CycWrite
<1>6. ASSUME NEW t, Clear(t) PROVE Forgets
  BY <1>6 DEF Clear
<1>7. ASSUME NEW t, Notify(t) \/ SetWaitExitState(t) \/ TimeOut(t) \/ SpuriousWake(t)
      PROVE  Keeps
  BY <1>7 DEF Notify, SetWaitExitState, TimeOut, SpuriousWake
<1>8. CASE UNCHANGED vars
  BY <1>8 DEF vars
<1>9. QED
  BY <1>2, <1>3, <1>4, <1>5, <1>6, <1>7, <1>8, Zenon DEF Next, ReaderStep, WriterStep

LEMMA ThreadsTyped ==
  ASSUME ThreadsOK, [Next]_vars
  PROVE  ThreadsOK'
<1> USE DEF ThreadsOK, Goto, Enters, WaitOrGiveUp
<1>1. ASSUME NEW t \in Threads, NEW b \in BOOLEAN, Read(t, b) PROVE ThreadsOK'
  BY <1>1 DEF Read
<1>2. ASSUME NEW t \in Threads, TimedWrite(t) PROVE ThreadsOK'
  BY <1>2 DEF TimedWrite
<1>3. ASSUME NEW t \in Threads, Write(t) \/ CycWrite(t) \/ Clear(t) PROVE ThreadsOK'
  BY <1>3 DEF Write, CycWrite, Clear
<1>4. ASSUME NEW t \in Threads, Notify(t) PROVE ThreadsOK'
  BY <1>4 DEF Notify, Waiters
<1>5. ASSUME NEW t \in Threads, SetWaitExitState(t) \/ TimeOut(t) \/ SpuriousWake(t)
      PROVE  ThreadsOK'
  BY <1>5 DEF SetWaitExitState, TimeOut, SpuriousWake
<1>6. CASE UNCHANGED vars
  BY <1>6 DEF vars
<1>7. QED
  BY <1>1, <1>2, <1>3, <1>4, <1>5, <1>6 DEF Next, ReaderStep, WriterStep, Threads

-----------------------------------------------------------------------------
(* The queue under each effect.                                             *)

LEMMA PushesOK ==
  ASSUME QueueOK, Pushes
  PROVE  /\ QueueOK' /\ made + 1 \in Nat /\ q \in Seq(1..(made + 1))
         /\ Len(q) \in Nat /\ Len(q') = Len(q) + 1 /\ q'[1] = made + 1
         /\ \A i \in 2..(Len(q) + 1) : q'[i] = q[i - 1]
<1>1. made \in Nat /\ MaxCount \in Nat /\ 1..made \subseteq 1..(made + 1)
  BY MTQueueAssumption DEF QueueOK
<1>2. q \in Seq(1..(made + 1))
  BY <1>1, SeqMonotonic DEF QueueOK
<1>3. made + 1 \in 1..(made + 1)
  BY <1>1
<1>4. /\ q' \in Seq(1..(made + 1)) /\ Len(q') = Len(q) + 1 /\ Len(q) \in Nat
      /\ q'[1] = made + 1
      /\ \A i \in 2..(Len(q) + 1) : q'[i] = q[i - 1]
  BY <1>2, <1>3, ConsFacts, Zenon DEF Pushes
<1>5. Len(q') <= MaxCount
  BY <1>1, <1>4 DEF Pushes
<1>6. QED
  BY <1>1, <1>2, <1>4, <1>5 DEF QueueOK, Pushes

LEMMA TakesOK ==
  ASSUME QueueOK, q # <<>>
  PROVE  /\ Front(q) \in Seq(1..made) /\ Len(Front(q)) = Len(q) - 1 /\ Len(q) \in Nat \ {0}
         /\ \A i \in 1..(Len(q) - 1) : Front(q)[i] = q[i]
         /\ Last(q) \in 1..made
  BY FrontFacts DEF QueueOK

\* The last element, which leaves next, is smaller than the rest, and in no
\* other place.
LEMMA LastFacts ==
  ASSUME QueueOK, q # <<>>, OldestLeavesFirst
  PROVE  /\ \A i \in 1..(Len(q) - 1) : Last(q) < q[i]
         /\ Last(q) \notin ToSet(Front(q))
         /\ ToSet(q) = ToSet(Front(q)) \cup {Last(q)}
<1>1. /\ Front(q) \in Seq(1..made) /\ Len(Front(q)) = Len(q) - 1 /\ Len(q) \in Nat \ {0}
      /\ \A i \in 1..(Len(q) - 1) : Front(q)[i] = q[i]
      /\ Last(q) \in 1..made
  BY TakesOK
<1>2. \A i \in 1..(Len(q) - 1) : i \in 1..Len(q) /\ Len(q) \in 1..Len(q) /\ i < Len(q)
  BY <1>1
<1>3. \A i \in 1..(Len(q) - 1) : q[i] \in 1..made
  BY <1>2, ElementOfSeq DEF QueueOK
<1>4. \A i \in 1..(Len(q) - 1) : Last(q) < q[i]
  BY <1>2, <1>3, <1>1 DEF OldestLeavesFirst, Last
<1>5. DOMAIN Front(q) = 1..(Len(q) - 1)
  BY <1>1, LenProperties
<1>6. \A i \in 1..(Len(q) - 1) : Front(q)[i] # Last(q)
  BY <1>1, <1>3, <1>4 DEF QueueOK
<1>7. Last(q) \notin ToSet(Front(q))
  BY <1>5, <1>6 DEF ToSet
<1>8. QED
  BY <1>4, <1>7, ToSetFront DEF QueueOK

LEMMA EffectsType ==
  ASSUME QueueOK, Pushes \/ PushesOut \/ Takes \/ Forgets \/ Keeps
  PROVE  QueueOK'
<1>1. made \in Nat /\ MaxCount \in Nat \ {0} /\ q \in Seq(1..made) /\ Len(q) <= MaxCount
  BY MTQueueAssumption DEF QueueOK
<1>2. CASE Pushes
  BY <1>2, PushesOK
<1>3. CASE PushesOut
  <2>1. q # <<>>
    BY <1>1, <1>3 DEF PushesOut
  <2>2. Front(q) \in Seq(1..made) /\ Len(Front(q)) = Len(q) - 1 /\ Len(q) \in Nat \ {0}
    BY <2>1, TakesOK
  <2>3. 1..made \subseteq 1..(made + 1) /\ made + 1 \in 1..(made + 1)
    BY <1>1
  <2>4. Front(q) \in Seq(1..(made + 1))
    BY <2>2, <2>3, SeqMonotonic
  <2>5. q' \in Seq(1..(made + 1)) /\ Len(q') = Len(Front(q)) + 1
    BY <1>3, <2>3, <2>4, ConsFacts, Zenon DEF PushesOut
  <2>6. Len(q') <= MaxCount
    BY <1>1, <2>2, <2>5
  <2>7. QED
    BY <1>1, <1>3, <2>5, <2>6 DEF QueueOK, PushesOut
<1>4. CASE Takes
  <2>1. Front(q) \in Seq(1..made) /\ Len(Front(q)) = Len(q) - 1 /\ Len(q) \in Nat \ {0}
    BY <1>4, TakesOK DEF Takes
  <2>2. Len(q) - 1 <= MaxCount
    BY <1>1, <2>1
  <2>3. QED
    BY <1>1, <1>4, <2>1, <2>2 DEF QueueOK, Takes
<1>5. CASE Forgets
  BY <1>1, <1>5 DEF QueueOK, Forgets
<1>6. CASE Keeps
  BY <1>1, <1>6 DEF QueueOK, Keeps
<1>7. QED
  BY <1>2, <1>3, <1>4, <1>5, <1>6

\* Everything that left the queue.
Gone == taken \cup destroyed \cup forgotten

LEMMA EffectsOrder ==
  ASSUME QueueOK, OldestLeavesFirst, Gone \subseteq 1..made,
         Pushes \/ PushesOut \/ Takes \/ Forgets \/ Keeps
  PROVE  OldestLeavesFirst'
<1>1. made \in Nat /\ MaxCount \in Nat \ {0} /\ Len(q) \in Nat
  BY MTQueueAssumption, LenProperties DEF QueueOK
<1>2. \A i \in 1..Len(q) : q[i] \in 1..made
  BY ElementOfSeq DEF QueueOK
<1> DEFINE Ordered(s, gone) ==
             /\ \A i, j \in 1..Len(s) : i < j => s[i] > s[j]
             /\ \A e \in gone : \A i \in 1..Len(s) : e < s[i]
<1>3. OldestLeavesFirst <=> Ordered(q, Gone)
  BY DEF OldestLeavesFirst, Gone
<1>4. OldestLeavesFirst' <=> Ordered(q', Gone')
  BY DEF OldestLeavesFirst, Gone
\* Putting a new number in front keeps the order.
<1>5. ASSUME NEW s, NEW t, NEW gone, Len(s) \in Nat, Len(t) = Len(s) + 1,
             \A i \in 1..Len(s) : s[i] \in 1..made,
             t[1] = made + 1, \A i \in 2..(Len(s) + 1) : t[i] = s[i - 1],
             gone \subseteq 1..made, Ordered(s, gone)
      PROVE  Ordered(t, gone)
  <2>1. \A i \in 2..Len(t) : i - 1 \in 1..Len(s) /\ t[i] = s[i - 1] /\ t[i] \in 1..made
    BY <1>1, <1>5
  <2>2. ASSUME NEW i \in 1..Len(t), NEW j \in 1..Len(t), i < j
        PROVE  t[i] > t[j]
    <3>1. j \in 2..Len(t) /\ t[j] \in 1..made
      BY <1>5, <2>1, <2>2
    <3>2. CASE i = 1
      BY <1>1, <1>5, <3>1, <3>2
    <3>3. CASE i \in 2..Len(t)
      <4>1. i - 1 < j - 1
        BY <2>2, <3>1, <3>3, <1>5
      <4>2. s[i - 1] > s[j - 1]
        BY <4>1, <2>1, <3>1, <3>3, <1>5
      <4>3. QED
        BY <4>2, <2>1, <3>1, <3>3
    <3>4. i = 1 \/ i \in 2..Len(t)
      BY <1>5
    <3>5. QED
      BY <3>2, <3>3, <3>4
  <2>3. ASSUME NEW e \in gone, NEW i \in 1..Len(t)
        PROVE  e < t[i]
    <3>1. e \in 1..made
      BY <1>5
    <3>2. CASE i = 1
      BY <1>1, <1>5, <3>1, <3>2
    <3>3. CASE i \in 2..Len(t)
      BY <1>5, <2>1, <3>3
    <3>4. i = 1 \/ i \in 2..Len(t)
      BY <1>5
    <3>5. QED
      BY <3>2, <3>3, <3>4
  <2>4. QED
    BY <2>2, <2>3
\* Dropping the last element keeps the order.
<1>6. ASSUME q # <<>>
      PROVE  /\ Ordered(Front(q), Gone \cup {Last(q)})
             /\ Len(Front(q)) \in Nat /\ Gone \cup {Last(q)} \subseteq 1..made
             /\ \A i \in 1..Len(Front(q)) : Front(q)[i] \in 1..made
  <2>1. /\ Len(Front(q)) = Len(q) - 1 /\ Len(q) \in Nat \ {0} /\ Last(q) \in 1..made
        /\ \A i \in 1..(Len(q) - 1) : Front(q)[i] = q[i]
        /\ \A i \in 1..(Len(q) - 1) : Last(q) < q[i]
    BY <1>6, TakesOK, LastFacts
  <2>2. \A i \in 1..(Len(q) - 1) : i \in 1..Len(q)
    BY <2>1
  <2>3. Ordered(Front(q), Gone \cup {Last(q)})
    BY <1>3, <2>1, <2>2
  <2>4. \A i \in 1..Len(Front(q)) : Front(q)[i] \in 1..made
    BY <1>2, <2>1, <2>2
  <2>5. Len(Front(q)) \in Nat
    BY <2>1
  <2>6. Gone \cup {Last(q)} \subseteq 1..made
    <3>1. Last(q) \in 1..made
      BY <2>1
    <3>2. QED
      BY <3>1, Zenon
  <2>7. QED
    BY <2>3, <2>4, <2>5, <2>6, Zenon
<1> HIDE DEF Ordered
<1>7. CASE Pushes
  <2>1. Gone' = Gone
    BY <1>7 DEF Gone, Pushes
  <2>2. Len(q') = Len(q) + 1 /\ q'[1] = made + 1 /\ \A i \in 2..(Len(q) + 1) : q'[i] = q[i - 1]
    BY <1>7, PushesOK
  <2>3. QED
    BY <1>1, <1>2, <1>3, <1>4, <1>5, <2>1, <2>2
<1>8. CASE PushesOut
  <2>1. Gone' = Gone \cup {Last(q)}
    BY <1>8 DEF Gone, PushesOut
  <2>2. q # <<>>
    BY <1>1, <1>8 DEF PushesOut
  <2>3. 1..made \subseteq 1..(made + 1) /\ made + 1 \in 1..(made + 1)
    BY <1>1
  <2>4. Front(q) \in Seq(1..(made + 1))
    BY <2>2, <2>3, TakesOK, SeqMonotonic
  <2>5. /\ Len(q') = Len(Front(q)) + 1 /\ q'[1] = made + 1
        /\ \A i \in 2..(Len(Front(q)) + 1) : q'[i] = Front(q)[i - 1]
    <3>1. /\ Len(<<made + 1>> \o Front(q)) = Len(Front(q)) + 1
          /\ (<<made + 1>> \o Front(q))[1] = made + 1
          /\ \A i \in 2..(Len(Front(q)) + 1) :
               (<<made + 1>> \o Front(q))[i] = Front(q)[i - 1]
      BY <2>3, <2>4, ConsFacts
    <3>2. q' = <<made + 1>> \o Front(q)
      BY <1>8 DEF PushesOut
    <3>3. QED
      BY <3>1, <3>2, Zenon
  <2>6. QED
    BY <1>4, <1>5, <1>6, <2>1, <2>2, <2>5
<1>9. CASE Takes
  <2>1. Gone' = Gone \cup {Last(q)} /\ q' = Front(q) /\ q # <<>>
    BY <1>9 DEF Gone, Takes
  <2>2. QED
    BY <1>4, <1>6, <2>1
<1>10. CASE Forgets
  BY <1>4, <1>10 DEF Forgets, Ordered
<1>11. CASE Keeps
  BY <1>3, <1>4, <1>11 DEF Keeps, Gone
<1>12. QED
  BY <1>7, <1>8, <1>9, <1>10, <1>11

\* A decreasing deque holds nothing twice.
LEMMA OrderedOnce ==
  ASSUME NEW n \in Nat, NEW s \in Seq(1..n),
         \A i, j \in 1..Len(s) : i < j => s[i] > s[j]
  PROVE  \A i, j \in 1..Len(s) : s[i] = s[j] => i = j
<1>1. Len(s) \in Nat /\ \A i \in 1..Len(s) : s[i] \in 1..n
  BY LenProperties, ElementOfSeq
<1>2. QED
  BY <1>1

\* The four fates are disjoint and cover the numbers given so far.
Partition ==
  /\ ToSet(q) \cup Gone = 1..made
  /\ taken \cap destroyed = {} /\ taken \cap forgotten = {} /\ destroyed \cap forgotten = {}
  /\ ToSet(q) \cap Gone = {}

LEMMA PartitionMeaning ==
  ASSUME QueueOK, OldestLeavesFirst
  PROVE  EachElementOnce <=> Partition
<1>1. \A i, j \in 1..Len(q) : q[i] = q[j] => i = j
  BY OrderedOnce DEF QueueOK, OldestLeavesFirst
<1>2. QED
  BY <1>1, Zenon DEF EachElementOnce, Partition, Gone, Content

LEMMA EffectsPartition ==
  ASSUME QueueOK, OldestLeavesFirst, Partition,
         Pushes \/ PushesOut \/ Takes \/ Forgets \/ Keeps
  PROVE  Partition'
<1>1. made \in Nat /\ MaxCount \in Nat \ {0} /\ q \in Seq(1..made)
  BY MTQueueAssumption DEF QueueOK
<1>2. 1..(made + 1) = 1..made \cup {made + 1} /\ made + 1 \notin 1..made
  BY <1>1
<1>3. CASE Pushes
  <2>1. q \in Seq(1..(made + 1)) /\ made + 1 \in 1..(made + 1)
    BY <1>2, <1>3, PushesOK
  <2>2. ToSet(q') = ToSet(q) \cup {made + 1}
    BY <1>3, <2>1, ToSetCons DEF Pushes
  <2>3. QED
    BY <1>2, <1>3, <2>2 DEF Partition, Gone, Pushes
<1>4. ASSUME q # <<>>
      PROVE  ToSet(q) = ToSet(Front(q)) \cup {Last(q)} /\ Last(q) \notin ToSet(Front(q))
  BY <1>4, LastFacts
<1>5. CASE PushesOut
  <2>1. q # <<>>
    BY <1>1, <1>5 DEF PushesOut
  <2>2. 1..made \subseteq 1..(made + 1) /\ made + 1 \in 1..(made + 1)
    BY <1>2
  <2>3. Front(q) \in Seq(1..(made + 1))
    BY <2>1, <2>2, TakesOK, SeqMonotonic
  <2>4. ToSet(q') = ToSet(Front(q)) \cup {made + 1}
    BY <1>5, <2>2, <2>3, ToSetCons DEF PushesOut
  <2>5. QED
    BY <1>2, <1>4, <1>5, <2>1, <2>4 DEF Partition, Gone, PushesOut
<1>6. CASE Takes
  BY <1>4, <1>6 DEF Partition, Gone, Takes
<1>7. CASE Forgets
  <2>1. ToSet(q') = {}
    BY <1>7 DEF Forgets, ToSet
  <2>2. QED
    BY <1>7, <2>1 DEF Partition, Gone, Forgets
<1>8. CASE Keeps
  BY <1>8 DEF Partition, Gone, Keeps
<1>9. QED
  BY <1>3, <1>5, <1>6, <1>7, <1>8

-----------------------------------------------------------------------------
\* TypeOK, with the two properties that make each other inductive: new numbers
\* are larger than every number given, and the order tells the elements apart.
QInv == TypeOK /\ OldestLeavesFirst /\ EachElementOnce

LEMMA InitQInv == Init => QInv
<1> SUFFICES ASSUME Init PROVE QInv
  OBVIOUS
<1>1. QueueOK
  BY MTQueueAssumption DEF Init, QueueOK
<1>2. ThreadsOK
  BY DEF Init, ThreadsOK
<1>3. OldestLeavesFirst
  BY DEF Init, OldestLeavesFirst
<1>4. ToSet(q) = {} /\ 1..made = {}
  BY DEF Init, ToSet
<1>5. Partition
  BY <1>4 DEF Init, Partition, Gone
<1>6. QED
  BY <1>1, <1>2, <1>3, <1>5, TypeParts, PartitionMeaning DEF QInv

LEMMA NextQInv == QInv /\ [Next]_vars => QInv'
<1> SUFFICES ASSUME QInv, [Next]_vars PROVE QInv'
  OBVIOUS
<1>1. QueueOK /\ ThreadsOK /\ OldestLeavesFirst /\ Partition
  BY TypeParts, PartitionMeaning DEF QInv
<1>2. Pushes \/ PushesOut \/ Takes \/ Forgets \/ Keeps
  BY Effects DEF QInv
<1>3. Gone \subseteq 1..made
  BY <1>1 DEF Partition
<1>4. QueueOK' /\ ThreadsOK'
  BY <1>1, <1>2, EffectsType, ThreadsTyped
<1>5. OldestLeavesFirst'
  BY <1>1, <1>2, <1>3, EffectsOrder
<1>6. Partition'
  BY <1>1, <1>2, EffectsPartition
<1>7. TypeOK'
  BY <1>4 DEF TypeOK, QueueOK, ThreadsOK
<1>8. (\A i, j \in 1..Len(q) : q[i] = q[j] => i = j)'
  BY <1>4, <1>5, OrderedOnce DEF QueueOK, OldestLeavesFirst
<1>9. EachElementOnce'
  BY <1>6, <1>8 DEF EachElementOnce, Partition, Gone, Content
<1>10. QED
  BY <1>5, <1>7, <1>9 DEF QInv

LEMMA AlwaysQInv == Spec => []QInv
  BY InitQInv, NextQInv, PTL DEF Spec

\* Each variable keeps its type and the deque its capacity.
THEOREM QueueTypeCorrect == Spec => []TypeOK
  BY AlwaysQInv, PTL DEF QInv

\* No element is lost, handed out twice, or handed out after it was destroyed.
THEOREM EveryElementOnce == Spec => []EachElementOnce
  BY AlwaysQInv, PTL DEF QInv

\* Elements leave in the order in which they were written.
THEOREM FirstInFirstOut == Spec => []OldestLeavesFirst
  BY AlwaysQInv, PTL DEF QInv

-----------------------------------------------------------------------------
(* MTQueue implements BoundedFifo: each effect is an abstract step.         *)

LEMMA EffectsRefine ==
  ASSUME QueueOK, Pushes \/ PushesOut \/ Takes \/ Forgets \/ Keeps
  PROVE  [Fifo!Next]_(Fifo!fifoVars)
<1>1. made \in Nat /\ MaxCount \in Nat \ {0} /\ q \in Seq(1..made)
  BY MTQueueAssumption DEF QueueOK
<1>2. 1..made \subseteq 1..(made + 1) /\ made + 1 \in 1..(made + 1)
  BY <1>1
<1>3. Len(Reverse(q)) = Len(q)
  BY <1>1, ReverseFacts
<1>4. CASE Pushes
  <2>1. q \in Seq(1..(made + 1))
    BY <1>4, PushesOK
  <2>2. Reverse(q') = Append(Reverse(q), made + 1)
    BY <1>2, <1>4, <2>1, ReverseCons DEF Pushes
  <2>3. Fifo!Put
    BY <1>3, <1>4, <2>2 DEF Fifo!Put, Pushes
  <2>4. QED
    BY <2>3 DEF Fifo!Next
<1>5. ASSUME q # <<>>
      PROVE  Reverse(Front(q)) = Tail(Reverse(q)) /\ Head(Reverse(q)) = Last(q) /\ Reverse(q) # <<>>
  BY <1>1, <1>5, ReverseFront
<1>6. CASE PushesOut
  <2>1. q # <<>>
    BY <1>1, <1>6 DEF PushesOut
  <2>2. Front(q) \in Seq(1..(made + 1))
    BY <1>2, <2>1, TakesOK, SeqMonotonic
  <2>3. Reverse(q') = Append(Reverse(Front(q)), made + 1)
    BY <1>2, <1>6, <2>2, ReverseCons DEF PushesOut
  <2>4. Fifo!Overwrite
    BY <1>3, <1>5, <1>6, <2>1, <2>3 DEF Fifo!Overwrite, PushesOut
  <2>5. QED
    BY <2>4 DEF Fifo!Next
<1>7. CASE Takes
  <2>1. Fifo!Take
    BY <1>5, <1>7 DEF Fifo!Take, Takes
  <2>2. QED
    BY <2>1 DEF Fifo!Next
<1>8. CASE Forgets
  <2>1. Reverse(q') = <<>>
    BY <1>8 DEF Forgets, Reverse
  <2>2. ToSet(Reverse(q)) = ToSet(q)
    BY <1>1, ReverseToSet
  <2>3. Fifo!ToSet(Reverse(q)) = ToSet(Reverse(q))
    BY DEF ToSet, Fifo!ToSet
  <2>4. Fifo!Clear
    BY <1>8, <2>1, <2>2, <2>3 DEF Fifo!Clear, Forgets
  <2>5. QED
    BY <2>4 DEF Fifo!Next
<1>9. CASE Keeps
  BY <1>9 DEF Keeps, Fifo!fifoVars, Reverse
<1>10. QED
  BY <1>4, <1>6, <1>7, <1>8, <1>9

\* The queue, for any number of threads, does what BoundedFifo promises.
THEOREM QueueIsFifo == Spec => ImplementsFifo
<1>1. Init => Fifo!Init
  BY DEF Init, Fifo!Init, Reverse
<1>2. QInv /\ [Next]_vars => [Fifo!Next]_(Fifo!fifoVars)
  BY Effects, EffectsRefine, TypeParts DEF QInv
<1>3. QED
  BY <1>1, <1>2, AlwaysQInv, PTL DEF Spec, ImplementsFifo, Fifo!Spec

\* For any threads, elements and capacity: every element written has one fate, and
\* the oldest one meets it first.
THEOREM ElementsLeaveOnceInOrder == Spec => []OneFateInOrder
<1>1. EachElementOnce /\ OldestLeavesFirst => OneFateInOrder
  BY DEF OneFateInOrder
<1>2. QED
  BY <1>1, EveryElementOnce, FirstInFirstOut, PTL
=============================================================================
