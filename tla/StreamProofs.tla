----------------------------- MODULE StreamProofs -----------------------------
(***************************************************************************)
(* The parts of lzUtils that carry a stream, for every value of their      *)
(* constants: a ring hands its reader the bytes of its writer, the growing *)
(* block keeps its bytes in order, and the reader of user_fifo handles     *)
(* whole commands in the order they were sent; and with these the state of *)
(* every part of lzUtils has its type.                                     *)
(*                                                                         *)
(* Each part has an inductive invariant of its own, kept by each of its    *)
(* steps; the last section puts them together as UtilsProofs does.         *)
(***************************************************************************)
EXTENDS UtilsProofs

-----------------------------------------------------------------------------
(* The rings: what waits in the ring, what the writer has put down and what  *)
(* the reader was granted are each the stream from its place on.             *)

\* x is g, some times.
Multiple(x, g) == \E q \in Nat : x = q * g

\* Sums, neighbours and differences of multiples.
LEMMA MultipleSum ==
  ASSUME NEW g \in Nat, NEW x \in Nat, NEW y \in Nat, Multiple(x, g), Multiple(y, g)
  PROVE  Multiple(x + y, g)
<1>1. PICK q \in Nat, r \in Nat : x = q * g /\ y = r * g
  BY DEF Multiple
<1>2. x + y = (q + r) * g /\ q + r \in Nat
  BY <1>1
<1> QED BY <1>2 DEF Multiple

\* Two multiples that differ do so by one of them at least.
LEMMA MultipleNext ==
  ASSUME NEW g \in Nat, g > 0, NEW x \in Nat, NEW y \in Nat, Multiple(x, g), Multiple(y, g), x < y
  PROVE  x + g <= y
<1>1. PICK q \in Nat, r \in Nat : x = q * g /\ y = r * g
  BY DEF Multiple
<1>2. q < r
  <2> SUFFICES ASSUME r <= q PROVE FALSE
    BY <1>1
  <2>1. PICK d \in Nat : q = r + d
    <3>1. q - r \in Nat /\ q = r + (q - r)
      OBVIOUS
    <3> QED BY <3>1
  <2>2. x = y + d * g /\ d * g \in Nat
    BY <1>1, <2>1
  <2> QED BY <2>2
<1>3. PICK d \in Nat : r = q + 1 + d
    <3>1. r - q - 1 \in Nat /\ r = q + 1 + (r - q - 1)
      BY <1>2
    <3> QED BY <3>1
<1>4. y = x + g + d * g /\ d * g \in Nat
  BY <1>1, <1>3
<1> QED BY <1>4

\* The difference of two.
LEMMA MultipleDifference ==
  ASSUME NEW g \in Nat, g > 0, NEW x \in Nat, NEW y \in Nat, Multiple(x, g), Multiple(y, g), y <= x
  PROVE  Multiple(x - y, g)
<1>1. PICK q \in Nat, r \in Nat : x = q * g /\ y = r * g
  BY DEF Multiple
<1>2. r <= q
  <2> SUFFICES ASSUME q < r PROVE FALSE
    BY <1>1
  <2>1. x + g <= y
    <3>1. PICK d \in Nat : r = q + 1 + d
      <4>1. r - q - 1 \in Nat /\ r = q + 1 + (r - q - 1)
        OBVIOUS
      <4> QED BY <4>1
    <3>2. y = x + g + d * g /\ d * g \in Nat
      BY <1>1, <3>1
    <3> QED BY <3>2
  <2> QED BY <2>1
<1>3. x - y = (q - r) * g /\ q - r \in Nat
  BY <1>1, <1>2
<1> QED BY <1>3 DEF Multiple

\* As the code tells it.
LEMMA MultipleIs ==
  ASSUME NEW g \in Nat, g > 0, NEW x \in Nat, x % g = 0
  PROVE  Multiple(x, g)
<1>1. x = (x \div g) * g /\ x \div g \in Nat
  OBVIOUS
<1> QED BY <1>1 DEF Multiple
\* x without the m that it has passed, if it has.
Past(x, m) == IF x < m THEN x ELSE x - m

\* The types.
RingShape ==
  /\ kind \in {"csrb", "ccsrb"} /\ kind \in Kinds
  /\ wsize \in R!Sizes /\ rsize \in R!Sizes
  /\ mem \in [R!Cells -> R!Label \cup {R!Blank}]
  /\ wi \in 0 .. Cap - 1 /\ ri \in 0 .. Cap - 1 /\ contex \in 0 .. Width - 1
  /\ asked \in 0 .. Cap /\ reading \in 0 .. Cap
  /\ in \in R!Label /\ out \in R!Label
  /\ odd \subseteq {"clear", "query", "write", "read"} /\ wild \in BOOLEAN

\* Only ccsrb has chunks, one that is to be synced to the end has all its bytes, and
\* while nothing odd was done there is one only for such a sync.
RingChunks ==
  /\ kind = "csrb" =>
       /\ wcm = R!NoChunk /\ rcm = R!NoChunk
       /\ asked \in {0, wsize} /\ reading \in {0, rsize}
  /\ asked = 0 => wcm = R!NoChunk
  /\ reading = 0 => rcm = R!NoChunk
  /\ wcm # R!NoChunk /\ wi + asked >= Cap => wcm \in [0 .. asked - 1 -> R!Label]
  /\ odd = {} => /\ wcm # R!NoChunk => wi + asked >= Cap
                 /\ rcm # R!NoChunk => ri + reading >= Cap
  /\ wild => odd # {}

\* The places and counts, one from the other.
RingCounts ==
  /\ contex \in 0 .. Cap /\ wi = Past(ri + contex, Cap)
  /\ asked \in 0 .. Cap - contex /\ reading \in 0 .. contex
  /\ in = Past(out + contex, Period)

RingTypes == RingShape /\ RingCounts

\* What waits in the ring is the stream.
RingHolds == \A i \in 0 .. contex - 1 : mem[Past(ri + i, Cap)] = Past(out + i, Period)

\* What the writer has put down is the stream, in its own chunk when it is to wrap.
RingWrites ==
  /\ ~R!Apart(wi, asked) => \A i \in 0 .. asked - 1 : mem[wi + i] = Past(in + i, Period)
  /\ R!Apart(wi, asked) => wcm = [i \in 0 .. asked - 1 |-> Past(in + i, Period)]

\* What a reader of ccsrb was granted at the end is its own chunk.
RingReads == R!Apart(ri, reading) => rcm = [i \in 0 .. reading - 1 |-> Past(out + i, Period)]

\* What the reads and the capacity have in common.
RingGcd == R!Gcd(rsize, Cap)

\* csrb: reads that divide the capacity stay in step with it, so that none crosses the
\* end.  Otherwise the writes do, every read starts a common divisor before the end at
\* the latest, and what of the first chunk waits is mirrored behind it.
RingFits ==
  kind = "csrb" /\ R!Whole =>
    /\ Cap % rsize = 0 => Multiple(ri, rsize)
    /\ Cap % rsize # 0 =>
         /\ Multiple(wi, wsize) /\ Multiple(ri, RingGcd)
         /\ \A i \in 0 .. contex - 1 :
              Past(ri + i, Cap) < wsize => mem[Past(ri + i, Cap) + Cap] = mem[Past(ri + i, Cap)]

\* All of this holds of a ring that nobody cleared between a query and its sync.
RingStream == RingCounts /\ RingHolds /\ RingWrites /\ RingReads /\ RingFits
RingKept == RingShape /\ RingChunks /\ RingStream

\* The invariant of the rings.
RingInv == /\ RingShape /\ RingChunks /\ odds \in 0 .. MaxOdd
           /\ "clear" \notin odd => RingStream

\* A remainder that has been passed at most once.
LEMMA PastIs ==
  ASSUME NEW m \in Nat, m > 0, NEW x \in 0 .. 2 * m - 1
  PROVE  x % m = Past(x, m) /\ Past(x, m) \in 0 .. m - 1
<1>1. CASE x < m
  BY <1>1 DEF Past
<1>2. CASE ~(x < m)
  <2>1. x - m \in 0 .. m - 1
    BY <1>2
  <2>2. \A y \in 0 .. m - 1 : (y + m) % m = y
    OBVIOUS
  <2>3. (x - m) + m = x
    OBVIOUS
  <2> QED BY <1>2, <2>1, <2>2, <2>3 DEF Past
<1> QED BY <1>1, <1>2

\* The sizes, one by one.
LEMMA RingSizes ==
  ASSUME R!RingBounds
  PROVE  /\ Cap \in Nat /\ Cap > 0 /\ Period \in Nat /\ Period >= 2 * Cap
         /\ Kinds \subseteq {"csrb", "ccsrb"}
         /\ R!Sizes = 1 .. Cap /\ R!Cells = 0 .. 2 * Cap - 1 /\ R!Label = 0 .. Period - 1
         /\ R!Blank = Period /\ Width \in Nat /\ Width > Cap /\ MaxOdd \in Nat
  BY DEF R!RingBounds, R!Sizes, R!Cells, R!Label, R!Blank

\* The greatest common divisor is one.
LEMMA GcdDivides ==
  ASSUME NEW a \in Nat, NEW b \in Nat, a > 0
  PROVE  R!Gcd(a, b) \in 1 .. a /\ a % R!Gcd(a, b) = 0 /\ b % R!Gcd(a, b) = 0
<1> DEFINE Divides(d) == a % d = 0 /\ b % d = 0
<1> DEFINE T == {k \in Nat : k < a /\ Divides(a - k)}
<1>1. Divides(1)
  OBVIOUS
<1>2. a - 1 \in T
  <2>1. a - 1 \in Nat /\ a - 1 < a /\ a - (a - 1) = 1
    OBVIOUS
  <2> QED BY <1>1, <2>1
<1>3. PICK k \in T : \A y \in T : k <= y
  BY <1>2, SmallestExists
<1> HIDE DEF Divides
<1>4. a - k \in 1 .. a /\ Divides(a - k)
  BY <1>3
<1>5. \A e \in a - k + 1 .. a : ~Divides(e)
  <2> SUFFICES ASSUME NEW e \in a - k + 1 .. a, Divides(e)
               PROVE  FALSE
    OBVIOUS
  <2>1. k \in Nat /\ k < a
    BY <1>3
  <2>2. a - e \in Nat /\ a - e < a /\ a - (a - e) = e /\ a - e < k
    BY <2>1
  <2>3. a - e \in T
    BY <2>2
  <2> QED BY <1>3, <2>1, <2>2, <2>3
<1>6. \E d \in 1 .. a : Divides(d) /\ \A e \in d + 1 .. a : ~Divides(e)
  BY <1>4, <1>5
<1>7. R!Gcd(a, b) = CHOOSE d \in 1 .. a : Divides(d) /\ \A e \in d + 1 .. a : ~Divides(e)
  BY DEF R!Gcd, Divides
<1>8. R!Gcd(a, b) \in 1 .. a /\ Divides(R!Gcd(a, b))
  BY <1>6, <1>7
<1> QED BY <1>8 DEF Divides

\* An empty ring.
LEMMA RingInit ==
  ASSUME R!RingBounds, R!Init
  PROVE  RingInv
<1> USE RingSizes
<1>0. /\ wi = 0 /\ ri = 0 /\ contex = 0 /\ asked = 0 /\ reading = 0 /\ in = 0 /\ out = 0
      /\ Cap \in Nat /\ Cap > 0 /\ Period \in Nat /\ Period > 0 /\ Width \in Nat /\ Width > 0
  BY DEF R!Init
<1>a. RingShape
  <2>1. kind \in {"csrb", "ccsrb"} /\ kind \in Kinds /\ wsize \in R!Sizes /\ rsize \in R!Sizes
    BY DEF R!Init
  <2>2. mem \in [R!Cells -> R!Label \cup {R!Blank}] 
    BY DEF R!Init
  <2>3. odd \subseteq {"clear", "query", "write", "read"} /\ wild \in BOOLEAN
    BY DEF R!Init
  <2>4. /\ wi \in 0 .. Cap - 1 /\ ri \in 0 .. Cap - 1 /\ contex \in 0 .. Width - 1
        /\ asked \in 0 .. Cap /\ reading \in 0 .. Cap /\ in \in R!Label /\ out \in R!Label
    BY <1>0
  <2> QED BY <2>1, <2>2, <2>3, <2>4 DEF RingShape
<1>b. RingCounts
  BY <1>0 DEF RingCounts, Past
<1>1. RingShape /\ RingCounts
  BY <1>a, <1>b
<1>2. RingChunks /\ odds \in 0 .. MaxOdd
  BY DEF R!Init, RingChunks
<1>3. RingHolds /\ RingWrites /\ RingReads
  <2>1. ~R!Apart(wi, asked) /\ ~R!Apart(ri, reading)
    BY DEF R!Init, R!Apart
  <2> QED BY <2>1 DEF R!Init, RingHolds, RingWrites, RingReads
<1>4. RingFits
  <2>1. RingGcd \in Nat /\ rsize \in Nat /\ wsize \in Nat
    <3>1. rsize \in Nat /\ rsize > 0 /\ wsize \in Nat /\ Cap \in Nat
      BY DEF R!Init
    <3>2. RingGcd \in 1 .. rsize
      BY <3>1, GcdDivides DEF RingGcd
    <3> QED BY <3>1, <3>2
  <2>2. \A g \in Nat : Multiple(0, g)
    BY DEF Multiple
  <2>3. wi = 0 /\ ri = 0 /\ contex = 0
    BY DEF R!Init
  <2> QED BY <2>1, <2>2, <2>3 DEF RingFits
<1> QED BY <1>1, <1>2, <1>3, <1>4 DEF RingInv, RingStream

\* Two steps on a circle are one, as long as they go round it once at most.
LEMMA PastPast ==
  ASSUME NEW m \in Nat, NEW r \in 0 .. m - 1, NEW n \in 0 .. m, NEW j \in 0 .. m - n
  PROVE  Past(Past(r + n, m) + j, m) = Past(r + (n + j), m)
<1>1. CASE r + n < m
  <2>1. Past(r + n, m) = r + n /\ (r + n) + j = r + (n + j)
    BY <1>1 DEF Past
  <2> QED BY <2>1
<1>2. CASE ~(r + n < m)
  <2>1. Past(r + n, m) = r + n - m
    BY <1>2 DEF Past
  <2>2. r + n - m + j < m /\ ~(r + (n + j) < m) /\ r + (n + j) - m = r + n - m + j
    BY <1>2
  <2>3. Past(r + n - m + j, m) = r + n - m + j
    BY <2>2 DEF Past
  <2>4. Past(r + (n + j), m) = r + (n + j) - m
    BY <2>2 DEF Past
  <2> QED BY <2>1, <2>2, <2>3, <2>4
<1> QED BY <1>1, <1>2

\* And they end in different places when they differ.
LEMMA PastApart ==
  ASSUME NEW m \in Nat, NEW r \in 0 .. m - 1, NEW i \in 0 .. m - 1, NEW k \in 0 .. m - 1, i # k
  PROVE  Past(r + i, m) # Past(r + k, m) /\ Past(r + i, m) \in 0 .. m - 1
<1>1. Past(r + i, m) = IF r + i < m THEN r + i ELSE r + i - m
  BY DEF Past
<1>2. Past(r + k, m) = IF r + k < m THEN r + k ELSE r + k - m
  BY DEF Past
<1>3. m \in Int /\ r \in Int /\ i \in Int /\ k \in Int /\ r >= 0 /\ r < m
      /\ i >= 0 /\ i < m /\ k >= 0 /\ k < m
  OBVIOUS
<1>4. Past(r + i, m) \in 0 .. m - 1
  BY <1>1, <1>3
<1>5. CASE r + i < m
  <2>1. Past(r + i, m) = r + i
    BY <1>1, <1>5
  <2> QED BY <1>2, <1>3, <1>4, <2>1
<1>6. CASE ~(r + i < m)
  <2>1. Past(r + i, m) = r + i - m
    BY <1>1, <1>6
  <2> QED BY <1>2, <1>3, <1>4, <2>1
<1> QED BY <1>5, <1>6

\* The places and counts of a ring, one by one.
LEMMA RingNumbers ==
  ASSUME R!RingBounds, RingTypes
  PROVE  /\ Cap \in Nat /\ Cap > 0 /\ Period \in Nat /\ Period > 0 /\ Period >= 2 * Cap
         /\ ri \in 0 .. Cap - 1 /\ wi \in 0 .. Cap - 1 /\ contex \in 0 .. Cap
         /\ wi = Past(ri + contex, Cap) /\ in = Past(out + contex, Period)
         /\ asked \in 0 .. Cap - contex /\ reading \in 0 .. contex
         /\ in \in 0 .. Period - 1 /\ out \in 0 .. Period - 1
         /\ wsize \in 1 .. Cap /\ rsize \in 1 .. Cap /\ Width \in Nat /\ Width > Cap
         /\ mem \in [0 .. 2 * Cap - 1 -> R!Label \cup {R!Blank}]
<1>1. /\ ri \in 0 .. Cap - 1 /\ wi \in 0 .. Cap - 1 /\ in \in R!Label /\ out \in R!Label
      /\ wsize \in R!Sizes /\ rsize \in R!Sizes
      /\ mem \in [R!Cells -> R!Label \cup {R!Blank}]
  BY DEF RingTypes, RingShape
<1>2. /\ contex \in 0 .. Cap /\ wi = Past(ri + contex, Cap) /\ in = Past(out + contex, Period)
      /\ asked \in 0 .. Cap - contex /\ reading \in 0 .. contex
  BY DEF RingTypes, RingCounts
<1> QED BY <1>1, <1>2, RingSizes

\* A byte that waits is not where the writer puts the next ones.
LEMMA RingApart ==
  ASSUME R!RingBounds, RingTypes, NEW n \in 0 .. Cap - contex,
         NEW i \in 0 .. contex - 1, NEW j \in 0 .. n - 1
  PROVE  Past(ri + i, Cap) # Past(wi + j, Cap) /\ Past(ri + i, Cap) \in 0 .. Cap - 1
<1>1. Cap \in Nat /\ ri \in 0 .. Cap - 1 /\ contex \in 0 .. Cap /\ wi = Past(ri + contex, Cap)
  BY RingNumbers
<1>2. /\ i \in 0 .. Cap - 1 /\ contex + j \in 0 .. Cap - 1 /\ i # contex + j
      /\ j \in 0 .. Cap - contex
  BY <1>1
<1>3. Past(wi + j, Cap) = Past(ri + (contex + j), Cap)
  BY <1>1, <1>2, PastPast
<1>4. Past(ri + i, Cap) # Past(ri + (contex + j), Cap) /\ Past(ri + i, Cap) \in 0 .. Cap - 1
  BY <1>1, <1>2, PastApart
<1> QED BY <1>3, <1>4

\* The place of a byte that is yet to be written.
LEMMA RingBeyond ==
  ASSUME R!RingBounds, RingTypes, NEW j \in 0 .. Cap - contex
  PROVE  /\ Past(ri + (contex + j), Cap) = Past(wi + j, Cap)
         /\ Past(out + (contex + j), Period) = Past(in + j, Period)
<1>1. Cap \in Nat /\ ri \in 0 .. Cap - 1 /\ contex \in 0 .. Cap /\ wi = Past(ri + contex, Cap)
  BY RingNumbers
<1>2. /\ Period \in Nat /\ out \in 0 .. Period - 1 /\ contex \in 0 .. Period
      /\ j \in 0 .. Period - contex /\ in = Past(out + contex, Period)
  <2>1. Period \in Nat /\ out \in 0 .. Period - 1 /\ in = Past(out + contex, Period)
    BY RingNumbers
  <2>2. Period >= 2 * Cap
    BY RingNumbers
  <2>3. contex \in 0 .. Period /\ j \in 0 .. Period - contex
    BY <1>1, <2>1, <2>2
  <2> QED BY <2>1, <2>3
<1>3. Past(wi + j, Cap) = Past(ri + (contex + j), Cap)
  BY <1>1, PastPast
<1>4. Past(in + j, Period) = Past(out + (contex + j), Period)
  BY <1>2, PastPast
<1> QED BY <1>3, <1>4

\* The bytes of a chunk, as the modules label them.
LEMMA RingByte ==
  ASSUME R!RingBounds, NEW first \in R!Label, NEW i \in 0 .. Cap
  PROVE  R!Byte(first, i) = Past(first + i, Period) /\ R!Byte(first, i) \in R!Label
<1>1. first + i \in 0 .. 2 * Period - 1 /\ Period > 0
  BY RingSizes
<1> QED BY <1>1, RingSizes, PastIs DEF R!Byte

\* Of csrb the writer crosses the end only when the reader never does.
LEMMA RingWriterStays ==
  ASSUME R!RingBounds, RingTypes, RingFits, kind = "csrb", R!Whole, Cap % rsize # 0
  PROVE  /\ wi + wsize <= Cap /\ (wi = 0 \/ wsize <= wi)
         /\ Multiple(wi, wsize) /\ Multiple(Cap, wsize) /\ Multiple(0, wsize)
<1>0. /\ wsize \in Nat /\ wsize > 0 /\ Cap \in Nat /\ wi \in Nat /\ wi < Cap
      /\ Multiple(wi, wsize) /\ Cap % wsize = 0
  <2>1. Cap \in Nat /\ wi \in 0 .. Cap - 1 /\ wsize \in 1 .. Cap
    BY RingNumbers
  <2>2. Multiple(wi, wsize) /\ Cap % wsize = 0
    BY DEF RingFits, R!Whole, R!Fit
  <2> QED BY <2>1, <2>2
<1>1. Multiple(Cap, wsize)
  BY <1>0, MultipleIs
<1>2. Multiple(0, wsize)
  BY <1>0 DEF Multiple
<1>3. wi + wsize <= Cap
  BY <1>0, <1>1, MultipleNext
<1>4. wi > 0 => 0 + wsize <= wi
  BY <1>0, <1>2, MultipleNext
<1>5. wi = 0 \/ wsize <= wi
  <2>1. CASE wi > 0
    BY <1>0, <1>4, <2>1
  <2>2. CASE ~(wi > 0)
    BY <1>0, <2>2
  <2> QED BY <2>1, <2>2
<1> QED BY <1>0, <1>1, <1>2, <1>3, <1>5

\* And a reader that does cross it starts as late as that.
LEMMA RingReaderStays ==
  ASSUME R!RingBounds, RingTypes, RingFits, kind = "csrb", R!Whole
  PROVE  /\ Cap % rsize = 0 => ri + rsize <= Cap /\ Multiple(Cap, rsize)
         /\ Cap % rsize # 0 =>
              /\ ri + rsize - Cap <= wsize
              /\ RingGcd \in Nat /\ RingGcd > 0
              /\ Multiple(Cap, RingGcd) /\ Multiple(rsize, RingGcd)
<1>0. /\ rsize \in Nat /\ rsize > 0 /\ Cap \in Nat /\ ri \in Nat /\ ri < Cap /\ wsize \in Nat
  BY RingNumbers
<1>1. CASE Cap % rsize = 0
  <2>1. Multiple(ri, rsize) /\ Multiple(Cap, rsize)
    BY <1>0, <1>1, MultipleIs DEF RingFits
  <2> QED BY <1>0, <1>1, <2>1, MultipleNext
<1>2. CASE Cap % rsize # 0
  <2>1. RingGcd \in 1 .. rsize /\ rsize % RingGcd = 0 /\ Cap % RingGcd = 0
    BY <1>0, GcdDivides DEF RingGcd
  <2>2. RingGcd \in Nat /\ RingGcd > 0
    BY <1>0, <2>1
  <2>3. Multiple(Cap, RingGcd) /\ Multiple(rsize, RingGcd) /\ Multiple(ri, RingGcd)
    BY <1>0, <1>2, <2>1, <2>2, MultipleIs DEF RingFits
  <2>4. ri + RingGcd <= Cap
    BY <1>0, <2>2, <2>3, MultipleNext
  <2>5. rsize - RingGcd <= wsize
    BY <1>2 DEF R!Whole, R!Fit, RingGcd
  <2> QED BY <1>0, <1>2, <2>2, <2>3, <2>4, <2>5
<1> QED BY <1>1, <1>2

\* What a reader was granted is the stream.
LEMMA RingGrants ==
  ASSUME R!RingBounds, RingInv
  PROVE  R!GrantedIsStream
<1> SUFFICES ASSUME "clear" \notin odd, kind = "csrb" => R!Whole, NEW i \in 0 .. reading - 1
             PROVE  (IF R!Apart(ri, reading) THEN rcm[i] ELSE mem[ri + i]) = R!Byte(out, i)
  BY DEF R!GrantedIsStream
<1>0. /\ RingTypes /\ RingHolds /\ RingReads /\ RingFits
      /\ Cap \in Nat /\ contex \in 0 .. Cap /\ reading \in 0 .. contex /\ ri \in 0 .. Cap - 1
      /\ i \in 0 .. contex - 1 /\ i \in 0 .. Cap
  <2>1. RingTypes /\ RingHolds /\ RingReads /\ RingFits
    BY DEF RingInv, RingStream, RingTypes
  <2>2. contex \in 0 .. Cap /\ reading \in 0 .. contex /\ ri \in 0 .. Cap - 1 /\ Cap \in Nat
    BY <2>1, RingNumbers
  <2>3. i \in 0 .. contex - 1 /\ i \in 0 .. Cap
    BY <2>2
  <2> QED BY <2>1, <2>2, <2>3
<1>1. R!Byte(out, i) = Past(out + i, Period)
  BY <1>0, RingByte DEF RingTypes, RingShape
<1>2. mem[Past(ri + i, Cap)] = Past(out + i, Period)
  BY <1>0 DEF RingHolds
<1>3. CASE R!Apart(ri, reading)
  <2>1. rcm = [k \in 0 .. reading - 1 |-> Past(out + k, Period)]
    BY <1>0, <1>3 DEF RingReads
  <2> QED BY <1>1, <1>3, <2>1
<1>4. CASE ~R!Apart(ri, reading)
  <2>1. CASE ri + i < Cap
    BY <1>1, <1>2, <1>4, <2>1 DEF Past
  <2>2. CASE ~(ri + i < Cap)
    <3>1. kind = "csrb"
      BY <1>0, <1>4, <2>2 DEF R!Apart, RingTypes, RingShape
    <3>2. reading = rsize
      BY <1>0, <3>1 DEF RingInv, RingChunks
    <3>3. Cap % rsize # 0 /\ ri + rsize - Cap <= wsize
      BY <1>0, <2>2, <3>1, <3>2, RingReaderStays
    <3>4. wsize \in 1 .. Cap
      BY <1>0, RingNumbers
    <3>5. Past(ri + i, Cap) = ri + i - Cap /\ ri + i - Cap < wsize
      BY <1>0, <2>2, <3>2, <3>3, <3>4 DEF Past
    <3>6. mem[Past(ri + i, Cap) + Cap] = mem[Past(ri + i, Cap)]
      BY <1>0, <3>1, <3>3, <3>5 DEF RingFits
    <3>7. Past(ri + i, Cap) + Cap = ri + i
      BY <1>0, <3>5
    <3> QED BY <1>1, <1>2, <1>4, <3>6, <3>7
  <2> QED BY <2>1, <2>2
<1> QED BY <1>3, <1>4

\* The room of a ring that was not cleared in between.
LEMMA RingEmpty ==
  ASSUME R!RingBounds, RingTypes
  PROVE  R!Empty = Cap - contex
<1>1. Cap \in Nat /\ contex \in 0 .. Cap /\ Width \in Nat /\ Width > Cap /\ Width > 0
  BY RingNumbers
<1>2. Cap - contex + Width \in 0 .. 2 * Width - 1
  BY <1>1
<1>3. (Cap - contex + Width) % Width = Past(Cap - contex + Width, Width)
  BY <1>1, <1>2, PastIs
<1>4. Past(Cap - contex + Width, Width) = Cap - contex
  BY <1>1 DEF Past
<1> QED BY <1>3, <1>4 DEF R!Empty

\* What a writer fills in is bytes.
LEMMA RingFilled ==
  ASSUME R!RingBounds, RingShape, NEW n \in 1 .. Cap, R!WriteQuery(n)
  PROVE  /\ mem' \in [R!Cells -> R!Label \cup {R!Blank}]
         /\ R!Apart(wi, n) => /\ wcm' = [i \in 0 .. n - 1 |-> Past(in + i, Period)]
                              /\ wcm' \in [0 .. n - 1 -> R!Label]
<1>n. Cap \in Nat /\ Cap > 0 /\ wi \in 0 .. Cap - 1 /\ R!Cells = 0 .. 2 * Cap - 1 /\ in \in R!Label
  BY RingSizes DEF RingShape
<1>b. \A k \in 0 .. Cap : R!Byte(in, k) = Past(in + k, Period) /\ R!Byte(in, k) \in R!Label
  BY <1>n, RingByte
<1>m. mem \in [R!Cells -> R!Label \cup {R!Blank}]
  BY DEF RingShape
<1>1. CASE R!Apart(wi, n)
  <2>1. wcm' = [i \in 0 .. n - 1 |-> R!Byte(in, i)] /\ mem' = mem
    BY <1>1 DEF R!WriteQuery
  <2>2. 0 .. n - 1 \subseteq 0 .. Cap
    BY <1>n
  <2> QED BY <1>b, <1>m, <2>1, <2>2
<1>2. CASE ~R!Apart(wi, n)
  <2>1. mem' = [x \in R!Cells |-> IF x \in wi .. wi + n - 1 THEN R!Byte(in, x - wi) ELSE mem[x]]
    BY <1>2 DEF R!WriteQuery
  <2>2. ASSUME NEW x \in R!Cells, x \in wi .. wi + n - 1
        PROVE  R!Byte(in, x - wi) \in R!Label
    <3>1. x - wi \in 0 .. Cap
      BY <1>n, <2>2
    <3> QED BY <1>b, <3>1
  <2> QED BY <1>2, <1>m, <2>1, <2>2
<1> QED BY <1>1, <1>2

\* A writer fills what it was granted, and nothing that waits.
LEMMA RingWriteQuery ==
  ASSUME R!RingBounds, RingKept, NEW n \in R!Sizes, R!Asks(n, wsize), R!WriteQuery(n)
  PROVE  RingStream'
<1>a. RingTypes /\ RingHolds /\ RingWrites /\ RingReads /\ RingFits
  BY DEF RingKept, RingStream, RingTypes
<1>0. /\ n \in 1 .. Cap /\ n <= Cap - contex /\ asked' = n
      /\ kind' = kind /\ wsize' = wsize /\ rsize' = rsize /\ wi' = wi /\ contex' = contex
      /\ in' = in /\ ri' = ri /\ reading' = reading /\ rcm' = rcm /\ out' = out
  BY <1>a, RingSizes, RingEmpty DEF R!WriteQuery, R!reader
<1>n. /\ Cap \in Nat /\ Cap > 0 /\ wi \in 0 .. Cap - 1 /\ contex \in 0 .. Cap
      /\ R!Cells = 0 .. 2 * Cap - 1 /\ n \in 0 .. Cap - contex
  BY <1>0, <1>a, RingSizes, RingNumbers
<1>b. \A k \in 0 .. Cap : R!Byte(in, k) = Past(in + k, Period) /\ R!Byte(in, k) \in R!Label
  BY <1>a, RingByte DEF RingTypes, RingShape
<1>c. RingCounts'
  BY <1>0, <1>n, <1>a DEF RingTypes, RingCounts
<1>w. /\ R!Whole' => R!Whole
      /\ R!Apart(wi, asked)' <=> R!Apart(wi, n)
      /\ R!Apart(ri, reading)' <=> R!Apart(ri, reading)
  <2>1. odd' = odd \cup R!If(asked > 0, "query")
    BY DEF R!WriteQuery
  <2>2. ("read" \in odd <=> "read" \in odd') /\ ("write" \in odd <=> "write" \in odd')
    BY <2>1 DEF R!If
  <2> QED BY <1>0, <2>2 DEF R!Whole, R!Fit, R!Gcd, R!Apart
<1>r. RingReads'
  BY <1>0, <1>a, <1>w DEF RingReads
<1>1. CASE R!Apart(wi, n)
  <2>1. mem' = mem /\ wcm' = [i \in 0 .. n - 1 |-> Past(in + i, Period)]
    BY <1>0, <1>1, RingFilled DEF R!WriteQuery, RingKept
  <2>2. RingHolds'
    BY <1>0, <1>a, <2>1 DEF RingHolds
  <2>3. RingWrites'
    BY <1>0, <1>1, <1>w, <2>1 DEF RingWrites
  <2>4. RingFits'
    BY <1>1 DEF RingFits, R!Apart, R!WriteQuery
  <2> QED BY <1>c, <1>r, <2>2, <2>3, <2>4 DEF RingStream
<1>2. CASE ~R!Apart(wi, n)
  <2>1. mem' = [x \in R!Cells |-> IF x \in wi .. wi + n - 1 THEN R!Byte(in, x - wi) ELSE mem[x]]
    BY <1>2 DEF R!WriteQuery
  <2>3. ASSUME NEW i \in 0 .. contex - 1
        PROVE  /\ Past(ri + i, Cap) \in 0 .. Cap - 1
               /\ mem'[Past(ri + i, Cap)] = mem[Past(ri + i, Cap)]
    <3>1. PICK x : x = Past(ri + i, Cap)
      OBVIOUS
    <3>2. x \in 0 .. Cap - 1
      <4>1. 0 \in 0 .. n - 1
        BY <1>0
      <4> QED BY <1>a, <1>n, <3>1, <4>1, RingApart
    <3>3. x \notin wi .. wi + n - 1
      <4> SUFFICES ASSUME x \in wi .. wi + n - 1 PROVE FALSE
        OBVIOUS
      <4>1. x - wi \in 0 .. n - 1 /\ wi + (x - wi) = x
        BY <1>n, <3>2
      <4>2. Past(wi + (x - wi), Cap) = x
        BY <1>n, <3>2, <4>1 DEF Past
      <4> QED BY <1>a, <1>n, <3>1, <4>1, <4>2, RingApart
    <3>4. x \in R!Cells
      BY <1>n, <3>2
    <3> QED BY <2>1, <3>1, <3>2, <3>3, <3>4
  <2>5. RingHolds'
    BY <1>0, <1>a, <2>3 DEF RingHolds
  <2>6. RingWrites'
    <3>1. ASSUME NEW i \in 0 .. n - 1
          PROVE  mem'[wi + i] = Past(in + i, Period)
      <4>1. wi + i \in R!Cells /\ wi + i \in wi .. wi + n - 1 /\ (wi + i) - wi = i /\ i \in 0 .. Cap
        BY <1>n
      <4> QED BY <1>b, <2>1, <4>1
    <3> QED BY <1>0, <1>2, <1>w, <3>1 DEF RingWrites
  <2>7. RingFits'
    <3> SUFFICES ASSUME kind = "csrb", R!Whole PROVE RingFits'
      BY <1>0, <1>w DEF RingFits
    <3>1. n = wsize
      BY DEF R!Asks
    <3>2. ASSUME Cap % rsize # 0, NEW i \in 0 .. contex - 1, Past(ri + i, Cap) < wsize
          PROVE  mem'[Past(ri + i, Cap) + Cap] = mem'[Past(ri + i, Cap)]
      <4>1. wi + wsize <= Cap
        BY <1>a, <3>2, RingWriterStays
      <4>2. PICK x : x = Past(ri + i, Cap) /\ x \in 0 .. Cap - 1 /\ mem'[x] = mem[x]
        BY <2>3
      <4>3. mem[x + Cap] = mem[x]
        BY <1>a, <3>2, <4>2 DEF RingFits
      <4>4. x + Cap \in R!Cells /\ x + Cap \notin wi .. wi + n - 1
        BY <1>n, <3>1, <4>1, <4>2
      <4>5. mem'[x + Cap] = mem[x + Cap]
        BY <2>1, <4>4
      <4> QED BY <4>2, <4>3, <4>5
    <3>3. RingGcd' = RingGcd
      BY <1>0 DEF RingGcd, R!Gcd
    <3> QED BY <1>0, <1>a, <3>2, <3>3 DEF RingFits
  <2> QED BY <1>c, <1>r, <2>5, <2>6, <2>7 DEF RingStream
<1> QED BY <1>1, <1>2

\* What write_sync leaves in the memory is bytes.
LEMMA RingMemory ==
  ASSUME R!RingBounds, RingShape, RingChunks, NEW n \in 0 .. asked, R!WriteSync(n),
         ~R!Leaves(wcm, wi, n)
  PROVE  mem' \in [R!Cells -> R!Label \cup {R!Blank}]
<1>n. /\ Cap \in Nat /\ Cap > 0 /\ wi \in 0 .. Cap - 1 /\ asked \in 0 .. Cap /\ n \in 0 .. Cap
      /\ n <= asked /\ R!Cells = 0 .. 2 * Cap - 1
  BY RingSizes DEF RingShape
<1>m. mem \in [R!Cells -> R!Label \cup {R!Blank}]
  BY DEF RingShape
<1>1. CASE kind = "csrb"
  <2> DEFINE M(x) == IF x >= Cap /\ x - Cap \in wi .. (IF wi + n < Cap THEN n ELSE Cap - wi) - 1
                     THEN mem[x - Cap] ELSE mem[x]
  <2>1. \A x \in R!Cells : M(x) \in R!Label \cup {R!Blank}
    <3> SUFFICES ASSUME NEW x \in R!Cells PROVE M(x) \in R!Label \cup {R!Blank}
      OBVIOUS
    <3>1. x \in 0 .. 2 * Cap - 1 /\ (x >= Cap => x - Cap \in 0 .. 2 * Cap - 1)
      BY <1>n
    <3>2. mem[x] \in R!Label \cup {R!Blank} /\ (x >= Cap => mem[x - Cap] \in R!Label \cup {R!Blank})
      BY <1>m, <1>n, <3>1
    <3> QED BY <3>2
  <2>4. mem' = [x \in R!Cells |-> IF x < n - (Cap - wi)
                                  THEN [d \in R!Cells |-> M(d)][x + Cap]
                                  ELSE [d \in R!Cells |-> M(d)][x]]
    BY <1>1 DEF R!WriteSync, R!CsrbSynced
  <2> HIDE DEF M
  <2>5. \A x \in R!Cells : x < n - (Cap - wi) => x + Cap \in R!Cells
    BY <1>n
  <2>6. \A x \in R!Cells : mem'[x] \in R!Label \cup {R!Blank}
    BY <2>1, <2>4, <2>5
  <2>7. mem' = [x \in R!Cells |-> mem'[x]]
    BY <2>4
  <2> QED BY <2>6, <2>7
<1>2. CASE kind # "csrb" /\ wcm = R!NoChunk
  <2>1. mem' = [x \in R!Cells |-> mem[x]]
    BY <1>2 DEF R!WriteSync, R!CcsrbSynced
  <2> QED BY <1>m, <2>1
<1>3. CASE kind # "csrb" /\ wcm # R!NoChunk
  <2>1. ~(n < Cap - wi)
    BY <1>3 DEF R!Leaves
  <2>2. wcm \in [0 .. asked - 1 -> R!Label]
    <3>1. wi + asked >= Cap
      BY <1>n, <2>1
    <3> QED BY <1>3, <3>1 DEF RingChunks
  <2>3. mem' = [x \in R!Cells |-> IF x \in wi .. Cap - 1 THEN wcm[x - wi]
                  ELSE IF x < n - (Cap - wi) THEN wcm[x + (Cap - wi)] ELSE mem[x]]
    BY <1>3 DEF R!WriteSync, R!CcsrbSynced
  <2>5. \A x \in wi .. Cap - 1 : x - wi \in 0 .. asked - 1
    BY <1>n, <2>1
  <2>6. \A x \in R!Cells : x < n - (Cap - wi) => x + (Cap - wi) \in 0 .. asked - 1
    BY <1>n
  <2> QED BY <1>m, <2>2, <2>3, <2>5, <2>6
<1> QED BY <1>1, <1>2, <1>3

\* What write_sync does to the memory: what waits stays, and what was put down follows it.
LEMMA RingSynced ==
  ASSUME R!RingBounds, RingKept, NEW n \in 0 .. asked, R!WriteSync(n), ~R!Leaves(wcm, wi, n)
  PROVE  /\ \A i \in 0 .. contex - 1 : mem'[Past(ri + i, Cap)] = mem[Past(ri + i, Cap)]
         /\ \A j \in 0 .. n - 1 : mem'[Past(wi + j, Cap)] = Past(in + j, Period)
<1>0. /\ RingTypes /\ RingWrites /\ RingFits /\ asked \in Nat /\ asked > 0
      /\ asked \in 0 .. Cap - contex
  <2>1. RingTypes /\ RingWrites /\ RingFits
    BY DEF RingKept, RingStream, RingTypes
  <2> QED BY <2>1, RingNumbers DEF R!WriteSync
<1>n. /\ Cap \in Nat /\ Cap > 0 /\ wi \in 0 .. Cap - 1 /\ contex \in 0 .. Cap
      /\ asked \in 1 .. Cap /\ n \in 0 .. Cap /\ n <= asked /\ R!Cells = 0 .. 2 * Cap - 1
  <2>1. /\ Cap \in Nat /\ Cap > 0 /\ wi \in 0 .. Cap - 1 /\ contex \in 0 .. Cap
        /\ R!Cells = 0 .. 2 * Cap - 1
    BY <1>0, RingSizes, RingNumbers
  <2> QED BY <1>0, <2>1
<1>m. mem \in [R!Cells -> R!Label \cup {R!Blank}]
  BY <1>0 DEF RingTypes, RingShape
<1>a. ASSUME NEW i \in 0 .. contex - 1
      PROVE  /\ Past(ri + i, Cap) \in 0 .. Cap - 1
             /\ \A j \in 0 .. n - 1 : Past(ri + i, Cap) # Past(wi + j, Cap)
  <2>1. 0 \in 0 .. asked - 1 /\ \A j \in 0 .. n - 1 : j \in 0 .. asked - 1
    BY <1>n
  <2>2. /\ Past(ri + i, Cap) \in 0 .. Cap - 1
        /\ \A j \in 0 .. asked - 1 : Past(ri + i, Cap) # Past(wi + j, Cap)
    BY <1>0, <2>1, RingApart
  <2> QED BY <2>1, <2>2
<1>1. CASE kind = "csrb"
  <2> DEFINE M(x) == IF x >= Cap /\ x - Cap \in wi .. (IF wi + n < Cap THEN n ELSE Cap - wi) - 1
                     THEN mem[x - Cap] ELSE mem[x]
  <2>2. \A x \in 0 .. Cap - 1 : M(x) = mem[x]
    BY <1>n
  <2>3. \A x \in R!Cells : (x >= Cap /\ x - Cap < wi) => M(x) = mem[x]
    BY <1>n
  <2>4. mem' = [x \in R!Cells |-> IF x < n - (Cap - wi)
                                  THEN [d \in R!Cells |-> M(d)][x + Cap]
                                  ELSE [d \in R!Cells |-> M(d)][x]]
    BY <1>1 DEF R!WriteSync, R!CsrbSynced
  <2> HIDE DEF M
  <2>5. \A x \in R!Cells : x < n - (Cap - wi) => x + Cap \in R!Cells /\ x < wi /\ x \in 0 .. Cap - 1
    BY <1>n
  <2>6. \A x \in R!Cells : mem'[x] = IF x < n - (Cap - wi) THEN M(x + Cap) ELSE M(x)
    BY <2>4, <2>5
  <2>8. ASSUME NEW i \in 0 .. contex - 1
        PROVE  mem'[Past(ri + i, Cap)] = mem[Past(ri + i, Cap)]
    <3>1. PICK x : x = Past(ri + i, Cap) /\ x \in 0 .. Cap - 1
      BY <1>a
    <3>2. ~(x < n - (Cap - wi))
      <4> SUFFICES ASSUME x < n - (Cap - wi) PROVE FALSE
        OBVIOUS
      <4>1. x + Cap - wi \in 0 .. n - 1 /\ wi + (x + Cap - wi) = x + Cap
        BY <1>n, <3>1
      <4>2. Past(x + Cap, Cap) = x
        BY <1>n, <3>1 DEF Past
      <4>3. Past(wi + (x + Cap - wi), Cap) = x
        BY <4>1, <4>2
      <4> QED BY <1>a, <3>1, <4>1, <4>3
    <3>3. x \in R!Cells
      BY <1>n, <3>1
    <3>4. mem'[x] = M(x)
      BY <2>6, <3>2, <3>3
    <3> QED BY <2>2, <3>1, <3>4
  <2>9. ASSUME NEW j \in 0 .. n - 1
        PROVE  mem'[Past(wi + j, Cap)] = Past(in + j, Period)
    <3>1. mem[wi + j] = Past(in + j, Period)
      <4>1. j \in 0 .. asked - 1
        BY <1>n
      <4> QED BY <1>0, <1>1, <4>1 DEF RingWrites, R!Apart
    <3>2. CASE wi + j < Cap
      <4>1. Past(wi + j, Cap) = wi + j /\ wi + j \in 0 .. Cap - 1 /\ wi + j \in R!Cells
            /\ ~(wi + j < n - (Cap - wi))
        BY <1>n, <3>2 DEF Past
      <4>2. mem'[wi + j] = M(wi + j) /\ M(wi + j) = mem[wi + j]
        BY <2>2, <2>6, <4>1
      <4> QED BY <3>1, <4>1, <4>2
    <3>3. CASE ~(wi + j < Cap)
      <4>1. Past(wi + j, Cap) = wi + j - Cap
        BY <1>n, <3>3 DEF Past
      <4>2. /\ wi + j - Cap \in R!Cells /\ wi + j - Cap < n - (Cap - wi)
            /\ (wi + j - Cap) + Cap = wi + j
            /\ wi + j \in R!Cells /\ wi + j >= Cap /\ wi + j - Cap < wi
        BY <1>n, <3>3
      <4>3. mem'[wi + j - Cap] = M(wi + j)
        <5>1. mem'[wi + j - Cap] = M((wi + j - Cap) + Cap)
          BY <2>6, <4>2
        <5>2. (wi + j - Cap) + Cap = wi + j
          BY <4>2
        <5> QED BY <5>1, <5>2
      <4>4. M(wi + j) = mem[wi + j]
        <5>1. PICK y : y = wi + j
          OBVIOUS
        <5>2. y \in R!Cells /\ y >= Cap /\ y - Cap < wi
          BY <1>n, <3>3, <5>1
        <5>3. M(y) = mem[y]
          BY <2>3, <5>2
        <5> QED BY <5>1, <5>3
      <4>5. mem'[wi + j - Cap] = Past(in + j, Period)
        BY <3>1, <4>3, <4>4
      <4> QED BY <4>1, <4>5
    <3> QED BY <3>2, <3>3
  <2> QED BY <2>8, <2>9
<1>2. CASE kind = "ccsrb" /\ wi + asked < Cap
  <2>1. wcm = R!NoChunk
    BY <1>n, <1>2 DEF R!Leaves
  <2>2. mem' = [x \in R!Cells |-> mem[x]]
    BY <1>2, <2>1 DEF R!WriteSync, R!CcsrbSynced
  <2>3. mem' = mem
    BY <1>m, <2>2
  <2>4. ASSUME NEW j \in 0 .. n - 1
        PROVE  mem[Past(wi + j, Cap)] = Past(in + j, Period)
    <3>1. wi + j < Cap
      BY <1>n, <1>2
    <3>2. mem[wi + j] = Past(in + j, Period)
      <4>1. j \in 0 .. asked - 1
        BY <1>n
      <4>2. ~R!Apart(wi, asked)
        BY <1>n, <1>2 DEF R!Apart
      <4> QED BY <1>0, <4>1, <4>2 DEF RingWrites
    <3> QED BY <3>1, <3>2 DEF Past
  <2> QED BY <2>3, <2>4
<1>3. CASE kind = "ccsrb" /\ ~(wi + asked < Cap)
  <2>1. wcm = [i \in 0 .. asked - 1 |-> Past(in + i, Period)]
    BY <1>0, <1>3, <1>n DEF RingWrites, R!Apart
  <2>2. wcm # R!NoChunk
    <3>1. 0 \in DOMAIN wcm
      BY <1>n, <2>1
    <3> QED BY <3>1 DEF R!NoChunk
  <2>a. ~(n < Cap - wi)
    BY <2>2 DEF R!Leaves
  <2>3. mem' = [x \in R!Cells |-> IF x \in wi .. Cap - 1 THEN wcm[x - wi]
                  ELSE IF x < n - (Cap - wi) THEN wcm[x + (Cap - wi)] ELSE mem[x]]
    BY <1>3, <2>2 DEF R!WriteSync, R!CcsrbSynced
  <2>4. \A k \in 0 .. n - 1 : wcm[k] = Past(in + k, Period)
    BY <1>n, <2>1
  <2>5. \A x \in wi .. Cap - 1 : x - wi \in 0 .. n - 1
    BY <1>n, <2>a
  <2>6. \A x \in R!Cells : x < n - (Cap - wi) => x + (Cap - wi) \in 0 .. n - 1
    BY <1>n
  <2>8. ASSUME NEW i \in 0 .. contex - 1
        PROVE  mem'[Past(ri + i, Cap)] = mem[Past(ri + i, Cap)]
    <3>1. PICK x : x = Past(ri + i, Cap) /\ x \in 0 .. Cap - 1
      BY <1>a
    <3>2. ~(x < n - (Cap - wi))
      <4> SUFFICES ASSUME x < n - (Cap - wi) PROVE FALSE
        OBVIOUS
      <4>1. x + Cap - wi \in 0 .. n - 1 /\ wi + (x + Cap - wi) = x + Cap
        BY <1>n, <3>1
      <4>2. Past(x + Cap, Cap) = x
        BY <1>n, <3>1 DEF Past
      <4>3. Past(wi + (x + Cap - wi), Cap) = x
        BY <4>1, <4>2
      <4> QED BY <1>a, <3>1, <4>1, <4>3
    <3>3. x \notin wi .. Cap - 1
      <4> SUFFICES ASSUME x \in wi .. Cap - 1 PROVE FALSE
        OBVIOUS
      <4>1. x - wi \in 0 .. n - 1 /\ wi + (x - wi) = x
        BY <2>5, <1>n, <3>1
      <4>2. Past(wi + (x - wi), Cap) = x
        BY <1>n, <3>1, <4>1 DEF Past
      <4> QED BY <1>a, <3>1, <4>1, <4>2
    <3>4. x \in R!Cells
      BY <1>n, <3>1
    <3> QED BY <2>3, <3>1, <3>2, <3>3, <3>4
  <2>9. ASSUME NEW j \in 0 .. n - 1
        PROVE  mem'[Past(wi + j, Cap)] = Past(in + j, Period)
    <3>1. CASE wi + j < Cap
      <4>1. /\ Past(wi + j, Cap) = wi + j /\ wi + j \in R!Cells /\ wi + j \in wi .. Cap - 1
            /\ (wi + j) - wi = j
        BY <1>n, <3>1 DEF Past
      <4> QED BY <2>3, <2>4, <4>1
    <3>2. CASE ~(wi + j < Cap)
      <4>1. Past(wi + j, Cap) = wi + j - Cap
        BY <1>n, <3>2 DEF Past
      <4>2. /\ wi + j - Cap \in R!Cells /\ wi + j - Cap < n - (Cap - wi)
            /\ (wi + j - Cap) + (Cap - wi) = j /\ wi + j - Cap \notin wi .. Cap - 1
        BY <1>n, <3>2
      <4> QED BY <2>3, <2>4, <4>1, <4>2
    <3> QED BY <3>1, <3>2
  <2> QED BY <2>8, <2>9
<1> QED BY <1>0, <1>1, <1>2, <1>3 DEF RingTypes, RingShape

\* A place on the ring after n more, as write_sync and read_sync reckon it.
LEMMA RingAfter ==
  ASSUME R!RingBounds, NEW i \in 0 .. Cap - 1, NEW n \in 0 .. Cap
  PROVE  R!After(i, n) = Past(i + n, Cap) /\ Past(i + n, Cap) \in 0 .. Cap - 1
<1>1. Cap \in Nat /\ Cap > 0
  BY RingSizes
<1>2. R!After(i, n) = IF i + n < Cap THEN i + n ELSE n - (Cap - i)
  BY DEF R!After
<1>3. Past(i + n, Cap) = IF i + n < Cap THEN i + n ELSE i + n - Cap
  BY <1>1 DEF Past
<1>4. CASE i + n < Cap
  <2>1. R!After(i, n) = i + n /\ Past(i + n, Cap) = i + n
    BY <1>2, <1>3, <1>4
  <2>2. i + n \in 0 .. Cap - 1
    BY <1>1, <1>4
  <2> QED BY <2>1, <2>2
<1>5. CASE ~(i + n < Cap)
  <2>1. R!After(i, n) = n - (Cap - i) /\ Past(i + n, Cap) = i + n - Cap
    BY <1>2, <1>3, <1>5
  <2>2. n - (Cap - i) = i + n - Cap /\ i + n - Cap \in 0 .. Cap - 1
    BY <1>1, <1>5
  <2> QED BY <2>1, <2>2
<1> QED BY <1>4, <1>5

\* The labels after n more bytes.
LEMMA RingLabel ==
  ASSUME R!RingBounds, NEW first \in 0 .. Period - 1, NEW n \in 0 .. Cap
  PROVE  (first + n) % Period = Past(first + n, Period) /\ Past(first + n, Period) \in 0 .. Period - 1
<1>1. first + n \in 0 .. 2 * Period - 1 /\ Period \in Nat /\ Period > 0
  BY RingSizes
<1> QED BY <1>1, PastIs

\* What was put down waits now.
LEMMA RingWriteSync ==
  ASSUME R!RingBounds, RingKept, NEW n \in 0 .. asked, R!WriteSync(n), ~R!Leaves(wcm, wi, n)
  PROVE  RingStream'
<1>0. /\ RingTypes /\ RingHolds /\ RingWrites /\ RingReads /\ RingFits
      /\ asked > 0 /\ asked' = 0 /\ contex' = (contex + n) % Width
      /\ wi' = R!After(wi, n) /\ in' = (in + n) % Period
      /\ odd' = odd \cup R!If(n < asked, "write")
      /\ kind' = kind /\ wsize' = wsize /\ rsize' = rsize
      /\ ri' = ri /\ reading' = reading /\ rcm' = rcm /\ out' = out
  BY DEF RingKept, RingStream, RingTypes, R!WriteSync, R!reader
<1>n. /\ Cap \in Nat /\ Cap > 0 /\ wi \in 0 .. Cap - 1 /\ contex \in 0 .. Cap
      /\ asked \in 0 .. Cap - contex /\ n \in 0 .. Cap - contex /\ reading \in 0 .. contex
      /\ in \in 0 .. Period - 1 /\ ri \in 0 .. Cap - 1 /\ out \in 0 .. Period - 1
      /\ wi = Past(ri + contex, Cap) /\ in = Past(out + contex, Period)
      /\ R!Label = 0 .. Period - 1 /\ R!Cells = 0 .. 2 * Cap - 1
  <2>1. /\ Cap \in Nat /\ Cap > 0 /\ wi \in 0 .. Cap - 1 /\ contex \in 0 .. Cap
        /\ asked \in 0 .. Cap - contex /\ reading \in 0 .. contex
        /\ in \in 0 .. Period - 1 /\ ri \in 0 .. Cap - 1 /\ out \in 0 .. Period - 1
        /\ wi = Past(ri + contex, Cap) /\ in = Past(out + contex, Period)
    BY <1>0, RingNumbers
  <2>2. n \in 0 .. Cap - contex
    BY <2>1
  <2> QED BY <2>1, <2>2, RingSizes
<1>k. asked > 0 /\ asked' = 0 /\ contex' = contex + n
  <2>1. contex + n \in 0 .. Width - 1
    BY <1>n, RingSizes
  <2>2. \A x \in 0 .. Width - 1 : x % Width = x
    BY RingSizes
  <2> QED BY <1>0, <2>1, <2>2
<1>l. n \in 0 .. Cap
  BY <1>n
<1>m. /\ Cap \in Nat /\ Cap > 0 /\ wi \in 0 .. Cap - 1
      /\ n \in 0 .. Cap /\ wi' = R!After(wi, n)
  BY <1>0, <1>l, <1>n
<1>1. wi' = Past(wi + n, Cap) /\ wi' \in 0 .. Cap - 1
  BY <1>m, RingAfter
<1>2. in' = Past(in + n, Period) /\ in' \in R!Label
  BY <1>0, <1>l, <1>n, RingLabel
<1>3. wi' = Past(ri + contex', Cap) /\ in' = Past(out + contex', Period)
  BY <1>0, <1>k, <1>n, <1>1, <1>2, RingBeyond
<1>4. RingCounts'
  <2>2. contex' \in 0 .. Cap /\ asked' \in 0 .. Cap - contex' /\ reading' \in 0 .. contex'
    <3>1. reading' = reading
      BY <1>0
    <3> QED BY <1>k, <1>n, <3>1
  <2> QED BY <1>0, <1>3, <2>2 DEF RingCounts
<1>5. RingHolds'
  <2> SUFFICES ASSUME NEW i \in 0 .. contex' - 1
               PROVE  mem'[Past(ri + i, Cap)] = Past(out + i, Period)
    BY <1>0 DEF RingHolds
  <2>1. CASE i < contex
    <3>1. i \in 0 .. contex - 1
      BY <1>n, <2>1
    <3>2. mem'[Past(ri + i, Cap)] = mem[Past(ri + i, Cap)]
      BY <3>1, RingSynced
    <3> QED BY <1>0, <3>1, <3>2 DEF RingHolds
  <2>2. CASE ~(i < contex)
    <3>1. PICK j : j = i - contex
      OBVIOUS
    <3>2. j \in 0 .. n - 1 /\ i = contex + j /\ j \in 0 .. Cap - contex
      BY <1>k, <1>n, <2>2, <3>1
    <3>3. Past(ri + i, Cap) = Past(wi + j, Cap) /\ Past(out + i, Period) = Past(in + j, Period)
      BY <1>0, <3>2, RingBeyond
    <3>4. mem'[Past(wi + j, Cap)] = Past(in + j, Period)
      BY <3>2, RingSynced
    <3> QED BY <3>3, <3>4
  <2> QED BY <2>1, <2>2
<1>6. RingWrites'
  <2>1. ~R!Apart(wi, asked)' /\ \A i \in 0 .. asked' - 1 : FALSE
    BY <1>k, <1>n, <1>1 DEF R!Apart
  <2> QED BY <2>1 DEF RingWrites
<1>7. RingReads'
  BY <1>0 DEF RingReads, R!Apart
<1>8. RingFits'
  <2>a. ("read" \in odd <=> "read" \in odd') /\ ("write" \in odd => "write" \in odd')
    BY <1>0 DEF R!If
  <2>b. R!Whole' => R!Whole
    BY <1>0, <2>a DEF R!Whole, R!Fit, R!Gcd
  <2> SUFFICES ASSUME kind = "csrb", R!Whole, R!Whole' PROVE RingFits'
    BY <1>0, <2>b DEF RingFits
  <2>0. asked = wsize /\ RingGcd' = RingGcd
    BY <1>0, <1>k, <1>n DEF RingKept, RingChunks, RingGcd, R!Gcd
  <2>1. ASSUME Cap % rsize # 0
        PROVE  /\ Multiple(wi', wsize)
               /\ \A i \in 0 .. contex' - 1 :
                    Past(ri + i, Cap) < wsize => mem'[Past(ri + i, Cap) + Cap] = mem'[Past(ri + i, Cap)]
    <3>k. wsize \in 1 .. Cap /\ n = wsize
      <4>1. "write" \notin odd'
        BY <1>0, <2>1 DEF R!Whole
      <4>2. ~(n < asked)
        BY <1>0, <4>1 DEF R!If
      <4> QED BY <1>k, <1>n, <2>0, <4>2
    <3>1. /\ wi + wsize <= Cap /\ (wi = 0 \/ wsize <= wi)
          /\ Multiple(wi, wsize) /\ Multiple(0, wsize)
      BY <1>0, <2>1, RingWriterStays
    <3>2. Multiple(wi', wsize)
      <4>1. wsize \in Nat /\ wsize > 0
        BY <3>k
      <4>2. Multiple(wsize, wsize)
        BY <4>1 DEF Multiple
      <4>3. Multiple(wi + wsize, wsize)
        <5>1. wi \in Nat
          BY <1>n
        <5> QED BY <3>1, <4>1, <4>2, <5>1, MultipleSum
      <4>4. wi' = wi + wsize \/ wi' = 0
        BY <1>n, <1>1, <3>k, <3>1 DEF Past
      <4> QED BY <3>1, <4>3, <4>4
    <3>3. /\ \A x \in 0 .. Cap - 1 : mem'[x] = mem[x]
          /\ \A x \in 0 .. Cap - 1 : mem'[x + Cap] =
                IF x \in wi .. (IF wi + n < Cap THEN n ELSE Cap - wi) - 1
                THEN mem[x] ELSE mem[x + Cap]
      <4> DEFINE M(x) == IF x >= Cap /\ x - Cap \in wi .. (IF wi + n < Cap THEN n ELSE Cap - wi) - 1
                         THEN mem[x - Cap] ELSE mem[x]
      <4>1. mem' = [x \in R!Cells |-> IF x < n - (Cap - wi)
                                      THEN [y \in R!Cells |-> M(y)][x + Cap]
                                      ELSE [y \in R!Cells |-> M(y)][x]]
        BY DEF R!WriteSync, R!CsrbSynced
      <4>2. \A x \in 0 .. Cap - 1 : M(x) = mem[x]
        BY <1>n
      <4>3. \A x \in 0 .. Cap - 1 : M(x + Cap) =
                IF x \in wi .. (IF wi + n < Cap THEN n ELSE Cap - wi) - 1
                THEN mem[x] ELSE mem[x + Cap]
        <5> SUFFICES ASSUME NEW x \in 0 .. Cap - 1
                     PROVE  M(x + Cap) = IF x \in wi .. (IF wi + n < Cap THEN n ELSE Cap - wi) - 1
                                         THEN mem[x] ELSE mem[x + Cap]
          OBVIOUS
        <5>1. (x + Cap) - Cap = x /\ x + Cap >= Cap
          BY <1>n
        <5> QED BY <5>1
      <4> HIDE DEF M
      <4>4. \A x \in R!Cells : ~(x < n - (Cap - wi))
        <5>1. /\ wi + wsize <= Cap /\ R!Cells = 0 .. 2 * Cap - 1
              /\ n = wsize /\ wsize \in 1 .. Cap /\ wi \in 0 .. Cap - 1 /\ Cap \in Nat
          BY <1>n, <3>k, <3>1
        <5> QED BY <5>1
      <4>5. \A x \in R!Cells : mem'[x] = M(x)
        BY <4>1, <4>4
      <4>6. \A x \in 0 .. Cap - 1 : x \in R!Cells /\ x + Cap \in R!Cells
        BY <1>n
      <4> QED BY <4>2, <4>3, <4>5, <4>6
    <3>4. ASSUME NEW i \in 0 .. contex' - 1, Past(ri + i, Cap) < wsize
          PROVE  mem'[Past(ri + i, Cap) + Cap] = mem'[Past(ri + i, Cap)]
      <4>1. CASE i < contex
        <5>1. i \in 0 .. contex - 1
          BY <1>n, <4>1
        <5>2. PICK x : x = Past(ri + i, Cap)
          OBVIOUS
        <5>3. x \in 0 .. Cap - 1
          <6>1. 0 \in 0 .. n - 1
            BY <3>k
          <6> QED BY <1>0, <1>n, <5>1, <5>2, <6>1, RingApart
        <5>4. mem[x + Cap] = mem[x]
          BY <1>0, <2>1, <3>4, <5>1, <5>2 DEF RingFits
        <5> QED BY <3>3, <5>2, <5>3, <5>4
      <4>2. CASE ~(i < contex)
        <5>1. PICK j : j = i - contex
          OBVIOUS
        <5>2. j \in 0 .. n - 1 /\ i = contex + j /\ j \in 0 .. Cap - contex
          BY <1>k, <1>n, <4>2, <5>1
        <5>3. Past(ri + i, Cap) = Past(wi + j, Cap)
          BY <1>0, <5>2, RingBeyond
        <5>0. /\ wi + wsize <= Cap /\ (wi = 0 \/ wsize <= wi) /\ j \in 0 .. wsize - 1
              /\ wi \in Nat /\ Cap \in Nat /\ Cap > 0 /\ wsize \in 1 .. Cap
          BY <1>n, <3>k, <3>1, <5>2
        <5>4. wi + j < Cap
          BY <5>0
        <5>5. Past(wi + j, Cap) = wi + j
          BY <5>4 DEF Past
        <5>6. wi + j < wsize
          BY <3>4, <5>3, <5>5
        <5>7. wi = 0
          BY <5>0, <5>6
        <5>8. wi + j \in wi .. (IF wi + n < Cap THEN n ELSE Cap - wi) - 1
              /\ wi + j \in 0 .. Cap - 1
          BY <3>k, <5>0, <5>7
        <5> QED BY <3>3, <5>3, <5>5, <5>8
      <4> QED BY <4>1, <4>2
    <3> QED BY <3>2, <3>4
  <2> QED BY <1>0, <2>0, <2>1 DEF RingFits
<1> QED BY <1>4, <1>5, <1>6, <1>7, <1>8 DEF RingStream

\* A reader is granted the stream.
LEMMA RingReadQuery ==
  ASSUME R!RingBounds, RingKept, NEW n \in R!Sizes, R!Asks(n, rsize), R!ReadQuery(n)
  PROVE  RingStream'
<1>0. /\ RingTypes /\ RingHolds /\ RingWrites /\ RingReads /\ RingFits
      /\ n \in 1 .. Cap /\ n <= contex /\ reading' = n
      /\ odd' = odd \cup R!If(reading > 0, "query")
      /\ kind' = kind /\ wsize' = wsize /\ rsize' = rsize /\ wi' = wi /\ contex' = contex
      /\ in' = in /\ ri' = ri /\ asked' = asked /\ wcm' = wcm /\ out' = out /\ mem' = mem
  BY RingSizes DEF RingKept, RingStream, RingTypes, R!ReadQuery, R!writer
<1>n. /\ Cap \in Nat /\ Cap > 0 /\ ri \in 0 .. Cap - 1 /\ contex \in 0 .. Cap /\ n \in 1 .. contex
  BY <1>0, RingNumbers
<1>w. R!Whole' => R!Whole
  <2>1. ("read" \in odd <=> "read" \in odd') /\ ("write" \in odd <=> "write" \in odd')
    BY <1>0 DEF R!If
  <2> QED BY <1>0, <2>1 DEF R!Whole, R!Fit, R!Gcd
<1>1. RingCounts'
  BY <1>0, <1>n DEF RingTypes, RingCounts
<1>2. RingHolds' /\ RingWrites'
  BY <1>0 DEF RingHolds, RingWrites, R!Apart
<1>3. RingReads'
  <2> SUFFICES ASSUME R!Apart(ri, n)
               PROVE  rcm' = [i \in 0 .. n - 1 |-> Past(out + i, Period)]
    BY <1>0 DEF RingReads, R!Apart
  <2>1. rcm' = [i \in 0 .. n - 1 |-> mem[(ri + i) % Cap]]
    BY DEF R!ReadQuery
  <2>2. \A i \in 0 .. n - 1 : mem[(ri + i) % Cap] = Past(out + i, Period)
    <3> SUFFICES ASSUME NEW i \in 0 .. n - 1
                 PROVE  mem[(ri + i) % Cap] = Past(out + i, Period)
      OBVIOUS
    <3>1. ri + i \in 0 .. 2 * Cap - 1 /\ i \in 0 .. contex - 1
      BY <1>n
    <3>2. (ri + i) % Cap = Past(ri + i, Cap)
      BY <1>n, <3>1, PastIs
    <3> QED BY <1>0, <3>1, <3>2 DEF RingHolds
  <2> QED BY <2>1, <2>2
<1>4. RingFits'
  <2>1. RingGcd' = RingGcd
    BY <1>0 DEF RingGcd, R!Gcd
  <2> QED BY <1>0, <1>w, <2>1 DEF RingFits
<1> QED BY <1>1, <1>2, <1>3, <1>4 DEF RingStream

\* A reader that lets go of what it was granted goes on behind it.
LEMMA RingReadSync ==
  ASSUME R!RingBounds, RingKept, NEW n \in 0 .. reading, R!ReadSync(n), ~R!Leaves(rcm, ri, n)
  PROVE  RingStream'
<1>0. /\ RingTypes /\ RingHolds /\ RingWrites /\ RingReads /\ RingFits
      /\ reading > 0 /\ reading' = 0 /\ contex' = (contex - n + Width) % Width
      /\ ri' = R!After(ri, n) /\ out' = (out + n) % Period
      /\ odd' = odd \cup R!If(n < reading, "read")
      /\ kind' = kind /\ wsize' = wsize /\ rsize' = rsize /\ mem' = mem
      /\ wi' = wi /\ asked' = asked /\ wcm' = wcm /\ in' = in
  BY DEF RingKept, RingStream, RingTypes, R!ReadSync, R!writer
<1>n. /\ Cap \in Nat /\ Cap > 0 /\ wi \in 0 .. Cap - 1 /\ contex \in 0 .. Cap
      /\ reading \in 0 .. contex /\ asked \in 0 .. Cap - contex /\ n \in 0 .. contex
      /\ in \in 0 .. Period - 1 /\ ri \in 0 .. Cap - 1 /\ out \in 0 .. Period - 1
      /\ wi = Past(ri + contex, Cap) /\ in = Past(out + contex, Period)
      /\ Period \in Nat /\ Period >= 2 * Cap
  <2>1. /\ Cap \in Nat /\ Cap > 0 /\ wi \in 0 .. Cap - 1 /\ contex \in 0 .. Cap
        /\ reading \in 0 .. contex /\ asked \in 0 .. Cap - contex
        /\ in \in 0 .. Period - 1 /\ ri \in 0 .. Cap - 1 /\ out \in 0 .. Period - 1
        /\ wi = Past(ri + contex, Cap) /\ in = Past(out + contex, Period)
        /\ Period \in Nat /\ Period >= 2 * Cap
    BY <1>0, RingNumbers
  <2>2. n \in 0 .. contex
    BY <2>1
  <2> QED BY <2>1, <2>2
<1>k. contex' = contex - n
  <2>1. Width \in Nat /\ Width > Cap /\ Width > 0
    BY RingSizes
  <2>2. PICK x : x = contex - n
    OBVIOUS
  <2>3. x \in 0 .. Width - 1 /\ x + Width \in 0 .. 2 * Width - 1
    BY <1>n, <2>1, <2>2
  <2>4. (x + Width) % Width = Past(x + Width, Width)
    BY <2>1, <2>3, PastIs
  <2>5. Past(x + Width, Width) = x
    BY <2>1, <2>3 DEF Past
  <2> QED BY <1>0, <2>2, <2>4, <2>5
<1>l. n \in 0 .. Cap
  BY <1>n
<1>1. ri' = Past(ri + n, Cap) /\ ri' \in 0 .. Cap - 1
  BY <1>0, <1>l, <1>n, RingAfter
<1>2. out' = Past(out + n, Period) /\ out' \in 0 .. Period - 1
  BY <1>0, <1>l, <1>n, RingLabel
<1>3. ASSUME NEW i \in 0 .. contex - n
      PROVE  /\ Past(ri' + i, Cap) = Past(ri + (n + i), Cap)
             /\ Past(out' + i, Period) = Past(out + (n + i), Period)
  <2>1. /\ n \in 0 .. Cap /\ i \in 0 .. Cap - n
        /\ n \in 0 .. Period /\ i \in 0 .. Period - n
    BY <1>n
  <2>2. Past(Past(ri + n, Cap) + i, Cap) = Past(ri + (n + i), Cap)
    BY <1>n, <2>1, PastPast
  <2>3. Past(Past(out + n, Period) + i, Period) = Past(out + (n + i), Period)
    BY <1>n, <2>1, PastPast
  <2> QED BY <1>1, <1>2, <2>2, <2>3
<1>4. RingCounts'
  <2>1. contex' \in 0 .. contex - n /\ n + contex' = contex
    BY <1>k, <1>n
  <2>2. wi' = Past(ri' + contex', Cap) /\ in' = Past(out' + contex', Period)
    <3>1. wi' = wi /\ in' = in
      BY <1>0
    <3> QED BY <1>n, <1>3, <2>1, <3>1
  <2>3. contex' \in 0 .. Cap /\ asked' \in 0 .. Cap - contex' /\ reading' \in 0 .. contex'
    <3>1. asked' = asked /\ reading' = 0
      BY <1>0
    <3> QED BY <1>k, <1>n, <3>1
  <2> QED BY <2>2, <2>3 DEF RingCounts
<1>5. ASSUME NEW i \in 0 .. contex' - 1
      PROVE  /\ n + i \in 0 .. contex - 1
             /\ Past(ri' + i, Cap) = Past(ri + (n + i), Cap)
             /\ Past(out' + i, Period) = Past(out + (n + i), Period)
  <2>1. i \in 0 .. contex - n /\ n + i \in 0 .. contex - 1
    BY <1>k, <1>n
  <2> QED BY <1>3, <2>1
<1>6. RingHolds'
  BY <1>0, <1>5 DEF RingHolds
<1>7. RingWrites'
  BY <1>0 DEF RingWrites, R!Apart
<1>8. RingReads'
  <2>1. reading' = 0 /\ ~(ri' + 0 >= Cap)
    BY <1>0, <1>1, <1>n
  <2> QED BY <2>1 DEF RingReads, R!Apart
<1>9. RingFits'
  <2>a. ("write" \in odd <=> "write" \in odd') /\ ("read" \in odd => "read" \in odd')
    BY <1>0 DEF R!If
  <2>b. R!Whole' => R!Whole
    BY <1>0, <2>a DEF R!Whole, R!Fit, R!Gcd
  <2> SUFFICES ASSUME kind = "csrb", R!Whole, R!Whole' PROVE RingFits'
    BY <1>0, <2>b DEF RingFits
  <2>0. reading = rsize /\ RingGcd' = RingGcd /\ n = rsize
    <3>1. reading = rsize
      BY <1>0, <1>n DEF RingKept, RingChunks
    <3>2. "read" \notin odd'
      BY DEF R!Whole
    <3>3. ~(n < reading)
      BY <1>0, <3>2 DEF R!If
    <3> QED BY <1>0, <1>n, <3>1, <3>3 DEF RingGcd, R!Gcd
  <2>z. rsize \in Nat /\ rsize > 0 /\ ri \in Nat /\ Cap \in Nat
    BY <1>0, <1>n, <2>0
  <2>1. ASSUME Cap % rsize = 0
        PROVE  Multiple(ri', rsize)
    <3>1. ri + rsize <= Cap
      BY <1>0, <2>1, RingReaderStays
    <3>2. Multiple(rsize, rsize) /\ Multiple(0, rsize)
      BY <2>z DEF Multiple
    <3>3. Multiple(ri, rsize)
      BY <1>0, <2>1 DEF RingFits
    <3>4. Multiple(ri + rsize, rsize)
      BY <2>z, <3>2, <3>3, MultipleSum
    <3>5. ri' = ri + rsize \/ ri' = 0
      BY <1>n, <1>1, <2>0, <3>1 DEF Past
    <3> QED BY <3>2, <3>4, <3>5
  <2>2. ASSUME Cap % rsize # 0
        PROVE  Multiple(ri', RingGcd)
    <3>1. /\ RingGcd \in Nat /\ RingGcd > 0
          /\ Multiple(Cap, RingGcd) /\ Multiple(rsize, RingGcd)
      BY <1>0, <2>2, RingReaderStays
    <3>2. Multiple(ri, RingGcd)
      BY <1>0, <2>2 DEF RingFits
    <3>3. Multiple(ri + rsize, RingGcd)
      BY <2>z, <3>1, <3>2, MultipleSum
    <3>4. CASE ri + rsize < Cap
      BY <1>1, <2>0, <3>3, <3>4 DEF Past
    <3>5. CASE ~(ri + rsize < Cap)
      <4>1. ri + rsize \in Nat /\ Cap <= ri + rsize
        BY <2>z, <3>5
      <4>2. Multiple(ri + rsize - Cap, RingGcd)
        BY <2>z, <3>1, <3>3, <4>1, MultipleDifference
      <4>3. ri' = Past(ri + rsize, Cap)
        BY <1>1, <2>0
      <4>4. Past(ri + rsize, Cap) = ri + rsize - Cap
        BY <2>z, <3>5 DEF Past
      <4> QED BY <4>2, <4>3, <4>4
    <3> QED BY <3>4, <3>5
  <2>3. ASSUME Cap % rsize # 0, NEW i \in 0 .. contex' - 1, Past(ri' + i, Cap) < wsize
        PROVE  mem'[Past(ri' + i, Cap) + Cap] = mem'[Past(ri' + i, Cap)]
    BY <1>0, <1>5, <2>3 DEF RingFits
  <2>4. Cap % rsize # 0 => Multiple(wi', wsize)
    BY <1>0 DEF RingFits
  <2> QED BY <1>0, <2>0, <2>1, <2>2, <2>3, <2>4 DEF RingFits
<1> QED BY <1>4, <1>6, <1>7, <1>8, <1>9 DEF RingStream

\* A sync whose place leaves the ring has moved nothing before.
LEMMA RingLeaves ==
  ASSUME R!RingBounds, RingKept, NEW n \in 0 .. Cap,
         \/ R!WriteSync(n) /\ R!Leaves(wcm, wi, n)
         \/ R!ReadSync(n) /\ R!Leaves(rcm, ri, n)
  PROVE  RingStream'
<1>0. /\ RingTypes /\ RingHolds /\ RingWrites /\ RingReads /\ RingFits
      /\ kind' = kind /\ wsize' = wsize /\ rsize' = rsize /\ mem' = mem /\ contex' = contex
      /\ wi' = wi /\ in' = in /\ ri' = ri /\ out' = out
      /\ \/ asked' = 0 /\ reading' = reading /\ rcm' = rcm
         \/ reading' = 0 /\ asked' = asked /\ wcm' = wcm
      /\ odd \subseteq odd'
  BY DEF RingKept, RingStream, RingTypes, R!WriteSync, R!ReadSync, R!writer, R!reader
<1>n. /\ Cap \in Nat /\ Cap > 0 /\ wi \in 0 .. Cap - 1 /\ ri \in 0 .. Cap - 1
      /\ contex \in 0 .. Cap
  BY <1>0, RingNumbers
<1>1. RingCounts'
  BY <1>0, <1>n DEF RingTypes, RingCounts
<1>2. RingHolds'
  BY <1>0 DEF RingHolds
<1>3. RingWrites'
  <2>1. CASE asked' = 0
    <3>1. ~R!Apart(wi, asked)' /\ \A i \in 0 .. asked' - 1 : FALSE
      BY <1>0, <1>n, <2>1 DEF R!Apart
    <3> QED BY <3>1 DEF RingWrites
  <2>2. CASE asked' = asked /\ wcm' = wcm
    BY <1>0, <2>2 DEF RingWrites, R!Apart
  <2> QED BY <1>0, <2>1, <2>2
<1>4. RingReads'
  <2>1. CASE reading' = 0
    <3>1. ~R!Apart(ri, reading)'
      BY <1>0, <1>n, <2>1 DEF R!Apart
    <3> QED BY <3>1 DEF RingReads
  <2>2. CASE reading' = reading /\ rcm' = rcm
    BY <1>0, <2>2 DEF RingReads, R!Apart
  <2> QED BY <1>0, <2>1, <2>2
<1>5. RingFits'
  <2>1. R!Whole' => R!Whole
    BY <1>0 DEF R!Whole, R!Fit, R!Gcd
  <2>2. RingGcd' = RingGcd
    BY <1>0 DEF RingGcd, R!Gcd
  <2> QED BY <1>0, <2>1, <2>2 DEF RingFits
<1> QED BY <1>1, <1>2, <1>3, <1>4, <1>5 DEF RingStream

\* A ring that is cleared while nothing of it is granted is as a new one, at the place
\* the stream has reached.
LEMMA RingClear ==
  ASSUME R!RingBounds, RingShape, asked = 0, reading = 0, R!Clear
  PROVE  RingStream'
<1>0. /\ wi' = 0 /\ ri' = 0 /\ contex' = 0 /\ out' = in /\ in' = in
      /\ rsize' = rsize /\ wsize' = wsize /\ asked' = 0 /\ reading' = 0
  BY DEF R!Clear
<1>n. /\ Cap \in Nat /\ Cap > 0 /\ in \in 0 .. Period - 1
      /\ Period \in Nat /\ rsize \in 1 .. Cap /\ wsize \in 1 .. Cap
  BY RingSizes DEF RingShape
<1>1. RingCounts'
  <2>1. Past(0 + 0, Cap) = 0 /\ Past(in + 0, Period) = in
    BY <1>n DEF Past
  <2>2. 0 \in 0 .. Cap /\ 0 \in 0 .. Cap - 0 /\ 0 \in 0 .. 0
    BY <1>n
  <2> QED BY <1>0, <2>1, <2>2 DEF RingCounts
<1>2. RingHolds'
  BY <1>0 DEF RingHolds
<1>3. RingWrites' /\ RingReads'
  <2>1. ~(0 + 0 >= Cap) /\ \A i \in 0 .. 0 - 1 : FALSE
    BY <1>n
  <2> QED BY <1>0, <2>1 DEF RingWrites, RingReads, R!Apart
<1>4. RingFits'
  <2>1. RingGcd' = RingGcd /\ rsize \in Nat /\ wsize \in Nat /\ rsize > 0
    BY <1>0, <1>n DEF RingGcd, R!Gcd
  <2>2. RingGcd \in Nat
    BY <1>n, <2>1, GcdDivides DEF RingGcd
  <2>3. Multiple(0, rsize) /\ Multiple(0, wsize) /\ Multiple(0, RingGcd)
    BY <2>1, <2>2 DEF Multiple
  <2>4. \A i \in 0 .. contex' - 1 : FALSE
    BY <1>0
  <2> QED BY <1>0, <2>1, <2>3, <2>4 DEF RingFits
<1> QED BY <1>1, <1>2, <1>3, <1>4 DEF RingStream

\* The types stay through whatever is called, and only what is odd leaves the ring.
LEMMA RingShapeWrites ==
  ASSUME R!RingBounds, RingShape, RingChunks, ~wild, NEW n \in 0 .. Cap,
         \/ n \in R!Sizes /\ R!Asks(n, wsize) /\ R!WriteQuery(n)
         \/ R!WriteSync(n)
  PROVE  RingShape' /\ RingChunks'
<1>n. /\ Cap \in Nat /\ Cap > 0 /\ wi \in 0 .. Cap - 1 /\ asked \in 0 .. Cap
      /\ in \in 0 .. Period - 1 /\ contex \in 0 .. Width - 1
      /\ R!Label = 0 .. Period - 1 /\ Width \in Nat /\ Width > Cap /\ R!Sizes = 1 .. Cap
  BY RingSizes DEF RingShape
<1>1. CASE n \in R!Sizes /\ R!Asks(n, wsize) /\ R!WriteQuery(n)
  <2>0. /\ asked' = n /\ odd' = odd \cup R!If(asked > 0, "query")
        /\ kind' = kind /\ wsize' = wsize /\ rsize' = rsize /\ wi' = wi /\ contex' = contex
        /\ in' = in /\ ri' = ri /\ reading' = reading /\ rcm' = rcm /\ out' = out /\ wild' = wild
        /\ ~R!Apart(wi, n) => wcm' = wcm
        /\ n \in 1 .. Cap
    BY <1>1, <1>n DEF R!WriteQuery, R!reader
  <2>1. /\ mem' \in [R!Cells -> R!Label \cup {R!Blank}]
        /\ R!Apart(wi, n) => wcm' \in [0 .. n - 1 -> R!Label]
    BY <1>1, <2>0, RingFilled
  <2>2. RingShape'
    <3>1. odd' \subseteq {"clear", "query", "write", "read"}
      BY <2>0 DEF R!If, RingShape
    <3>2. asked' \in 0 .. Cap
      BY <2>0
    <3>3. /\ R!Sizes' = R!Sizes /\ R!Cells' = R!Cells /\ R!Label' = R!Label /\ R!Blank' = R!Blank
      BY DEF R!Sizes, R!Cells, R!Label, R!Blank
    <3> QED BY <2>0, <2>1, <3>1, <3>2, <3>3 DEF RingShape
  <2>3. RingChunks'
    <3>1. kind = "csrb" => wcm' = R!NoChunk /\ asked' = wsize
      BY <1>1, <2>0 DEF RingChunks, R!Apart, R!Asks
    <3>2. wcm' # R!NoChunk /\ wi + n >= Cap => wcm' \in [0 .. n - 1 -> R!Label]
      BY <2>0, <2>1, <3>1 DEF R!Apart, RingShape
    <3>3. odd' = {} => odd = {} /\ asked = 0
      BY <1>n, <2>0 DEF R!If
    <3>4. odd' = {} /\ wcm' # R!NoChunk => wi + n >= Cap
      BY <2>0, <3>3 DEF R!Apart, RingChunks
    <3>5. asked' # 0
      BY <2>0
    <3> QED BY <2>0, <3>1, <3>2, <3>3, <3>4, <3>5 DEF RingChunks, R!NoChunk, R!Label, R!Blank
  <2> QED BY <2>2, <2>3
<1>2. CASE R!WriteSync(n)
  <2>0. /\ asked > 0 /\ n <= asked /\ n \in 0 .. asked
        /\ asked' = 0 /\ wcm' = R!NoChunk /\ odd' = odd \cup R!If(n < asked, "write")
        /\ kind' = kind /\ wsize' = wsize /\ rsize' = rsize
        /\ ri' = ri /\ reading' = reading /\ rcm' = rcm /\ out' = out
    BY <1>2, <1>n DEF R!WriteSync, R!reader
  <2>o. odd' \subseteq {"clear", "query", "write", "read"} /\ (odd' = {} => odd = {} /\ n = asked)
    BY <1>n, <2>0 DEF R!If, RingShape
  <2>1. /\ mem' \in [R!Cells -> R!Label \cup {R!Blank}]
        /\ wi' \in 0 .. Cap - 1 /\ contex' \in 0 .. Width - 1 /\ in' \in R!Label
        /\ wild' \in BOOLEAN /\ (wild' => odd' # {})
    <3>1. CASE R!Leaves(wcm, wi, n)
      <4>1. mem' = mem /\ wi' = wi /\ contex' = contex /\ in' = in /\ wild' = TRUE
        BY <1>2, <3>1 DEF R!WriteSync
      <4>2. odd' # {}
        <5> SUFFICES ASSUME odd = {}, n = asked PROVE FALSE
          BY <2>o
        <5>1. wcm # R!NoChunk /\ n < Cap - wi
          BY <3>1 DEF R!Leaves
        <5>2. wi + asked >= Cap
          BY <5>1 DEF RingChunks
        <5> QED BY <1>n, <5>1, <5>2
      <4> QED BY <4>1, <4>2 DEF RingShape
    <3>2. CASE ~R!Leaves(wcm, wi, n)
      <4>1. /\ wi' = R!After(wi, n) /\ contex' = (contex + n) % Width
            /\ in' = (in + n) % Period /\ wild' = wild
        BY <1>2, <3>2 DEF R!WriteSync
      <4>2. wi' \in 0 .. Cap - 1 /\ in' \in R!Label
        BY <1>n, <4>1, RingAfter, RingLabel
      <4>3. contex + n \in 0 .. 2 * Width - 1 /\ Width > 0
        BY <1>n
      <4>4. contex' \in 0 .. Width - 1
        BY <1>n, <4>1, <4>3, PastIs
      <4> QED BY <1>2, <2>0, <3>2, <4>1, <4>2, <4>4, RingMemory DEF RingShape
    <3> QED BY <3>1, <3>2
  <2>2. RingShape'
    <3>1. asked' \in 0 .. Cap
      BY <1>n, <2>0
    <3>2. R!Sizes' = R!Sizes /\ R!Cells' = R!Cells /\ R!Label' = R!Label /\ R!Blank' = R!Blank
      BY DEF R!Sizes, R!Cells, R!Label, R!Blank
    <3> QED BY <2>0, <2>o, <2>1, <3>1, <3>2 DEF RingShape
  <2>3. RingChunks'
    BY <2>0, <2>o, <2>1 DEF RingChunks, R!NoChunk, R!Blank
  <2> QED BY <2>2, <2>3
<1> QED BY <1>1, <1>2

LEMMA RingShapeReads ==
  ASSUME R!RingBounds, RingShape, RingChunks, ~wild, NEW n \in 0 .. Cap,
         \/ n \in R!Sizes /\ R!Asks(n, rsize) /\ R!ReadQuery(n)
         \/ R!ReadSync(n)
  PROVE  RingShape' /\ RingChunks'
<1>n. /\ Cap \in Nat /\ Cap > 0 /\ ri \in 0 .. Cap - 1 /\ reading \in 0 .. Cap
      /\ out \in 0 .. Period - 1 /\ contex \in 0 .. Width - 1
      /\ R!Label = 0 .. Period - 1 /\ Width \in Nat /\ Width > Cap /\ R!Sizes = 1 .. Cap
  BY RingSizes DEF RingShape
<1>s. R!Sizes' = R!Sizes /\ R!Cells' = R!Cells /\ R!Label' = R!Label /\ R!Blank' = R!Blank
  BY DEF R!Sizes, R!Cells, R!Label, R!Blank
<1>1. CASE n \in R!Sizes /\ R!Asks(n, rsize) /\ R!ReadQuery(n)
  <2>0. /\ reading' = n /\ odd' = odd \cup R!If(reading > 0, "query")
        /\ kind' = kind /\ wsize' = wsize /\ rsize' = rsize /\ wi' = wi /\ contex' = contex
        /\ in' = in /\ ri' = ri /\ asked' = asked /\ wcm' = wcm /\ out' = out /\ wild' = wild
        /\ mem' = mem /\ (~R!Apart(ri, n) => rcm' = rcm) /\ n \in 1 .. Cap
    BY <1>1, <1>n DEF R!ReadQuery, R!writer
  <2>2. RingShape'
    <3>1. odd' \subseteq {"clear", "query", "write", "read"}
      BY <2>0 DEF R!If, RingShape
    <3>2. reading' \in 0 .. Cap
      BY <2>0
    <3> QED BY <1>s, <2>0, <3>1, <3>2 DEF RingShape
  <2>3. RingChunks'
    <3>1. kind = "csrb" => rcm' = R!NoChunk /\ reading' = rsize
      BY <1>1, <2>0 DEF RingChunks, R!Apart, R!Asks
    <3>3. odd' = {} => odd = {} /\ reading = 0
      BY <1>n, <2>0 DEF R!If
    <3>4. odd' = {} /\ rcm' # R!NoChunk => ri + n >= Cap
      BY <2>0, <3>3 DEF R!Apart, RingChunks
    <3>5. reading' # 0
      BY <2>0
    <3> QED BY <1>s, <2>0, <3>1, <3>3, <3>4, <3>5 DEF RingChunks, R!NoChunk, R!Label, R!Blank
  <2> QED BY <2>2, <2>3
<1>2. CASE R!ReadSync(n)
  <2>0. /\ reading > 0 /\ n <= reading /\ n \in 0 .. reading
        /\ reading' = 0 /\ rcm' = R!NoChunk /\ odd' = odd \cup R!If(n < reading, "read")
        /\ kind' = kind /\ wsize' = wsize /\ rsize' = rsize /\ mem' = mem
        /\ wi' = wi /\ asked' = asked /\ wcm' = wcm /\ in' = in
    BY <1>2, <1>n DEF R!ReadSync, R!writer
  <2>o. odd' \subseteq {"clear", "query", "write", "read"} /\ (odd' = {} => odd = {} /\ n = reading)
    BY <1>n, <2>0 DEF R!If, RingShape
  <2>1. /\ ri' \in 0 .. Cap - 1 /\ contex' \in 0 .. Width - 1 /\ out' \in R!Label
        /\ wild' \in BOOLEAN /\ (wild' => odd' # {})
    <3>1. CASE R!Leaves(rcm, ri, n)
      <4>1. ri' = ri /\ contex' = contex /\ out' = out /\ wild' = TRUE
        BY <1>2, <3>1 DEF R!ReadSync
      <4>2. odd' # {}
        <5> SUFFICES ASSUME odd = {}, n = reading PROVE FALSE
          BY <2>o
        <5>1. rcm # R!NoChunk /\ n < Cap - ri
          BY <3>1 DEF R!Leaves
        <5>2. ri + reading >= Cap
          BY <5>1 DEF RingChunks
        <5> QED BY <1>n, <5>1, <5>2
      <4> QED BY <4>1, <4>2 DEF RingShape
    <3>2. CASE ~R!Leaves(rcm, ri, n)
      <4>1. /\ ri' = R!After(ri, n) /\ contex' = (contex - n + Width) % Width
            /\ out' = (out + n) % Period /\ wild' = wild
        BY <1>2, <3>2 DEF R!ReadSync
      <4>2. ri' \in 0 .. Cap - 1 /\ out' \in R!Label
        BY <1>n, <4>1, RingAfter, RingLabel
      <4>3. contex - n + Width \in 0 .. 2 * Width - 1 /\ Width > 0
        BY <1>n
      <4>4. contex' \in 0 .. Width - 1
        BY <1>n, <4>1, <4>3, PastIs
      <4> QED BY <4>1, <4>2, <4>4 DEF RingShape
    <3> QED BY <3>1, <3>2
  <2>2. RingShape'
    <3>1. reading' \in 0 .. Cap
      BY <1>n, <2>0
    <3> QED BY <1>s, <2>0, <2>o, <2>1, <3>1 DEF RingShape
  <2>3. RingChunks'
    BY <1>s, <2>0, <2>o, <2>1 DEF RingChunks, R!NoChunk, R!Blank
  <2> QED BY <2>2, <2>3
<1> QED BY <1>1, <1>2

LEMMA RingShapeClears ==
  ASSUME R!RingBounds, RingShape, RingChunks, ~wild, R!Clear
  PROVE  RingShape' /\ RingChunks'
<1>n. Cap \in Nat /\ Cap > 0 /\ wi \in 0 .. Cap - 1 /\ asked \in 0 .. Cap /\ Width \in Nat /\ Width > Cap
  BY RingSizes DEF RingShape
<1>s. R!Sizes' = R!Sizes /\ R!Cells' = R!Cells /\ R!Label' = R!Label /\ R!Blank' = R!Blank
  BY DEF R!Sizes, R!Cells, R!Label, R!Blank
<1>0. /\ wi' = 0 /\ ri' = 0 /\ contex' = 0 /\ out' = in /\ in' = in
      /\ kind' = kind /\ rsize' = rsize /\ wsize' = wsize /\ mem' = mem /\ asked' = asked
      /\ reading' = reading /\ wcm' = wcm /\ rcm' = rcm /\ wild' = wild
      /\ odd' \in {{}, odd \cup {"clear"}}
      /\ odd' = {} => asked = 0 /\ reading = 0
  BY DEF R!Clear
<1>1. RingShape'
  <2>1. 0 \in 0 .. Cap - 1 /\ 0 \in 0 .. Width - 1
    BY <1>n
  <2>2. odd' \subseteq {"clear", "query", "write", "read"}
    BY <1>0 DEF RingShape
  <2> QED BY <1>0, <1>s, <2>1, <2>2 DEF RingShape
<1>2. RingChunks'
  <2>1. 0 + asked >= Cap => wi + asked >= Cap
    BY <1>n
  <2> QED BY <1>0, <1>s, <2>1 DEF RingChunks, R!NoChunk, R!Blank
<1> QED BY <1>1, <1>2

\* Every step of a ring keeps the invariant.
LEMMA RingStep ==
  ASSUME R!RingBounds, RingInv, [R!Next]_ring
  PROVE  RingInv'
<1>0. RingShape /\ RingChunks /\ ("clear" \notin odd => RingKept)
  BY DEF RingInv, RingKept
<1>1. CASE R!Next
  <2>0. ~wild /\ odds' \in 0 .. MaxOdd
    <3>1. ~wild /\ odds' = (IF odd' = {} THEN 0 ELSE odds + 1) /\ odds' <= MaxOdd
      BY <1>1 DEF R!Next
    <3>2. odds \in 0 .. MaxOdd /\ MaxOdd \in Nat
      BY RingSizes DEF RingInv
    <3> QED BY <3>1, <3>2
  <2>1. ASSUME NEW n \in R!Sizes, R!Asks(n, wsize), R!WriteQuery(n)
        PROVE  RingInv'
    <3>1. n \in 0 .. Cap
      BY RingSizes
    <3>2. RingShape' /\ RingChunks'
      BY <1>0, <2>0, <2>1, <3>1, RingShapeWrites
    <3>3. "clear" \notin odd' => "clear" \notin odd
      BY <2>1 DEF R!WriteQuery
    <3> QED BY <1>0, <2>0, <2>1, <3>2, <3>3, RingWriteQuery DEF RingInv
  <2>2. ASSUME NEW n \in R!Sizes, R!Asks(n, rsize), R!ReadQuery(n)
        PROVE  RingInv'
    <3>1. n \in 0 .. Cap
      BY RingSizes
    <3>2. RingShape' /\ RingChunks'
      BY <1>0, <2>0, <2>2, <3>1, RingShapeReads
    <3>3. "clear" \notin odd' => "clear" \notin odd
      BY <2>2 DEF R!ReadQuery
    <3> QED BY <1>0, <2>0, <2>2, <3>2, <3>3, RingReadQuery DEF RingInv
  <2>3. ASSUME NEW n \in 0 .. Cap, R!WriteSync(n)
        PROVE  RingInv'
    <3>1. n \in 0 .. asked
      <4>1. n <= asked /\ asked \in 0 .. Cap /\ Cap \in Nat
        BY <1>0, <2>3, RingSizes DEF R!WriteSync, RingShape
      <4> QED BY <4>1
    <3>2. RingShape' /\ RingChunks'
      BY <1>0, <2>0, <2>3, RingShapeWrites
    <3>3. "clear" \notin odd' => "clear" \notin odd
      BY <2>3 DEF R!WriteSync
    <3> QED BY <1>0, <2>0, <2>3, <3>1, <3>2, <3>3, RingWriteSync, RingLeaves DEF RingInv
  <2>4. ASSUME NEW n \in 0 .. Cap, R!ReadSync(n)
        PROVE  RingInv'
    <3>1. n \in 0 .. reading
      <4>1. n <= reading /\ reading \in 0 .. Cap /\ Cap \in Nat
        BY <1>0, <2>4, RingSizes DEF R!ReadSync, RingShape
      <4> QED BY <4>1
    <3>2. RingShape' /\ RingChunks'
      BY <1>0, <2>0, <2>4, RingShapeReads
    <3>3. "clear" \notin odd' => "clear" \notin odd
      BY <2>4 DEF R!ReadSync
    <3> QED BY <1>0, <2>0, <2>4, <3>1, <3>2, <3>3, RingReadSync, RingLeaves DEF RingInv
  <2>5. CASE R!Clear
    <3>1. RingShape' /\ RingChunks'
      BY <1>0, <2>0, <2>5, RingShapeClears
    <3>2. "clear" \notin odd' => asked = 0 /\ reading = 0
      BY <2>5 DEF R!Clear
    <3> QED BY <1>0, <2>0, <2>5, <3>1, <3>2, RingClear DEF RingInv
  <2> QED BY <1>1, <2>1, <2>2, <2>3, <2>4, <2>5 DEF R!Next
<1>2. CASE UNCHANGED ring
  <2>1. /\ kind' = kind /\ wsize' = wsize /\ rsize' = rsize /\ mem' = mem /\ wi' = wi /\ ri' = ri
        /\ contex' = contex /\ asked' = asked /\ reading' = reading /\ wcm' = wcm /\ rcm' = rcm
        /\ in' = in /\ out' = out /\ odd' = odd /\ odds' = odds /\ wild' = wild
    BY <1>2 DEF ring
  <2>2. RingGcd' = RingGcd /\ (R!Whole' <=> R!Whole)
    BY <2>1 DEF RingGcd, R!Gcd, R!Whole, R!Fit
  <2>3. RingShape' /\ RingChunks' /\ odds' \in 0 .. MaxOdd
    BY <2>1 DEF RingInv, RingShape, RingChunks, R!Sizes, R!Cells, R!Label, R!Blank, R!NoChunk
  <2>4. RingStream => RingStream'
    <3>1. RingCounts => RingCounts'
      BY <2>1 DEF RingCounts
    <3>2. RingHolds => RingHolds'
      BY <2>1 DEF RingHolds
    <3>3. (RingWrites => RingWrites') /\ (RingReads => RingReads')
      BY <2>1 DEF RingWrites, RingReads, R!Apart
    <3>4. RingFits => RingFits'
      BY <2>1, <2>2 DEF RingFits
    <3> QED BY <3>1, <3>2, <3>3, <3>4 DEF RingStream
  <2> QED BY <2>1, <2>3, <2>4 DEF RingInv
<1> QED BY <1>1, <1>2

\* The invariant has what the module states of a ring.
LEMMA RingImplies ==
  ASSUME R!RingBounds, RingInv
  PROVE  R!TypeOK /\ R!GrantedIsStream /\ R!StaysInTheRing
<1>0. RingShape /\ RingChunks /\ odds \in 0 .. MaxOdd
  BY DEF RingInv
<1>1. "clear" \notin odd => R!Counts
  <2> SUFFICES ASSUME RingTypes PROVE R!Counts
    BY <1>0 DEF RingInv, RingStream, RingTypes
  <2>1. /\ Cap \in Nat /\ Cap > 0 /\ Period \in Nat /\ Period > 0 /\ Period >= 2 * Cap
        /\ ri \in 0 .. Cap - 1 /\ contex \in 0 .. Cap /\ out \in 0 .. Period - 1
        /\ wi = Past(ri + contex, Cap) /\ in = Past(out + contex, Period)
        /\ asked \in 0 .. Cap - contex /\ reading \in 0 .. contex
    BY RingNumbers
  <2>2. ri + contex \in 0 .. 2 * Cap - 1 /\ out + contex \in 0 .. 2 * Period - 1
    BY <2>1
  <2>3. (ri + contex) % Cap = wi /\ (out + contex) % Period = in
    BY <2>1, <2>2, PastIs
  <2>4. contex <= Cap /\ asked <= Cap - contex /\ reading <= contex
    BY <2>1
  <2> QED BY <2>3, <2>4 DEF R!Counts
<1>2. R!TypeOK
  BY <1>0, <1>1 DEF RingShape, R!TypeOK
<1>3. R!StaysInTheRing
  BY <1>0 DEF RingChunks, R!StaysInTheRing
<1> QED BY <1>2, <1>3, RingGrants

-----------------------------------------------------------------------------
(* autom: what is owed to a reader is the end of the block, byte for byte.  *)

\* The types, and how full a block is that nobody cut.
BlockSizes ==
  /\ pre_bytes \in Nat /\ space \in Nat /\ written \in Nat
  /\ moved \in BOOLEAN /\ mixed \in BOOLEAN /\ stray \in BOOLEAN
  /\ cur_bytes \in Nat /\ tail \in Nat /\ cur_bytes <= tail
  /\ space < pre_bytes \/ (space = pre_bytes /\ ~moved /\ ~stray /\ (tail < space \/ tail = 0))

\* The block holds as many bytes as it says.
BlockBytes == head \in Seq(Nat) /\ Len(head) = tail

\* What a reader has not seen yet, unless a write overwrote some of it.
BlockOwes ==
  /\ unread \in Seq(Nat) /\ Len(unread) = cur_bytes
  /\ ~mixed => \A i \in 1 .. cur_bytes : head[tail - cur_bytes + i] \in {unread[i], 0}

\* The invariant of the block.
BlockInv == BlockSizes /\ BlockBytes /\ BlockOwes

\* An empty block.
LEMMA BlockInit ==
  ASSUME A!SizeBounds, A!Init
  PROVE  BlockInv
<1>1. BlockSizes
  <2>1. moved = FALSE /\ mixed = FALSE /\ stray = FALSE
    BY DEF A!Init
  <2>2. /\ pre_bytes \in Nat /\ space = pre_bytes /\ written = 0 /\ cur_bytes = 0 /\ tail = 0
    BY DEF A!SizeBounds, A!Init
  <2>3. moved \in BOOLEAN /\ mixed \in BOOLEAN /\ stray \in BOOLEAN
    BY <2>1
  <2>4. ~moved /\ ~stray
    BY <2>1, Zenon
  <2> QED BY <2>2, <2>3, <2>4 DEF BlockSizes
<1>2. BlockBytes /\ BlockOwes
  BY DEF A!Init, BlockBytes, BlockOwes
<1> QED BY <1>1, <1>2 DEF BlockInv

\* A write adds its bytes at the end, over what was read or in a larger block.
LEMMA BlockWrite ==
  ASSUME A!SizeBounds, BlockInv, ~stray, NEW n \in 1 .. MaxWrite, A!Write(n)
  PROVE  BlockInv'
<1>a. PICK new : new = [i \in 1 .. n |-> written + i]
  OBVIOUS
<1>0. n \in Nat /\ n > 0 /\ MaxWrite \in Nat /\ BlockSizes /\ BlockBytes /\ BlockOwes
  BY DEF A!SizeBounds, BlockInv
<1>1. /\ written' = written + n /\ cur_bytes' = cur_bytes + n /\ tail' = cur_bytes + n
      /\ head' = SubSeq(head, 1, cur_bytes) \o new /\ unread' = unread \o new /\ moved' = FALSE
      /\ mixed' = (cur_bytes > 0 /\ (mixed \/ cur_bytes < tail))
      /\ IF cur_bytes + n + 1 > pre_bytes
         THEN pre_bytes' = cur_bytes + n + 1 /\ space' = cur_bytes + n + 1 /\ stray' = stray
         ELSE stray' = (cur_bytes + n + 1 > space) /\ pre_bytes' = pre_bytes /\ space' = space
  BY <1>a DEF A!Write, A!Need
<1>2. BlockSizes'
  <2>1. mixed' \in BOOLEAN /\ moved' \in BOOLEAN /\ stray' \in BOOLEAN
    <3>1. moved' = FALSE /\ mixed' = (cur_bytes > 0 /\ (mixed \/ cur_bytes < tail))
      BY <1>1
    <3>2. moved' \in BOOLEAN /\ mixed' \in BOOLEAN
      BY <3>1
    <3>3. CASE stray' = (cur_bytes + n + 1 > space)
      <4>1. stray' \in BOOLEAN
        BY <3>3
      <4> QED BY <3>2, <4>1
    <3>4. CASE stray' = stray
      BY <1>0, <3>2, <3>4 DEF BlockSizes
    <3> QED BY <1>1, <3>3, <3>4
  <2>2. /\ pre_bytes' \in Nat /\ space' \in Nat /\ written' \in Nat
        /\ cur_bytes' \in Nat /\ tail' \in Nat /\ cur_bytes' <= tail'
    BY <1>0, <1>1 DEF BlockSizes
  <2>3. CASE cur_bytes + n + 1 > pre_bytes
    <3>1. space' = pre_bytes' /\ tail' < space'
      BY <1>0, <1>1, <2>3 DEF BlockSizes
    <3> QED BY <1>1, <2>1, <2>2, <2>3, <3>1 DEF BlockSizes
  <2>4. CASE ~(cur_bytes + n + 1 > pre_bytes)
    <3>1. stray' = (cur_bytes + n + 1 > space) /\ pre_bytes' = pre_bytes /\ space' = space
      BY <1>1, <2>4
    <3>2. space < pre_bytes \/ (space = pre_bytes /\ ~(cur_bytes + n + 1 > space) /\ tail' < space)
      BY <1>0, <1>1, <2>4 DEF BlockSizes
    <3> QED BY <1>1, <2>1, <2>2, <3>1, <3>2 DEF BlockSizes
  <2> QED BY <2>3, <2>4
<1>3. new \in Seq(Nat) /\ Len(new) = n
  BY <1>0, <1>a DEF BlockSizes
<1>4. /\ SubSeq(head, 1, cur_bytes) \in Seq(Nat) /\ Len(SubSeq(head, 1, cur_bytes)) = cur_bytes
      /\ \A i \in 1 .. cur_bytes : SubSeq(head, 1, cur_bytes)[i] = head[i]
  BY <1>0 DEF BlockSizes, BlockBytes
<1>5. /\ head' \in Seq(Nat) /\ Len(head') = cur_bytes + n
      /\ \A i \in 1 .. cur_bytes : head'[i] = head[i]
      /\ \A i \in 1 .. n : head'[cur_bytes + i] = new[i]
  <2>a. PICK kept : kept = SubSeq(head, 1, cur_bytes)
    OBVIOUS
  <2>1. /\ kept \in Seq(Nat) /\ Len(kept) = cur_bytes /\ head' = kept \o new
        /\ \A i \in 1 .. cur_bytes : kept[i] = head[i]
    BY <1>1, <1>4, <2>a
  <2>2. /\ kept \o new \in Seq(Nat) /\ Len(kept \o new) = Len(kept) + Len(new)
        /\ \A i \in 1 .. Len(kept) : (kept \o new)[i] = kept[i]
        /\ \A i \in 1 .. Len(new) : (kept \o new)[Len(kept) + i] = new[i]
    <3>1. kept \in Seq(Nat) /\ new \in Seq(Nat)
      BY <2>1, <1>3
    <3> QED BY <3>1
  <2>3. /\ head' \in Seq(Nat) /\ Len(head') = Len(kept) + Len(new)
        /\ \A i \in 1 .. Len(kept) : head'[i] = kept[i]
        /\ \A i \in 1 .. Len(new) : head'[Len(kept) + i] = new[i]
    BY <2>1, <2>2, Zenon
  <2> QED BY <2>1, <2>3, <1>3
<1>6. BlockBytes'
  BY <1>1, <1>5 DEF BlockBytes
<1>7. BlockOwes'
  <2>2. /\ unread' \in Seq(Nat) /\ Len(unread') = cur_bytes + n
        /\ \A i \in 1 .. cur_bytes : unread'[i] = unread[i]
        /\ \A i \in 1 .. n : unread'[cur_bytes + i] = new[i]
    <3>0. unread \in Seq(Nat) /\ Len(unread) = cur_bytes
      BY <1>0 DEF BlockOwes
    <3>1. /\ unread \o new \in Seq(Nat) /\ Len(unread \o new) = Len(unread) + Len(new)
          /\ \A i \in 1 .. Len(unread) : (unread \o new)[i] = unread[i]
          /\ \A i \in 1 .. Len(new) : (unread \o new)[Len(unread) + i] = new[i]
      <4>1. unread \in Seq(Nat) /\ new \in Seq(Nat)
        BY <3>0, <1>3
      <4> QED BY <4>1
    <3>2. /\ unread' \in Seq(Nat) /\ Len(unread') = Len(unread) + Len(new)
          /\ \A i \in 1 .. Len(unread) : unread'[i] = unread[i]
          /\ \A i \in 1 .. Len(new) : unread'[Len(unread) + i] = new[i]
      BY <1>1, <3>1, Zenon
    <3> QED BY <3>0, <3>2, <1>3
  <2>3. ASSUME ~mixed', NEW i \in 1 .. cur_bytes + n
        PROVE  head'[i] \in {unread'[i], 0}
    <3>1. CASE i \in 1 .. cur_bytes
      <4>1. cur_bytes > 0 /\ cur_bytes \in Nat /\ tail \in Nat /\ cur_bytes <= tail
        BY <1>0, <3>1 DEF BlockSizes
      <4>2. ~mixed /\ ~(cur_bytes < tail)
        BY <1>1, <2>3, <4>1
      <4>3. tail - cur_bytes + i = i
        BY <4>1, <4>2
      <4>4. head[i] \in {unread[i], 0}
        BY <1>0, <3>1, <4>2, <4>3 DEF BlockOwes
      <4> QED BY <1>5, <2>2, <3>1, <4>4
    <3>2. CASE i \notin 1 .. cur_bytes
      <4>1. i - cur_bytes \in 1 .. n /\ i = cur_bytes + (i - cur_bytes)
        BY <3>2, <1>0 DEF BlockSizes
      <4> QED BY <4>1, <1>5, <2>2
    <3> QED BY <3>1, <3>2
  <2>4. tail' - cur_bytes' = 0 /\ cur_bytes' = cur_bytes + n
    BY <1>0, <1>1 DEF BlockSizes
  <2>5. ASSUME ~mixed', NEW i \in 1 .. cur_bytes'
        PROVE  head'[tail' - cur_bytes' + i] \in {unread'[i], 0}
    <3>1. i \in 1 .. cur_bytes + n /\ tail' - cur_bytes' + i = i
      BY <2>4
    <3> QED BY <2>3, <2>5, <3>1
  <2> QED BY <2>2, <2>4, <2>5 DEF BlockOwes
<1> QED BY <1>2, <1>6, <1>7 DEF BlockInv

\* A read takes what is next.
LEMMA BlockRead ==
  ASSUME A!SizeBounds, BlockInv, NEW n \in 1 .. MaxWrite, A!Read(n)
  PROVE  BlockInv'
<1>0. /\ BlockSizes /\ BlockBytes /\ BlockOwes /\ n \in Nat /\ n > 0
  BY DEF A!SizeBounds, BlockInv
<1>1. /\ cur_bytes >= n /\ cur_bytes' = cur_bytes - n
      /\ unread' = SubSeq(unread, n + 1, Len(unread))
      /\ stray' = (moved \/ tail - cur_bytes + n > space)
      /\ pre_bytes' = pre_bytes /\ space' = space /\ tail' = tail /\ head' = head
      /\ written' = written /\ moved' = moved /\ mixed' = mixed
  BY DEF A!Read, A!At
<1>2. BlockSizes'
  <2>1. stray' \in BOOLEAN
    BY <1>0, <1>1 DEF BlockSizes
  <2>2. cur_bytes' \in Nat /\ cur_bytes' <= tail
    BY <1>0, <1>1 DEF BlockSizes
  <2>3. space < pre_bytes \/ (space = pre_bytes /\ ~moved /\ tail < space
                              /\ ~(tail - cur_bytes + n > space))
    BY <1>0, <1>1 DEF BlockSizes
  <2> QED BY <1>0, <1>1, <2>1, <2>2, <2>3 DEF BlockSizes
<1>3. BlockBytes'
  BY <1>0, <1>1 DEF BlockBytes
<1>4. BlockOwes'
  <2>1. unread \in Seq(Nat) /\ Len(unread) = cur_bytes
    BY <1>0 DEF BlockOwes
  <2>2. /\ unread' \in Seq(Nat) /\ Len(unread') = cur_bytes - n
        /\ \A i \in 1 .. cur_bytes - n : unread'[i] = unread[n + i]
    <3>1. unread' = SubSeq(unread, n + 1, cur_bytes)
      BY <1>1, <2>1
    <3>2. n \in Nat /\ cur_bytes \in Nat /\ n <= cur_bytes
      BY <1>0, <1>1 DEF BlockSizes
    <3> QED BY <2>1, <3>1, <3>2, SubSeqFacts
  <2>3. ASSUME ~mixed, NEW i \in 1 .. cur_bytes - n
        PROVE  head[tail - (cur_bytes - n) + i] \in {unread'[i], 0}
    <3>1. n + i \in 1 .. cur_bytes /\ tail - cur_bytes + (n + i) = tail - (cur_bytes - n) + i
      BY <1>0, <1>1 DEF BlockSizes
    <3>2. head[tail - cur_bytes + (n + i)] \in {unread[n + i], 0}
      BY <1>0, <2>3, <3>1 DEF BlockOwes
    <3> QED BY <2>2, <3>1, <3>2
  <2> QED BY <1>1, <2>2, <2>3 DEF BlockOwes
<1> QED BY <1>2, <1>3, <1>4 DEF BlockInv

\* All of the block is owed again; what breset cut off is.
LEMMA BlockRewind ==
  ASSUME A!SizeBounds, BlockInv, A!Reset \/ \E n \in 1 .. MaxBytes : A!BReset(n)
  PROVE  BlockInv'
<1>0. BlockSizes /\ BlockBytes /\ MaxBytes \in Nat
  BY DEF A!SizeBounds, BlockInv
<1>1. /\ cur_bytes' = tail /\ unread' = SubSeq(head, 1, tail) /\ mixed' = FALSE /\ stray' = moved
      /\ pre_bytes' = pre_bytes /\ tail' = tail /\ written' = written
  BY DEF A!Reset, A!BReset, A!Rewind
<1>2. \/ space' = space /\ moved' = moved /\ head' = head
      \/ /\ space' \in Nat /\ space' < pre_bytes /\ moved' \in BOOLEAN
         /\ \E n \in Nat : head' = [i \in 1 .. tail |-> IF i <= n THEN head[i] ELSE 0]
  <2>1. CASE A!Reset
    BY <2>1 DEF A!Reset
  <2>2. ASSUME NEW n \in 1 .. MaxBytes, A!BReset(n), pre_bytes > n
        PROVE  /\ space' \in Nat /\ space' < pre_bytes /\ moved' \in BOOLEAN
               /\ \E k \in Nat : head' = [i \in 1 .. tail |-> IF i <= k THEN head[i] ELSE 0]
    <3>1. /\ space' = n /\ moved' \in BOOLEAN
          /\ head' = [i \in 1 .. tail |-> IF i <= n THEN head[i] ELSE 0]
      BY <2>2 DEF A!BReset, A!Cut
    <3>2. n \in Nat /\ n < pre_bytes
      BY <1>0, <2>2 DEF BlockSizes
    <3> QED BY <3>1, <3>2
  <2>3. ASSUME NEW n \in 1 .. MaxBytes, A!BReset(n), ~(pre_bytes > n)
        PROVE  space' = space /\ moved' = moved /\ head' = head
    BY <2>3 DEF A!BReset
  <2> QED BY <2>1, <2>2, <2>3
<1>3. /\ head \in Seq(Nat) /\ Len(head) = tail /\ tail \in Nat
  BY <1>0 DEF BlockSizes, BlockBytes
<1>4. /\ unread' \in Seq(Nat) /\ Len(unread') = tail
      /\ \A i \in 1 .. tail : unread'[i] = head[i]
  BY <1>1, <1>3
<1>5. /\ head' \in Seq(Nat) /\ Len(head') = tail
      /\ \A i \in 1 .. tail : head'[i] \in {head[i], 0}
  <2>1. CASE head' = head
    BY <1>3, <2>1
  <2>2. ASSUME NEW n \in Nat, head' = [i \in 1 .. tail |-> IF i <= n THEN head[i] ELSE 0]
        PROVE  /\ head' \in Seq(Nat) /\ Len(head') = tail
               /\ \A i \in 1 .. tail : head'[i] \in {head[i], 0}
    <3>1. \A i \in 1 .. tail : head[i] \in Nat
      BY <1>3
    <3>2. head' \in [1 .. tail -> Nat]
      BY <2>2, <3>1
    <3> QED BY <1>3, <2>2, <3>2
  <2> QED BY <1>2, <2>1, <2>2
<1>6. BlockSizes'
  <2>1. /\ space' \in Nat /\ moved' \in BOOLEAN
        /\ space' < pre_bytes \/ (space' = space /\ moved' = moved)
    BY <1>0, <1>2 DEF BlockSizes
  <2>2. stray' \in BOOLEAN /\ mixed' \in BOOLEAN
    BY <1>0, <1>1 DEF BlockSizes
  <2> QED BY <1>0, <1>1, <1>3, <2>1, <2>2 DEF BlockSizes
<1>7. BlockBytes'
  BY <1>1, <1>5 DEF BlockBytes
<1>8. BlockOwes'
  <2>1. \A i \in 1 .. tail : tail - tail + i = i
    BY <1>3
  <2>2. \A i \in 1 .. tail : head'[tail - tail + i] \in {unread'[i], 0}
    BY <1>4, <1>5, <2>1
  <2> QED BY <1>1, <1>4, <2>2 DEF BlockOwes
<1> QED BY <1>6, <1>7, <1>8 DEF BlockInv

\* Every step of the block keeps the invariant.
LEMMA BlockStep ==
  ASSUME A!SizeBounds, BlockInv, [A!Next]_block
  PROVE  BlockInv'
<1>0. BlockSizes /\ BlockBytes /\ BlockOwes
  BY DEF BlockInv
<1>1. CASE A!Clear
  <2>1. /\ cur_bytes' = 0 /\ tail' = 0 /\ unread' = <<>> /\ head' = <<>>
        /\ stray' = (cur_bytes > space) /\ mixed' = FALSE /\ moved' = FALSE
        /\ pre_bytes' = pre_bytes /\ space' = space /\ written' = written
    BY <1>1 DEF A!Clear
  <2>2. stray' \in BOOLEAN /\ (space < pre_bytes \/ (space = pre_bytes /\ ~stray'))
    <3>1. space < pre_bytes \/ (space = pre_bytes /\ ~(cur_bytes > space))
      BY <1>0 DEF BlockSizes
    <3>2. stray' = (cur_bytes > space)
      BY <2>1
    <3>3. stray' \in BOOLEAN
      BY <3>2
    <3>4. space < pre_bytes \/ (space = pre_bytes /\ ~stray')
      BY <3>1, <3>2, Zenon
    <3> QED BY <3>3, <3>4
  <2>3. BlockSizes'
    <3>1. moved' = FALSE /\ mixed' = FALSE
      BY <2>1
    <3>2. /\ pre_bytes' \in Nat /\ space' \in Nat /\ written' \in Nat
          /\ cur_bytes' \in Nat /\ tail' \in Nat /\ cur_bytes' <= tail'
      BY <1>0, <2>1 DEF BlockSizes
    <3>3. space' < pre_bytes' \/ (space' = pre_bytes' /\ ~stray' /\ tail' = 0)
      BY <2>1, <2>2
    <3> QED BY <2>2, <3>1, <3>2, <3>3 DEF BlockSizes
  <2> QED BY <2>1, <2>3 DEF BlockInv, BlockBytes, BlockOwes
<1>2. CASE UNCHANGED block
  BY <1>0, <1>2 DEF block, BlockInv, BlockSizes, BlockBytes, BlockOwes
<1> QED BY <1>1, <1>2, BlockWrite, BlockRead, BlockRewind DEF A!Next

\* The invariant has what the module states of a block.
LEMMA BlockImplies ==
  ASSUME BlockInv
  PROVE  A!TypeOK /\ A!ReadsInOrder /\ A!FitsTheBlock
<1>0. BlockSizes /\ BlockBytes /\ BlockOwes
  BY DEF BlockInv
<1>1. A!TypeOK
  BY <1>0 DEF A!TypeOK, BlockSizes, BlockBytes
<1>2. A!ReadsInOrder
  BY <1>0 DEF A!ReadsInOrder, A!At, A!Cut, BlockOwes
<1>3. A!FitsTheBlock
  BY <1>0 DEF A!FitsTheBlock, BlockSizes
<1> QED BY <1>1, <1>2, <1>3

-----------------------------------------------------------------------------
(* user_fifo: what the reader has and what is behind it in the pipe is one   *)
(* row of frames, whole but for the first one, whose head may be gone.       *)

\* The units that are still to be looked at.
Rest == buf \o pipe

\* A unit of a command that was written.
IsUnit(u) == u \in Nat \X Nat /\ u[1] \in DOMAIN lens /\ u[2] <= lens[u[1]] + 1

\* The unit after u: of the same command, or the beginning of a later one.
Follows(u, v) == IF F!Ends(u) THEN v[2] = 0 /\ u[1] < v[1]
                              ELSE v[1] = u[1] /\ v[2] = u[2] + 1

\* A sequence of units that follow each other.
Row(s) == /\ \A k \in 1 .. Len(s) : IsUnit(s[k])
          /\ \A k \in 1 .. Len(s) - 1 : Follows(s[k], s[k + 1])

\* The types, one by one.
FifoTypes ==
  /\ lens \in Seq(1 .. BufSize - 2) /\ Len(lens) <= MaxSends
  /\ buf \in Seq(Nat \X Nat) /\ Len(buf) <= BufSize
  /\ pipe \in Seq(Nat \X Nat) /\ Len(pipe) <= PipeSize

\* The flags and the counts.
FifoPlain ==
  /\ opened \subseteq Clients /\ reader \in {"down", "read", "parse"} /\ eintr \in BOOLEAN
  /\ torn \subseteq DOMAIN lens /\ lost \subseteq DOMAIN lens
  /\ signals \in 0 .. MaxSignals /\ crashes \in 0 .. MaxCrashes
  /\ reader = "down" => buf = <<>>

\* The row: without a gap, with an end, and the command whose head is gone is known.
FifoRow ==
  /\ Row(Rest)
  /\ Rest # <<>> => F!Ends(Rest[Len(Rest)])
  /\ Rest # <<>> => Rest[1][2] = 0 \/ Rest[1][1] \in torn \cup lost

\* What was handled, whole and in order.
FifoHandled == handled \in Seq(Seq(Nat \X Nat)) /\ F!WholeCommands /\ F!InOrderOnce

\* What was handled was written before what is still in the row.
FifoBefore ==
  \A h \in 1 .. Len(handled) : \A k \in 1 .. Len(Rest) : handled[h][1][1] < Rest[k][1]

\* The invariant of the pipe.
FifoInv == FifoTypes /\ FifoPlain /\ FifoRow /\ FifoHandled /\ FifoBefore /\ F!NoneElseIsLost

\* The row as a sequence.
LEMMA RestIs ==
  ASSUME FifoTypes, NEW w, w = Rest
  PROVE  /\ w \in Seq(Nat \X Nat) /\ Len(w) = Len(buf) + Len(pipe)
         /\ Len(buf) \in Nat /\ Len(pipe) \in Nat
         /\ \A k \in 1 .. Len(buf) : w[k] = buf[k]
         /\ \A k \in 1 .. Len(pipe) : w[Len(buf) + k] = pipe[k]
<1>1. buf \in Seq(Nat \X Nat) /\ pipe \in Seq(Nat \X Nat)
  BY DEF FifoTypes
<1>2. w = buf \o pipe
  BY DEF Rest
<1>3. Len(buf) \in Nat /\ Len(pipe) \in Nat
  BY <1>1
<1> QED BY <1>1, <1>2, <1>3, Joined

\* The numbers of a unit.
LEMMA UnitIs ==
  ASSUME F!FifoBounds, FifoTypes, NEW u, IsUnit(u)
  PROVE  /\ u[1] \in Nat /\ u[2] \in Nat /\ u = <<u[1], u[2]>>
         /\ lens[u[1]] \in Nat /\ lens[u[1]] >= 1
         /\ u[1] \in 1 .. Len(lens) /\ u[2] <= lens[u[1]] + 1
<1>1. u \in Nat \X Nat /\ u[1] \in DOMAIN lens /\ u[2] <= lens[u[1]] + 1
  BY DEF IsUnit
<1>2. lens \in Seq(1 .. BufSize - 2) /\ BufSize \in Nat
  BY DEF FifoTypes, F!FifoBounds
<1>3. PICK n : n = u[1]
  OBVIOUS
<1>4. n \in DOMAIN lens
  BY <1>1, <1>3
<1>5. n \in 1 .. Len(lens) /\ lens[n] \in 1 .. BufSize - 2
  BY <1>2, <1>4
<1>6. lens[n] \in Nat /\ lens[n] >= 1
  BY <1>2, <1>5
<1>7. u[1] \in Nat /\ u[2] \in Nat /\ u = <<u[1], u[2]>>
  BY <1>1
<1> QED BY <1>1, <1>3, <1>5, <1>6, <1>7

\* The unit after another one.
LEMMA FollowsIs ==
  ASSUME F!FifoBounds, FifoTypes, NEW u, NEW v, IsUnit(u), IsUnit(v), Follows(u, v)
  PROVE  u[1] <= v[1] /\ (F!Ends(u) => u[1] < v[1])
<1>1. PICK m, n : m = u[1] /\ n = v[1]
  OBVIOUS
<1>2. m \in Nat /\ n \in Nat
  BY <1>1, UnitIs
<1>3. CASE F!Ends(u)
  <2>1. m < n
    BY <1>1, <1>3 DEF Follows
  <2>2. m <= n
    BY <1>2, <2>1
  <2> QED BY <1>1, <2>1, <2>2
<1>4. CASE ~F!Ends(u)
  <2>1. m = n
    BY <1>1, <1>4 DEF Follows
  <2>2. m <= n
    BY <1>2, <2>1
  <2> QED BY <1>1, <1>4, <2>2
<1> QED BY <1>3, <1>4

\* Numbers that do not go back, and go on after those of E.
Climbing(n, f, E) == \A k \in 1 .. n - 1 : f[k] <= f[k + 1] /\ (k \in E => f[k] < f[k + 1])

\* Between any two of them.
LEMMA Climbs ==
  ASSUME NEW n \in Nat, NEW f \in [1 .. n -> Nat], NEW E, Climbing(n, f, E),
         NEW a \in 1 .. n, NEW b \in 1 .. n, a < b
  PROVE  f[a] <= f[b] /\ (a \in E => f[a] < f[b])
<1> DEFINE Grows(k) == f[a] <= f[k] /\ (a \in E => f[a] < f[k])
<1> DEFINE T == {x \in Nat : a + 1 + x <= n /\ ~Grows(a + 1 + x)}
<1> SUFFICES ASSUME ~Grows(b) PROVE FALSE
  OBVIOUS
<1>2. b - a - 1 \in T
  <2>1. b - a - 1 \in Nat /\ a + 1 + (b - a - 1) = b
    OBVIOUS
  <2> QED BY <2>1
<1>3. PICK x \in T : \A y \in T : x <= y
  BY <1>2, SmallestExists
<1>4. PICK e : e = a + 1 + x
  OBVIOUS
<1>5. x \in Nat /\ e \in 1 .. n /\ e - 1 \in 1 .. n - 1 /\ (e - 1) + 1 = e /\ ~Grows(e)
  BY <1>3, <1>4
<1>6. PICK d : d = e - 1
  OBVIOUS
<1>7. /\ d \in 1 .. n - 1 /\ d \in 1 .. n /\ d + 1 = e
      /\ f[d] \in Nat /\ f[e] \in Nat /\ f[a] \in Nat
      /\ f[d] <= f[e] /\ (d \in E => f[d] < f[e])
  <2>1. d \in 1 .. n - 1 /\ d \in 1 .. n /\ d + 1 = e
    BY <1>5, <1>6
  <2>2. f[d] <= f[d + 1] /\ (d \in E => f[d] < f[d + 1])
    BY <2>1 DEF Climbing
  <2> QED BY <1>5, <2>1, <2>2
<1>8. CASE x = 0
  <2>1. d = a
    BY <1>4, <1>6, <1>8
  <2> QED BY <1>5, <1>7, <2>1
<1>9. CASE x > 0
  <2>1. x - 1 \in Nat /\ a + 1 + (x - 1) = d /\ a + 1 + (x - 1) <= n /\ ~(x <= x - 1)
    BY <1>4, <1>5, <1>6, <1>9
  <2>2. x - 1 \notin T
    BY <1>3, <2>1
  <2>3. Grows(d)
    BY <2>1, <2>2
  <2>4. f[a] <= f[e]
    <3>1. f[a] <= f[d]
      BY <2>3
    <3> QED BY <1>7, <3>1
  <2>5. ASSUME a \in E PROVE f[a] < f[e]
    <3>1. f[a] < f[d]
      BY <2>3, <2>5
    <3> QED BY <1>7, <3>1
  <2> QED BY <1>5, <2>4, <2>5
<1> QED BY <1>5, <1>8, <1>9

\* Along the row the commands do not go back, and after an end they go on.
LEMMA RowGrows ==
  ASSUME F!FifoBounds, FifoTypes, NEW s \in Seq(Nat \X Nat), Row(s),
         NEW a \in 1 .. Len(s), NEW b \in 1 .. Len(s), a < b
  PROVE  s[a][1] <= s[b][1] /\ (F!Ends(s[a]) => s[a][1] < s[b][1])
<1>z. Len(s) \in Nat
  OBVIOUS
<1>0. PICK n : n = Len(s) /\ n \in Nat
  BY <1>z
<1>1. PICK f : f = [k \in 1 .. n |-> s[k][1]]
  OBVIOUS
<1>2. PICK E : E = {k \in 1 .. n : F!Ends(s[k])}
  OBVIOUS
<1>3. \A k \in 1 .. n : s[k][1] \in Nat
  BY <1>0, UnitIs DEF Row
<1>4. f \in [1 .. n -> Nat]
  BY <1>1, <1>3
<1>5. ASSUME NEW k \in 1 .. n - 1
      PROVE  f[k] <= f[k + 1] /\ (k \in E => f[k] < f[k + 1])
  <2>1. k \in 1 .. n /\ k + 1 \in 1 .. n
    BY <1>0
  <2>2. IsUnit(s[k]) /\ IsUnit(s[k + 1])
    BY <1>0, <2>1 DEF Row
  <2>3. Follows(s[k], s[k + 1])
    BY <1>0 DEF Row
  <2>4. s[k][1] <= s[k + 1][1] /\ (F!Ends(s[k]) => s[k][1] < s[k + 1][1])
    BY <2>2, <2>3, FollowsIs
  <2>5. f[k] = s[k][1] /\ f[k + 1] = s[k + 1][1] /\ (k \in E => F!Ends(s[k]))
    BY <1>1, <1>2, <2>1
  <2> QED BY <2>4, <2>5
<1>6. a \in 1 .. n /\ b \in 1 .. n
  BY <1>0
<1>9. Climbing(n, f, E)
  BY <1>5 DEF Climbing
<1>7. f[a] <= f[b] /\ (a \in E => f[a] < f[b])
  BY <1>0, <1>4, <1>6, <1>9, Climbs
<1>8. f[a] = s[a][1] /\ f[b] = s[b][1] /\ (F!Ends(s[a]) => a \in E)
  BY <1>1, <1>2, <1>6
<1> QED BY <1>7, <1>8

\* The units of a row.
LEMMA RowUnits ==
  ASSUME NEW s, Row(s)
  PROVE  /\ \A k \in 1 .. Len(s) : IsUnit(s[k])
         /\ \A k \in 1 .. Len(s) - 1 : Follows(s[k], s[k + 1])
  BY DEF Row

\* A beginning and the next end.
Encloses(s, i, j) == /\ s[i][2] = 0 /\ F!Ends(s[j])
                     /\ \A k \in i + 1 .. j - 1 : ~F!Ends(s[k])

\* The place after one that is not the last.
LEMMA NextIn ==
  ASSUME NEW m \in Nat, NEW k \in 1 .. m - 1
  PROVE  k + 1 \in 1 .. m
  OBVIOUS

\* Between them the units are those of one command.
LEMMA RowFrame ==
  ASSUME F!FifoBounds, FifoTypes, NEW s \in Seq(Nat \X Nat), Row(s),
         NEW i \in 1 .. Len(s), NEW j \in 1 .. Len(s), i < j,
         Encloses(s, i, j)
  PROVE  /\ \A k \in i .. j : s[k] = <<s[i][1], k - i>>
         /\ j = i + lens[s[i][1]] + 1
<1>0. Len(s) \in Nat /\ i \in Nat /\ j \in Nat /\ i >= 1 /\ j <= Len(s)
  <2>1. Len(s) \in Nat
    OBVIOUS
  <2> QED BY <2>1
<1>u. /\ \A k \in 1 .. Len(s) : IsUnit(s[k])
      /\ \A k \in 1 .. Len(s) - 1 : Follows(s[k], s[k + 1])
  BY RowUnits
<1>a. IsUnit(s[i])
  BY <1>u
<1>p. PICK n, l : n = s[i][1] /\ l = lens[n]
  OBVIOUS
<1>b. n \in Nat /\ l \in Nat /\ s[i] = <<n, 0>>
  <2>1. s[i][2] = 0
    BY DEF Encloses
  <2> QED BY <1>a, <1>p, <2>1, UnitIs
<1> DEFINE T == {x \in Nat : i + x <= j /\ s[i + x] # <<n, x>>}
<1>c. T = {}
  <2> SUFFICES ASSUME T # {} PROVE FALSE
    OBVIOUS
  <2>1. PICK x \in T : \A y \in T : x <= y
    BY SmallestExists
  <2>2. x \in Nat /\ x # 0 /\ i + x <= j /\ s[i + x] # <<n, x>>
    <3>1. x = 0 => i + x = i
      OBVIOUS
    <3> QED BY <1>b, <2>1, <3>1
  <2>3. PICK e, y : e = i + (x - 1) /\ y = x - 1
    OBVIOUS
  <2>4. /\ y \in Nat /\ e = i + y /\ i + y <= j /\ e \in i .. j - 1 /\ e \in 1 .. Len(s) - 1
        /\ e + 1 = i + x /\ y + 1 = x /\ ~(x <= y)
    BY <1>0, <2>2, <2>3
  <2>5. s[e] = <<n, y>>
    <3>1. y \notin T
      BY <2>1, <2>4
    <3>2. s[i + y] = <<n, y>>
      BY <2>4, <3>1
    <3> QED BY <2>4, <3>2
  <2>6. ~F!Ends(s[e])
    <3>1. CASE e = i
      <4>1. y = 0 /\ y # l + 1
        BY <1>0, <1>b, <2>4, <3>1
      <4>2. s[e][1] = n /\ s[e][2] = y
        BY <2>5
      <4> QED BY <1>p, <4>1, <4>2 DEF F!Ends
    <3>2. CASE e # i
      <4>1. e \in i + 1 .. j - 1
        BY <2>4, <3>2
      <4> QED BY <4>1 DEF Encloses
    <3> QED BY <3>1, <3>2
  <2>7. IsUnit(s[e + 1]) /\ Follows(s[e], s[e + 1])
    <3>1. e + 1 \in 1 .. Len(s)
      BY <1>0, <2>4, NextIn
    <3>2. IsUnit(s[e + 1])
      BY <1>u, <3>1
    <3>3. Follows(s[e], s[e + 1])
      BY <1>u, <2>4
    <3> QED BY <3>2, <3>3
  <2>8. s[e + 1][1] = n /\ s[e + 1][2] = y + 1
    <3>1. s[e][1] = n /\ s[e][2] = y
      BY <2>5
    <3> QED BY <2>6, <2>7, <3>1 DEF Follows
  <2>9. s[e + 1] = <<n, x>>
    <3>1. s[e + 1] = <<s[e + 1][1], s[e + 1][2]>>
      BY <2>7, UnitIs
    <3> QED BY <2>4, <2>8, <3>1
  <2> QED BY <2>2, <2>4, <2>9
<1>1. ASSUME NEW k \in i .. j PROVE s[k] = <<n, k - i>>
  <2>1. k - i \in Nat /\ i + (k - i) = k /\ i + (k - i) <= j
    BY <1>0
  <2>2. k - i \notin T
    BY <1>c
  <2>3. s[i + (k - i)] = <<n, k - i>>
    BY <2>1, <2>2
  <2> QED BY <2>1, <2>3
<1>2. s[j][1] = n /\ s[j][2] = j - i
  <2>1. j \in i .. j
    BY <1>0
  <2>2. s[j] = <<n, j - i>>
    BY <1>1, <2>1
  <2> QED BY <2>2
<1>3. j - i = l + 1
  <2>1. F!Ends(s[j])
    BY DEF Encloses
  <2> QED BY <1>p, <1>2, <2>1 DEF F!Ends
<1>4. j = i + l + 1
  BY <1>0, <1>b, <1>3
<1>5. \A k \in i .. j : s[k] = <<s[i][1], k - i>>
  BY <1>p, <1>1
<1> QED BY <1>p, <1>4, <1>5

\* No beginning is among the first m.
Headless(s, m) == \A k \in 1 .. m : s[k][2] # 0

\* Before the first beginning they are those of one command as well.
LEMMA RowHead ==
  ASSUME F!FifoBounds, FifoTypes, NEW s \in Seq(Nat \X Nat), Row(s),
         NEW m \in 1 .. Len(s), Headless(s, m)
  PROVE  \A k \in 1 .. m : s[k][1] = s[1][1]
<1> DEFINE T == {x \in Nat : x + 1 <= m /\ s[x + 1][1] # s[1][1]}
<1>0. Len(s) \in Nat
  OBVIOUS
<1>1. T = {}
  <2> SUFFICES ASSUME T # {} PROVE FALSE
    OBVIOUS
  <2>1. PICK x \in T : \A y \in T : x <= y
    BY SmallestExists
  <2>2. x \in Nat /\ x # 0 /\ x + 1 <= m /\ s[x + 1][1] # s[1][1]
    <3>1. x = 0 => x + 1 = 1
      OBVIOUS
    <3> QED BY <2>1, <3>1
  <2>3. /\ x \in 1 .. Len(s) - 1 /\ x - 1 \in Nat /\ (x - 1) + 1 = x /\ x <= m /\ ~(x <= x - 1)
        /\ x + 1 \in 1 .. m
    BY <1>0, <2>2
  <2>4. s[x][1] = s[1][1]
    <3>1. x - 1 \notin T
      BY <2>1, <2>3
    <3> QED BY <2>3, <3>1
  <2>5. Follows(s[x], s[x + 1]) /\ s[x + 1][2] # 0
    BY <2>3 DEF Row, Headless
  <2>6. s[x + 1][1] = s[x][1]
    BY <2>5 DEF Follows
  <2> QED BY <2>2, <2>4, <2>6
<1>2. ASSUME NEW k \in 1 .. m PROVE s[k][1] = s[1][1]
  <2>1. k - 1 \in Nat /\ (k - 1) + 1 = k /\ (k - 1) + 1 <= m
    BY <1>0
  <2>2. k - 1 \notin T
    BY <1>1
  <2>3. s[(k - 1) + 1][1] = s[1][1]
    BY <2>1, <2>2
  <2> QED BY <2>1, <2>3
<1> QED BY <1>2

\* The commands of a sequence.
LEMMA CommandsAre ==
  ASSUME NEW s \in Seq(Nat \X Nat)
  PROVE  /\ \A n \in F!Commands(s) : \E k \in 1 .. Len(s) : n = s[k][1]
         /\ \A k \in 1 .. Len(s) : s[k][1] \in F!Commands(s)
<1>1. DOMAIN s = 1 .. Len(s)
  OBVIOUS
<1>2. F!ToSet(s) = {s[k] : k \in 1 .. Len(s)}
  BY <1>1 DEF F!ToSet
<1> QED BY <1>2 DEF F!Commands

\* Those of two of them, one after the other.
LEMMA CommandsJoined ==
  ASSUME NEW s \in Seq(Nat \X Nat), NEW t \in Seq(Nat \X Nat)
  PROVE  F!Commands(s \o t) = F!Commands(s) \cup F!Commands(t)
<1>w. PICK w : w = s \o t
  OBVIOUS
<1>0. /\ w \in Seq(Nat \X Nat) /\ Len(w) = Len(s) + Len(t) /\ Len(s) \in Nat /\ Len(t) \in Nat
      /\ \A k \in 1 .. Len(s) : w[k] = s[k]
      /\ \A k \in 1 .. Len(t) : w[Len(s) + k] = t[k]
  <2>1. Len(s) \in Nat /\ Len(t) \in Nat
    OBVIOUS
  <2> QED BY <1>w, <2>1, Joined
<1>1. ASSUME NEW n \in F!Commands(w) PROVE n \in F!Commands(s) \cup F!Commands(t)
  <2>1. PICK k \in 1 .. Len(w) : n = w[k][1]
    BY <1>0, CommandsAre
  <2>2. CASE k <= Len(s)
    <3>1. k \in 1 .. Len(s)
      BY <1>0, <2>2
    <3> QED BY <1>0, <2>1, <3>1, CommandsAre
  <2>3. CASE ~(k <= Len(s))
    <3>1. PICK l : l = k - Len(s)
      OBVIOUS
    <3>2. l \in 1 .. Len(t) /\ Len(s) + l = k
      BY <1>0, <2>3, <3>1
    <3>3. w[k] = t[l]
      BY <1>0, <3>2
    <3> QED BY <2>1, <3>2, <3>3, CommandsAre
  <2> QED BY <2>2, <2>3
<1>2. ASSUME NEW n \in F!Commands(s) PROVE n \in F!Commands(w)
  <2>1. PICK k \in 1 .. Len(s) : n = s[k][1]
    BY CommandsAre
  <2>2. k \in 1 .. Len(w) /\ w[k] = s[k]
    BY <1>0
  <2>3. w[k][1] \in F!Commands(w)
    BY <1>0, <2>2, CommandsAre
  <2> QED BY <2>1, <2>2, <2>3
<1>3. ASSUME NEW n \in F!Commands(t) PROVE n \in F!Commands(w)
  <2>1. PICK k \in 1 .. Len(t) : n = t[k][1]
    BY CommandsAre
  <2>2. PICK l : l = Len(s) + k
    OBVIOUS
  <2>3. l \in 1 .. Len(w) /\ w[l] = t[k]
    BY <1>0, <2>2
  <2>4. w[l][1] \in F!Commands(w)
    BY <1>0, <2>3, CommandsAre
  <2> QED BY <2>1, <2>3, <2>4
<1>4. F!Commands(w) = F!Commands(s) \cup F!Commands(t)
  BY <1>1, <1>2, <1>3
<1> QED BY <1>w, <1>4

\* The commands that were handled.
Handled == {handled[h][1][1] : h \in DOMAIN handled}

\* The invariant, in terms of the row.
LEMMA RowIs ==
  ASSUME FifoInv, NEW w, w = Rest
  PROVE  /\ w \in Seq(Nat \X Nat) /\ Row(w)
         /\ w # <<>> => F!Ends(w[Len(w)])
         /\ w # <<>> => w[1][2] = 0 \/ w[1][1] \in torn \cup lost
         /\ \A h \in 1 .. Len(handled) : \A k \in 1 .. Len(w) : handled[h][1][1] < w[k][1]
         /\ DOMAIN lens = F!Commands(w) \cup torn \cup lost \cup Handled
<1>1. w \in Seq(Nat \X Nat)
  BY RestIs DEF FifoInv
<1>2. F!Commands(w) = F!Commands(buf) \cup F!Commands(pipe)
  <2>1. buf \in Seq(Nat \X Nat) /\ pipe \in Seq(Nat \X Nat) /\ w = buf \o pipe
    BY DEF FifoInv, FifoTypes, Rest
  <2>2. F!Commands(buf \o pipe) = F!Commands(buf) \cup F!Commands(pipe)
    BY <2>1, CommandsJoined
  <2> QED BY <2>1, <2>2
<1>3. DOMAIN lens = F!Commands(pipe) \cup F!Commands(buf) \cup torn \cup lost \cup Handled
  BY DEF FifoInv, F!NoneElseIsLost, Handled
<1>4. DOMAIN lens = F!Commands(w) \cup torn \cup lost \cup Handled
  BY <1>2, <1>3
<1> QED BY <1>1, <1>4 DEF FifoInv, FifoRow, FifoBefore

\* v is w without its first d.
Rear(v, w, d) == /\ d \in 0 .. Len(w) /\ Len(v) = Len(w) - d
                 /\ \A k \in 1 .. Len(v) : v[k] = w[k + d]

\* A row whose beginning is gone is one still.
LEMMA RowTail ==
  ASSUME NEW w \in Seq(Nat \X Nat), Row(w), NEW d, NEW v \in Seq(Nat \X Nat), Rear(v, w, d)
  PROVE  /\ Row(v) /\ (v # <<>> => v[Len(v)] = w[Len(w)] /\ w # <<>>)
         /\ F!Commands(v) \subseteq F!Commands(w)
         /\ \A k \in 1 .. Len(v) : k + d \in 1 .. Len(w) /\ v[k] = w[k + d]
<1>z. Len(w) \in Nat /\ Len(v) \in Nat
  OBVIOUS
<1>0. Len(w) \in Nat /\ Len(v) \in Nat /\ d \in 0 .. Len(w) /\ Len(v) = Len(w) - d
  BY <1>z DEF Rear
<1>1. ASSUME NEW k \in 1 .. Len(v) PROVE k + d \in 1 .. Len(w) /\ v[k] = w[k + d]
  <2>1. k + d \in 1 .. Len(w)
    BY <1>0
  <2> QED BY <2>1 DEF Rear
<1>2. ASSUME NEW k \in 1 .. Len(v) PROVE IsUnit(v[k])
  BY <1>1 DEF Row
<1>3. ASSUME NEW k \in 1 .. Len(v) - 1 PROVE Follows(v[k], v[k + 1])
  <2>1. /\ k \in 1 .. Len(v) /\ k + 1 \in 1 .. Len(v)
        /\ k + d \in 1 .. Len(w) - 1 /\ (k + 1) + d = (k + d) + 1
    BY <1>0
  <2>2. v[k] = w[k + d] /\ v[k + 1] = w[(k + 1) + d]
    BY <1>1, <2>1
  <2> QED BY <2>1, <2>2 DEF Row
<1>4. ASSUME v # <<>> PROVE v[Len(v)] = w[Len(w)] /\ w # <<>>
  <2>1. Len(v) \in 1 .. Len(v) /\ Len(v) + d = Len(w) /\ Len(w) # 0
    BY <1>0, <1>4
  <2>2. v[Len(v)] = w[Len(w)]
    BY <1>1, <2>1
  <2> QED BY <2>1, <2>2
<1>5. ASSUME NEW n \in F!Commands(v) PROVE n \in F!Commands(w)
  <2>1. PICK k \in 1 .. Len(v) : n = v[k][1]
    BY CommandsAre
  <2> QED BY <1>1, <2>1, CommandsAre
<1> QED BY <1>1, <1>2, <1>3, <1>4, <1>5 DEF Row

\* A step that takes from the row at most, and knows what became of it.
LEMMA FifoOnward ==
  ASSUME FifoInv, lens' = lens, FifoTypes', FifoPlain', FifoHandled',
         NEW w, w = Rest, NEW v \in Seq(Nat \X Nat), v = Rest',
         NEW d, Rear(v, w, d),
         v # <<>> => v[1][2] = 0 \/ v[1][1] \in torn' \cup lost',
         \A h \in 1 .. Len(handled') : \A k \in 1 .. Len(v) : handled'[h][1][1] < v[k][1],
         DOMAIN lens = F!Commands(v) \cup torn' \cup lost' \cup Handled'
  PROVE  FifoInv'
<1>1. w \in Seq(Nat \X Nat) /\ Row(w) /\ (w # <<>> => F!Ends(w[Len(w)]))
  BY RowIs
<1>2. Row(v) /\ (v # <<>> => F!Ends(v[Len(v)]))
  <2>1. Row(v) /\ (v # <<>> => v[Len(v)] = w[Len(w)] /\ w # <<>>)
    BY <1>1, RowTail
  <2> QED BY <1>1, <2>1
<1>3. Row(v)' /\ (v # <<>> => F!Ends(v[Len(v)])')
  BY <1>2 DEF Row, IsUnit, Follows, F!Ends
<1>4. FifoRow'
  BY <1>3 DEF FifoRow
<1>5. FifoBefore'
  BY DEF FifoBefore
<1>6. F!NoneElseIsLost'
  <2>1. F!Commands(v) = F!Commands(buf') \cup F!Commands(pipe')
    <3>1. buf' \in Seq(Nat \X Nat) /\ pipe' \in Seq(Nat \X Nat) /\ v = buf' \o pipe'
      BY DEF FifoTypes, Rest
    <3>2. F!Commands(buf' \o pipe') = F!Commands(buf') \cup F!Commands(pipe')
      BY <3>1, CommandsJoined
    <3> QED BY <3>1, <3>2
  <2>2. DOMAIN lens' = F!Commands(pipe') \cup F!Commands(buf') \cup torn' \cup lost' \cup Handled'
    BY <2>1
  <2> QED BY <2>2 DEF F!NoneElseIsLost, Handled, F!Commands, F!ToSet
<1> QED BY <1>4, <1>5, <1>6 DEF FifoInv

\* A step of the row alone.
LEMMA FifoKeeps ==
  ASSUME FifoInv, lens' = lens, FifoTypes', FifoPlain', handled' = handled,
         torn \subseteq torn', lost \subseteq lost',
         NEW w, w = Rest, NEW v \in Seq(Nat \X Nat), v = Rest',
         NEW d, Rear(v, w, d),
         v # <<>> => v[1][2] = 0 \/ v[1][1] \in torn' \cup lost',
         F!Commands(w) \subseteq F!Commands(v) \cup torn' \cup lost'
  PROVE  FifoInv'
<1>1. FifoHandled'
  BY DEF FifoInv, FifoHandled, F!WholeCommands, F!InOrderOnce
<1>2. w \in Seq(Nat \X Nat) /\ Row(w)
  BY RowIs
<1>3. \A h \in 1 .. Len(handled') : \A k \in 1 .. Len(v) : handled'[h][1][1] < v[k][1]
  <2> SUFFICES ASSUME NEW h \in 1 .. Len(handled), NEW k \in 1 .. Len(v)
               PROVE  handled[h][1][1] < v[k][1]
    OBVIOUS
  <2>1. PICK l : l = k + d
    OBVIOUS
  <2>2. l \in 1 .. Len(w) /\ v[k] = w[l]
    BY <1>2, <2>1, RowTail
  <2> QED BY <2>2, RowIs
<1>4. DOMAIN lens = F!Commands(v) \cup torn' \cup lost' \cup Handled'
  <2>1. DOMAIN lens = F!Commands(w) \cup torn \cup lost \cup Handled
    BY RowIs
  <2>2. Handled' = Handled
    BY DEF Handled
  <2>3. F!Commands(v) \subseteq F!Commands(w)
    BY <1>2, RowTail
  <2>4. torn' \subseteq DOMAIN lens /\ lost' \subseteq DOMAIN lens
    BY DEF FifoPlain
  <2> QED BY <2>1, <2>2, <2>3, <2>4
<1> QED BY <1>1, <1>3, <1>4, FifoOnward

\* A step that leaves the row as it is.
LEMMA FifoQuiet ==
  ASSUME FifoInv, lens' = lens, FifoPlain', handled' = handled, torn' = torn, lost' = lost,
         buf' = buf, pipe' = pipe
  PROVE  FifoInv'
<1>1. FifoTypes'
  BY DEF FifoInv, FifoTypes
<1>2. PICK w : w = Rest
  OBVIOUS
<1>3. w \in Seq(Nat \X Nat) /\ w = Rest' /\ (w # <<>> => w[1][2] = 0 \/ w[1][1] \in torn' \cup lost')
  BY <1>2, RowIs DEF Rest
<1>4. Rear(w, w, 0)
  <2>1. w \in Seq(Nat \X Nat)
    BY <1>3
  <2>2. 0 \in 0 .. Len(w) /\ Len(w) = Len(w) - 0 /\ \A k \in 1 .. Len(w) : k + 0 = k
    BY <2>1
  <2> QED BY <2>2 DEF Rear
<1> QED BY <1>1, <1>2, <1>3, <1>4, FifoKeeps

\* The last process that had the pipe open is gone.
LEMMA FifoEmptied ==
  ASSUME FifoInv, lens' = lens, FifoPlain', handled' = handled, torn' = torn,
         buf' = <<>>, pipe' = <<>>, lost' = lost \cup F!Commands(buf) \cup F!Commands(pipe)
  PROVE  FifoInv'
<1>1. FifoTypes'
  <2>1. buf' \in Seq(Nat \X Nat) /\ pipe' \in Seq(Nat \X Nat) /\ Len(buf') = 0 /\ Len(pipe') = 0
    OBVIOUS
  <2>2. 0 <= BufSize /\ 0 <= PipeSize
    <3>1. Len(buf) \in Nat /\ Len(pipe) \in Nat /\ Len(buf) <= BufSize /\ Len(pipe) <= PipeSize
      BY DEF FifoInv, FifoTypes
    <3>2. BufSize \in Nat /\ PipeSize \in Nat
      BY UtilsBounds DEF F!FifoBounds
    <3> QED BY <3>1, <3>2
  <2> QED BY <2>1, <2>2 DEF FifoInv, FifoTypes
<1>2. PICK w, v : w = Rest /\ v = <<>>
  OBVIOUS
<1>3. v \in Seq(Nat \X Nat) /\ Len(v) = 0 /\ v = Rest'
  <2>1. v = buf' \o pipe'
    BY <1>2
  <2> QED BY <1>2, <2>1 DEF Rest
<1>4. w \in Seq(Nat \X Nat)
  BY <1>2, RowIs
<1>5. Rear(v, w, Len(w))
  <2>1. Len(w) \in Nat
    BY <1>4
  <2>2. Len(w) \in 0 .. Len(w) /\ Len(v) = Len(w) - Len(w) /\ \A k \in 1 .. Len(v) : FALSE
    BY <1>3, <2>1
  <2> QED BY <2>2 DEF Rear
<1>6. F!Commands(w) \subseteq F!Commands(v) \cup torn' \cup lost'
  <2>1. buf \in Seq(Nat \X Nat) /\ pipe \in Seq(Nat \X Nat) /\ w = buf \o pipe
    BY <1>2 DEF FifoInv, FifoTypes, Rest
  <2>2. F!Commands(buf \o pipe) = F!Commands(buf) \cup F!Commands(pipe)
    BY <2>1, CommandsJoined
  <2>3. F!Commands(w) = F!Commands(buf) \cup F!Commands(pipe)
    BY <2>1, <2>2
  <2> QED BY <2>3
<1>7. v = <<>>
  BY <1>2
<1> QED BY <1>1, <1>2, <1>3, <1>5, <1>6, <1>7, FifoKeeps

\* The reader forgets what it has.
LEMMA FifoDropped ==
  ASSUME FifoInv, lens' = lens, FifoPlain', handled' = handled,
         torn \subseteq torn', lost \subseteq lost', buf' = <<>>, pipe' = pipe,
         F!Commands(buf) \subseteq torn' \cup lost'
  PROVE  FifoInv'
<1>0. /\ buf \in Seq(Nat \X Nat) /\ pipe \in Seq(Nat \X Nat)
      /\ Len(buf) \in Nat /\ Len(pipe) \in Nat
  BY DEF FifoInv, FifoTypes
<1>1. FifoTypes'
  <2>1. buf' \in Seq(Nat \X Nat) /\ Len(buf') = 0
    OBVIOUS
  <2>2. 0 <= BufSize
    BY UtilsBounds DEF F!FifoBounds
  <2> QED BY <2>1, <2>2 DEF FifoInv, FifoTypes
<1>2. PICK w : w = Rest
  OBVIOUS
<1>3. pipe = Rest'
  BY <1>0 DEF Rest
<1>4. /\ w \in Seq(Nat \X Nat) /\ Len(w) = Len(buf) + Len(pipe)
      /\ \A k \in 1 .. Len(buf) : w[k] = buf[k]
      /\ \A k \in 1 .. Len(pipe) : w[Len(buf) + k] = pipe[k]
  BY <1>2, RestIs DEF FifoInv
<1>5. Rear(pipe, w, Len(buf))
  <2>1. \A k \in 1 .. Len(pipe) : k + Len(buf) = Len(buf) + k
    BY <1>0
  <2>2. Len(buf) \in 0 .. Len(w) /\ Len(pipe) = Len(w) - Len(buf)
    BY <1>0, <1>4
  <2> QED BY <1>4, <2>1, <2>2 DEF Rear
<1>6. ASSUME pipe # <<>> PROVE pipe[1][2] = 0 \/ pipe[1][1] \in torn' \cup lost'
  <2>1. Len(pipe) >= 1 /\ 1 \in 1 .. Len(pipe)
    BY <1>0, <1>6
  <2>2. CASE buf = <<>>
    <3>1. Len(buf) = 0
      BY <2>2
    <3>2. w[1] = pipe[1] /\ w # <<>>
      <4>1. Len(buf) + 1 = 1 /\ Len(w) # 0
        BY <1>0, <1>4, <2>1, <3>1
      <4> QED BY <1>4, <2>1, <4>1
    <3> QED BY <1>2, <3>2, RowIs
  <2>3. CASE buf # <<>>
    <3>1. PICK l : l = Len(buf)
      OBVIOUS
    <3>2. l \in 1 .. Len(buf) /\ l \in 1 .. Len(w) - 1
      BY <1>0, <1>4, <2>1, <2>3, <3>1
    <3>3. w[l] = buf[l] /\ w[l + 1] = pipe[1]
      BY <1>4, <2>1, <3>1, <3>2
    <3>4. Follows(w[l], w[l + 1])
      BY <1>2, <3>2, RowIs DEF Row
    <3>5. buf[l][1] \in F!Commands(buf)
      BY <1>0, <3>2, CommandsAre
    <3>6. pipe[1][2] = 0 \/ pipe[1][1] = buf[l][1]
      BY <3>3, <3>4 DEF Follows
    <3> QED BY <3>5, <3>6
  <2> QED BY <2>2, <2>3
<1>7. F!Commands(w) \subseteq F!Commands(pipe) \cup torn' \cup lost'
  <2>1. w = buf \o pipe
    BY <1>2 DEF Rest
  <2>2. F!Commands(buf \o pipe) = F!Commands(buf) \cup F!Commands(pipe)
    BY <1>0, CommandsJoined
  <2>3. F!Commands(w) = F!Commands(buf) \cup F!Commands(pipe)
    BY <2>1, <2>2
  <2> QED BY <2>3
<1> QED BY <1>0, <1>1, <1>2, <1>3, <1>5, <1>6, <1>7, FifoKeeps

\* A sequence of a sequence and another one, and of a third.
LEMMA JoinedTwice ==
  ASSUME NEW T, NEW s \in Seq(T), NEW t \in Seq(T), NEW u \in Seq(T)
  PROVE  (s \o t) \o u = s \o (t \o u)
  BY ConcatAssociative

\* The units of a command without its "^" and newline.
LEMMA BodyIs ==
  ASSUME NEW n \in Nat, NEW l \in Nat, l >= 1, NEW g, g = [k \in 1 .. l |-> <<n, k>>]
  PROVE  g \in Seq(Nat \X Nat) /\ g[1][1] = n
<1>1. \A k \in 1 .. l : <<n, k>> \in Nat \X Nat
  OBVIOUS
<1>2. g \in [1 .. l -> Nat \X Nat]
  BY <1>1
<1>3. g \in Seq(Nat \X Nat)
  BY <1>2
<1>4. 1 \in 1 .. l
  OBVIOUS
<1>5. g[1] = <<n, 1>>
  BY <1>4
<1> QED BY <1>3, <1>5

\* What the reader has is a row as well.
LEMMA RowFront ==
  ASSUME F!FifoBounds, FifoTypes, Row(Rest)
  PROVE  Row(buf)
<1>1. PICK w : w = Rest
  OBVIOUS
<1>2. /\ Len(w) = Len(buf) + Len(pipe) /\ Len(buf) \in Nat /\ Len(pipe) \in Nat
      /\ \A k \in 1 .. Len(buf) : w[k] = buf[k]
  BY <1>1, RestIs
<1>3. Row(w)
  BY <1>1
<1>4. ASSUME NEW k \in 1 .. Len(buf) PROVE IsUnit(buf[k])
  <2>1. k \in 1 .. Len(w)
    BY <1>2
  <2>2. IsUnit(w[k])
    BY <1>3, <2>1 DEF Row
  <2> QED BY <1>2, <2>2
<1>5. ASSUME NEW k \in 1 .. Len(buf) - 1 PROVE Follows(buf[k], buf[k + 1])
  <2>1. k \in 1 .. Len(w) - 1 /\ k \in 1 .. Len(buf) /\ k + 1 \in 1 .. Len(buf)
    BY <1>2
  <2>2. Follows(w[k], w[k + 1])
    BY <1>3, <2>1 DEF Row
  <2>3. w[k] = buf[k] /\ w[k + 1] = buf[k + 1]
    BY <1>2, <2>1
  <2> QED BY <2>2, <2>3
<1> QED BY <1>4, <1>5 DEF Row

\* A command that is in the buffer from one end to the other is found.
LEMMA RowFound ==
  ASSUME F!FifoBounds, FifoTypes, Row(buf),
         NEW n, <<n, 0>> \in F!ToSet(buf), <<n, lens[n] + 1>> \in F!ToSet(buf)
  PROVE  \E i, j \in DOMAIN buf : F!Found(i, j)
<1>0. buf \in Seq(Nat \X Nat) /\ Len(buf) \in Nat /\ DOMAIN buf = 1 .. Len(buf)
  <2>1. buf \in Seq(Nat \X Nat)
    BY DEF FifoTypes
  <2> QED BY <2>1
<1>1. F!ToSet(buf) = {buf[k] : k \in 1 .. Len(buf)}
  BY <1>0 DEF F!ToSet
<1>2. PICK b \in 1 .. Len(buf) : buf[b] = <<n, 0>>
  BY <1>1
<1>3. PICK e \in 1 .. Len(buf) : buf[e] = <<n, lens[n] + 1>>
  BY <1>1
<1>4. n \in Nat /\ lens[n] \in Nat
  <2>1. IsUnit(buf[b]) /\ buf[b][1] = n
    BY <1>2 DEF Row
  <2> QED BY <2>1, UnitIs
<1>5. b # e
  <2>1. 0 # lens[n] + 1
    BY <1>4
  <2>2. buf[b][2] = 0 /\ buf[e][2] = lens[n] + 1
    BY <1>2, <1>3
  <2> QED BY <2>1, <2>2
<1>6. F!Ends(buf[e])
  <2>1. buf[e][1] = n /\ buf[e][2] = lens[n] + 1
    BY <1>3
  <2> QED BY <2>1 DEF F!Ends
<1>7. b < e
  <2>1. CASE e < b
    <3>1. buf[e][1] < buf[b][1]
      BY <1>0, <1>6, <2>1, RowGrows
    <3>2. n < n
      BY <1>2, <1>3, <3>1
    <3> QED BY <1>4, <3>2
  <2>2. b \in Nat /\ e \in Nat
    BY <1>0
  <2> QED BY <1>5, <2>1, <2>2
<1>8. PICK begun : begun = {k \in 1 .. Len(buf) : F!Begins(buf[k])}
  OBVIOUS
<1>9. b \in begun /\ begun \in SUBSET Nat
  <2>1. F!Begins(buf[b])
    BY <1>2 DEF F!Begins
  <2> QED BY <1>0, <1>8, <2>1
<1>10. PICK i \in begun : \A k \in begun : i <= k
  BY <1>9, SmallestExists
<1>11. i \in 1 .. Len(buf) /\ F!Begins(buf[i]) /\ i <= b
  BY <1>8, <1>9, <1>10
<1>12. PICK ended : ended = {k \in 1 .. Len(buf) : i < k /\ F!Ends(buf[k])}
  OBVIOUS
<1>13. e \in ended /\ ended \in SUBSET Nat
  <2>1. i < e
    BY <1>0, <1>7, <1>11
  <2>2. \A k \in 1 .. Len(buf) : k \in Nat
    BY <1>0
  <2> QED BY <1>6, <1>12, <2>1, <2>2
<1>14. PICK j \in ended : \A k \in ended : j <= k
  BY <1>13, SmallestExists
<1>15. j \in 1 .. Len(buf) /\ i < j /\ F!Ends(buf[j])
  BY <1>12, <1>14
<1>16. ASSUME NEW k \in 1 .. i - 1 PROVE ~F!Begins(buf[k])
  <2>1. k \in 1 .. Len(buf) /\ ~(i <= k)
    BY <1>0, <1>11
  <2>2. k \notin begun
    BY <1>10, <2>1
  <2> QED BY <1>8, <2>1, <2>2
<1>17. ASSUME NEW k \in i + 1 .. j - 1 PROVE ~F!Ends(buf[k])
  <2>1. k \in 1 .. Len(buf) /\ i < k /\ ~(j <= k)
    BY <1>0, <1>11, <1>15
  <2>2. k \notin ended
    BY <1>14, <2>1
  <2> QED BY <1>12, <2>1, <2>2
<1>18. F!Found(i, j)
  BY <1>11, <1>15, <1>16, <1>17 DEF F!Found
<1> QED BY <1>0, <1>11, <1>15, <1>18

\* The reader starts over with an empty buffer.
LEMMA FifoReadAgain ==
  ASSUME FifoInv, F!ReadAgain
  PROVE  FifoInv'
<1>0. F!FifoBounds
  BY UtilsBounds
<1>1. FifoTypes /\ Row(buf)
  BY <1>0, RowFront DEF FifoInv, FifoRow
<1>2. ~\E i, j \in DOMAIN buf : F!Found(i, j)
  BY DEF F!ReadAgain
<1>3. F!Commands(buf) \subseteq torn'
  <2>1. ASSUME NEW n \in F!Commands(buf) PROVE n \in F!Torn
    <3>1. ~(<<n, 0>> \in F!ToSet(buf) /\ <<n, lens[n] + 1>> \in F!ToSet(buf))
      BY <1>0, <1>1, <1>2, RowFound
    <3> QED BY <3>1 DEF F!Torn
  <2>2. torn' = torn \cup F!Torn
    BY DEF F!ReadAgain
  <2> QED BY <2>1, <2>2
<1>4. torn' \subseteq DOMAIN lens
  <2>1. F!Torn \subseteq F!Commands(buf)
    BY DEF F!Torn
  <2>2. F!Commands(buf) \subseteq DOMAIN lens
    BY DEF FifoInv, F!NoneElseIsLost
  <2>3. torn \subseteq DOMAIN lens /\ torn' = torn \cup F!Torn
    BY DEF FifoInv, FifoPlain, F!ReadAgain
  <2> QED BY <2>1, <2>2, <2>3
<1>5. FifoPlain'
  BY <1>4 DEF FifoInv, FifoPlain, F!ReadAgain
<1>6. /\ lens' = lens /\ handled' = handled /\ torn \subseteq torn' /\ lost \subseteq lost'
      /\ buf' = <<>> /\ pipe' = pipe
  BY DEF F!ReadAgain
<1> QED BY <1>3, <1>5, <1>6, FifoDropped

\* The reader takes from the pipe as much as fits.
LEMMA FifoRead ==
  ASSUME FifoInv, F!Read
  PROVE  FifoInv'
<1>0. /\ buf \in Seq(Nat \X Nat) /\ pipe \in Seq(Nat \X Nat) /\ Len(buf) \in Nat /\ Len(pipe) \in Nat
      /\ Len(buf) <= BufSize /\ Len(pipe) <= PipeSize /\ BufSize \in Nat /\ PipeSize \in Nat
  <2>1. /\ buf \in Seq(Nat \X Nat) /\ pipe \in Seq(Nat \X Nat)
        /\ Len(buf) <= BufSize /\ Len(pipe) <= PipeSize
    BY DEF FifoInv, FifoTypes
  <2>2. BufSize \in Nat /\ PipeSize \in Nat
    BY UtilsBounds DEF F!FifoBounds
  <2> QED BY <2>1, <2>2
<1>1. PICK n : n = IF Len(pipe) < BufSize - Len(buf) THEN Len(pipe) ELSE BufSize - Len(buf)
  OBVIOUS
<1>2. n \in 0 .. Len(pipe) /\ Len(buf) + n <= BufSize
  BY <1>0, <1>1
<1>3. buf' = buf \o SubSeq(pipe, 1, n) /\ pipe' = SubSeq(pipe, n + 1, Len(pipe))
  BY <1>1 DEF F!Read
<1>4. PICK h, t : h = SubSeq(pipe, 1, n) /\ t = SubSeq(pipe, n + 1, Len(pipe))
  OBVIOUS
<1>5. /\ h \in Seq(Nat \X Nat) /\ Len(h) = n
      /\ \A k \in 1 .. n : h[k] = pipe[k]
  <2>1. 1 \in 1 .. Len(pipe) + 1 /\ n \in 1 - 1 .. Len(pipe) /\ n - 1 + 1 = n
    BY <1>0, <1>2
  <2>2. /\ SubSeq(pipe, 1, n) \in Seq(Nat \X Nat) /\ Len(SubSeq(pipe, 1, n)) = n - 1 + 1
        /\ \A k \in 1 .. n - 1 + 1 : SubSeq(pipe, 1, n)[k] = pipe[1 + k - 1]
    BY <1>0, <2>1, SubSeqFacts
  <2>3. \A k \in 1 .. n : 1 + k - 1 = k
    BY <1>2
  <2>4. \A k \in 1 .. n : SubSeq(pipe, 1, n)[k] = pipe[k]
    BY <2>1, <2>2, <2>3
  <2> QED BY <1>4, <2>1, <2>2, <2>4
<1>6. /\ t \in Seq(Nat \X Nat) /\ Len(t) = Len(pipe) - n
      /\ \A k \in 1 .. Len(pipe) - n : t[k] = pipe[n + k]
  <2>1. /\ n + 1 \in 1 .. Len(pipe) + 1 /\ Len(pipe) \in (n + 1) - 1 .. Len(pipe)
        /\ Len(pipe) - (n + 1) + 1 = Len(pipe) - n
    BY <1>0, <1>2
  <2>2. /\ SubSeq(pipe, n + 1, Len(pipe)) \in Seq(Nat \X Nat)
        /\ Len(SubSeq(pipe, n + 1, Len(pipe))) = Len(pipe) - (n + 1) + 1
        /\ \A k \in 1 .. Len(pipe) - (n + 1) + 1 : SubSeq(pipe, n + 1, Len(pipe))[k] = pipe[(n + 1) + k - 1]
    BY <1>0, <2>1, SubSeqFacts
  <2>3. \A k \in 1 .. Len(pipe) - n : (n + 1) + k - 1 = n + k
    BY <1>0, <1>2
  <2>4. \A k \in 1 .. Len(pipe) - n : SubSeq(pipe, n + 1, Len(pipe))[k] = pipe[n + k]
    BY <2>1, <2>2, <2>3
  <2> QED BY <1>4, <2>1, <2>2, <2>4
<1>7. PICK c2 : c2 = buf \o h
  OBVIOUS
<1>8. /\ c2 \in Seq(Nat \X Nat) /\ Len(c2) = Len(buf) + n
      /\ \A k \in 1 .. Len(buf) : c2[k] = buf[k]
      /\ \A k \in 1 .. n : c2[Len(buf) + k] = pipe[k]
  <2>1. /\ c2 \in Seq(Nat \X Nat) /\ Len(c2) = Len(buf) + Len(h)
        /\ \A k \in 1 .. Len(buf) : c2[k] = buf[k]
        /\ \A k \in 1 .. Len(h) : c2[Len(buf) + k] = h[k]
    <3>1. buf \in Seq(Nat \X Nat) /\ h \in Seq(Nat \X Nat)
      BY <1>0, <1>5
    <3> QED BY <1>7, <3>1, Joined
  <2>2. Len(h) = n
    BY <1>5
  <2>3. \A k \in 1 .. n : c2[Len(buf) + k] = h[k]
    BY <2>1, <2>2
  <2> QED BY <1>5, <2>1, <2>2, <2>3
<1>9. buf' = c2 /\ pipe' = t
  BY <1>3, <1>4, <1>7
<1>10. FifoTypes'
  <2>1. Len(c2) <= BufSize /\ Len(t) <= PipeSize
    BY <1>0, <1>2, <1>6, <1>8
  <2>2. lens' = lens /\ lens \in Seq(1 .. BufSize - 2) /\ Len(lens) <= MaxSends
    BY DEF F!Read, F!history, FifoInv, FifoTypes
  <2> QED BY <1>6, <1>8, <1>9, <2>1, <2>2 DEF FifoTypes
<1>11. PICK w, v : w = Rest /\ v = Rest'
  OBVIOUS
<1>12. /\ w \in Seq(Nat \X Nat) /\ Len(w) = Len(buf) + Len(pipe)
       /\ \A k \in 1 .. Len(buf) : w[k] = buf[k]
       /\ \A k \in 1 .. Len(pipe) : w[Len(buf) + k] = pipe[k]
  BY <1>11, RestIs DEF FifoInv
<1>13. v = c2 \o t
  BY <1>9, <1>11 DEF Rest
<1>14. /\ v \in Seq(Nat \X Nat) /\ Len(v) = Len(c2) + Len(t)
       /\ \A k \in 1 .. Len(c2) : v[k] = c2[k]
       /\ \A k \in 1 .. Len(t) : v[Len(c2) + k] = t[k]
  <2>1. c2 \in Seq(Nat \X Nat) /\ t \in Seq(Nat \X Nat)
    BY <1>6, <1>8
  <2> QED BY <1>13, <2>1, Joined
<1>15. Len(v) = Len(w)
  BY <1>0, <1>2, <1>6, <1>8, <1>12, <1>14
<1>16. ASSUME NEW k \in 1 .. Len(w) PROVE v[k] = w[k]
  <2>0. k \in 1 .. Len(buf) + Len(pipe)
    BY <1>12
  <2>1. CASE k <= Len(buf)
    <3>1. k \in 1 .. Len(buf) /\ k \in 1 .. Len(c2)
      BY <1>0, <1>2, <1>8, <2>0, <2>1
    <3> QED BY <1>8, <1>12, <1>14, <3>1
  <2>2. CASE ~(k <= Len(buf)) /\ k <= Len(buf) + n
    <3>1. PICK x : x = k - Len(buf)
      OBVIOUS
    <3>2. x \in 1 .. n /\ x \in 1 .. Len(pipe) /\ Len(buf) + x = k /\ k \in 1 .. Len(c2)
      BY <1>0, <1>2, <1>8, <2>0, <2>2, <3>1
    <3>3. c2[k] = pipe[x] /\ w[k] = pipe[x] /\ v[k] = c2[k]
      <4>1. c2[Len(buf) + x] = pipe[x]
        BY <1>8, <3>2
      <4>2. w[Len(buf) + x] = pipe[x]
        BY <1>12, <3>2
      <4>3. v[k] = c2[k]
        BY <1>14, <3>2
      <4> QED BY <3>2, <4>1, <4>2, <4>3
    <3> QED BY <3>3
  <2>3. CASE ~(k <= Len(buf) + n)
    <3>1. PICK x : x = k - Len(buf) - n
      OBVIOUS
    <3>2. /\ x \in 1 .. Len(pipe) - n /\ x \in 1 .. Len(t) /\ Len(c2) + x = k
          /\ n + x \in 1 .. Len(pipe) /\ Len(buf) + (n + x) = k
      <4>1. Len(t) = Len(pipe) - n /\ Len(c2) = Len(buf) + n
        BY <1>6, <1>8
      <4>2. x \in 1 .. Len(pipe) - n /\ (Len(buf) + n) + x = k
        BY <1>0, <1>2, <2>0, <2>3, <3>1
      <4>3. n + x \in 1 .. Len(pipe) /\ Len(buf) + (n + x) = k
        BY <1>0, <1>2, <4>2
      <4> QED BY <4>1, <4>2, <4>3
    <3>3. v[Len(c2) + x] = t[x]
      BY <1>14, <3>2
    <3>4. t[x] = pipe[n + x]
      BY <1>6, <3>2
    <3>5. w[Len(buf) + (n + x)] = pipe[n + x]
      BY <1>12, <3>2
    <3> QED BY <3>2, <3>3, <3>4, <3>5
  <2> QED BY <2>1, <2>2, <2>3
<1>17. v = w
  BY <1>12, <1>14, <1>15, <1>16, SeqEqual
<1>18. Rear(w, w, 0)
  <2>1. Len(w) \in Nat
    BY <1>12
  <2>2. 0 \in 0 .. Len(w) /\ Len(w) = Len(w) - 0 /\ \A k \in 1 .. Len(w) : k + 0 = k
    BY <2>1
  <2> QED BY <2>2 DEF Rear
<1>19. /\ lens' = lens /\ handled' = handled /\ torn' = torn /\ lost' = lost
       /\ opened' = opened /\ eintr' = eintr /\ signals' = signals /\ crashes' = crashes
       /\ reader' \in {"read", "parse"}
  BY DEF F!Read, F!history
<1>20. FifoPlain'
  BY <1>19 DEF FifoInv, FifoPlain
<1>21. w # <<>> => w[1][2] = 0 \/ w[1][1] \in torn' \cup lost'
  BY <1>11, <1>19, RowIs
<1> QED BY <1>10, <1>11, <1>12, <1>17, <1>18, <1>19, <1>20, <1>21, FifoKeeps

\* Command n is in the row w from i to j, and what is before it began earlier.
IsCommand(w, n, i, j) ==
  /\ i \in 1 .. Len(w) /\ j \in 1 .. Len(w)
  /\ IsUnit(w[i]) /\ F!Ends(w[j]) /\ Headless(w, i - 1)
  /\ \A k \in i .. j : w[k][1] = n
  /\ j = i + lens[n] + 1 /\ lens[n] \in Nat /\ lens[n] >= 1
  /\ SubSeq(buf, i + 1, j - 1) = [k \in 1 .. lens[n] |-> <<n, k>>]

\* What a handler gets is the command that was found, without its "^" and newline.
LEMMA FifoFound ==
  ASSUME FifoInv, NEW i \in Nat, NEW j \in Nat, i >= 1, i < j, j <= Len(buf), F!Found(i, j),
         NEW w, w = Rest, NEW n, n = w[i][1]
  PROVE  IsCommand(w, n, i, j)
<1>0. F!FifoBounds
  BY UtilsBounds
<1>1. /\ w \in Seq(Nat \X Nat) /\ Len(w) = Len(buf) + Len(pipe)
      /\ Len(buf) \in Nat /\ Len(pipe) \in Nat
      /\ \A k \in 1 .. Len(buf) : w[k] = buf[k]
  BY RestIs DEF FifoInv
<1>n. Len(buf) \in Nat /\ Len(pipe) \in Nat /\ Len(w) = Len(buf) + Len(pipe)
  BY <1>1
<1>2. buf \in Seq(Nat \X Nat) /\ i \in 1 .. Len(buf) /\ j \in 1 .. Len(buf)
  <2>1. i \in 1 .. Len(buf) /\ j \in 1 .. Len(buf)
    BY <1>n
  <2> QED BY <2>1 DEF FifoInv, FifoTypes
<1>3. i \in 1 .. Len(w) /\ j \in 1 .. Len(w)
  BY <1>n
<1>4. Row(w)
  BY RowIs
<1>5. FifoTypes
  BY DEF FifoInv
<1>6. IsUnit(w[i])
  BY <1>3, <1>4 DEF Row
<1>7. w[i] = buf[i] /\ w[j] = buf[j]
  BY <1>1, <1>2
<1>8. F!Ends(w[j]) /\ w[i][2] = 0
  BY <1>7 DEF F!Found, F!Begins
<1>9. Headless(w, i - 1)
  <2>1. ASSUME NEW k \in 1 .. i - 1 PROVE w[k][2] # 0
    <3>1. k \in 1 .. Len(buf)
      BY <1>n
    <3>2. ~F!Begins(buf[k])
      BY DEF F!Found
    <3> QED BY <1>1, <3>1, <3>2 DEF F!Begins
  <2> QED BY <2>1 DEF Headless
<1>10. Encloses(w, i, j)
  <2>1. ASSUME NEW k \in i + 1 .. j - 1 PROVE ~F!Ends(w[k])
    <3>1. k \in 1 .. Len(buf)
      BY <1>n
    <3>2. ~F!Ends(buf[k])
      BY DEF F!Found
    <3> QED BY <1>1, <3>1, <3>2
  <2> QED BY <1>8, <2>1 DEF Encloses
<1>11. /\ \A k \in i .. j : w[k] = <<w[i][1], k - i>>
       /\ j = i + lens[w[i][1]] + 1
  BY <1>0, <1>1, <1>2, <1>3, <1>4, <1>5, <1>10, RowFrame
<1>12. \A k \in i .. j : w[k] = <<n, k - i>>
  BY <1>11
<1>13. \A k \in i .. j : w[k][1] = n
  BY <1>12
<1>14. j = i + lens[n] + 1
  BY <1>11
<1>15. lens[n] \in Nat /\ lens[n] >= 1
  BY <1>0, <1>5, <1>6, UnitIs
<1>16. PICK l : l = lens[n] /\ l \in Nat /\ j = i + l + 1
  BY <1>14, <1>15
<1>17. SubSeq(buf, i + 1, j - 1) = [k \in 1 .. l |-> <<n, k>>]
  <2>1. /\ i + 1 \in 1 .. Len(buf) + 1 /\ j - 1 \in (i + 1) - 1 .. Len(buf)
        /\ (j - 1) - (i + 1) + 1 = l
    <3>1. l \in Nat /\ j = i + l + 1
      BY <1>16
    <3>2. i + 1 \in 1 .. Len(buf) + 1
      BY <1>n
    <3>3. j - 1 \in (i + 1) - 1 .. Len(buf)
      BY <1>n
    <3>4. (j - 1) - (i + 1) + 1 = l
      BY <3>1
    <3> QED BY <3>2, <3>3, <3>4
  <2>2. PICK b, e : b = i + 1 /\ e = j - 1
    OBVIOUS
  <2>3. b \in 1 .. Len(buf) + 1 /\ e \in b - 1 .. Len(buf) /\ e - b + 1 = l
    BY <2>1, <2>2
  <2>4. PICK s : s = SubSeq(buf, b, e)
    OBVIOUS
  <2>5. /\ s \in Seq(Nat \X Nat) /\ Len(s) = e - b + 1
        /\ \A k \in 1 .. e - b + 1 : s[k] = buf[b + k - 1]
    BY <1>2, <2>3, <2>4, SubSeqFacts
  <2>6. s \in Seq(Nat \X Nat) /\ Len(s) = l /\ \A k \in 1 .. l : s[k] = buf[b + k - 1]
    BY <2>3, <2>5
  <2>7. ASSUME NEW k \in 1 .. l PROVE s[k] = <<n, k>>
    <3>1. PICK x : x = i + k
      OBVIOUS
    <3>2. x \in i .. j /\ x \in 1 .. Len(buf) /\ x - i = k /\ b + k - 1 = x
      <4>1. l \in Nat /\ j = i + l + 1
        BY <1>16
      <4>2. x \in i .. j /\ x \in 1 .. Len(buf)
        BY <1>n, <3>1, <4>1
      <4>3. x - i = k
        BY <3>1
      <4>4. b + k - 1 = x
        BY <2>2, <3>1
      <4> QED BY <4>2, <4>3, <4>4
    <3>3. s[k] = buf[x]
      BY <2>6, <3>2
    <3>4. w[x] = <<n, k>>
      BY <1>12, <3>2
    <3> QED BY <1>1, <3>2, <3>3, <3>4
  <2>8. s = [k \in 1 .. l |-> s[k]]
    BY <2>6
  <2>9. s = [k \in 1 .. l |-> <<n, k>>]
    BY <2>7, <2>8
  <2> QED BY <2>2, <2>4, <2>9
<1>18. SubSeq(buf, i + 1, j - 1) = [k \in 1 .. lens[n] |-> <<n, k>>]
  BY <1>16, <1>17
<1> QED BY <1>3, <1>6, <1>8, <1>9, <1>13, <1>14, <1>15, <1>18 DEF IsCommand

\* The commands that were handled, with one more.
LEMMA FifoOneMore ==
  ASSUME NEW T, handled \in Seq(T), NEW x \in T, handled' = Append(handled, x)
  PROVE  /\ handled' \in Seq(T) /\ Len(handled') = Len(handled) + 1 /\ Len(handled) \in Nat
         /\ \A h \in 1 .. Len(handled) : handled'[h] = handled[h]
         /\ handled'[Len(handled) + 1] = x
         /\ Handled' = Handled \cup {x[1][1]}
<1>1. /\ Append(handled, x) \in Seq(T) /\ Len(Append(handled, x)) = Len(handled) + 1
      /\ \A h \in 1 .. Len(handled) : Append(handled, x)[h] = handled[h]
      /\ Append(handled, x)[Len(handled) + 1] = x
      /\ Len(handled) \in Nat
  OBVIOUS
<1>2. /\ handled' \in Seq(T) /\ Len(handled') = Len(handled) + 1 /\ Len(handled) \in Nat
      /\ \A h \in 1 .. Len(handled) : handled'[h] = handled[h]
      /\ handled'[Len(handled) + 1] = x
  BY <1>1
<1>3. DOMAIN handled' = 1 .. Len(handled) + 1 /\ DOMAIN handled = 1 .. Len(handled)
  BY <1>2
<1>4. Handled' = {handled'[h][1][1] : h \in 1 .. Len(handled) + 1}
  BY <1>3 DEF Handled
<1>5. Handled = {handled[h][1][1] : h \in 1 .. Len(handled)}
  BY <1>3 DEF Handled
<1>6. ASSUME NEW h \in 1 .. Len(handled) + 1 PROVE h \in 1 .. Len(handled) \/ h = Len(handled) + 1
  BY <1>2
<1>7. \A h \in 1 .. Len(handled) : h \in 1 .. Len(handled) + 1
  BY <1>2
<1>8. Len(handled) + 1 \in 1 .. Len(handled) + 1
  BY <1>2
<1>9. Handled' \subseteq Handled \cup {x[1][1]}
  BY <1>2, <1>4, <1>5, <1>6
<1>10. Handled \cup {x[1][1]} \subseteq Handled'
  BY <1>2, <1>4, <1>5, <1>7, <1>8
<1>11. Handled' = Handled \cup {x[1][1]}
  BY <1>9, <1>10
<1> QED BY <1>2, <1>11

\* A command is handled.
LEMMA FifoHandle ==
  ASSUME FifoInv, NEW i \in Nat, NEW j \in Nat, i >= 1, i < j, j <= Len(buf), F!Handle(i, j)
  PROVE  FifoInv'
<1>0. F!FifoBounds
  BY UtilsBounds
<1>a. F!Found(i, j)
  BY DEF F!Handle
<1>1. PICK w, n, l : w = Rest /\ n = w[i][1] /\ l = lens[n]
  OBVIOUS
<1>2. /\ i \in 1 .. Len(w) /\ j \in 1 .. Len(w)
      /\ IsUnit(w[i]) /\ F!Ends(w[j]) /\ Headless(w, i - 1)
      /\ \A k \in i .. j : w[k][1] = n
      /\ j = i + l + 1 /\ l \in Nat /\ l >= 1
      /\ SubSeq(buf, i + 1, j - 1) = [k \in 1 .. l |-> <<n, k>>]
  <2>1. IsCommand(w, n, i, j)
    BY <1>1, <1>a, FifoFound
  <2> QED BY <1>1, <2>1 DEF IsCommand
<1>3. FifoTypes /\ Row(w) /\ w \in Seq(Nat \X Nat)
  BY <1>1, RowIs DEF FifoInv
<1>4. n \in Nat /\ n \in DOMAIN lens
  <2>1. n \in Nat
    BY <1>0, <1>1, <1>2, <1>3, UnitIs
  <2>2. n \in DOMAIN lens
    BY <1>1, <1>2 DEF IsUnit
  <2> QED BY <2>1, <2>2
<1>5. /\ buf \in Seq(Nat \X Nat) /\ Len(buf) \in Nat /\ Len(buf) <= BufSize /\ BufSize \in Nat
      /\ pipe \in Seq(Nat \X Nat) /\ Len(pipe) \in Nat
  <2>1. buf \in Seq(Nat \X Nat) /\ Len(buf) <= BufSize /\ pipe \in Seq(Nat \X Nat)
    BY <1>3 DEF FifoTypes
  <2>2. BufSize \in Nat
    BY <1>0 DEF F!FifoBounds
  <2> QED BY <2>1, <2>2
<1>n. /\ Len(buf) \in Nat /\ Len(pipe) \in Nat /\ Len(w) = Len(buf) + Len(pipe) /\ Len(w) \in Nat
      /\ BufSize \in Nat /\ Len(buf) <= BufSize
  <2>1. Len(w) = Len(buf) + Len(pipe)
    BY <1>1, <1>3, RestIs
  <2> QED BY <1>5, <2>1
<1>6. PICK s : s = SubSeq(buf, j + 1, Len(buf))
  OBVIOUS
<1>7. /\ s \in Seq(Nat \X Nat) /\ Len(s) = Len(buf) - j
      /\ \A k \in 1 .. Len(buf) - j : s[k] = buf[k + j]
  <2>1. PICK b, e : b = j + 1 /\ e = Len(buf)
    OBVIOUS
  <2>2. b \in 1 .. Len(buf) + 1 /\ e \in b - 1 .. Len(buf) /\ e - b + 1 = Len(buf) - j
    BY <1>n, <2>1
  <2>3. /\ s \in Seq(Nat \X Nat) /\ Len(s) = e - b + 1
        /\ \A k \in 1 .. e - b + 1 : s[k] = buf[b + k - 1]
    <3>1. s = SubSeq(buf, b, e)
      BY <1>6, <2>1
    <3>2. /\ SubSeq(buf, b, e) \in Seq(Nat \X Nat) /\ Len(SubSeq(buf, b, e)) = e - b + 1
          /\ \A k \in 1 .. e - b + 1 : SubSeq(buf, b, e)[k] = buf[b + k - 1]
      BY <1>5, <2>2, SubSeqFacts
    <3> QED BY <3>1, <3>2
  <2>4. \A k \in 1 .. Len(buf) - j : b + k - 1 = k + j
    BY <1>n, <2>1
  <2>5. \A k \in 1 .. Len(buf) - j : s[k] = buf[k + j]
    BY <2>2, <2>3, <2>4
  <2> QED BY <2>2, <2>3, <2>5
<1>8. /\ buf' = s /\ pipe' = pipe /\ lens' = lens /\ torn' = torn /\ lost' = lost
      /\ opened' = opened /\ reader' = reader /\ eintr' \in {eintr, FALSE} /\ reader = "parse"
      /\ signals' = signals /\ crashes' = crashes
  BY <1>6 DEF F!Handle
<1>9. PICK g : g = [k \in 1 .. l |-> <<n, k>>]
  OBVIOUS
<1>10. handled' = Append(handled, g)
  BY <1>2, <1>9 DEF F!Handle
<1>11. g \in Seq(Nat \X Nat) /\ g[1][1] = n
  <2>1. l \in Nat /\ l >= 1
    BY <1>2
  <2> QED BY <1>4, <1>9, <2>1, BodyIs
<1>12. handled \in Seq(Seq(Nat \X Nat)) /\ F!WholeCommands /\ F!InOrderOnce
  BY DEF FifoInv, FifoHandled
<1>13. /\ handled' \in Seq(Seq(Nat \X Nat)) /\ Len(handled') = Len(handled) + 1 /\ Len(handled) \in Nat
       /\ \A h \in 1 .. Len(handled) : handled'[h] = handled[h]
       /\ handled'[Len(handled) + 1] = g
       /\ Handled' = Handled \cup {g[1][1]}
  BY <1>10, <1>11, <1>12, FifoOneMore
<1>14. DOMAIN handled' = 1 .. Len(handled) + 1 /\ DOMAIN handled = 1 .. Len(handled)
  BY <1>12, <1>13
<1>15. \A h \in 1 .. Len(handled) + 1 : h \in 1 .. Len(handled) \/ h = Len(handled) + 1
  BY <1>13
<1>16. \A h \in 1 .. Len(handled) : handled[h][1][1] < n
  BY <1>1, <1>2, RowIs
<1>17. F!WholeCommands'
  <2> SUFFICES ASSUME NEW h \in 1 .. Len(handled) + 1
               PROVE  \E m \in DOMAIN lens : handled'[h] = [k \in 1 .. lens[m] |-> <<m, k>>]
    BY <1>8, <1>14 DEF F!WholeCommands
  <2>1. CASE h \in 1 .. Len(handled)
    <3>1. \E m \in DOMAIN lens : handled[h] = [k \in 1 .. lens[m] |-> <<m, k>>]
      BY <1>12, <1>14, <2>1 DEF F!WholeCommands
    <3>2. handled'[h] = handled[h]
      BY <1>13, <2>1
    <3> QED BY <3>1, <3>2
  <2>2. CASE h = Len(handled) + 1
    <3>1. handled'[h] = g
      BY <1>13, <2>2
    <3>2. g = [k \in 1 .. lens[n] |-> <<n, k>>]
      BY <1>1, <1>9
    <3> QED BY <1>4, <3>1, <3>2
  <2> QED BY <1>15, <2>1, <2>2
<1>18. F!InOrderOnce'
  <2> SUFFICES ASSUME NEW h \in 1 .. Len(handled) + 1, NEW m \in 1 .. Len(handled) + 1, h < m
               PROVE  handled'[h][1][1] < handled'[m][1][1]
    BY <1>14 DEF F!InOrderOnce
  <2>1. h \in 1 .. Len(handled)
    BY <1>13
  <2>2. handled'[h] = handled[h]
    BY <1>13, <2>1
  <2>3. CASE m \in 1 .. Len(handled)
    <3>1. handled'[m] = handled[m]
      BY <1>13, <2>3
    <3>2. handled[h][1][1] < handled[m][1][1]
      BY <1>12, <1>14, <2>1, <2>3 DEF F!InOrderOnce
    <3> QED BY <2>2, <3>1, <3>2
  <2>4. CASE m = Len(handled) + 1
    <3>1. handled'[m][1][1] = n
      BY <1>11, <1>13, <2>4
    <3>2. handled[h][1][1] < n
      BY <1>16, <2>1
    <3> QED BY <2>2, <3>1, <3>2
  <2> QED BY <1>15, <2>3, <2>4
<1>19. FifoHandled'
  BY <1>13, <1>17, <1>18 DEF FifoHandled
<1>20. FifoTypes'
  <2>1. Len(s) <= BufSize
    <3>1. Len(s) = Len(buf) - j
      BY <1>7
    <3> QED BY <1>n, <3>1
  <2> QED BY <1>3, <1>7, <1>8, <2>1 DEF FifoTypes
<1>21. FifoPlain'
  <2>1. eintr' \in BOOLEAN
    BY <1>8 DEF FifoInv, FifoPlain
  <2>2. reader' # "down"
    BY <1>8
  <2> QED BY <1>8, <2>1, <2>2 DEF FifoInv, FifoPlain
<1>22. PICK v : v = Rest'
  OBVIOUS
<1>23. /\ v \in Seq(Nat \X Nat) /\ Len(v) = Len(s) + Len(pipe)
       /\ \A k \in 1 .. Len(s) : v[k] = s[k]
       /\ \A k \in 1 .. Len(pipe) : v[Len(s) + k] = pipe[k]
  <2>1. v = s \o pipe
    BY <1>8, <1>22 DEF Rest
  <2>2. s \in Seq(Nat \X Nat) /\ pipe \in Seq(Nat \X Nat)
    BY <1>5, <1>7
  <2> QED BY <2>1, <2>2, Joined
<1>24. /\ Len(w) = Len(buf) + Len(pipe)
       /\ \A k \in 1 .. Len(buf) : w[k] = buf[k]
       /\ \A k \in 1 .. Len(pipe) : w[Len(buf) + k] = pipe[k]
  BY <1>1, <1>3, RestIs
<1>25. Len(v) = Len(w) - j
  <2>1. Len(v) = (Len(buf) - j) + Len(pipe)
    BY <1>7, <1>23
  <2> QED BY <1>n, <2>1
<1>26. ASSUME NEW k \in 1 .. Len(v) PROVE v[k] = w[k + j]
  <2>0. k \in 1 .. (Len(buf) - j) + Len(pipe)
    BY <1>7, <1>23
  <2>1. CASE k <= Len(buf) - j
    <3>1. k \in 1 .. Len(buf) - j /\ k + j \in 1 .. Len(buf)
      BY <1>n, <2>0, <2>1
    <3>2. k \in 1 .. Len(s)
      BY <1>7, <3>1
    <3>3. v[k] = s[k] /\ s[k] = buf[k + j] /\ w[k + j] = buf[k + j]
      BY <1>7, <1>23, <1>24, <3>1, <3>2
    <3> QED BY <3>3
  <2>2. CASE ~(k <= Len(buf) - j)
    <3>1. PICK x : x = k - (Len(buf) - j)
      OBVIOUS
    <3>2. x \in 1 .. Len(pipe) /\ (Len(buf) - j) + x = k /\ Len(buf) + x = k + j
      BY <1>n, <2>0, <2>2, <3>1
    <3>3. v[Len(s) + x] = pipe[x]
      BY <1>23, <3>2
    <3>4. v[(Len(buf) - j) + x] = pipe[x]
      BY <1>7, <3>3
    <3>5. w[Len(buf) + x] = pipe[x]
      BY <1>24, <3>2
    <3> QED BY <3>2, <3>4, <3>5
  <2> QED BY <2>1, <2>2
<1>27. Rear(v, w, j)
  <2>1. j \in 0 .. Len(w)
    BY <1>n
  <2> QED BY <1>25, <1>26, <2>1 DEF Rear
<1>28. Len(v) \in Nat /\ Len(v) = Len(w) - j
  BY <1>23, <1>25
<1>29. ASSUME v # <<>> PROVE v[1][2] = 0
  <2>1. 1 \in 1 .. Len(v) /\ j \in 1 .. Len(w) - 1 /\ 1 + j = j + 1
    <3>1. Len(v) # 0
      BY <1>23, <1>29
    <3> QED BY <1>n, <1>28, <3>1
  <2>2. v[1] = w[j + 1]
    BY <1>26, <2>1
  <2>3. Follows(w[j], w[j + 1])
    BY <1>3, <2>1 DEF Row
  <2> QED BY <1>2, <2>2, <2>3 DEF Follows
<1>30. ASSUME NEW h \in 1 .. Len(handled'), NEW k \in 1 .. Len(v)
       PROVE  handled'[h][1][1] < v[k][1]
  <2>1. PICK x : x = k + j
    OBVIOUS
  <2>2. x \in 1 .. Len(w) /\ j < x
    BY <1>n, <1>28, <2>1
  <2>3. v[k] = w[x]
    BY <1>26, <2>1
  <2>4. CASE h \in 1 .. Len(handled)
    <3>1. handled[h][1][1] < w[x][1]
      BY <1>1, <2>2, <2>4, RowIs
    <3>2. handled'[h] = handled[h]
      BY <1>13, <2>4
    <3> QED BY <2>3, <3>1, <3>2
  <2>5. CASE h = Len(handled) + 1
    <3>1. w[j][1] < w[x][1]
      BY <1>0, <1>2, <1>3, <2>2, RowGrows
    <3>2. w[j][1] = n
      <4>1. j \in i .. j
        BY <1>n
      <4> QED BY <1>2, <4>1
    <3>3. handled'[h][1][1] = n
      BY <1>11, <1>13, <2>5
    <3> QED BY <2>3, <3>1, <3>2, <3>3
  <2> QED BY <1>13, <1>15, <2>4, <2>5
<1>31. ASSUME NEW m \in F!Commands(w) PROVE m \in F!Commands(v) \cup torn \cup lost \cup {n}
  <2>1. PICK k \in 1 .. Len(w) : m = w[k][1]
    BY <1>3, CommandsAre
  <2>2. CASE k < i
    <3>1. /\ i - 1 \in 1 .. Len(w) /\ k \in 1 .. i - 1 /\ 1 \in 1 .. i - 1 /\ w # <<>>
      <4>1. i - 1 \in 1 .. Len(w) /\ k \in 1 .. i - 1 /\ 1 \in 1 .. i - 1
        BY <1>n, <2>2
      <4>2. Len(w) # 0
        BY <1>n, <4>1
      <4> QED BY <4>1, <4>2
    <3>2. w[k][1] = w[1][1]
      BY <1>0, <1>2, <1>3, <3>1, RowHead
    <3>3. w[1][2] # 0
      BY <1>2, <3>1 DEF Headless
    <3>4. w[1][1] \in torn \cup lost
      BY <1>1, <3>1, <3>3, RowIs
    <3> QED BY <2>1, <3>2, <3>4
  <2>3. CASE k \in i .. j
    BY <1>2, <2>1, <2>3
  <2>4. CASE k > j
    <3>1. PICK x : x = k - j
      OBVIOUS
    <3>2. x \in 1 .. Len(v) /\ x + j = k
      BY <1>n, <1>28, <2>4, <3>1
    <3>3. v[x] = w[k]
      BY <1>26, <3>2
    <3>4. v[x][1] \in F!Commands(v)
      BY <1>23, <3>2, CommandsAre
    <3> QED BY <2>1, <3>3, <3>4
  <2>5. k < i \/ k \in i .. j \/ k > j
    BY <1>n
  <2> QED BY <2>2, <2>3, <2>4, <2>5
<1>32. DOMAIN lens = F!Commands(v) \cup torn' \cup lost' \cup Handled'
  <2>1. DOMAIN lens = F!Commands(w) \cup torn \cup lost \cup Handled
    BY <1>1, RowIs
  <2>2. F!Commands(v) \subseteq F!Commands(w)
    BY <1>3, <1>23, <1>27, RowTail
  <2>3. Handled' = Handled \cup {n}
    BY <1>11, <1>13
  <2>4. torn' = torn /\ lost' = lost
    BY <1>8
  <2> QED BY <1>4, <1>31, <2>1, <2>2, <2>3, <2>4
<1>33. v # <<>> => v[1][2] = 0 \/ v[1][1] \in torn' \cup lost'
  BY <1>29
<1>34. \A h \in 1 .. Len(handled') : \A k \in 1 .. Len(v) : handled'[h][1][1] < v[k][1]
  BY <1>30
<1>35. lens' = lens
  BY <1>8
<1>36. v \in Seq(Nat \X Nat)
  BY <1>23
<1> QED BY <1>1, <1>19, <1>20, <1>21, <1>22, <1>27, <1>32, <1>33, <1>34, <1>35, <1>36, FifoOnward

\* A frame is the units of one command, in order.
LEMMA FrameIs ==
  ASSUME NEW n \in Nat, NEW len \in Nat
  PROVE  /\ F!Frame(n, len) \in Seq(Nat \X Nat) /\ Len(F!Frame(n, len)) = len + 2
         /\ \A k \in 1 .. len + 2 : F!Frame(n, len)[k] = <<n, k - 1>>
<1>1. \A k \in 1 .. len + 2 : <<n, k - 1>> \in Nat \X Nat
  <2>1. \A k \in 1 .. len + 2 : k - 1 \in Nat
    OBVIOUS
  <2> QED BY <2>1
<1>2. F!Frame(n, len) = [k \in 1 .. len + 2 |-> <<n, k - 1>>]
  BY DEF F!Frame
<1>3. F!Frame(n, len) \in [1 .. len + 2 -> Nat \X Nat]
  BY <1>1, <1>2
<1>4. len + 2 \in Nat
  OBVIOUS
<1>5. F!Frame(n, len) \in Seq(Nat \X Nat) /\ Len(F!Frame(n, len)) = len + 2
  BY <1>3, <1>4
<1>6. \A k \in 1 .. len + 2 : F!Frame(n, len)[k] = <<n, k - 1>>
  BY <1>2
<1> QED BY <1>5, <1>6

\* A command is written, behind all the others.
LEMMA FifoSend ==
  ASSUME FifoInv, NEW c1 \in Clients, NEW len \in 1 .. BufSize - 2, F!Send(c1, len)
  PROVE  FifoInv'
<1>0. F!FifoBounds
  BY UtilsBounds
<1>1. /\ buf \in Seq(Nat \X Nat) /\ pipe \in Seq(Nat \X Nat) /\ Len(buf) <= BufSize
      /\ lens \in Seq(1 .. BufSize - 2) /\ FifoTypes
  BY DEF FifoInv, FifoTypes
<1>2. /\ BufSize \in Nat /\ PipeSize \in Nat /\ MaxSends \in Nat
      /\ Len(buf) \in Nat /\ Len(pipe) \in Nat /\ Len(lens) \in Nat
  BY <1>0, <1>1 DEF F!FifoBounds
<1>3. PICK n, g : n = Len(lens) + 1 /\ g = F!Frame(n, len)
  OBVIOUS
<1>4. /\ pipe' = pipe \o g /\ lens' = Append(lens, len) /\ Len(lens) < MaxSends
      /\ Len(pipe) + len + 2 <= PipeSize
      /\ buf' = buf /\ handled' = handled /\ torn' = torn /\ lost' = lost
      /\ opened' = opened /\ reader' = reader /\ eintr' = eintr
      /\ signals' = signals /\ crashes' = crashes
  BY <1>3 DEF F!Send
<1>5. n \in Nat /\ len \in Nat /\ len >= 1 /\ n >= 1
  BY <1>2, <1>3
<1>6. /\ g \in Seq(Nat \X Nat) /\ Len(g) = len + 2
      /\ \A k \in 1 .. len + 2 : g[k] = <<n, k - 1>>
  BY <1>3, <1>5, FrameIs
<1>7. /\ lens' \in Seq(1 .. BufSize - 2) /\ Len(lens') = n
      /\ \A k \in 1 .. Len(lens) : lens'[k] = lens[k]
      /\ lens'[n] = len
  BY <1>1, <1>3, <1>4
<1>8. DOMAIN lens = 1 .. Len(lens) /\ DOMAIN lens' = 1 .. n
  BY <1>1, <1>7
<1>9. \A k \in DOMAIN lens : k \in DOMAIN lens' /\ lens'[k] = lens[k] /\ k < n /\ k \in Nat
  BY <1>2, <1>3, <1>7, <1>8
<1>10. PICK w, v : w = Rest /\ v = Rest'
  OBVIOUS
<1>11. /\ w \in Seq(Nat \X Nat) /\ Row(w)
       /\ w # <<>> => F!Ends(w[Len(w)])
       /\ w # <<>> => w[1][2] = 0 \/ w[1][1] \in torn \cup lost
       /\ \A h \in 1 .. Len(handled) : \A k \in 1 .. Len(w) : handled[h][1][1] < w[k][1]
       /\ DOMAIN lens = F!Commands(w) \cup torn \cup lost \cup Handled
  BY <1>10, RowIs
<1>12. v = w \o g
  <2>1. w = buf \o pipe /\ v = buf \o (pipe \o g)
    BY <1>4, <1>10 DEF Rest
  <2>2. buf \in Seq(Nat \X Nat) /\ pipe \in Seq(Nat \X Nat) /\ g \in Seq(Nat \X Nat)
    BY <1>1, <1>6
  <2>3. PICK y, z : y = buf /\ z = pipe
    OBVIOUS
  <2>4. y \in Seq(Nat \X Nat) /\ z \in Seq(Nat \X Nat)
    BY <2>2, <2>3
  <2>5. PICK U : U = Nat \X Nat
    OBVIOUS
  <2>6. y \in Seq(U) /\ z \in Seq(U) /\ g \in Seq(U)
    BY <2>2, <2>4, <2>5
  <2>7. (y \o z) \o g = y \o (z \o g)
    BY <2>6, JoinedTwice
  <2> QED BY <2>1, <2>3, <2>7
<1>13. /\ v \in Seq(Nat \X Nat) /\ Len(v) = Len(w) + Len(g)
       /\ \A k \in 1 .. Len(w) : v[k] = w[k]
       /\ \A k \in 1 .. Len(g) : v[Len(w) + k] = g[k]
  <2>1. w \in Seq(Nat \X Nat) /\ g \in Seq(Nat \X Nat)
    BY <1>6, <1>11
  <2> QED BY <1>12, <2>1, Joined
<1>14. PICK m : m = Len(w) /\ m \in Nat
  <2>1. Len(w) \in Nat
    BY <1>11
  <2> QED BY <2>1
<1>15. /\ Len(v) = m + len + 2
       /\ \A k \in 1 .. m : v[k] = w[k]
       /\ \A k \in 1 .. len + 2 : v[m + k] = <<n, k - 1>>
  <2>1. \A k \in 1 .. len + 2 : v[m + k] = <<n, k - 1>>
    BY <1>6, <1>13, <1>14
  <2>2. Len(v) = m + (len + 2)
    BY <1>6, <1>13, <1>14
  <2>3. Len(v) = m + len + 2
    BY <1>5, <1>14, <2>2
  <2> QED BY <1>13, <1>14, <2>1, <2>3
<1>16. ASSUME NEW k \in 1 .. Len(v)
       PROVE  k \in 1 .. m \/ \E x \in 1 .. len + 2 : k = m + x /\ x = k - m
  <2>1. k \in 1 .. m + len + 2
    BY <1>15
  <2>2. CASE k <= m
    BY <1>14, <2>1, <2>2
  <2>3. CASE ~(k <= m)
    <3>1. k - m \in 1 .. len + 2 /\ k = m + (k - m)
      BY <1>5, <1>14, <2>1, <2>3
    <3> QED BY <3>1
  <2> QED BY <2>2, <2>3
<1>17. \A u : IsUnit(u) => IsUnit(u)' /\ (F!Ends(u) <=> F!Ends(u)')
  BY <1>9 DEF IsUnit, F!Ends
<1>18. ASSUME NEW x \in 1 .. len + 2
       PROVE  /\ IsUnit(<<n, x - 1>>)'
              /\ F!Ends(<<n, x - 1>>)' <=> x = len + 2
  <2>1. PICK y : y = x - 1
    OBVIOUS
  <2>2. y \in Nat /\ y <= len + 1 /\ (y = len + 1 <=> x = len + 2)
    BY <1>5, <2>1
  <2>3. PICK u : u = <<n, y>>
    OBVIOUS
  <2>4. u[1] = n /\ u[2] = y /\ u \in Nat \X Nat
    BY <1>5, <2>2, <2>3
  <2>5. n \in DOMAIN lens'
    BY <1>5, <1>8
  <2>6. IsUnit(u)'
    BY <1>7, <2>2, <2>4, <2>5 DEF IsUnit
  <2>7. F!Ends(u)' <=> y = len + 1
    BY <1>7, <2>4 DEF F!Ends
  <2> QED BY <2>1, <2>2, <2>3, <2>6, <2>7
<1>19. ASSUME NEW k \in 1 .. Len(v) PROVE IsUnit(v[k])'
  <2>1. CASE k \in 1 .. m
    <3>1. IsUnit(w[k])
      BY <1>11, <1>14, <2>1 DEF Row
    <3>2. IsUnit(w[k])'
      BY <1>17, <3>1
    <3> QED BY <1>10, <1>15, <2>1, <3>2
  <2>2. CASE \E x \in 1 .. len + 2 : k = m + x /\ x = k - m
    BY <1>15, <1>18, <2>2
  <2> QED BY <1>16, <2>1, <2>2
<1>20. ASSUME NEW k \in 1 .. Len(v) - 1 PROVE Follows(v[k], v[k + 1])'
  <2>0. k \in 1 .. m + len + 1
    BY <1>5, <1>14, <1>15
  <2>1. CASE k < m
    <3>1. k \in 1 .. m - 1 /\ k \in 1 .. m /\ k + 1 \in 1 .. m
      BY <1>14, <2>0, <2>1
    <3>2. Follows(w[k], w[k + 1]) /\ IsUnit(w[k])
      BY <1>11, <1>14, <3>1 DEF Row
    <3>3. F!Ends(w[k]) <=> F!Ends(w[k])'
      BY <1>17, <3>2
    <3>4. v[k] = w[k] /\ v[k + 1] = w[k + 1]
      BY <1>15, <3>1
    <3>5. Follows(w[k], w[k + 1])'
      BY <3>2, <3>3 DEF Follows
    <3> QED BY <1>10, <3>4, <3>5
  <2>2. CASE k = m
    <3>1. m \in 1 .. m /\ m \in 1 .. Len(w) /\ 1 \in 1 .. len + 2 /\ w # <<>>
      <4>1. m \in 1 .. m /\ 1 \in 1 .. len + 2 /\ m # 0
        BY <1>5, <1>14, <2>0, <2>2
      <4>2. Len(w) # 0
        BY <1>14, <4>1
      <4> QED BY <1>14, <4>1, <4>2
    <3>2. v[m] = w[m] /\ v[m + 1] = <<n, 1 - 1>> /\ F!Ends(w[m])
      BY <1>11, <1>14, <1>15, <3>1
    <3>3. IsUnit(w[m])
      BY <1>11, <3>1 DEF Row
    <3>4. F!Ends(w[m])'
      BY <1>17, <3>2, <3>3
    <3>5. w[m][1] < n
      <4>1. w[m][1] \in DOMAIN lens
        BY <3>3 DEF IsUnit
      <4> QED BY <1>9, <4>1
    <3>6. v[m + 1][1] = n /\ v[m + 1][2] = 0
      BY <3>2
    <3>7. Follows(v[m], v[m + 1])'
      BY <3>2, <3>4, <3>5, <3>6 DEF Follows
    <3> QED BY <2>2, <3>7
  <2>3. CASE k > m
    <3>1. PICK x : x = k - m
      OBVIOUS
    <3>2. /\ x \in 1 .. len + 2 /\ x + 1 \in 1 .. len + 2 /\ x # len + 2
          /\ m + x = k /\ m + (x + 1) = k + 1 /\ (x + 1) - 1 = (x - 1) + 1
      BY <1>5, <1>14, <2>0, <2>3, <3>1
    <3>3. v[k] = <<n, x - 1>> /\ v[k + 1] = <<n, (x + 1) - 1>>
      BY <1>15, <3>2
    <3>4. ~F!Ends(v[k])'
      BY <1>10, <1>18, <3>2, <3>3
    <3>5. /\ v[k][1] = n /\ v[k][2] = x - 1
          /\ v[k + 1][1] = n /\ v[k + 1][2] = (x - 1) + 1
      BY <3>2, <3>3
    <3> QED BY <3>4, <3>5 DEF Follows
  <2> QED BY <1>14, <2>0, <2>1, <2>2, <2>3
<1>21. Row(v)'
  BY <1>19, <1>20 DEF Row
<1>22. F!Ends(v[Len(v)])'
  <2>1. len + 2 \in 1 .. len + 2 /\ m + (len + 2) = m + len + 2
    BY <1>5, <1>14
  <2>2. v[m + len + 2] = <<n, (len + 2) - 1>>
    BY <1>15, <2>1
  <2>3. F!Ends(<<n, (len + 2) - 1>>)'
    BY <1>18, <2>1
  <2> QED BY <1>15, <2>2, <2>3
<1>23. v[1][2] = 0 \/ v[1][1] \in torn' \cup lost'
  <2>1. CASE w = <<>>
    <3>1. m = 0
      BY <1>14, <2>1
    <3>2. 1 \in 1 .. len + 2 /\ m + 1 = 1 /\ 1 - 1 = 0
      BY <1>5, <3>1
    <3>3. v[1] = <<n, 0>>
      BY <1>15, <3>2
    <3> QED BY <3>3
  <2>2. CASE w # <<>>
    <3>1. 1 \in 1 .. m
      <4>1. Len(w) # 0
        BY <1>11, <2>2
      <4> QED BY <1>14, <4>1
    <3>2. v[1] = w[1]
      BY <1>15, <3>1
    <3> QED BY <1>4, <1>11, <2>2, <3>2
  <2> QED BY <2>1, <2>2
<1>24. FifoRow'
  BY <1>10, <1>21, <1>22, <1>23 DEF FifoRow
<1>25. handled \in Seq(Seq(Nat \X Nat)) /\ F!WholeCommands /\ F!InOrderOnce
  BY DEF FifoInv, FifoHandled
<1>26. F!WholeCommands'
  <2> SUFFICES ASSUME NEW h \in DOMAIN handled
               PROVE  \E y \in DOMAIN lens' : handled[h] = [k \in 1 .. lens'[y] |-> <<y, k>>]
    BY <1>4 DEF F!WholeCommands
  <2>1. PICK y \in DOMAIN lens : handled[h] = [k \in 1 .. lens[y] |-> <<y, k>>]
    BY <1>25 DEF F!WholeCommands
  <2>2. y \in DOMAIN lens' /\ lens'[y] = lens[y]
    BY <1>9
  <2> QED BY <2>1, <2>2
<1>27. FifoHandled'
  BY <1>4, <1>25, <1>26 DEF FifoHandled, F!InOrderOnce
<1>28. \A h \in 1 .. Len(handled) : handled[h][1][1] < n
  <2> SUFFICES ASSUME NEW h \in 1 .. Len(handled) PROVE handled[h][1][1] < n
    OBVIOUS
  <2>1. h \in DOMAIN handled
    BY <1>25
  <2>2. handled[h][1][1] \in Handled
    BY <2>1 DEF Handled
  <2>3. handled[h][1][1] \in DOMAIN lens
    BY <1>11, <2>2
  <2> QED BY <1>9, <2>3
<1>29. FifoBefore'
  <2> SUFFICES ASSUME NEW h \in 1 .. Len(handled), NEW k \in 1 .. Len(v)
               PROVE  handled[h][1][1] < v[k][1]
    BY <1>4, <1>10 DEF FifoBefore
  <2>1. CASE k \in 1 .. m
    <3>1. v[k] = w[k] /\ k \in 1 .. Len(w)
      BY <1>14, <1>15, <2>1
    <3> QED BY <1>11, <3>1
  <2>2. CASE \E x \in 1 .. len + 2 : k = m + x /\ x = k - m
    <3>1. v[k][1] = n
      BY <1>15, <2>2
    <3> QED BY <1>28, <3>1
  <2> QED BY <1>16, <2>1, <2>2
<1>30. F!NoneElseIsLost'
  <2>1. F!Commands(v) = F!Commands(w) \cup F!Commands(g)
    BY <1>6, <1>11, <1>12, CommandsJoined
  <2>2. F!Commands(g) = {n}
    <3>1. ASSUME NEW y \in F!Commands(g) PROVE y = n
      <4>1. PICK k \in 1 .. Len(g) : y = g[k][1]
        BY <1>6, CommandsAre
      <4>2. g[k] = <<n, k - 1>>
        BY <1>6
      <4> QED BY <4>1, <4>2
    <3>2. n \in F!Commands(g)
      <4>1. 1 \in 1 .. Len(g) /\ 1 \in 1 .. len + 2
        BY <1>5, <1>6
      <4>2. g[1][1] = n
        BY <1>6, <4>1
      <4>3. g[1][1] \in F!Commands(g)
        BY <1>6, <4>1, CommandsAre
      <4> QED BY <4>2, <4>3
    <3> QED BY <3>1, <3>2
  <2>3. DOMAIN lens' = DOMAIN lens \cup {n}
    BY <1>2, <1>3, <1>8
  <2>4. F!Commands(v) = F!Commands(buf') \cup F!Commands(pipe')
    <3>1. buf' \in Seq(Nat \X Nat) /\ pipe' \in Seq(Nat \X Nat) /\ v = buf' \o pipe'
      <4>1. pipe \o g \in Seq(Nat \X Nat)
        BY <1>1, <1>6
      <4> QED BY <1>1, <1>4, <1>10, <4>1 DEF Rest
    <3>2. F!Commands(buf' \o pipe') = F!Commands(buf') \cup F!Commands(pipe')
      BY <3>1, CommandsJoined
    <3> QED BY <3>1, <3>2
  <2>5. DOMAIN lens' = F!Commands(v) \cup torn \cup lost \cup Handled
    BY <1>11, <2>1, <2>2, <2>3
  <2>6. DOMAIN lens' = F!Commands(pipe') \cup F!Commands(buf') \cup torn' \cup lost' \cup Handled'
    <3>1. Handled' = Handled
      BY <1>4 DEF Handled
    <3> QED BY <1>4, <2>4, <2>5, <3>1
  <2> QED BY <2>6 DEF F!NoneElseIsLost, Handled, F!Commands, F!ToSet
<1>31. FifoTypes'
  <2>1. pipe' \in Seq(Nat \X Nat) /\ Len(pipe') = Len(pipe) + Len(g)
    <3>1. g \in Seq(Nat \X Nat)
      BY <1>6
    <3>2. pipe \o g \in Seq(Nat \X Nat) /\ Len(pipe \o g) = Len(pipe) + Len(g)
      BY <1>1, <3>1
    <3> QED BY <1>4, <3>2
  <2>2. Len(pipe') <= PipeSize
    <3>1. Len(pipe') = Len(pipe) + (len + 2)
      BY <1>6, <2>1
    <3> QED BY <1>2, <1>4, <1>5, <3>1
  <2>3. Len(lens') <= MaxSends
    BY <1>2, <1>3, <1>4, <1>7
  <2> QED BY <1>1, <1>4, <1>7, <2>1, <2>2, <2>3 DEF FifoTypes
<1>32. FifoPlain'
  <2>1. torn' \subseteq DOMAIN lens' /\ lost' \subseteq DOMAIN lens'
    BY <1>4, <1>9 DEF FifoInv, FifoPlain
  <2> QED BY <1>4, <2>1 DEF FifoInv, FifoPlain
<1> QED BY <1>24, <1>27, <1>29, <1>30, <1>31, <1>32 DEF FifoInv

\* The last process closes the pipe.
LEMMA FifoClosed ==
  ASSUME FifoInv, NEW c1 \in Clients, F!CloseFifo(c1)
  PROVE  FifoInv'
<1>1. /\ opened' = opened \ {c1} /\ F!Abandoned(reader, opened')
      /\ reader' = reader /\ buf' = buf /\ eintr' = eintr /\ lens' = lens /\ handled' = handled
      /\ torn' = torn /\ signals' = signals /\ crashes' = crashes
  BY DEF F!CloseFifo
<1>2. opened' \subseteq Clients
  BY <1>1 DEF FifoInv, FifoPlain
<1>3. CASE reader = "down" /\ opened' = {}
  <2>1. pipe' = <<>> /\ lost' = lost \cup F!Commands(pipe)
    BY <1>1, <1>3 DEF F!Abandoned
  <2>2. buf = <<>>
    BY <1>3 DEF FifoInv, FifoPlain
  <2>3. F!Commands(buf) = {} /\ F!Commands(pipe) \subseteq DOMAIN lens
    <3>1. \A x \in F!Commands(buf) : \E k \in 1 .. Len(buf) : x = buf[k][1]
      BY CommandsAre DEF FifoInv, FifoTypes
    <3>2. F!Commands(buf) = {}
      BY <2>2, <3>1
    <3>3. F!Commands(pipe) \subseteq DOMAIN lens
      BY DEF FifoInv, F!NoneElseIsLost
    <3> QED BY <3>2, <3>3
  <2>4. lost' \subseteq DOMAIN lens
    BY <2>1, <2>3 DEF FifoInv, FifoPlain
  <2>5. FifoPlain'
    BY <1>1, <1>2, <2>2, <2>4 DEF FifoInv, FifoPlain
  <2>6. lost' = lost \cup F!Commands(buf) \cup F!Commands(pipe)
    BY <2>1, <2>3
  <2> QED BY <1>1, <2>1, <2>2, <2>5, <2>6, FifoEmptied
<1>4. CASE ~(reader = "down" /\ opened' = {})
  <2>1. pipe' = pipe /\ lost' = lost
    BY <1>1, <1>4 DEF F!Abandoned
  <2>2. FifoPlain'
    BY <1>1, <1>2, <2>1 DEF FifoInv, FifoPlain
  <2> QED BY <1>1, <2>1, <2>2, FifoQuiet
<1> QED BY <1>3, <1>4

\* The reader's process ends.
LEMMA FifoCrash ==
  ASSUME FifoInv, F!Crash
  PROVE  FifoInv'
<1>1. /\ reader' = "down" /\ crashes < MaxCrashes /\ crashes' = crashes + 1 /\ buf' = <<>>
      /\ opened' = opened /\ eintr' = eintr /\ lens' = lens /\ handled' = handled
      /\ torn' = torn /\ signals' = signals
  BY DEF F!Crash
<1>2. F!Commands(buf) \subseteq DOMAIN lens /\ F!Commands(pipe) \subseteq DOMAIN lens
  BY DEF FifoInv, F!NoneElseIsLost
<1>3. crashes' \in 0 .. MaxCrashes
  <2>1. crashes \in 0 .. MaxCrashes
    BY DEF FifoInv, FifoPlain
  <2>2. MaxCrashes \in Nat
    BY UtilsBounds DEF F!FifoBounds
  <2> QED BY <1>1, <2>1, <2>2
<1>4. ASSUME lost' \subseteq DOMAIN lens PROVE FifoPlain'
  BY <1>1, <1>3, <1>4 DEF FifoInv, FifoPlain
<1>5. lost \subseteq DOMAIN lens
  BY DEF FifoInv, FifoPlain
<1>6. CASE opened = {}
  <2>1. pipe' = <<>> /\ lost' = lost \cup F!Commands(buf) \cup F!Commands(pipe)
    BY <1>6 DEF F!Crash
  <2>2. lost' \subseteq DOMAIN lens
    BY <1>2, <1>5, <2>1
  <2> QED BY <1>1, <1>4, <2>1, <2>2, FifoEmptied
<1>7. CASE opened # {}
  <2>1. pipe' = pipe /\ lost' = lost \cup F!Commands(buf)
    BY <1>7 DEF F!Crash
  <2>2. lost' \subseteq DOMAIN lens
    BY <1>2, <1>5, <2>1
  <2>3. F!Commands(buf) \subseteq torn' \cup lost' /\ torn \subseteq torn' /\ lost \subseteq lost'
    BY <1>1, <2>1
  <2>4. FifoPlain'
    BY <1>4, <2>2
  <2> QED BY <1>1, <2>1, <2>3, <2>4, FifoDropped
<1> QED BY <1>6, <1>7

\* The other steps leave the row as it is.
LEMMA FifoOther ==
  ASSUME FifoInv, \/ \E x \in Clients : F!Open(x)
                  \/ F!ReadInit \/ F!Interrupted \/ UNCHANGED F!vars
  PROVE  FifoInv'
<1>1. CASE \E x \in Clients : F!Open(x)
  <2>1. PICK x \in Clients : F!Open(x)
    BY <1>1
  <2>2. /\ opened' = opened \cup {x} /\ pipe' = pipe /\ reader' = reader /\ buf' = buf /\ eintr' = eintr
        /\ lens' = lens /\ handled' = handled /\ torn' = torn /\ lost' = lost
        /\ signals' = signals /\ crashes' = crashes
    BY <2>1 DEF F!Open, F!history
  <2>3. FifoPlain'
    BY <2>2 DEF FifoInv, FifoPlain
  <2> QED BY <2>2, <2>3, FifoQuiet
<1>2. CASE F!ReadInit
  <2>1. /\ reader = "down" /\ reader' = "read" /\ buf' = <<>> /\ eintr' = FALSE
        /\ pipe' = pipe /\ opened' = opened
        /\ lens' = lens /\ handled' = handled /\ torn' = torn /\ lost' = lost
        /\ signals' = signals /\ crashes' = crashes
    BY <1>2 DEF F!ReadInit, F!history
  <2>2. buf' = buf
    BY <2>1 DEF FifoInv, FifoPlain
  <2>3. FifoPlain'
    BY <2>1 DEF FifoInv, FifoPlain
  <2> QED BY <2>1, <2>2, <2>3, FifoQuiet
<1>3. CASE F!Interrupted
  <2>1. /\ signals < MaxSignals /\ signals' = signals + 1 /\ eintr' = TRUE
        /\ pipe' = pipe /\ opened' = opened /\ reader' = reader /\ buf' = buf
        /\ lens' = lens /\ handled' = handled /\ torn' = torn /\ lost' = lost
        /\ crashes' = crashes
    BY <1>3 DEF F!Interrupted, F!history
  <2>2. signals' \in 0 .. MaxSignals
    <3>1. signals \in 0 .. MaxSignals
      BY DEF FifoInv, FifoPlain
    <3>2. MaxSignals \in Nat
      BY UtilsBounds DEF F!FifoBounds
    <3> QED BY <2>1, <3>1, <3>2
  <2>3. FifoPlain'
    BY <2>1, <2>2 DEF FifoInv, FifoPlain
  <2> QED BY <2>1, <2>3, FifoQuiet
<1>4. CASE UNCHANGED F!vars
  <2>1. /\ pipe' = pipe /\ opened' = opened /\ reader' = reader /\ buf' = buf /\ eintr' = eintr
        /\ lens' = lens /\ handled' = handled /\ torn' = torn /\ lost' = lost
        /\ signals' = signals /\ crashes' = crashes
    BY <1>4 DEF F!vars, F!history
  <2>2. FifoPlain'
    BY <2>1 DEF FifoInv, FifoPlain
  <2> QED BY <2>1, <2>2, FifoQuiet
<1> QED BY <1>1, <1>2, <1>3, <1>4

\* An empty pipe.
LEMMA FifoInit ==
  ASSUME F!Init
  PROVE  FifoInv
<1>1. /\ pipe = <<>> /\ opened = {} /\ reader = "down" /\ buf = <<>> /\ eintr = FALSE
      /\ lens = <<>> /\ handled = <<>> /\ torn = {} /\ lost = {} /\ signals = 0 /\ crashes = 0
  BY DEF F!Init
<1>2. {BufSize, PipeSize, MaxSends, MaxSignals, MaxCrashes} \subseteq Nat
  BY UtilsBounds DEF F!FifoBounds
<1>3. FifoTypes
  <2>1. Len(lens) = 0 /\ Len(buf) = 0 /\ Len(pipe) = 0
    BY <1>1
  <2>2. 0 <= MaxSends /\ 0 <= BufSize /\ 0 <= PipeSize
    BY <1>2
  <2>3. lens \in Seq(1 .. BufSize - 2) /\ buf \in Seq(Nat \X Nat) /\ pipe \in Seq(Nat \X Nat)
    BY <1>1
  <2> QED BY <2>1, <2>2, <2>3 DEF FifoTypes
<1>4. FifoPlain
  <2>1. signals \in 0 .. MaxSignals /\ crashes \in 0 .. MaxCrashes
    BY <1>1, <1>2
  <2> QED BY <1>1, <2>1 DEF FifoPlain
<1>5. Rest = <<>>
  BY <1>1 DEF Rest
<1>6. FifoRow
  <2>1. Len(Rest) = 0
    BY <1>5
  <2>2. \A k \in 1 .. Len(Rest) : FALSE
    BY <2>1
  <2>3. \A k \in 1 .. Len(Rest) - 1 : FALSE
    BY <2>1
  <2> QED BY <1>5, <2>2, <2>3 DEF FifoRow, Row
<1>7. FifoHandled /\ FifoBefore
  <2>1. handled \in Seq(Seq(Nat \X Nat)) /\ DOMAIN handled = {} /\ Len(handled) = 0
    BY <1>1
  <2>2. \A h \in 1 .. Len(handled) : FALSE
    BY <2>1
  <2> QED BY <2>1, <2>2 DEF FifoHandled, FifoBefore, F!WholeCommands, F!InOrderOnce
<1>8. F!NoneElseIsLost
  <2>1. DOMAIN lens = {} /\ DOMAIN handled = {}
    BY <1>1
  <2>2. F!Commands(pipe) = {} /\ F!Commands(buf) = {}
    <3>1. <<>> \in Seq(Nat \X Nat) /\ \A k \in 1 .. Len(<<>>) : FALSE
      OBVIOUS
    <3>2. F!Commands(<<>>) = {}
      BY <3>1, CommandsAre
    <3> QED BY <1>1, <3>2
  <2> QED BY <1>1, <2>1, <2>2 DEF F!NoneElseIsLost
<1> QED BY <1>3, <1>4, <1>6, <1>7, <1>8 DEF FifoInv

\* Every step keeps it.
LEMMA FifoStep ==
  ASSUME FifoInv, [F!Next]_F!vars
  PROVE  FifoInv'
<1>1. ASSUME NEW x \in Clients, F!CloseFifo(x) PROVE FifoInv'
  BY <1>1, FifoClosed
<1>2. ASSUME NEW x \in Clients, NEW len \in 1 .. BufSize - 2, F!Send(x, len) PROVE FifoInv'
  BY <1>2, FifoSend
<1>3. ASSUME NEW i \in DOMAIN buf, NEW j \in DOMAIN buf, F!Handle(i, j) PROVE FifoInv'
  <2>1. buf \in Seq(Nat \X Nat)
    BY DEF FifoInv, FifoTypes
  <2>2. i \in 1 .. Len(buf) /\ j \in 1 .. Len(buf) /\ Len(buf) \in Nat
    <3>1. DOMAIN buf = 1 .. Len(buf) /\ Len(buf) \in Nat
      BY <2>1
    <3> QED BY <3>1
  <2>3. j > i
    BY <1>3 DEF F!Handle, F!Found
  <2>4. i \in Nat /\ j \in Nat /\ i >= 1 /\ i < j /\ j <= Len(buf)
    BY <2>2, <2>3
  <2> QED BY <1>3, <2>4, FifoHandle
<1>4. \/ \E x \in Clients : F!Open(x)
      \/ \E x \in Clients : F!CloseFifo(x)
      \/ \E x \in Clients : \E len \in 1 .. BufSize - 2 : F!Send(x, len)
      \/ F!ReadInit \/ F!Crash \/ F!Interrupted \/ F!Read
      \/ \E i, j \in DOMAIN buf : F!Handle(i, j)
      \/ F!ReadAgain \/ UNCHANGED F!vars
  BY DEF F!Next, F!Parse
<1> QED BY <1>1, <1>2, <1>3, <1>4, FifoCrash, FifoOther, FifoRead, FifoReadAgain

\* What it says of the runs of the reader.
LEMMA FifoImplies ==
  ASSUME FifoInv
  PROVE  FifoKeepsCommands
BY DEF FifoInv, FifoHandled, FifoKeepsCommands

-----------------------------------------------------------------------------
(* The types of all parts.                                                  *)

\* A chain of nodes that no walk has left.
LEMMA ListTyped ==
  ASSUME ~WalkEmpty, ListInv
  PROVE  L!TypeOK
<1>1. ListTypes
  BY DEF ListInv
<1>2. {next[nd] : nd \in Nodes} \cup {prev[nd] : nd \in Nodes} \subseteq Nodes \cup {NULL}
  BY <1>1 DEF ListTypes
<1>3. \A nd \in Nodes : data[nd] \in Data
  BY <1>1 DEF ListTypes
<1>4. nodes = L!Cardinality(used)
  BY <1>1 DEF ListTypes, L!Cardinality, Cardinality
<1> QED BY <1>1, <1>2, <1>3, <1>4 DEF ListTypes, L!TypeOK

\* The block of autom.
LEMMA BlockTyped ==
  ASSUME BlockInv
  PROVE  A!TypeOK
  BY DEF BlockInv, BlockSizes, BlockBytes, A!TypeOK

\* The length of a command.
LEMMA LensIs ==
  ASSUME FifoTypes
  PROVE  /\ DOMAIN lens = 1 .. Len(lens) /\ Len(lens) \in Nat /\ Len(lens) <= MaxSends
         /\ \A i \in 1 .. Len(lens) : lens[i] \in 1 .. BufSize - 2
<1>1. PICK T : T = 1 .. BufSize - 2
  OBVIOUS
<1>2. lens \in Seq(T) /\ Len(lens) <= MaxSends
  BY <1>1 DEF FifoTypes
<1>3. DOMAIN lens = 1 .. Len(lens) /\ Len(lens) \in Nat /\ \A i \in 1 .. Len(lens) : lens[i] \in T
  BY <1>2
<1> QED BY <1>1, <1>2, <1>3

\* A unit of a command.
LEMMA UnitTyped ==
  ASSUME F!FifoBounds, FifoTypes, NEW u, IsUnit(u)
  PROVE  u \in F!Units
<1>1. PICK i, k : i = u[1] /\ k = u[2]
  OBVIOUS
<1>2. /\ i \in Nat /\ k \in Nat /\ u = <<i, k>> /\ i \in 1 .. Len(lens)
      /\ k <= lens[i] + 1
  BY <1>1, UnitIs
<1>3. lens \in Seq(1 .. BufSize - 2) /\ Len(lens) <= MaxSends
  BY DEF FifoTypes
<1>4. lens[i] \in 1 .. BufSize - 2
  BY <1>2, <1>3, LensIs
<1>5. i \in 1 .. MaxSends /\ k \in 0 .. BufSize
  BY <1>2, <1>3, <1>4 DEF F!FifoBounds
<1> QED BY <1>2, <1>5 DEF F!Units

\* A sequence whose elements are such.
LEMMA SeqOf ==
  ASSUME NEW T, NEW U, NEW s \in Seq(T), \A k \in 1 .. Len(s) : s[k] \in U
  PROVE  s \in Seq(U)
<1>1. PICK n : n = Len(s)
  OBVIOUS
<1>2. n \in Nat /\ s = [k \in 1 .. n |-> s[k]] /\ \A k \in 1 .. n : s[k] \in U
  BY <1>1
<1>3. s \in [1 .. n -> U]
  BY <1>2
<1> QED BY <1>2, <1>3

\* The pipe, the buffer and what was handled.
LEMMA FifoTyped ==
  ASSUME F!FifoBounds, FifoInv
  PROVE  F!TypeOK
<1>1. FifoTypes /\ FifoPlain /\ Row(Rest) /\ F!WholeCommands /\ handled \in Seq(Seq(Nat \X Nat))
  BY DEF FifoInv, FifoRow, FifoHandled
<1>2. PICK P : P = Nat \X Nat
  OBVIOUS
<1>3. buf \in Seq(P) /\ pipe \in Seq(P) /\ Len(buf) \in Nat /\ Len(pipe) \in Nat
  BY <1>1, <1>2 DEF FifoTypes
<1>4. /\ Len(Rest) = Len(buf) + Len(pipe) /\ \A k \in 1 .. Len(buf) : Rest[k] = buf[k]
      /\ \A k \in 1 .. Len(pipe) : Rest[Len(buf) + k] = pipe[k]
  BY <1>3, Joined DEF Rest
<1>5. \A k \in 1 .. Len(Rest) : Rest[k] \in F!Units
  BY <1>1, UnitTyped DEF Row
<1>6. buf \in Seq(F!Units)
  <2>1. ASSUME NEW k \in 1 .. Len(buf) PROVE buf[k] \in F!Units
    <3>1. k \in 1 .. Len(Rest)
      BY <1>3, <1>4
    <3> QED BY <1>4, <1>5, <3>1
  <2> QED BY <1>3, <2>1, SeqOf
<1>7. pipe \in Seq(F!Units)
  <2>1. ASSUME NEW k \in 1 .. Len(pipe) PROVE pipe[k] \in F!Units
    <3>1. Len(buf) + k \in 1 .. Len(Rest)
      BY <1>3, <1>4
    <3> QED BY <1>4, <1>5, <3>1
  <2> QED BY <1>3, <2>1, SeqOf
<1>8. handled \in Seq(Seq(F!Units))
  <2>1. ASSUME NEW h \in 1 .. Len(handled) PROVE handled[h] \in Seq(F!Units)
    <3>1. PICK n \in DOMAIN lens : handled[h] = [k \in 1 .. lens[n] |-> <<n, k>>]
      <4>1. h \in DOMAIN handled
        BY <1>1
      <4> QED BY <1>1, <4>1 DEF F!WholeCommands
    <3>2. n \in 1 .. MaxSends /\ lens[n] \in 1 .. BufSize - 2
      <4>1. n \in 1 .. Len(lens) /\ Len(lens) \in Nat /\ Len(lens) <= MaxSends
        BY <1>1, <3>1, LensIs
      <4>2. MaxSends \in Nat
        BY DEF F!FifoBounds
      <4>3. lens[n] \in 1 .. BufSize - 2
        BY <1>1, <4>1, LensIs
      <4> QED BY <4>1, <4>2, <4>3
    <3>3. PICK l : l = lens[n]
      OBVIOUS
    <3>4. l \in Nat /\ l <= BufSize
      BY <3>2, <3>3 DEF F!FifoBounds
    <3>5. \A k \in 1 .. l : <<n, k>> \in F!Units
      BY <3>2, <3>4 DEF F!Units, F!FifoBounds
    <3>6. [k \in 1 .. l |-> <<n, k>>] \in [1 .. l -> F!Units]
      BY <3>5
    <3>7. [k \in 1 .. l |-> <<n, k>>] \in Seq(F!Units)
      BY <3>4, <3>6
    <3> QED BY <3>1, <3>3, <3>7
  <2>2. PICK T : T = Seq(P)
    OBVIOUS
  <2>3. handled \in Seq(T)
    BY <1>1, <1>2, <2>2
  <2> QED BY <2>1, <2>3, SeqOf
<1> QED BY <1>1, <1>6, <1>7, <1>8 DEF FifoTypes, FifoPlain, F!TypeOK

\* Each part.
LEMMA PartsTyped ==
  ASSUME ~WalkEmpty, CtrlInv, RingInv, ListInv, QueueInv, VoiceInv, BlockInv, FifoInv, SoundInv,
         CodeInv
  PROVE  TypesOK
<1>1. TypeOK /\ V!TypeOK
  BY DEF CtrlInv, VoiceInv
<1>2. R!TypeOK /\ Q!TypeOK /\ S!TypeOK /\ B!TypeOK
  BY UtilsBounds, RingImplies, QueueImplies, SoundImplies, CodeImplies
<1>3. L!TypeOK /\ A!TypeOK /\ F!TypeOK
  BY UtilsBounds, ListTyped, BlockTyped, FifoTyped
<1> QED BY <1>1, <1>2, <1>3 DEF TypesOK

-----------------------------------------------------------------------------
(* The parts together.                                                     *)

\* The rings and the growing block.
THEOREM BytesInvariant == UtilsSpec => [](RingInv /\ BlockInv)
<1>1. UtilsInit => RingInv /\ BlockInv
  BY UtilsBounds, UtilsStarts, RingInit, BlockInit
<1>2. RingInv /\ [UtilsNext]_all => RingInv'
  BY UtilsBounds, UtilsSteps, RingStep
<1>3. BlockInv /\ [UtilsNext]_all => BlockInv'
  BY UtilsBounds, UtilsSteps, BlockStep
<1> QED BY <1>1, <1>2, <1>3, UtilsRuns, PTL

\* Whatever the capacity, and whatever is asked for, synced and cleared in whatever
\* order: until a clear comes between a query and its sync, what a reader of ccsrb was
\* granted is the stream until it lets go of it, and of csrb, too, if the sizes fit and
\* are kept to; no place leaves the ring but after such a clear, a query before a sync
\* or a sync of fewer bytes; and a reader of autom sees its bytes in their order and
\* within its block, but for what a breset cut off and what a write overwrote.
THEOREM BytesKeepTheirOrder == UtilsSpec => []BytesKeepOrder
<1>1. RingInv /\ BlockInv => BytesKeepOrder
  BY UtilsBounds, RingImplies, BlockImplies DEF BytesKeepOrder
<1> QED BY <1>1, BytesInvariant, PTL

\* The row of commands in the pipe of user_fifo.
THEOREM FifoInvariant == UtilsSpec => []FifoInv
<1>1. UtilsInit => FifoInv
  BY UtilsStarts, FifoInit
<1>2. FifoInv /\ [UtilsNext]_all => FifoInv'
  BY UtilsSteps, FifoStep DEF fifo, F!vars, F!history
<1> QED BY <1>1, <1>2, UtilsRuns, PTL

\* Whatever the sizes of pipe and buffer, however the writers' commands, the reads and
\* the restarts of the reader fall: a handler of user_fifo gets whole commands, in the
\* order in which they were written, each at most once, and none is lost but with the
\* reader or the pipe or where the end of the buffer cut it.
THEOREM CommandsAreKept == UtilsSpec => []FifoKeepsCommands
<1>1. FifoInv => FifoKeepsCommands
  BY FifoImplies
<1> QED BY <1>1, FifoInvariant, PTL

\* The state of every part has its type, whatever the constants; a list that is walked
\* while it is empty, which its callers do not do, looks at a node that was freed.
THEOREM UtilsTypeCorrect == ASSUME ~WalkEmpty PROVE UtilsSpec => []TypesOK
<1>1. CtrlInv /\ (RingInv /\ BlockInv) /\ ListInv /\ QueueInv /\ VoiceInv /\ FifoInv /\ SoundInv
        /\ CodeInv => TypesOK
  BY PartsTyped
<1> QED BY <1>1, CtrlInvariant, BytesInvariant, ListInvariant, QueueInvariant, VoiceInvariant,
           FifoInvariant, SoundInvariant, CodeInvariant, PTL
=============================================================================
