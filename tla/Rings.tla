-------------------------------- MODULE Rings --------------------------------
(***************************************************************************)
(* The ring buffers of lzUtils.  A writer asks for room, fills the address *)
(* it gets and says so (write_sync), a reader asks for bytes, looks at     *)
(* them and lets go of them (read_sync).  csrb has the memory twice, so    *)
(* that a chunk that crosses the end is still contiguous: whatever is      *)
(* written at the head must be mirrored behind the end, and the other way  *)
(* round.  ccsrb hands out a chunk of its own for those that reach the end *)
(* and copies it in or out.  Bytes are labelled with their place in the    *)
(* stream, modulo Period.                                                  *)
(*                                                                         *)
(* Nothing ties a sync to the query before it: either side may sync fewer  *)
(* bytes than it asked for, ask again before it synced, or clear the ring  *)
(* in between.  odd remembers that, and wild that a place left the ring:   *)
(* what the code does from there on is undefined.                          *)
(***************************************************************************)
EXTENDS Integers

CONSTANTS Kinds,      \* of "csrb" and "ccsrb", those that are used
          Cap,        \* capacity, cBytes
          Width,      \* a size_t is modulo this
          Period,     \* the labels repeat after so many bytes
          MaxOdd      \* bound on the calls from an odd one to the next clean clear

\* What the constants may be.
RingBounds == /\ Kinds \subseteq {"csrb", "ccsrb"}
              /\ Cap \in Nat \ {0} /\ Period \in Nat /\ Period >= 2 * Cap
              /\ Width \in Nat /\ Width > Cap /\ MaxOdd \in Nat

Sizes == 1 .. Cap
Cells == 0 .. 2 * Cap - 1
Label == 0 .. Period - 1
Blank == Period                 \* a cell that was never written
NoChunk == [i \in {} |-> Blank] \* no chunk of its own

VARIABLES kind,
          wsize, rsize,         \* what csrb's callers ask for; ccsrb's ask for any size
          mem,                  \* head, mm
          wi, ri, contex,       \* empty is Cap - contex
          asked, reading,       \* what was granted last and not synced, or 0
          wcm, rcm,             \* the chunks of ccsrb
          in, out,              \* bytes written and read so far, modulo Period
          odd,                  \* history: "clear" or "query" between query and sync,
                                \* "write" or "read" synced with less than was asked
          odds,                 \* and the calls since then
          wild                  \* history: a place is not in the ring

writer == <<wi, asked, wcm, in>>
reader == <<ri, reading, rcm, out>>
vars == <<kind, wsize, rsize, mem, contex, writer, reader, odd, odds, wild>>

Byte(first, i) == (first + i) % Period
If(condition, name) == IF condition THEN {name} ELSE {}
Empty == (Cap - contex + Width) % Width

\* Who gets a chunk of its own.
Apart(i, n) == kind = "ccsrb" /\ i + n >= Cap

\* csrb_write_query, ccsrb_write_query, and what the writer puts there.
WriteQuery(n) ==
    /\ n <= Empty
    /\ asked' = n /\ odd' = odd \cup If(asked > 0, "query")
    /\ IF Apart(wi, n)
       THEN wcm' = [i \in 0 .. n - 1 |-> Byte(in, i)] /\ UNCHANGED mem
       ELSE /\ mem' = [c \in Cells |-> IF c \in wi .. wi + n - 1 THEN Byte(in, c - wi) ELSE mem[c]]
            /\ UNCHANGED wcm
    /\ UNCHANGED <<kind, wsize, rsize, wi, contex, in, reader, wild>>

\* csrb_write_sync: the loops that mirror go up to size and to the room left,
\* not to wi plus those; what went over the end is copied to the head.
\* Mutant: the bytes that went over the end stay behind it.
CsrbSynced_NoWrap(n) ==
    [c \in Cells |->
       IF c >= Cap /\ c - Cap \in wi .. (IF wi + n < Cap THEN n ELSE Cap - wi) - 1
       THEN mem[c - Cap] ELSE mem[c]]

CsrbSynced(n) ==
    LET mirrored == [c \in Cells |->
          IF c >= Cap /\ c - Cap \in wi .. (IF wi + n < Cap THEN n ELSE Cap - wi) - 1
          THEN mem[c - Cap] ELSE mem[c]]
    IN  [c \in Cells |-> IF c < n - (Cap - wi) THEN mirrored[c + Cap] ELSE mirrored[c]]

\* ccsrb_write_sync: the chunk goes to the end and what is left of it to the head.
CcsrbSynced(n) ==
    [c \in Cells |-> IF wcm = NoChunk THEN mem[c]
                     ELSE IF c \in wi .. Cap - 1 THEN wcm[c - wi]
                     ELSE IF c < n - (Cap - wi) THEN wcm[c + (Cap - wi)] ELSE mem[c]]

After(i, n) == IF i + n < Cap THEN i + n ELSE n - (Cap - i)

\* With a chunk, size - (cBytes - i) is taken for what goes over the end.
Leaves(chunk, i, n) == chunk # NoChunk /\ n < Cap - i

\* Mutant: the chunk is not given back.
WriteSync_KeepsChunk(n) ==
    /\ asked > 0 /\ n <= asked
    /\ asked' = 0 /\ odd' = odd \cup If(n < asked, "write")
    /\ IF Leaves(wcm, wi, n) THEN wild' = TRUE /\ UNCHANGED <<mem, wi, contex, in>>
       ELSE /\ mem' = IF kind = "csrb" THEN CsrbSynced(n) ELSE CcsrbSynced(n)
            /\ wi' = After(wi, n)
            /\ contex' = (contex + n) % Width /\ in' = (in + n) % Period
            /\ UNCHANGED wild
    /\ UNCHANGED <<kind, wsize, rsize, wcm, reader>>

WriteSync(n) ==
    /\ asked > 0 /\ n <= asked
    /\ asked' = 0 /\ wcm' = NoChunk /\ odd' = odd \cup If(n < asked, "write")
    /\ IF Leaves(wcm, wi, n) THEN wild' = TRUE /\ UNCHANGED <<mem, wi, contex, in>>
       ELSE /\ mem' = IF kind = "csrb" THEN CsrbSynced(n) ELSE CcsrbSynced(n)
            /\ wi' = After(wi, n)
            /\ contex' = (contex + n) % Width /\ in' = (in + n) % Period
            /\ UNCHANGED wild
    /\ UNCHANGED <<kind, wsize, rsize, reader>>

\* csrb_read_query, ccsrb_read_query.
ReadQuery(n) ==
    /\ n <= contex
    /\ reading' = n /\ odd' = odd \cup If(reading > 0, "query")
    /\ rcm' = IF Apart(ri, n) THEN [i \in 0 .. n - 1 |-> mem[(ri + i) % Cap]] ELSE rcm
    /\ UNCHANGED <<kind, wsize, rsize, mem, contex, writer, ri, out, wild>>

ReadSync(n) ==
    /\ reading > 0 /\ n <= reading
    /\ reading' = 0 /\ rcm' = NoChunk /\ odd' = odd \cup If(n < reading, "read")
    /\ IF Leaves(rcm, ri, n) THEN wild' = TRUE /\ UNCHANGED <<ri, contex, out>>
       ELSE /\ ri' = After(ri, n)
            /\ contex' = (contex - n + Width) % Width /\ out' = (out + n) % Period
            /\ UNCHANGED wild
    /\ UNCHANGED <<kind, wsize, rsize, mem, writer>>

\* csrb_clear, ccsrb_clear: a ring of which nothing is granted is as a new one.
\* Mutant: the reader stays where it is.
Clear_KeepsRi ==
    /\ wi' = 0 /\ contex' = 0 /\ out' = in
    /\ odd' = IF asked = 0 /\ reading = 0 THEN {} ELSE odd \cup {"clear"}
    /\ UNCHANGED <<kind, wsize, rsize, mem, asked, wcm, in, ri, reading, rcm, wild>>
Clear ==
    /\ wi' = 0 /\ ri' = 0 /\ contex' = 0 /\ out' = in
    /\ odd' = IF asked = 0 /\ reading = 0 THEN {} ELSE odd \cup {"clear"}
    /\ UNCHANGED <<kind, wsize, rsize, mem, asked, wcm, in, reading, rcm, wild>>

Init == /\ kind \in Kinds /\ wsize \in Sizes /\ rsize \in Sizes
        /\ kind = "ccsrb" => wsize = Cap /\ rsize = Cap
        /\ mem = [c \in Cells |-> Blank] /\ wi = 0 /\ ri = 0 /\ contex = 0
        /\ asked = 0 /\ reading = 0 /\ wcm = NoChunk /\ rcm = NoChunk /\ in = 0 /\ out = 0
        /\ odd = {} /\ odds = 0 /\ wild = FALSE

Asks(n, size) == IF kind = "csrb" THEN n = size ELSE n <= size
Next == /\ ~wild
        /\ \/ \E n \in Sizes : Asks(n, wsize) /\ WriteQuery(n)
           \/ \E n \in Sizes : Asks(n, rsize) /\ ReadQuery(n)
           \/ \E n \in 0 .. Cap : WriteSync(n) \/ ReadSync(n)
           \/ Clear
        /\ odds' = (IF odd' = {} THEN 0 ELSE odds + 1) /\ odds' <= MaxOdd

Spec == Init /\ [][Next]_vars
-----------------------------------------------------------------------------
\* How the places and counts go together, unless a clear came between a query and
\* its sync: contex may then even be less than 0.
Counts == /\ contex <= Cap /\ (ri + contex) % Cap = wi
          /\ asked <= Cap - contex /\ reading <= contex
          /\ (out + contex) % Period = in

TypeOK == /\ kind \in Kinds /\ {wsize, rsize} \subseteq Sizes
          /\ mem \in [Cells -> Label \cup {Blank}]
          /\ wi \in 0 .. Cap - 1 /\ ri \in 0 .. Cap - 1 /\ contex \in 0 .. Width - 1
          /\ {asked, reading} \subseteq 0 .. Cap /\ {in, out} \subseteq Label
          /\ odd \subseteq {"clear", "query", "write", "read"}
          /\ odds \in 0 .. MaxOdd /\ wild \in BOOLEAN
          /\ "clear" \in odd \/ Counts

\* csrb: the sizes that work.  Reads that divide the capacity never cross the end;
\* otherwise what is mirrored, the first chunk, must be enough for a read that
\* starts as late as it can.
Gcd(a, b) == CHOOSE d \in 1 .. a : /\ a % d = 0 /\ b % d = 0
                                   /\ \A e \in d + 1 .. a : ~(a % e = 0 /\ b % e = 0)
Fit(w, r) == Cap % r = 0 \/ (Cap % w = 0 /\ r - Gcd(r, Cap) <= w)

\* csrb: what keeps to its sizes.
Whole == Fit(wsize, rsize) /\ "read" \notin odd /\ (Cap % rsize = 0 \/ "write" \notin odd)

\* What a reader was granted is the stream, without a gap or a repetition, and
\* stays so until it lets go of it, whatever the writer does meanwhile; unless a
\* clear came between a query and its sync, or csrb's sizes do not fit.
GrantedIsStream ==
    "clear" \notin odd /\ (kind = "csrb" => Whole) =>
       \A i \in 0 .. reading - 1 :
          (IF Apart(ri, reading) THEN rcm[i] ELSE mem[ri + i]) = Byte(out, i)

\* No place leaves the ring but by a clear or a query that came before a sync, or
\* by a sync of fewer bytes than were asked for.
StaysInTheRing == wild => odd # {}
=============================================================================
