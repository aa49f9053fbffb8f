----------------------------- MODULE Base64Tool -----------------------------
(***************************************************************************)
(* Base64Tool: FileEncode writes a file as lines, each the code of the     *)
(* next mEniBytes bytes, padded by itself, and FileDecode of another       *)
(* Base64Tool reads the lines into a buffer of its own size.  A byte is a  *)
(* number below 256, a character of the code a number below 64 (its place  *)
(* in base64Char) or PAD.                                                  *)
(***************************************************************************)
EXTENDS Integers, SequencesExt

CONSTANTS Bytes,     \* the bytes that files are made of
          MaxFile,   \* bound on the length of a file
          MaxBlock   \* bound on eniBytes

Base64Bounds == Bytes \subseteq 0 .. 255 /\ {MaxFile, MaxBlock} \subseteq Nat \ {0}

VARIABLES file,            \* what FileEncode reads
          eniBytes,        \* of the tool that encodes
          dniBytes,        \* and of the tool that decodes
          pos,             \* how far FileEncode is
          lines,           \* what it wrote
          line,            \* the line that FileDecode reads next
          output,          \* what that wrote
          phase            \* "encode", "decode" or "done"
vars == <<file, eniBytes, dniBytes, pos, lines, line, output, phase>>

PAD == 64

\* Mutant: the last, incomplete group is not counted.
GetEnSafeOutBytes_Down(n) == (n \div 3) * 4
GetEnSafeOutBytes(n) == IF n % 3 = 0 THEN (n \div 3) * 4 ELSE (n \div 3 + 1) * 4
GetDeSafeOutBytes(n) == (n * 3) \div 4

\* The buffers, one for the code with its newline and one for what it decodes to.
EnoBytes(n) == GetEnSafeOutBytes(n) + 1
DeoBytes(n) == GetDeSafeOutBytes(EnoBytes(n))

\* DataEncode of one group of at most three bytes, with nothing after the last.
At(b, i) == IF i <= Len(b) THEN b[i] ELSE 0

\* Mutant: the two high bits of the third byte are taken from the second.
Group_Mixed(b) ==
  <<At(b, 1) \div 4, (At(b, 1) % 4) * 16 + (At(b, 2) \div 16),
    IF Len(b) = 1 THEN PAD ELSE (At(b, 2) % 16) * 4 + (At(b, 2) \div 64),
    IF Len(b) < 3 THEN PAD ELSE At(b, 3) % 64>>
Group(b) ==
  <<At(b, 1) \div 4, (At(b, 1) % 4) * 16 + (At(b, 2) \div 16),
    IF Len(b) = 1 THEN PAD ELSE (At(b, 2) % 16) * 4 + (At(b, 3) \div 64),
    IF Len(b) < 3 THEN PAD ELSE At(b, 3) % 64>>

Least(i, j) == IF i < j THEN i ELSE j

DataEncode(bin) ==
  [k \in 1 .. 4 * ((Len(bin) + 2) \div 3) |->
     LET g == (k + 3) \div 4
     IN Group(SubSeq(bin, 3 * g - 2, Least(3 * g, Len(bin))))[k - 4 * (g - 1)]]

\* DataDecode of one group of four, whether or not it ends within the group.
Ungroup(t) == <<((t[1] * 4) % 256) + (t[2] \div 16), (t[2] % 16) * 16 + (t[3] \div 4),
                (t[3] % 4) * 64 + t[4]>>

\* It ends at the first "=", if there is one: so many characters are before it.
Plain(code) == LET pads == {k \in 1 .. Len(code) : code[k] = PAD}
               IN IF pads = {} THEN Len(code) ELSE Min(pads) - 1

DataDecode(code) ==
  [k \in 1 .. (Plain(code) * 3) \div 4 |->
     LET g == (k + 2) \div 3 IN Ungroup(SubSeq(code, 4 * g - 3, 4 * g))[k - 3 * (g - 1)]]

-----------------------------------------------------------------------------
Init == /\ file \in UNION {[1 .. n -> Bytes] : n \in 0 .. MaxFile}
        /\ eniBytes \in 1 .. MaxBlock /\ dniBytes \in 1 .. MaxBlock
        /\ pos = 0 /\ lines = <<>> /\ line = 1 /\ output = <<>> /\ phase = "encode"

\* One read of FileEncode, which ends with the first that is short: after a file
\* that fills its last block that one is empty, and so is its line.
EncodeLine ==
  /\ phase = "encode"
  /\ LET n == Least(eniBytes, Len(file) - pos)
     IN /\ lines' = Append(lines, DataEncode(SubSeq(file, pos + 1, pos + n)))
        /\ pos' = pos + n
        /\ phase' = IF n < eniBytes THEN "decode" ELSE "encode"
  /\ UNCHANGED <<file, eniBytes, dniBytes, line, output>>

\* getline into a buffer of mDeiBytes = mEnoBytes, which holds a final zero too.
Fits(code) == Len(code) <= EnoBytes(dniBytes) - 1

\* One line of FileDecode.  It ends at an empty one, and, without a word, after a
\* line that does not fit, of which it decodes what the buffer holds.
\* Mutant: after a line that did not fit it takes the next one.
DecodeLine_GoesOn ==
  /\ phase = "decode"
  /\ IF line > Len(lines) THEN phase' = "done" /\ UNCHANGED <<line, output>>
     ELSE LET code == lines[line]
          IN /\ output' = output \o DataDecode(SubSeq(code, 1, Least(Len(code), EnoBytes(dniBytes) - 1)))
             /\ line' = line + 1 /\ UNCHANGED phase
  /\ UNCHANGED <<file, eniBytes, dniBytes, pos, lines>>
DecodeLine ==
  /\ phase = "decode"
  /\ IF line > Len(lines) THEN phase' = "done" /\ UNCHANGED <<line, output>>
     ELSE LET code == lines[line]
              held == SubSeq(code, 1, Least(Len(code), EnoBytes(dniBytes) - 1))
          IN /\ output' = output \o DataDecode(held)
             /\ line' = line + 1
             /\ phase' = IF code = <<>> \/ ~Fits(code) THEN "done" ELSE phase
  /\ UNCHANGED <<file, eniBytes, dniBytes, pos, lines>>

Next == EncodeLine \/ DecodeLine

Spec == Init /\ [][Next]_vars

-----------------------------------------------------------------------------
TypeOK ==
  /\ file \in Seq(Bytes) /\ output \in Seq(0 .. 255)
  /\ {eniBytes, dniBytes} \subseteq 1 .. MaxBlock
  /\ pos \in 0 .. Len(file) /\ lines \in Seq(Seq(0 .. 64)) /\ line \in 1 .. Len(lines) + 1
  /\ phase \in {"encode", "decode", "done"}

\* A file comes back as it was, whatever its length and the block it was encoded
\* in, when the lines fit the decoder's buffer.
RoundTrip == phase = "done" /\ EnoBytes(eniBytes) <= EnoBytes(dniBytes) => output = file

\* When they do not fit, what comes back is the beginning of the file and nothing
\* made up.
DecodesABeginning == IsPrefix(output, file)

\* The code of a block with its newline fits mEnoBuf, and what a line decodes to
\* fits mDeoBuf.
BuffersHold ==
  \A l \in DOMAIN lines :
    /\ Len(lines[l]) + 1 <= EnoBytes(eniBytes)
    /\ Fits(lines[l]) => Len(DataDecode(lines[l])) <= DeoBytes(dniBytes)
=============================================================================
