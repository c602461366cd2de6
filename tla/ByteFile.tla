------------------------------ MODULE ByteFile ------------------------------
(***************************************************************************)
(* What a program may expect of one file on a disk that works, while it    *)
(* has the file open once: a sequence of bytes and a position in it.       *)
(***************************************************************************)
EXTENDS Integers, Sequences

CONSTANTS Byte, MaxLength

VARIABLES
  bytes,   \* the file's contents
  pos,     \* the position of the open file; -1 when it is closed
  result   \* the last call: <<what it returned, bytes it read>>

absvars == <<bytes, pos, result>>

Smaller(a, b) == IF a <= b THEN a ELSE b
AgreeOn(s, t, I) == \A i \in I : s[i] = t[i]
Strings(n) == [1 .. n -> Byte]

Init == /\ bytes \in UNION {Strings(n) : n \in 0 .. MaxLength}
        /\ pos = -1
        /\ result = <<0, <<>>>>

Open  == pos = -1 /\ pos' = 0 /\ UNCHANGED <<bytes, result>>
Close == pos # -1 /\ pos' = -1 /\ UNCHANGED <<bytes, result>>

\* The bytes from the position on, as many as asked for and there are.
Read(n) ==
  /\ pos # -1
  /\ LET got == SubSeq(bytes, pos + 1, Smaller(pos + n, Len(bytes)))
     IN result' = <<Len(got), got>> /\ pos' = pos + Len(got)
  /\ UNCHANGED bytes

\* All of s is stored and the file grows as needed; a gap that a truncation
\* left before the position gets bytes of no particular value.
Write(s) ==
  /\ pos # -1
  /\ \E t \in UNION {Strings(n) : n \in {Len(bytes), pos + Len(s)}} :
       /\ Len(t) >= Len(bytes)
       /\ Len(t) >= pos + Len(s)
       /\ AgreeOn(t, bytes, (1 .. Len(bytes)) \ (pos + 1 .. pos + Len(s)))
       /\ \A i \in 1 .. Len(s) : t[pos + i] = s[i]
       /\ bytes' = t
  /\ pos' = pos + Len(s)
  /\ result' = <<Len(s), <<>>>>

\* A write that does not fit fails; it may have overwritten what was there.
WriteTooLong(s) ==
  /\ pos # -1
  /\ bytes' \in Strings(Len(bytes))
  /\ \A i \in 1 .. Len(bytes) :
       bytes'[i] = bytes[i] \/ (i - pos \in 1 .. Len(s) /\ bytes'[i] = s[i - pos])
  /\ result' = <<-1, <<>>>>
  /\ UNCHANGED pos

Seek(p) ==
  /\ pos # -1
  /\ p \in 0 .. Len(bytes)
  /\ pos' = p
  /\ result' = <<p, <<>>>>
  /\ UNCHANGED bytes

Truncate(n) ==
  /\ pos # -1
  /\ bytes' \in Strings(n)
  /\ AgreeOn(bytes', bytes, 1 .. Smaller(n, Len(bytes)))
  /\ result' = <<0, <<>>>>
  /\ UNCHANGED pos

Refuse == pos # -1 /\ result' = <<-1, <<>>>> /\ UNCHANGED <<bytes, pos>>

Next == \/ Open \/ Close \/ Refuse
        \/ \E n \in 0 .. MaxLength : Read(n) \/ Seek(n) \/ Truncate(n)
        \/ \E s \in UNION {Strings(n) : n \in 0 .. MaxLength} :
             Write(s) \/ WriteTooLong(s)

Spec == Init /\ [][Next]_absvars
=============================================================================
