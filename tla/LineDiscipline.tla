--------------------------- MODULE LineDiscipline ---------------------------
(***************************************************************************)
(* What the console promises to the programs that read it: keys edit the   *)
(* line being typed; the line becomes readable as a whole, when it ends or *)
(* fills the buffer; readers take characters in the order they were typed, *)
(* and no key can change a character that is readable.                     *)
(***************************************************************************)
EXTENDS Integers, Sequences

CONSTANTS Letters, NL, EOF, Size

VARIABLES queue,   \* characters readers may take
          line     \* the line being typed

Init == queue = <<>> /\ line = <<>>

Type(c) ==
  LET l == Append(line, c)
      done == c \in {NL, EOF} \/ Len(queue) + Len(l) = Size
  IN  /\ Len(queue) + Len(line) < Size
      /\ queue' = IF done THEN queue \o l ELSE queue
      /\ line' = IF done THEN <<>> ELSE l

Erase == line # <<>> /\ line' = SubSeq(line, 1, Len(line) - 1) /\ UNCHANGED queue

EraseLine == line' = <<>> /\ UNCHANGED queue

Take == queue # <<>> /\ queue' = Tail(queue) /\ UNCHANGED line

Next == Erase \/ EraseLine \/ Take \/ \E c \in Letters \cup {NL, EOF} : Type(c)

Spec == Init /\ [][Next]_<<queue, line>>
=============================================================================
