-------------------------------- MODULE Text --------------------------------
(***************************************************************************)
(* The text that the custom utilities read and print, and what each of     *)
(* them is meant to print (reference definitions, from the usage comments  *)
(* at the head of the sources).  A character is a number; NL ends a line.  *)
(***************************************************************************)
EXTENDS Integers, Sequences, FiniteSets, SequencesExt

NL    == 10
SPACE == 32

Num(n) == 1000 + n           \* a number as printf() prints it

Drop(s, n) == SubSeq(s, n + 1, Len(s))

(* The lines of a text, each with its NL; the last one may lack it. *)
RECURSIVE LinesOf(_)
LinesOf(s) ==
  LET k == SelectInSeq(s, LAMBDA c : c = NL)
  IN  IF s = <<>> THEN <<>> ELSE IF k = 0 THEN <<s>> ELSE <<SubSeq(s, 1, k)>> \o LinesOf(Drop(s, k))

Chomp(line) == SelectSeq(line, LAMBDA c : c # NL)

-----------------------------------------------------------------------------
(* What the utilities are meant to print. *)

HeadOf(s, k) == FlattenSeq(SubSeq(LinesOf(s), 1, IF Len(LinesOf(s)) < k THEN Len(LinesOf(s)) ELSE k))

TailOf(s, k) == FlattenSeq(Drop(LinesOf(s), IF Len(LinesOf(s)) < k THEN 0 ELSE Len(LinesOf(s)) - k))

(* strcmp() *)
RECURSIVE Before(_, _)
Before(s, t) ==
  IF s = <<>> \/ t = <<>> THEN Len(s) <= Len(t)
  ELSE IF Head(s) = Head(t) THEN Before(Tail(s), Tail(t)) ELSE Head(s) < Head(t)

Blank(c) == c \in {NL, SPACE}

WcOf(s) ==
  LET Is(i) == ~Blank(s[i]) /\ (i = 1 \/ Blank(s[i - 1]))
  IN  <<Num(Cardinality({i \in DOMAIN s : s[i] = NL})), Num(Cardinality({i \in DOMAIN s : Is(i)})), Num(Len(s))>>

Matches(line, c) == c \in ToSet(line)

(* grep -n; the pattern is one character. *)
GrepOf(s, c) ==
  LET l == LinesOf(s)
  IN  FlattenSeq([i \in DOMAIN l |-> IF Matches(l[i], c) THEN <<Num(i)>> \o l[i] ELSE <<>>])
=============================================================================
