------------------------------- MODULE ImageName -------------------------------
(***************************************************************************)
(* sanitizeImageName: from the name of a build to a name the image catalog *)
(* takes, rune by rune.  StepRegisterImage gives it cfg.Name + "-image"    *)
(* (Preflight); what several builds make of the result is SharedCatalog.   *)
(***************************************************************************)
EXTENDS Integers, Sequences

Plain == {"a", "0"}                     \* any of a-z, any of 0-9

(* "A": an upper-case letter; "_": an underscore or a dot; "tab": white    *)
(* space other than a blank; "other": a rune of no meaning to the catalog. *)
Rune == Plain \cup {"A", "-", " ", "_", "tab", "other"}

CONSTANTS
  Fallback,   \* "packer"
  Cap         \* 119

CatalogRune == Plain \cup {"-"}

(* The shape of a name in the catalog (helpers.go:37-38, TrimSpace and     *)
(* Trim leave no dash at the end either).                                  *)
CatalogName(s) ==
  /\ s \in Seq(CatalogRune) /\ Len(s) \in 1..Cap
  /\ s[1] \in Plain /\ s[Len(s)] \in Plain

LengthAssumption ==
  /\ Cap \in Nat \ {0}
  /\ CatalogName(Fallback)

VARIABLES
  name,       \* the name, in lower case and without white space around it
  k,          \* runes looked at
  b,          \* the strings.Builder
  out,        \* the result, or << >>
  given       \* history: the name as it was given

vars == <<name, k, b, out, given>>

-----------------------------------------------------------------------------
\* strings.Trim: s without the runes of drop at either end.
Trim(s, drop) ==
  LET kept == {n \in 1..Len(s) : s[n] \notin drop} IN
    IF kept = {} THEN << >>
    ELSE LET first == CHOOSE n \in kept : \A m \in kept : n <= m
             last  == CHOOSE n \in kept : \A m \in kept : m <= n
         IN SubSeq(s, first, last)

\* strings.ToLower
ToLower(s) == [n \in 1..Len(s) |-> IF s[n] = "A" THEN "a" ELSE s[n]]

\* Mutant: letters and digits are asked for with unicode.IsLetter.
CopiedLetters(c) ==
  CASE c \in Plain \cup {"A", "other"} -> <<c>>
    [] c \in {"-", " ", "_"} -> <<"-">>
    [] OTHER -> << >>

\* Mutant: an underscore or a dot is dropped like any other rune.
CopiedTight(c) ==
  CASE c \in Plain -> <<c>>
    [] c \in {"-", " "} -> <<"-">>
    [] OTHER -> << >>

\* What one rune becomes.
Copied(c) ==
  CASE c \in Plain -> <<c>>
    [] c \in {"-", " ", "_"} -> <<"-">>
    [] OTHER -> << >>

OrFallback(s) == IF s = << >> THEN Fallback ELSE s

\* Mutant: what the cut leaves at the end stays.
CappedUntrimmed(s) == IF Len(s) > Cap THEN SubSeq(s, 1, Cap) ELSE s

\* Mutant: a name of just the permitted length is cut.
CappedShort(s) == IF Len(s) >= Cap THEN Trim(SubSeq(s, 1, Cap - 1), {"-"}) ELSE s

Capped(s) == IF Len(s) > Cap THEN Trim(SubSeq(s, 1, Cap), {"-"}) ELSE s

Init ==
  /\ given \in Seq(Rune)
  /\ name = ToLower(Trim(given, {" ", "tab"}))
  /\ k = 0 /\ b = << >> /\ out = << >>

Copy ==
  /\ k < Len(name)
  /\ k' = k + 1
  /\ b' = b \o Copied(name[k + 1])
  /\ UNCHANGED <<name, out, given>>

Finish ==
  /\ k = Len(name) /\ out = << >>
  /\ out' = Capped(OrFallback(Trim(b, {"-"})))
  /\ UNCHANGED <<name, k, b, given>>

Next == Copy \/ Finish

-----------------------------------------------------------------------------
\* The types of the variables: the builder holds nothing but ASCII, so that
\* the cut at a number of bytes falls between two runes.
Types ==
  /\ given \in Seq(Rune) /\ name \in Seq(Rune)
  /\ k \in 0..Len(name)
  /\ b \in Seq(CatalogRune)
  /\ out \in Seq(CatalogRune)

\* Whatever the name, the result is a name the catalog takes - also where the
\* cut falls on a dash, and where nothing of the name is left.
ResultInShape == out # << >> => CatalogName(out)

\* A name that has the shape already is left alone, so that sanitizing the
\* result again would change nothing.
GoodNameKept == out # << >> /\ CatalogName(given) => out = given

\* What a rune says when separators are one and all else is dropped.
Said(c) ==
  CASE c \in CatalogRune -> <<c>>
    [] c = "A" -> <<"a">>
    [] c \in {" ", "_"} -> <<"-">>
    [] OTHER -> << >>

\* What the first n runes of s say together, for every n.
SaidBy(s) ==
  LET said[n \in 0..Len(s)] == IF n = 0 THEN << >> ELSE said[n - 1] \o Said(s[n])
  IN said

\* What is left of a name.
Significant(s) == Trim(SaidBy(s)[Len(s)], {"-"})

\* The result begins with as much of that as fits.
ResultIsBeginning ==
  out # << >> /\ Significant(given) # << >> =>
    /\ Len(out) <= Len(Significant(given))
    /\ out = SubSeq(Significant(given), 1, Len(out))
    /\ \A n \in (Len(out) + 1)..Len(Significant(given)) :
         n <= Cap => Significant(given)[n] = "-"

=============================================================================
