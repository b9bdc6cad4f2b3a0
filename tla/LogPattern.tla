----------------------------- MODULE LogPattern -----------------------------
(***************************************************************************)
(* LogFormatter::init (windgent/log.cc): the parser of the patterns that   *)
(* say what a line of the log looks like, such as "%d{%Y}%T[%p] %m%n".     *)
(*                                                                         *)
(* A pattern is a sequence of characters.  Two letters name items that     *)
(* s_format_items has (it has twelve), one letter names none; "-" is any   *)
(* other character.                                                        *)
(***************************************************************************)
EXTENDS Integers, Sequences, SequencesExt

Items == {"d", "m"}
isalpha == Items \cup {"x"}
Chars == isalpha \cup {"%", "{", "}", "-"}

Text(s) == <<"text", s>>
Item(name, fmt) == <<"item", name, fmt>>

\* nstr, which is pushed before the next item, and the items behind it.
AddText(c, parsed) ==
    [parsed EXCEPT !.items = IF @ # <<>> /\ @[1][1] = "text"
                             THEN <<Text(<<c>> \o @[1][2])>> \o Tail(@)
                             ELSE <<Text(<<c>>)>> \o @]
AddItem(name, fmt, parsed) ==
    [items |-> <<Item(name, fmt)>> \o parsed.items,
     error |-> parsed.error \/ name \notin {<<i>> : i \in Items}]
ParseError == [items |-> <<>>, error |-> TRUE]

\* The position of the first character from i on that is not in skip, or the
\* position behind the pattern.
EndOf(p, i, skip) ==
    LET k == SelectInSeq(SubSeq(p, i, Len(p)), LAMBDA c : c \notin skip)
    IN IF k = 0 THEN Len(p) + 1 ELSE i + k - 1

\* Mutant: a format in braces ends the name, but is left in the text.
ParseKeepsFormat(p) ==
    LET from[i \in 1..(Len(p) + 1)] ==
        IF i > Len(p) THEN [items |-> <<>>, error |-> FALSE]
        ELSE IF p[i] # "%" THEN AddText(p[i], from[i + 1])
        ELSE LET e == EndOf(p, i + 1, isalpha \cup {"}"})
             IN AddItem(SubSeq(p, i + 1, e - 1), <<>>, from[e])
    IN from[1]

\* init(): the loop over the pattern, from position i on.  A name ends before any
\* other character; braces without an end are an error; of two percent signs the
\* first one is text and the second begins an item.
Parse(p) ==
    LET from[i \in 1..(Len(p) + 1)] ==
        IF i > Len(p) THEN [items |-> <<>>, error |-> FALSE]
        ELSE IF p[i] # "%" \/ (i < Len(p) /\ p[i + 1] = "%") THEN AddText(p[i], from[i + 1])
        ELSE LET e == EndOf(p, i + 1, isalpha \cup {"}"})
                 close == EndOf(p, e + 1, Chars \ {"}"})
                 name == SubSeq(p, i + 1, e - 1)
             IN IF e > Len(p) \/ p[e] # "{" THEN AddItem(name, <<>>, from[e])
                ELSE IF close > Len(p) THEN ParseError
                ELSE AddItem(name, SubSeq(p, e + 1, close - 1), from[close + 1])
    IN from[1]

isError(p) == Parse(p).error

-----------------------------------------------------------------------------
(* What a pattern is meant to say *)

\* A piece of a pattern as its author writes it.
Written(piece) ==
    IF piece[1] = "text" THEN piece[2]
    ELSE <<"%">> \o piece[2] \o (IF piece[3] = <<>> THEN <<>> ELSE <<"{">> \o piece[3] \o <<"}">>)
AsWritten(pieces) == FoldLeft(LAMBDA s, piece : s \o Written(piece), <<>>, pieces)

Texts == UNION {[1..k -> Chars \ {"%"}] : k \in 1..2}
Pieces == {Text(s) : s \in Texts}
          \cup {Item(<<i>>, fmt) : i \in Items, fmt \in {<<>>, <<"%", "x">>, <<"-">>}}

\* Two texts are one, and a text cannot go on with the name before it.
Meaningful(pieces) ==
    \A i \in 1..(Len(pieces) - 1) : pieces[i + 1][1] = "text" =>
        /\ pieces[i][1] = "item"
        /\ pieces[i][3] = <<>> => pieces[i + 1][2][1] = "-"

\* Is every pattern of up to three texts and items taken apart into just these?
ReadsBack ==
    \A n \in 1..3 : \A pieces \in {s \in [1..n -> Pieces] : Meaningful(s)} :
        Parse(AsWritten(pieces)) = [items |-> pieces, error |-> FALSE]

\* Is a percent sign that is written twice part of the text?
PercentReadsBack ==
    \A s \in Texts :
        Parse(<<"%", "%">> \o s) = [items |-> <<Text(<<"%">> \o s)>>, error |-> FALSE]
=============================================================================
