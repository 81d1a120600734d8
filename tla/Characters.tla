----------------------------- MODULE Characters -----------------------------
(***************************************************************************)
(* Texts as the bytes of their characters: those of the MC modules, and    *)
(* the words that the code looks for.                                      *)
(***************************************************************************)
EXTENDS Naturals, Sequences

\* The printable characters but the grave accent: codes 32 to 95 and 97 to 126.
Upper == " !\"#$%&'()*+,-./0123456789:;<=>?@ABCDEFGHIJKLMNOPQRSTUVWXYZ[\\]^_"
Lower == "abcdefghijklmnopqrstuvwxyz{|}~"

Characters(text) == {SubSeq(text, i, i) : i \in 1..Len(text)}
PlaceIn(text, c)  == CHOOSE i \in 1..Len(text) : SubSeq(text, i, i) = c

Code ==
    [c \in Characters(Upper) \cup Characters(Lower) \cup {"\n"} |->
        CASE c \in Characters(Upper) -> 31 + PlaceIn(Upper, c)
          [] c \in Characters(Lower) -> 96 + PlaceIn(Lower, c)
          [] OTHER -> 10]

\* The ASCII bytes of a text.
Ascii(text) == [i \in 1..Len(text) |-> Code[SubSeq(text, i, i)]]
=============================================================================
