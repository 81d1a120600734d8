--------------------------- MODULE DocumentAnswer ---------------------------
(***************************************************************************)
(* What a caller of parse_pdf or parse_page_tree sees: no answer, and then *)
(* the one that is right for the document, once and for all.               *)
(***************************************************************************)
CONSTANTS Pending, Outcome(_)

VARIABLES source, answer

answerVars == <<source, answer>>

Init == answer = Pending

Answer ==
    /\ answer = Pending /\ answer' # Pending
    /\ answer' = Outcome(source)
    /\ UNCHANGED source

Spec == Init /\ [][Answer]_answerVars
=============================================================================
