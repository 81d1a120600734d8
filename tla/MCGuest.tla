------------------------------ MODULE MCGuest ------------------------------
(***************************************************************************)
(* Small jobs for Guest.  The bounds on the size keep their order and the  *)
(* distance between them, so that every size and both paddings occur below *)
(* the minimum, between minimum and maximum, and above the maximum.        *)
(***************************************************************************)
EXTENDS Guest

CONSTANTS Hash1, Hash2

\* Documents of up to three pages; no pages when the extractor fails.
MCDocuments ==
    {[extracted |-> TRUE, pages |-> p] :
        p \in {<<>>} \cup {<<[contains |-> c, hash |-> Hash1]>> : c \in BOOLEAN}
              \cup {<<[contains |-> b, hash |-> Hash2], [contains |-> c, hash |-> Hash1],
                      [contains |-> d, hash |-> Hash1]>> : b, c, d \in BOOLEAN}}
    \cup {[extracted |-> FALSE, pages |-> <<>>]}

MCPdfSizes == 0..15
MCTextSizes == 0..8

MCJobs ==
    {[heap |-> TRUE, pdfSize |-> n, header |-> h, signature |-> s, extracted |-> d.extracted,
      pages |-> d.pages, textSize |-> t, utf8 |-> u] :
        n \in MCPdfSizes, h \in BOOLEAN, s \in {"valid", "invalid", "error"},
        d \in MCDocuments, t \in MCTextSizes, u \in BOOLEAN}
    \cup
    {[heap |-> FALSE, pdfSize |-> n, header |-> TRUE, signature |-> "valid", extracted |-> TRUE,
      pages |-> <<>>, textSize |-> 0, utf8 |-> TRUE] : n \in {0, 12}}
=============================================================================
