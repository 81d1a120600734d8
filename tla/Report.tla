------------------------------- MODULE Report -------------------------------
(***************************************************************************)
(* What the zkVM program promises of a job: it publishes its verdict, once *)
(* and for all.  How the input words are framed and in which order the     *)
(* program looks at things is left to Guest, which implements this module. *)
(***************************************************************************)
EXTENDS Verdict

VARIABLES request, published

reportVars == <<request, published>>

Init == published = Nothing

Publish ==
    /\ published = Nothing
    /\ published' = Verdict(request)
    /\ UNCHANGED request

Spec == Init /\ [][Publish]_reportVars

\* The program is not interrupted: it gets to its report.
FairSpec == Spec /\ WF_reportVars(Publish)
=============================================================================
