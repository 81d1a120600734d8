------------------------------ MODULE Results ------------------------------
(***************************************************************************)
(* The result of a function: a value, an error that its callers pass on,   *)
(* or a panic, which ends the program.                                     *)
(***************************************************************************)

Ok(v) == [r |-> "ok", v |-> v]
Err   == [r |-> "err"]
Panic == [r |-> "panic"]

\* The operator ? of the code.
Then(result, F(_)) == IF result.r = "ok" THEN F(result.v) ELSE result

Check(condition, v) == IF condition THEN Ok(v) ELSE Err
=============================================================================
