---------------------------- MODULE MCExecution ------------------------------
(* A small instance of Execution for TLC.                                   *)
EXTENDS Execution

Line(ready, lag, failure, cat) == [ready |-> ready, lag |-> lag, failure |-> failure, cat |-> cat]

MCLines == {Line(TRUE, FALSE, "none", 0), Line(FALSE, TRUE, "none", 0),
            Line(FALSE, FALSE, "terminal", JvmCrash), Line(FALSE, FALSE, "terminal", 1),
            Line(FALSE, FALSE, "candidate", 4), Line(FALSE, FALSE, "background", 0)}
=============================================================================
