------------------------------- MODULE MCJob --------------------------------
(***************************************************************************)
(* Instances of JobControl for TLC.                                        *)
(***************************************************************************)
EXTENDS JobSafety

AllCases ==
  ({"mock"} \X {"success", "failure", "timeout", "endless", "refused"})
    \cup {<<"bridge", "success">>}
    \cup ({"many_body"} \X {"success", "failure", "timeout", "immediate",
                            "regression", "mismatch", "refused"})
=============================================================================
