------------------------------ MODULE MCStage ------------------------------
(***************************************************************************)
(* Instances of StageLifecycle for TLC.                                    *)
(***************************************************************************)
EXTENDS StageClaims

AllowAll == {Stages}
AllOrMl == {Stages, {2}}
=============================================================================
