---------------------------- MODULE MCSkillInstall ----------------------------
(***************************************************************************)
(* Instances of SkillInstall for TLC.                                      *)
(***************************************************************************)
EXTENDS SkillInstall, TLC

CONSTANTS p1, p2

\* Release 2 adds skill 1 before skill 2, which all bundles share.
GrowingBundle == 1 :> {2} @@ 2 :> {1, 2}

OldAndNew == p1 :> 1 @@ p2 :> 2

=============================================================================
