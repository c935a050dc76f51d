------------------------------ MODULE MCRender ------------------------------
(* Model-checking instances of Render: the models main may push. *)
EXTENDS Render, TLC

CONSTANTS e1, e2, e3, m1, m2, s1

(* Two entities that come and go with one mesh, one that stays with another. *)
TwoMeshes == {<<e1, m1, s1>>, <<e2, m1, s1>>, <<e3, m2, s1>>}
AllInfos  == {m1, m2, s1}
NoInfos   == {}

ComingAndGoing == Permutations({e1, e2})
=============================================================================
