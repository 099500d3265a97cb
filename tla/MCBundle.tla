------------------------------ MODULE MCBundle ------------------------------
(***************************************************************************)
(* Bundle for TLC: a persistent node with verify at any time, sessions in  *)
(* place with verify in between, and rotating demos.                       *)
(***************************************************************************)
EXTENDS Bundle

Setting(modes, overlap, n, kills, checks) ==
    [modes |-> modes, overlap |-> overlap, sessions |-> n, kills |-> kills,
     verifies |-> checks]

MCSettings == {Setting({"node"}, TRUE, 2, 1, 2),
               Setting({"node", "force"}, FALSE, 3, 1, 1),
               Setting({"versioned"}, FALSE, 3, 1, 1)}
Undisturbed == {Setting({"node"}, TRUE, 2, 0, 1)}
=============================================================================
