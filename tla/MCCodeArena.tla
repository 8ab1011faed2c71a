----------------------------- MODULE MCCodeArena -----------------------------
(***************************************************************************)
(* A mapping of 96 bytes and programs of 1 to 3 units of 16 bytes, so that *)
(* it fragments, fills up, and is reused in every order.                   *)
(***************************************************************************)
EXTENDS CodeArena, TLC

CONSTANTS small, other, middle, large

MCPrograms == {small, other, middle, large}
MCWords(p) == CASE p = small -> 1 [] p = other -> 4 [] p = middle -> 5 [] p = large -> 11
=============================================================================
