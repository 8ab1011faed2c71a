------------------------------ MODULE MCMigrate ------------------------------
(***************************************************************************)
(* Plans of up to three fields.  Hash 1 and 2 share a shape, hash 3 has a  *)
(* shape of its own.                                                       *)
(***************************************************************************)
EXTENDS Migrate

CONSTANTS Delay, Perm

F(hash, kind, extent, at) ==
  [hash |-> hash, shape |-> IF hash = 3 THEN 2 ELSE 1, kind |-> kind,
   carried |-> TRUE, extent |-> extent, at |-> at]
Table == [F(3, Delay, 1, 0) EXCEPT !.carried = FALSE]

SomeFields ==
  {F(1, Delay, 2, 0), F(1, Delay, 4, 1), F(2, Delay, 2, 1), F(2, Delay, 2, 3),
   F(3, Perm, 1, 1), F(3, Delay, 1, 2), F(2, Perm, 1, Nowhere), Table}
=============================================================================
