------------------------------ MODULE Records ------------------------------
(***************************************************************************)
(* What a handler knows of its request grows with every read.              *)
(***************************************************************************)

\* The record r with the fields of `more`, whose values win.
With(r, more) ==
    [x \in DOMAIN r \cup DOMAIN more |-> IF x \in DOMAIN more THEN more[x] ELSE r[x]]
=============================================================================
