---- MODULE MCCanRouter ----
(* Three clients compete for a table of two slots; rings of two entries      *)
(* overflow at the third frame and wrap at the next.                         *)
EXTENDS CanRouter, TLC

CONSTANTS c1, c2, c3, engine, body

MCFilters == {{engine}, {engine, body}}

Symmetry == Permutations(Clients)
====
