---- MODULE MCInstaller ----
(* A small instance of Installer: d, the default, is accepted by main, x is not. *)
EXTENDS Installer, TLC

CONSTANTS d, x

\* The text of d begins with texts that read as d, that of x with either.
CutsMC == (d :> {d}) @@ (x :> {d, x})

Sym == Permutations(Version)
====
