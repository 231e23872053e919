-------------------------- MODULE MCCompatibleTag --------------------------
(* Small instances of CompatibleTag for TLC. *)
EXTENDS CompatibleTag

V(a, b, c, p) == [major |-> a, minor |-> b, patch |-> c, pre |-> p]

\* Every boundary a tag can lie at: the next patch, minor and major version,
\* below and above 1.0.0, and pre-releases of the next version and of it.
SomeVersions ==
  {V(0, 1, 0, 0), V(0, 1, 1, 0), V(0, 2, 0, 1), V(0, 2, 0, 2), V(0, 2, 0, 0),
   V(1, 0, 0, 0), V(1, 1, 0, 1), V(1, 1, 0, 0), V(1, 1, 1, 0), V(2, 0, 0, 1), V(2, 0, 0, 0)}
=============================================================================
