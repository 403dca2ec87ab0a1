------------------------------- MODULE Build -------------------------------
(***************************************************************************)
(* What the build script writes into an artifact about itself: the version *)
(* and revision of revm, looked up in Cargo.lock, and the cargo features   *)
(* of the build.                                                           *)
(*                                                                         *)
(* A lock is the sequence of its packages, each [name, version, rev], the  *)
(* last of which is Unknown when its source names no commit.               *)
(***************************************************************************)
EXTENDS Naturals, Sequences

Unknown == "unknown"

\* The name has to be exactly revm: others have it as a part.
is_revm_Containing(package) == package.name \in {"op-revm", "revm", "revm-interpreter"}
is_revm(package) == package.name = "revm"

\* The first such package.
revm_package(lock) ==
    LET found == {i \in DOMAIN lock : is_revm(lock[i])}
    IN IF found = {} THEN [version |-> Unknown, rev |-> Unknown]
       ELSE lock[CHOOSE i \in found : \A j \in found : i <= j]

\* A string joined with plus signs, here the set of its parts.
build_config(features) ==
    {IF "precompiles-all" \in features THEN "precompiles=all"
     ELSE IF "precompiles-common" \in features THEN "precompiles=common"
     ELSE "precompiles=none"}
    \cup (features \cap {"blst", "relaxed-validation", "measure-tracer",
                         "ablate-outcome-v1", "ablate-commit", "ablate-extra-exports",
                         "ablate-bloom", "ablate-fees", "ablate-egp"})

INFO(lock, features) ==
    [revm |-> revm_package(lock).version, revmRev |-> revm_package(lock).rev,
     build |-> build_config(features)]
=============================================================================
