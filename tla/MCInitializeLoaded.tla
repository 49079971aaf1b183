------------------------ MODULE MCInitializeLoaded ------------------------
(***************************************************************************)
(* Every dependency graph over a few libraries, loaded the way             *)
(* lnk::loadLibraryEx does: depth first, each library linked in right      *)
(* after the first image before its own dependencies are loaded.           *)
(***************************************************************************)
EXTENDS InitializeLoaded, SequencesExt

CONSTANT MaxLibs         \* the libraries are 1..MaxLibs, image 0 the linker

Libs == 1..MaxLibs
MCImage == 0..MaxLibs

\* Any libraries, in any order.
DependencyLists == UNION {SetToSeqs(S) : S \in SUBSET Libs}

RECURSIVE LoadAll(_, _, _)
LoadAll(loaded, todo, deps) ==
  IF todo = <<>> THEN loaded
  ELSE IF Contains(loaded, Head(todo)) THEN LoadAll(loaded, Tail(todo), deps)
  ELSE LoadAll(LoadAll(<<0, Head(todo)>> \o Tail(loaded), deps[Head(todo)], deps),
               Tail(todo), deps)

\* The main executable depends on all the libraries, in order; every one of
\* them also depends on libSystem, that is on image 0.
MCLoaded ==
  {[chain |-> LoadAll(<<0>>, [i \in Libs |-> i], deps),
    fDependencies |-> [x \in MCImage |-> IF x = 0 THEN <<>>
                                         ELSE Append(deps[x], 0)]]
     : deps \in [Libs -> DependencyLists]}
===========================================================================
