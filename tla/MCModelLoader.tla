---------------------------- MODULE MCModelLoader ----------------------------
(***************************************************************************)
(* Instances of ModelLoader small enough for TLC.  The configurations pick  *)
(* the threads, keys and providers; each key's backend is fixed by name.     *)
(***************************************************************************)
EXTENDS ModelLoader, TLC

CONSTANTS apiKey, otherApiKey, hfKey

MCBackend ==
  [k \in Key |-> IF k = hfKey THEN "huggingface" ELSE "api"]

\* Threads and providers are interchangeable; keys are not (MCBackend).
Symmetry == Permutations(Thread) \cup Permutations(Provider)
=============================================================================
