--------------------------- MODULE MCCoordinator ---------------------------
(* Coordinator with interchangeable task ids.                              *)
EXTENDS Coordinator, TLC

CONSTANTS ollama, openai, anthropic

(* Two providers have their keys; the default may be one that has none.    *)
MCProviders == <<ollama, openai>>
MCDefaults == {ollama, openai, anthropic}

Symmetry == Permutations(Ids)
=============================================================================
