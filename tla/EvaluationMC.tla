---------------------------- MODULE EvaluationMC ----------------------------
(***************************************************************************)
(* The lists of trace files for TLC: two that generators wrote, one        *)
(* without requests, and one whose second file has a wrong header.         *)
(***************************************************************************)
EXTENDS Evaluation

MCTraceLists ==
    {<<gen_realloc(1), gen_coalescing(1)>>, <<File(1, 0, <<>>)>>,
     <<gen_realloc(1), File(1, 2, <<A(0)>>)>>}
=============================================================================
