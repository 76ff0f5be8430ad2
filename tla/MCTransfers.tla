---------------------------- MODULE MCTransfers ----------------------------
(***************************************************************************)
(* Transfers of a good file, of an empty one and of forms with one or two  *)
(* mistakes.  The timeouts are in the order that the code gives them:      *)
(* 30 seconds, 5 minutes and 15 minutes.                                   *)
(***************************************************************************)
EXTENDS Transfers

Forms ==
    {[size |-> s, wrong |-> {}] : s \in {0, 1, 3}}
        \union {[size |-> 1, wrong |-> w] : w \in {{"file"}, {"size", "ext"}, {"segments"}}}

OneForm == {[size |-> 2, wrong |-> {}]}
=============================================================================
