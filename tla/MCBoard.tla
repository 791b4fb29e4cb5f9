------------------------------ MODULE MCBoard ------------------------------
(* A small instance of Board for TLC. *)
EXTENDS Board

CONSTANTS d1, t1, todo, done, other

\* One default ticket, and two columns.
MCDefaultIds == <<d1>>
MCColumns    == <<todo, done>>

\* Forms that no page makes: an id twice, ids that may not be stored in either
\* order, a status that is no column, fewer statuses than ids, and nothing.
MCScriptForms ==
  {[ids |-> <<d1, d1>>, statuss |-> <<done, todo>>],
   [ids |-> <<t1, d1>>, statuss |-> <<todo, done>>],
   [ids |-> <<d1, t1>>, statuss |-> <<other, todo>>],
   [ids |-> <<d1, t1>>, statuss |-> <<done>>],
   [ids |-> <<>>, statuss |-> <<>>]}

=============================================================================
