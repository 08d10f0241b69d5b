------------------------------ MODULE MCHandle ------------------------------
(***************************************************************************)
(* Instances of MMDBHandle for TLC.                                        *)
(***************************************************************************)
EXTENDS MMDBHandle

GoodFile ==
  [nodeCount |-> 2, recordSize |-> 24, ipVersion |-> 6,
   languages |-> <<"string">>, major |-> 2, epoch |-> 1,
   descriptions |-> <<"string">>]

\* A good file, the ways one metadata key can be wrong or missing, and the
\* shapes the languages and the descriptions can have.
OneDefectFiles ==
  {GoodFile}
    \cup {[GoodFile EXCEPT !.nodeCount = 0]}
    \cup {[GoodFile EXCEPT !.recordSize = v] : v \in {0, 20, 32}}
    \cup {[GoodFile EXCEPT !.ipVersion = v] : v \in {0, 4, 7}}
    \cup {[GoodFile EXCEPT !.major = v] : v \in {0, 3}}
    \cup {[GoodFile EXCEPT !.epoch = 0]}
    \cup {[GoodFile EXCEPT !.languages = v] :
            v \in {Missing, <<>>, <<"other">>, <<"string", "string">>,
                   <<"string", "other">>, <<"string", "cycle">>}}
    \cup {[GoodFile EXCEPT !.descriptions = v] :
            v \in {Missing, <<>>, <<"bad_key">>, <<"bad_value">>,
                   <<"string", "string">>, <<"string", "bad_value">>,
                   <<"key_cycle">>, <<"string", "value_cycle">>}}

\* Without any language or description, so that a second MMDB_close() gets past
\* the arrays, and with two languages.
FewFiles ==
  { [GoodFile EXCEPT !.languages = <<>>, !.descriptions = <<>>],
    [GoodFile EXCEPT !.languages = <<"string", "string">>] }

\* One handle opens each of the files; any other opens the good one.
EveryFileAndGood ==
  LET one == CHOOSE h \in Handles : TRUE
  IN  [h \in Handles |-> IF h = one THEN OneDefectFiles ELSE {GoodFile}]

FewEach == [h \in Handles |-> FewFiles]
=============================================================================
