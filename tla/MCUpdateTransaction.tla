------------------------- MODULE MCUpdateTransaction -------------------------
(* Small instances of UpdateTransaction: one operation of every kind.      *)
EXTENDS UpdateTransaction

OneOfEach == <<"add", "replace", "remove">>
AddReplace == <<"add", "replace">>
AroundReplace == {"checkpoint", "before_replace"}
==============================================================================
