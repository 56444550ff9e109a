------------------------------- MODULE MCNer -------------------------------
(* An instance of Ner for TLC: two requests with the same text, which names*)
(* a built-in sanctioned party and one only the Redis list knows, and one  *)
(* with a text that names nobody.                                          *)
EXTENDS Ner, TLC

CONSTANTS r1, r2, r3, memo, invoice, mugabe, novak

TextsSent == [r \in Requests |-> IF r = r3 THEN invoice ELSE memo]
Finds == [x \in Texts |-> IF x = memo THEN {mugabe, novak} ELSE {}]
BuiltinNames == {mugabe}
Lists == {[names |-> {novak}, broken |-> FALSE], [names |-> {novak}, broken |-> TRUE]}
=============================================================================
