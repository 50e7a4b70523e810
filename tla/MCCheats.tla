------------------------------ MODULE MCCheats -------------------------------
(* Files for Cheats: a cheat of up to three more lines, of every type,     *)
(* broken, commented, or starting another cheat.                           *)
EXTENDS Cheats

MCLines ==
  {Bracketed(<<"B">>), Comment, Malformed("none"), Malformed("50"),
   Words("30", 0, 1), Words("80", 1, 3), Words("11", 0, 1), Words("21", 1, 1),
   Words("E0", 0, 1), Words("D2", 0, 2), Words("D4", 0, 1),
   Words("50", 5, 1), Words("C2", 1, 2), Words("C1", 0, 0)}

MCSwapped == {<<>>}

MCFiles ==
  {<<Words("C2", 0, 1)>>}
    \cup {<<Bracketed(<<"*", "A">>)>> \o s : s \in UNION {[1 .. n -> MCLines] : n \in 0 .. 3}}
=============================================================================
