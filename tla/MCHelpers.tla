----------------------------- MODULE MCHelpers -----------------------------
(***************************************************************************)
(* Instances of Helpers for TLC.                                           *)
(***************************************************************************)
EXTENDS Helpers

SeqUpTo(S, n) == UNION {[1..k -> S] : k \in 0..n}

\* Two pins that share a register, one of the register before, and no pin; the
\* last function, and no function.
MCPins == {9, 10, 11, 32}
MCFunctions == {7, 8}

MCTyped == SeqUpTo({"a", " "}, 6)
MCLF == "\n"
MCSpace == {" ", "\n"}
MCExit == <<"D", "O", "\n">>
MCTexts == SeqUpTo({"D", "O", "\n"}, 5)
MCFormats == SeqUpTo({Char("h"), Conv("d", 0, -128), Conv("s", 0, <<"x", "y">>), Conv("c", 2, "q")}, 3)
MCMemory == [a \in 0..9 |-> a]
MCLines == SeqUpTo({1, 2}, 3)
MCNames == {<<1>>, <<1, 2>>, <<2, 2, 1>>}
MCStale == {<<0, 0>>, <<1, 2>>, <<2, 1>>}
MCMessages == {[i \in 1..6 |-> {}], <<{0}, {}, 0..7, {1, 6}, {7}, {}>>}
MCBursts ==
  {<<{i}>> : i \in 0..7} \cup {<<{i}, {j}>> : i, j \in 0..7}
    \cup {<<{i}, 0..7, {}, {j}>> : i, j \in 0..7}
=============================================================================
