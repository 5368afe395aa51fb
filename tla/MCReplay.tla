------------------------------ MODULE MCReplay ------------------------------
(***************************************************************************)
(* Instances of Replay for TLC.                                            *)
(***************************************************************************)
EXTENDS Replay

MCData == <<"w1">>
MCExit == <<"D", "O", "\n">>
MCChars == {"h", "D", "O", "\n"}
\* The last one is long enough for a robust child to find all its copies.
MCTexts == {<<"h">> \o MCExit, MCExit \o <<"h">>, [i \in 1..20 |-> "h"] \o MCExit}
MCCopies == {1, 2}
MCBad == {"x", "y"}

\* The file as printed, and that of a boot that went well without one of its lines,
\* with two swapped, with one doubled, with one cut short.
MCTraces(t) ==
  {t} \cup IF t[Len(t)].val = "NAK" \/ Len(t) > 20 THEN {} ELSE
      {RemoveAt(t, i) : i \in {2, Len(t)}}
      \cup {[t EXCEPT ![3] = t[4], ![4] = t[3]], InsertAt(t, 5, t[5])}
      \cup {[t EXCEPT ![6].whole = k] : k \in 0..3}
=============================================================================
