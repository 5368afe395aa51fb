-------------------------------- MODULE Pwm --------------------------------
(***************************************************************************)
(* Pulse widths by Bresenham's line: a choice of `on` ones among n, spread  *)
(* as evenly as whole steps allow.                                         *)
(*                                                                         *)
(*   cs140e-pwm.c   int_line, pwm_compute                                  *)
(***************************************************************************)
EXTENDS Integers, Sequences

\* err = (dx > dy ? dx : -dy) / 2, towards 0.
FirstError(dx, dy) == IF dx > dy THEN dx \div 2 ELSE -(dy \div 2)

\* One turn of the loop of int_line: a step along x, along y, or both.
Turn(s, dx, dy) ==
  LET right == s.err > -dx
      up == s.err < dy
  IN [choices |-> s.choices \o (IF right THEN <<1>> ELSE <<>>) \o (IF up THEN <<0>> ELSE <<>>),
      x |-> s.x + IF right THEN 1 ELSE 0,
      y |-> s.y + IF up THEN 1 ELSE 0,
      err |-> s.err - (IF right THEN dy ELSE 0) + (IF up THEN dx ELSE 0)]

\* The loop, which stops at (x1, y1) and nowhere else: a line that misses it
\* runs on over the end of the array.
PwmCompute(on, n) ==
  LET off == n - on
      line[k \in 0..n] ==
        IF k = 0 THEN [choices |-> <<>>, x |-> 0, y |-> 0, err |-> FirstError(on, off)]
        ELSE LET s == line[k - 1] IN IF s.x = on /\ s.y = off THEN s ELSE Turn(s, on, off)
  IN line[n].choices

Ones(choices, k) == LET f[i \in 0..k] == IF i = 0 THEN 0 ELSE f[i - 1] + choices[i] IN f[k]
=============================================================================
