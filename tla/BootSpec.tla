------------------------------ MODULE BootSpec ------------------------------
(***************************************************************************)
(* What a boot promises to the user of my-install, without the protocol:   *)
(* one run of my-install is a session, which succeeds or fails; the Pi     *)
(* accepts at most one image in a session, which is a program my-install   *)
(* has been run with: this session's, or, when its run was interrupted     *)
(* late, the one before; my-install reports success only after the Pi has  *)
(* accepted this session's; and what the Pi runs is what it accepted, till *)
(* it is reset.  BootProtocol implements this: see KeepsPromise there.     *)
(***************************************************************************)
CONSTANT Program   \* the programs my-install may be run with

VARIABLES
  session,    \* "idle", "trying", "ok" or "failed"
  program,    \* the program of the last session
  offered,    \* the programs of all sessions so far
  accepted,   \* images accepted in the last session
  loaded      \* the image the Pi is about to run or runs, if any, as a set

vars == <<session, program, offered, accepted, loaded>>

Init ==
  /\ session = "idle" /\ program \in Program
  /\ offered = {} /\ accepted = {} /\ loaded = {}

\* The user runs my-install; the Pi may be running an earlier program.
Begin ==
  /\ session # "trying" /\ session' = "trying"
  /\ program' \in Program /\ offered' = offered \cup {program'} /\ accepted' = {}
  /\ UNCHANGED loaded

\* The Pi has the whole image, and it passed the checksum.  my-install may have
\* given up by then: it does not know yet.
Accept ==
  /\ accepted = {} /\ loaded = {}
  /\ \E p \in offered : accepted' = {p} /\ loaded' = {p}
  /\ UNCHANGED <<session, program, offered>>

Succeed ==
  /\ session = "trying" /\ accepted = {program}
  /\ session' = "ok"
  /\ UNCHANGED <<program, offered, accepted, loaded>>

Fail ==
  /\ session = "trying" /\ session' = "failed"
  /\ UNCHANGED <<program, offered, accepted, loaded>>

\* The program ends, or the Pi is switched off.
Unload ==
  /\ loaded # {} /\ loaded' = {}
  /\ UNCHANGED <<session, program, offered, accepted>>

Next == Begin \/ Accept \/ Succeed \/ Fail \/ Unload

Spec == Init /\ [][Next]_vars
=============================================================================
