----------------------------- MODULE MCPiShell -----------------------------
(***************************************************************************)
(* Instances of PiShell for TLC.                                           *)
(***************************************************************************)
EXTENDS PiShell

EndTexts == {"ENDING"}
TextAndEnd == {"print", "wifi"} \cup EndTexts
=============================================================================
