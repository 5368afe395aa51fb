--------------------------- MODULE MCEspConsole ---------------------------
(* Instances of EspConsole for TLC.                                        *)
EXTENDS EspConsole

\* A command of two characters, and one that looks like a prompt.
MCCommands == {<<"a", "b">>, <<GT>>}
MCChars == {"a", "b", "x", "y", "z", "j", GT, SP, CR, LF}
\* With a FIFO of 3: no line; one that just fits and an empty one; one that takes
\* longer to print than the FIFO lasts; and one that looks like the prompt.
MCAnswers == {<<>>, <<<<"y", "z">>, <<>>>>, <<<<"x", "x", "x", "x">>, <<"y">>>>, <<<<GT>>>>}
\* What a reset leaves: nothing, characters without a line end, or with one.
MCJunk == {<<>>, <<"j">>, <<"j", "j", "j">>, <<"j", "j", LF>>}
=============================================================================
