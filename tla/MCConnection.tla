---------------------------- MODULE MCConnection ----------------------------
(***************************************************************************)
(* Instances of Connection for TLC.                                         *)
(***************************************************************************)
EXTENDS Connection

\* An empty message, a plain one, and ones that hold, and end in, half a delimiter.
SafePayloads == {<<>>, <<"a">>, <<"|">>, <<"a", "#">>}

\* The end of a frame whose beginning was never sent.
LooseEnd == {<<"a", "|", "#">>}

\* What the proof that messages arrive in order supposes of them.
ASSUME FramableHere == Framable
=============================================================================
