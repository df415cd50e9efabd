-------------------------- MODULE MCUppaalExecutor --------------------------
(***************************************************************************)
(* Instances of UppaalExecutor for TLC.                                     *)
(***************************************************************************)
EXTENDS UppaalExecutor

\* Nothing and a full pipe; a full pipe and more than it holds.
OutputsFit   == {0, 1}
OutputsLarge == {1, 2}
=============================================================================
