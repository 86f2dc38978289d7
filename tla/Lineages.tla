------------------------------- MODULE Lineages -------------------------------
(***************************************************************************)
(* The three lineages that are replayed from their receipts: the journals  *)
(* of Scribe sessions, the lineages of Kevin Speak workspaces, and the     *)
(* learning campaign.                                                      *)
(***************************************************************************)
EXTENDS Scribe, KevinSpeak, LearningCampaign

\* What was written is restored, however its writing was cut or raced: the
\* lineages of Scribe sessions (scribe.py) and Kevin Speak workspaces
\* (shorthand.py), and the campaign of calibration_002 (learning.py), each but
\* for the windows that its module names.
LineagesRestore ==
    /\ SessionsRestore
    /\ WorkspacesRestore
    /\ campaign # <<>> => CampaignRestores
=============================================================================
