-------------------------- MODULE MCRoomActivation --------------------------
EXTENDS RoomActivation

\* What the ledger of these runs can hold.
Records == Activation \X Outcomes
=============================================================================
