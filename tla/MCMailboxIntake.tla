-------------------------- MODULE MCMailboxIntake --------------------------
EXTENDS MailboxIntake, TLC

Symmetry == Permutations(Poller) \union Permutations(Request)
=============================================================================
