---------------------------- MODULE MCLifecycle ----------------------------
\* Instances of Lifecycle for TLC, with the address arithmetic that set-up has
\* prepared: while the module runs it is tried on every page number in turn.
EXTENDS Lifecycle, MCGeometry

\* Two chips, of which one may be there and the other not.
TwoChips == <<1, 2, 1, 1, 1, 1>>

LoadInit == LifeInit /\ Init
LoadNext ==
  \/ LifeNext /\ UNCHANGED page
  \/ stage = "running" /\ Next /\ UNCHANGED lifeVars
LoadSpec == LoadInit /\ [][LoadNext]_<<lifeVars, page>>
=============================================================================
