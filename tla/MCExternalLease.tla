---------------------------- MODULE MCExternalLease ----------------------------
EXTENDS ExternalLease, TLC

CONSTANTS writer, child, other

\* writer's calls run child; other is an activation of another block.
MCAgents == {writer, child, other}
MCParent == (writer :> Nobody) @@ (child :> writer) @@ (other :> Nobody)
\* writer's two calls can overlap; other's call suspends it; child makes none.
MCMaxCalls == (writer :> 2) @@ (child :> 0) @@ (other :> 1)
=============================================================================
