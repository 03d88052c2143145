--------------------------- MODULE MCWorkspaceLocks ---------------------------
EXTENDS WorkspaceLocks, TLC

CONSTANTS t1, t2, t3, t4, root, left, right

\* left and right are disjoint directories inside root.
MCPaths == {root, left, right}
MCOverlap == (MCPaths \X MCPaths) \ {<<left, right>>, <<right, left>>}

\* runAgent asks for its primary workspace in write mode and for the readOnly
\* ones in read mode; a path can be named in both modes.
W(p) == [path |-> p, mode |-> "write"]
R(p) == [path |-> p, mode |-> "read"]
MCRequestLists == { {W(root)}, {W(right)}, {W(right), R(left)}, {W(left), R(left)} }

\* t1 and t2 are instructions of one block and share its signal.
MCSignals == {"block", "other", "last"}
MCSignalOf == (t1 :> "block") @@ (t2 :> "block") @@ (t3 :> "other") @@ (t4 :> "last")
=============================================================================
