---------------------------- MODULE MCDoRecovery ----------------------------
EXTENDS DoRecovery, TLC

CONSTANTS a, cp, d, e, x, z,  \* operations
          own, branch      \* an agent's memory and a copy of it

\* own.append; branch = own.copy; two agents, the owner of own and one with the
\* branch, work at the same time; and own.append once more.
MCKind == (a :> "append") @@ (cp :> "copy") @@ (d :> "do") @@ (e :> "do") @@ (x :> "adapter") @@ (z :> "append")
MCMem == (a :> own) @@ (cp :> own) @@ (d :> own) @@ (e :> branch) @@ (z :> own)
MCDest == cp :> branch
\* What works on own is in one block, which names it only so.
MCAfter == (a :> {}) @@ (cp :> {a}) @@ (d :> {a, cp}) @@ (e :> {a, cp})
           @@ (x :> {a, cp, d}) @@ (z :> {a, cp, d, x})

ASSUME InstanceOrdered == Ordered
=============================================================================
