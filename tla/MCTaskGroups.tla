----------------------------- MODULE MCTaskGroups -----------------------------
EXTENDS TaskGroups, TLC

CONSTANTS fan, collect, late, join, post

\* block 1:  fan = dispatch [1 task]     collect = sync fan
\*           late = dispatch [3 tasks]
\* block 2:  join = sync late           post, beside it
MCInstructions == {fan, collect, late, join, post}
MCOp == (fan :> "dispatch") @@ (collect :> "sync") @@ (late :> "dispatch")
          @@ (join :> "sync") @@ (post :> "work")
MCBlock == (fan :> 1) @@ (collect :> 1) @@ (late :> 1) @@ (join :> 2) @@ (post :> 2)
MCDeps == (fan :> {}) @@ (collect :> {fan}) @@ (late :> {}) @@ (join :> {}) @@ (post :> {})
MCGroup == (collect :> fan) @@ (join :> late)
MCSize == (fan :> 1) @@ (late :> 3)
=============================================================================
