------------------------------ MODULE MCStorage ------------------------------
(***************************************************************************)
(* A small instance of Storage.                                            *)
(***************************************************************************)
EXTENDS StorageProps, TLC

CONSTANTS resource, subscriptionT, usage, ceilingG, r1, r2, r3, r4, r5

MCTopicOf == usage :> resource @@ ceilingG :> subscriptionT

\* A signup, a change of plan or a creation, a creation and two removals: enough for two removals
\* of one resource to commit while another is there.
MCDoes == r1 :> {"assign"} @@ r2 :> {"change", "create"} @@ r3 :> {"create"}
          @@ r4 :> {"remove"} @@ r5 :> {"remove"}

\* The two removals are alike.
MCRemovals == Permutations({r4, r5})
=============================================================================
