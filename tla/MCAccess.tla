------------------------------ MODULE MCAccess ------------------------------
(***************************************************************************)
(* The instance of Access for TLC: an admin and a member of one            *)
(* organisation, a member of another, a platform admin; a resource in each *)
(* organisation; one connection a service.  The first request asks for     *)
(* anything, the second removes resources meanwhile.                       *)
(***************************************************************************)
EXTENDS AccessProps

MCPeople == {"ann", "bob", "cat", "root"}
MCOrgOf == "ann" :> "A" @@ "bob" :> "A" @@ "cat" :> "B" @@ "root" :> None
MCRoleOf == "ann" :> "org_admin" @@ "bob" :> "org_member" @@ "cat" :> "org_member"
            @@ "root" :> "platform_admin"
MCResources == {"a1", "b1"}
MCHomeOf == "a1" :> "A" @@ "b1" :> "B"
MCCreatorOf == "a1" :> "ann" @@ "b1" :> "cat"
MCAsks == "r1" :> (MCPeople \cup {Nobody}) \X Ops
          @@ "r2" :> {"cat"} \X {"resources.remove"}
MCPoolOf == [k \in Services |-> k]
=============================================================================
