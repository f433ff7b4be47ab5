--------------------------- MODULE MCAdminService ---------------------------
(***************************************************************************)
(* Small instances of AdminService.                                        *)
(***************************************************************************)
EXTENDS AdminRefinement, TLC

CONSTANTS u1, u2, t1, t2

OneUser == (u1 :> t1)
TwoUsers == (u1 :> t1 @@ u2 :> t2)

RowOps == WorkspaceOps \cup (AppOps \ {RotateOp}) \cup {"workspace.create"}
SecretOps == {"workspace.create", "app.create", RotateOp, "api_token.create", "api_token.delete"}

Symmetry == Permutations(WorkspaceIds) \cup Permutations(AppIds) \cup Permutations(Secrets)
              \cup Permutations(Requests)
=============================================================================
