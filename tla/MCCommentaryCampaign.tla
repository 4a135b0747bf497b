------------------------- MODULE MCCommentaryCampaign -------------------------
(* Instances of CommentaryCampaign for TLC. *)
EXTENDS CommentaryCampaign, TLC

CONSTANTS a, b, r1, r2, v1, v2

(* The manifest lists the job, or the first job before the second. *)
OneJob == a :> 1
TwoJobs == (a :> 1) @@ (b :> 2)

(* --max-new-jobs of the first run and of the second. *)
OneAndTwo == (r1 :> 1) @@ (r2 :> 2)
NoneAndTwo == (r1 :> Unlimited) @@ (r2 :> 2)

(* No job has an accepted audit; or the first one has. *)
NoAudit == [j \in Jobs |-> NoFile]
AuditOfFirst == [j \in Jobs |-> IF j = a THEN v1 ELSE NoFile]

==============================================================================
