---------------------------- MODULE MCLedgerTools ----------------------------
(* Small instances of LedgerTools: which sessions share the ledger, what    *)
(* they append, and which whole pages they stage or write.                  *)
EXTENDS LedgerTools, TLC

CONSTANTS s1, s2, s3, a, b, c

ClaimModes ==
    s1 :> "claims-segmented" @@ s2 :> "claims-segmented" @@ s3 :> "claims-review-segmented"

RelationModes ==
    s1 :> "relations-segmented" @@ s2 :> "relations-segmented" @@
    s3 :> "relations-review-segmented"

IngestModes ==
    s1 :> "ingest" @@ s2 :> "ingest" @@ s3 :> "ingest-segmented"

MixedModes ==
    s1 :> "ingest-segmented" @@ s2 :> "review" @@ s3 :> "review-segmented"

ReviewerModes ==
    s1 :> "review" @@ s2 :> "review-segmented" @@ s3 :> "review"

SmallBatches == {<<a>>, <<a, b>>}

Rec(i, x, status) == [id |-> i, anchor |-> x, status |-> status]

SmallPages ==
    {{Rec(1, a, "unreviewed")}, {Rec(1, a, "accepted")},
     {Rec(1, a, "unreviewed"), Rec(2, b, "unreviewed")}}

TwoEach == [s \in Sessions |-> 2]
OneEach == [s \in Sessions |-> 1]
TwoReviewers == s1 :> 3 @@ s2 :> 2 @@ s3 :> 0

(* Extractors begin with no file; reviewers find one. *)
CooperatingStarts ==
    [mode : {ClaimModes, RelationModes, IngestModes}, calls : {TwoEach}, ledger : {NoFile}]
        \cup [mode : {ReviewerModes}, calls : {TwoReviewers}, ledger : SmallPages]

MixedStart == [mode : {MixedModes}, calls : {OneEach}, ledger : {{Rec(1, a, "unreviewed")}}]
==============================================================================
