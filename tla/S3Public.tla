------------------------------ MODULE S3Public ------------------------------
(***************************************************************************)
(* The s3-public handler on one bucket: the four reads of plan, one after  *)
(* the other, its decision, and the calls of apply, while people change    *)
(* the ACL, the policy and Block Public Access between any two of them.    *)
(***************************************************************************)
EXTENDS FiniteSets

CONSTANTS
    Partners,   \* accounts that an ACL may name besides the owner
    Blocks      \* the Block Public Access settings that people put

(* AllUsers stands for the two groups of PUBLIC_ACL_URIS. *)
Grantees == Partners \cup {"AllUsers"}

(* What a policy allows: nothing, being absent; named principals, or the   *)
(* world on a condition that keeps it out; Principal "*" on no condition;  *)
(* and the world in some other way, on a condition that keeps nobody out   *)
(* or by NotPrincipal.                                                     *)
Policies == {"absent", "restricted", "open", "conditioned"}

(* Those that S3 takes for public. *)
PublicPolicies == {"open", "conditioned"}

FULL_BLOCK_PUBLIC_ACCESS ==
    {"BlockPublicAcls", "IgnorePublicAcls", "BlockPublicPolicy", "RestrictPublicBuckets"}

VARIABLES
    grants,      \* the grantees of the bucket's ACL
    policy,
    block,       \* the Block Public Access settings that are on
    pc,          \* the next call of the handler
    seenGrants,  \* what plan has read, and snapshots
    seenPolicy,
    seenBlock,
    outcome,
    opened,      \* history: a change since plan's first read opened the bucket
    joined,      \* history: grantees added since plan read the ACL
    weakened     \* history: a setting was turned off since apply turned them on

bucket  == <<grants, policy, block>>
seen    == <<seenGrants, seenPolicy, seenBlock>>
history == <<opened, joined, weakened>>
vars    == <<bucket, pc, seen, outcome, history>>

Init ==
    /\ grants = {} /\ policy = "absent" /\ block = {}
    /\ pc = "acl"
    /\ seenGrants = {} /\ seenPolicy = "absent" /\ seenBlock = {}
    /\ outcome = "NONE"
    /\ opened = FALSE /\ joined = {} /\ weakened = FALSE

-----------------------------------------------------------------------------
(* What people do.  S3 rejects a public ACL or policy where it is blocked. *)
(* A change that opens the bucket is one of the four that the rule watches.*)
PutAcl(g) ==
    /\ "AllUsers" \notin g \/ "BlockPublicAcls" \notin block
    /\ grants' = g
    /\ joined' = joined \cup (g \ grants)
    /\ opened' = (opened \/ "AllUsers" \in g)
    /\ UNCHANGED <<policy, block, pc, seen, outcome, weakened>>

PutPolicy(p) ==
    /\ p \notin PublicPolicies \/ "BlockPublicPolicy" \notin block
    /\ policy' = p
    /\ opened' = (opened \/ p \in PublicPolicies)
    /\ UNCHANGED <<grants, block, pc, seen, outcome, joined, weakened>>

PutBlock(b) ==
    /\ block' = b
    /\ opened' = (opened \/ ~(block \subseteq b))
    /\ weakened' = (weakened \/ ~(block \subseteq b))
    /\ UNCHANGED <<grants, policy, pc, seen, outcome, joined>>

-----------------------------------------------------------------------------
(* Mutation: the snapshot keeps the public grants only. *)
ReadAclPublicOnly ==
    /\ pc = "acl"
    /\ seenGrants' = grants \cap {"AllUsers"}
    /\ pc' = "policy"
    /\ opened' = FALSE
    /\ joined' = {}
    /\ UNCHANGED <<bucket, seenPolicy, seenBlock, outcome, weakened>>

(* The event names no bucket: plan returns as of a harmless one, having    *)
(* read nothing.                                                           *)
NoBucket ==
    /\ pc = "acl"
    /\ pc' = "done"
    /\ outcome' = "NO_BUCKET"
    /\ UNCHANGED <<bucket, seen, history>>

(* plan's reads, in order.  One that answers "none configured" reads as an *)
(* absent policy or an empty block.                                        *)
ReadAcl ==
    /\ pc = "acl"
    /\ seenGrants' = grants
    /\ pc' = "policy"
    /\ opened' = FALSE
    /\ joined' = {}
    /\ UNCHANGED <<bucket, seenPolicy, seenBlock, outcome, weakened>>

ReadPolicy ==
    /\ pc = "policy"
    /\ seenPolicy' = policy
    /\ pc' = "block"
    /\ UNCHANGED <<bucket, seenGrants, seenBlock, outcome, history>>

ReadBlock ==
    /\ pc = "block"
    /\ seenBlock' = block
    /\ pc' = "tags"
    /\ UNCHANGED <<bucket, seenGrants, seenPolicy, outcome, history>>

(* What plan takes for public, and for complete.  _policy_is_public passes *)
(* every statement with a condition, and does not look at NotPrincipal.    *)
AclIsPublic      == "AllUsers" \in seenGrants
PolicyIsPublic   == seenPolicy = "open"
BlockIsComplete  == seenBlock = FULL_BLOCK_PUBLIC_ACCESS

IsBenign == ~(AclIsPublic \/ PolicyIsPublic) \/ BlockIsComplete

(* The last read, of the tags, and the decision. *)
ReadTags ==
    /\ pc = "tags"
    /\ IF IsBenign THEN pc' = "done" /\ outcome' = "BENIGN"
                   ELSE pc' = "putBlock" /\ UNCHANGED outcome
    /\ UNCHANGED <<bucket, seen, history>>

(* Mutation: a read that is denied answers as if nothing were configured.  *)
ReadRaisesSwallowed ==
    /\ pc \in {"acl", "policy", "block"}
    /\ pc' = IF pc = "acl" THEN "policy" ELSE IF pc = "policy" THEN "block" ELSE "tags"
    /\ opened' = (opened /\ pc # "acl")
    /\ UNCHANGED <<bucket, seen, outcome, joined, weakened>>

(* A read fails for another reason, AccessDenied above all: plan raises.   *)
ReadRaises ==
    /\ pc \in {"acl", "policy", "block", "tags"}
    /\ pc' = "done"
    /\ outcome' = "RAISED"
    /\ UNCHANGED <<bucket, seen, history>>

(* Mutation: the two settings that reject new grants are thought enough. *)
BlockPublicAccessTwo ==
    /\ pc = "putBlock"
    /\ block' = block \cup {"BlockPublicAcls", "BlockPublicPolicy"}
    /\ weakened' = FALSE
    /\ IF AclIsPublic THEN pc' = "putAcl" /\ UNCHANGED outcome
                      ELSE pc' = "done" /\ outcome' = "APPLIED"
    /\ UNCHANGED <<grants, policy, seen, opened, joined>>

(* apply turns all four settings on, and goes on only if the ACL was seen  *)
(* public; a public policy stays.                                          *)
BlockPublicAccess ==
    /\ pc = "putBlock"
    /\ block' = FULL_BLOCK_PUBLIC_ACCESS
    /\ weakened' = FALSE
    /\ IF AclIsPublic THEN pc' = "putAcl" /\ UNCHANGED outcome
                      ELSE pc' = "done" /\ outcome' = "APPLIED"
    /\ UNCHANGED <<grants, policy, seen, opened, joined>>

(* The reset to private drops every grant there is, seen or not. *)
ResetAcl ==
    /\ pc = "putAcl"
    /\ grants' = {}
    /\ pc' = "done"
    /\ outcome' = "APPLIED"
    /\ UNCHANGED <<policy, block, seen, history>>

(* A call of apply fails, whether or not S3 carried it out. *)
ApplyRaises ==
    /\ \/ pc = "putBlock" /\ block' \in {block, FULL_BLOCK_PUBLIC_ACCESS} /\ UNCHANGED grants
       \/ pc = "putAcl" /\ grants' \in {grants, {}} /\ UNCHANGED block
    /\ pc' = "done"
    /\ outcome' = "FAILED"
    /\ UNCHANGED <<policy, seen, history>>

(* The bucket's next event. *)
Again ==
    /\ pc = "done"
    /\ pc' = "acl"
    /\ outcome' = "NONE"
    /\ seenGrants' = {} /\ seenPolicy' = "absent" /\ seenBlock' = {}
    /\ opened' = FALSE /\ joined' = {} /\ weakened' = FALSE
    /\ UNCHANGED bucket

People ==
    \/ \E g \in SUBSET Grantees : PutAcl(g)
    \/ \E p \in Policies : PutPolicy(p)
    \/ \E b \in Blocks : PutBlock(b)

Handler ==
    \/ NoBucket \/ ReadAcl \/ ReadPolicy \/ ReadBlock \/ ReadTags \/ ReadRaises
    \/ BlockPublicAccess \/ ResetAcl \/ ApplyRaises \/ Again

Next == People \/ Handler

Spec == Init /\ [][Next]_vars

-----------------------------------------------------------------------------
(* Public as S3 sees it: a grant or a policy that no setting neutralises.  *)
PublicByAcl    == "AllUsers" \in grants /\ "IgnorePublicAcls" \notin block
PublicByPolicy == policy \in PublicPolicies /\ "RestrictPublicBuckets" \notin block
IsPublic       == PublicByAcl \/ PublicByPolicy

(* Although the reads may mix two states of the bucket (s3_public/         *)
(* handler.py:50-75), a verdict of harmless is wrong only of a bucket that *)
(* was opened after the first of them, which is a change with an event of  *)
(* its own, or that is public by a policy with a condition (151-159).      *)
BenignIsTrue ==
    outcome = "BENIGN" /\ ~opened => ~PublicByAcl /\ (PublicByPolicy => policy = "conditioned")

(* A bucket that was remediated is not public while nobody turns a setting *)
(* off, whatever becomes of its ACL and its policy, and although the       *)
(* policy is left in place (handler.py:9-12).                              *)
AppliedIsTrue == outcome = "APPLIED" /\ IsPublic => weakened

(* The reset drops the whole ACL, but no grant that the snapshot does not  *)
(* have, save one that was added after plan had read the ACL.              *)
ResetIsEvidenced ==
    [][Handler => grants \subseteq grants' \cup seenGrants \cup joined]_vars
=============================================================================
