------------------------------ MODULE Handlers ------------------------------
(***************************************************************************)
(* The shapes of the three detections: which parts of a resource can be    *)
(* dangerous, for which of their combinations plan returns None, and which *)
(* parts each AWS call of apply removes.  Pipeline takes them as its       *)
(* constants Parts, Benign and Calls.                                      *)
(***************************************************************************)

CONSTANT SgRules   \* the world-open entries there may be on sensitive ports

(* sg-open: any such entry is a finding, and one call revokes all that the *)
(* plan saw.                                                               *)
SgParts  == SgRules
SgBenign == {{}}
SgCalls  == <<SgParts>>

(* s3-public: Block Public Access is incomplete, the ACL grants the world, *)
(* the bucket policy does.  A grant is a finding only when it is not       *)
(* blocked.                                                                *)
S3Parts  == {"unblocked", "acl", "policy"}
S3Benign == {s \in SUBSET S3Parts : {"acl", "policy"} \cap s = {} \/ "unblocked" \notin s}

(* apply completes the block, then resets the ACL if the plan saw it       *)
(* public; the policy stays.                                               *)
S3Calls  == <<{"unblocked"}, {"acl"}>>

(* s3-public again, of a bucket that never has a policy. *)
AclParts  == S3Parts \ {"policy"}
AclBenign == {s \in S3Benign : s \subseteq AclParts}

(* iam-key-leak: plan acts on a key unless it is listed as inactive, and   *)
(* one call deactivates it.  A key that is not listed at all is such a key *)
(* too: its call always raises (see IamKeyLeak).                           *)
IamParts  == {"notInactive"}
IamBenign == {{}}
IamCalls  == <<IamParts>>
=============================================================================
