----------------------------- MODULE IamKeyLeak -----------------------------
(***************************************************************************)
(* The iam-key-leak handler on one access key, with the exclusion check    *)
(* that execute makes of its plan: three reads, two of which count a       *)
(* failure as nothing found, and one write, while people deactivate,       *)
(* reactivate and delete the key and tag its user.                         *)
(***************************************************************************)
EXTENDS TLC

(* The holders GuardDuty may name: user_type and user_name, a missing name *)
(* counting as a holder of its own.                                        *)
Holders == {"IAMUser", "AssumedRole", "Root", "nameless"}

VARIABLES
    key,          \* the key's Status in IAM, or Deleted
    tagged,       \* the user carries the exclusion tag
    pc,
    holder,       \* who holds the credential of the finding
    metadata,     \* the Status that plan listed, "none" for a key not found
    tags,         \* whether plan saw the exclusion tag
    outcome,
    unread,       \* history: the tags could not be read
    retagged,     \* history: tagged since plan read the tags
    touched,      \* history: people changed the key since plan listed it
    reactivated,  \* history: people activated it since plan listed it
    ours          \* history: this invocation deactivated it

history == <<unread, retagged, touched, reactivated, ours>>
local   == <<holder, metadata, tags>>
vars    == <<key, tagged, pc, local, outcome, history>>

Init ==
    /\ key = "Active" /\ tagged = FALSE
    /\ pc = "event" /\ holder = "IAMUser" /\ metadata = "none" /\ tags = FALSE
    /\ outcome = "NONE"
    /\ unread = FALSE /\ retagged = FALSE
    /\ touched = FALSE /\ reactivated = FALSE /\ ours = FALSE

Finish(status) == pc' = "done" /\ outcome' = status

(* People use IAM.  A deleted key stays deleted. *)
SetKey(status) ==
    /\ key \notin {status, "Deleted"}
    /\ key' = status
    /\ touched' = TRUE
    /\ reactivated' = (reactivated \/ status = "Active")
    /\ UNCHANGED <<tagged, pc, local, outcome, unread, retagged, ours>>

TagUser ==
    /\ tagged' = ~tagged
    /\ retagged' = TRUE
    /\ UNCHANGED <<key, pc, local, outcome, unread, touched, reactivated, ours>>

(* A finding; one that names no key is no business of the handler. *)
Receive(h) ==
    /\ pc = "event"
    /\ \/ pc' = "lastUsed" /\ UNCHANGED outcome
       \/ Finish("NO_KEY")
    /\ holder' = h
    /\ UNCHANGED <<key, tagged, metadata, tags, history>>

(* The last use is evidence, not a condition: a failed read is an empty    *)
(* one.  What is not a user's key goes to a human.                         *)
LastUsed ==
    /\ pc = "lastUsed"
    /\ IF holder = "IAMUser" THEN pc' = "list" /\ UNCHANGED outcome
                             ELSE Finish("ESCALATED")
    /\ UNCHANGED <<key, tagged, local, history>>

(* Mutation: an inactive key is planned for like any other. *)
ListKeysAlways ==
    /\ pc = "list"
    /\ metadata' = IF key = "Deleted" THEN "none" ELSE key
    /\ pc' = "tags"
    /\ touched' = FALSE /\ reactivated' = FALSE
    /\ UNCHANGED <<key, tagged, holder, tags, outcome, unread, retagged, ours>>

(* plan looks the key up among the user's; it returns None for an inactive *)
(* one, and goes on with one that is not there.                            *)
ListKeys ==
    /\ pc = "list"
    /\ metadata' = IF key = "Deleted" THEN "none" ELSE key
    /\ IF key = "Inactive" THEN Finish("BENIGN") ELSE pc' = "tags" /\ UNCHANGED outcome
    /\ touched' = FALSE /\ reactivated' = FALSE
    /\ UNCHANGED <<key, tagged, holder, tags, unread, retagged, ours>>

(* The user is gone, or the read is denied: plan raises. *)
ListKeysRaises ==
    /\ pc = "list"
    /\ Finish("RAISED")
    /\ UNCHANGED <<key, tagged, local, history>>

(* A failure to list the user's tags reads as no tags. *)
UserTags ==
    /\ pc = "tags"
    /\ \E read \in BOOLEAN :
          /\ tags' = (read /\ tagged)
          /\ unread' = ~read
    /\ pc' = "exclusion"
    /\ retagged' = FALSE
    /\ UNCHANGED <<key, tagged, holder, metadata, outcome, touched, reactivated, ours>>

(* Mutation: the tag alerts but does not exclude. *)
ExclusionIgnored ==
    /\ pc = "exclusion"
    /\ pc' = "apply" /\ UNCHANGED outcome
    /\ UNCHANGED <<key, tagged, local, history>>

(* execute compares the plan's tags with the exclusion tag. *)
Exclusion ==
    /\ pc = "exclusion"
    /\ IF tags THEN Finish("SKIPPED") ELSE pc' = "apply" /\ UNCHANGED outcome
    /\ UNCHANGED <<key, tagged, local, history>>

(* update_access_key: deactivates an active key, leaves an inactive one.   *)
Apply ==
    /\ pc = "apply"
    /\ key # "Deleted"
    /\ key' = "Inactive"
    /\ ours' = (key = "Active")
    /\ Finish("APPLIED")
    /\ UNCHANGED <<tagged, local, unread, retagged, touched, reactivated>>

(* Mutation: an error of IAM is not noticed. *)
ApplyRaisesUnnoticed ==
    /\ pc = "apply"
    /\ Finish("APPLIED")
    /\ UNCHANGED <<key, tagged, local, history>>

(* The key is gone (NoSuchEntity), or IAM fails, perhaps after the change. *)
ApplyRaises ==
    /\ pc = "apply"
    /\ \/ UNCHANGED <<key, ours>>
       \/ key # "Deleted" /\ key' = "Inactive" /\ ours' = (key = "Active")
    /\ Finish("FAILED")
    /\ UNCHANGED <<tagged, local, unread, retagged, touched, reactivated>>

(* The next finding on the key. *)
Again ==
    /\ pc = "done"
    /\ pc' = "event" /\ outcome' = "NONE"
    /\ metadata' = "none" /\ tags' = FALSE
    /\ unread' = FALSE /\ retagged' = FALSE
    /\ touched' = FALSE /\ reactivated' = FALSE /\ ours' = FALSE
    /\ UNCHANGED <<key, tagged, holder>>

Next ==
    \/ \E status \in {"Active", "Inactive", "Deleted"} : SetKey(status)
    \/ TagUser
    \/ \E h \in Holders : Receive(h)
    \/ LastUsed \/ ListKeys \/ ListKeysRaises \/ UserTags \/ Exclusion
    \/ Apply \/ ApplyRaises \/ Again

Spec == Init /\ [][Next]_vars

-----------------------------------------------------------------------------
(* An excluded user's key is deactivated only when the tags could not be   *)
(* read, or were changed after they were (handler.py:167-171): the race    *)
(* and the failure that the exclusion tag does not guard against, and no   *)
(* others.                                                                 *)
ExclusionHonoured == ours /\ tagged => unread \/ retagged

(* handler.py:77-78: no misleading APPLIED record.  A deactivation on      *)
(* record was made by this invocation, unless people changed the key       *)
(* between its listing and the write.                                      *)
AppliedIsOurs == outcome = "APPLIED" => ours \/ touched

(* A key that was called deactivated or inactive cannot be used until      *)
(* somebody activates it again.                                            *)
KeyIsDisabled == outcome \in {"APPLIED", "BENIGN"} /\ key = "Active" => reactivated
=============================================================================
