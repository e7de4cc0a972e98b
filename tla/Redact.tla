------------------------------- MODULE Redact -------------------------------
(***************************************************************************)
(* What leaves the function, for the audit table and for Slack, and what   *)
(* redact.scrub makes of it.  The snapshot, tags and blast radius of a plan*)
(* are scrubbed on their way into the audit item, and the alert as a whole *)
(* is; the other texts of the item are written as they are.                *)
(*                                                                         *)
(* A nested value is the set of its leaves.  A leaf is where it stands,    *)
(* the keys from the outside in, and what its text says: secrets, which    *)
(* nothing but their key gives away; tokens, which have a shape; and the   *)
(* identifiers of resources and keys.  Numbers and bytes are left out.     *)
(***************************************************************************)
EXTENDS Naturals, Sequences

CONSTANTS
    Sensitive,   \* the keys of mappings that name a credential
    TokenKeys,   \* those that have a token in them
    Values,      \* the nested values: sets of [path, says]
    Texts        \* what reasons, actions and errors may say

(* What a text may say, and whether it says so in its first _MAX_STRING    *)
(* characters, also behind the label that the alert puts in front.         *)
Contents == [what : {"secret", "token", "id"}, at : {"head", "tail"}]

VARIABLES
    stage,   \* how far the invocation has come
    value,   \* a plan's structures: snapshot, tags and blast radius
    text,    \* the reason, the actions and the error of the outcome
    item,    \* what the audit item has of the value
    raw,     \* what the other texts of the item say
    alert    \* the texts of the alert

vars == <<stage, value, text, item, raw, alert>>

-----------------------------------------------------------------------------
(* _key_is_sensitive, of the keys on the way to a leaf: a value under such *)
(* a key is replaced as a whole.                                           *)
SensitiveAt(path) == {i \in DOMAIN path : path[i] \in Sensitive}

(* Mutation: identifiers of keys are taken for secrets. *)
scrub_text_ids(says) == {c \in says : c.what \notin {"token", "id"} /\ c.at = "head"}

(* Tokens are taken out wherever they stand; then the text is cut off. *)
scrub_text(says) == {c \in says : c.what # "token" /\ c.at = "head"}

(* A mapping's keys are left as they are. *)
ScrubLeaf(leaf) ==
    IF SensitiveAt(leaf.path) = {}
      THEN [path |-> leaf.path, says |-> scrub_text(leaf.says)]
      ELSE [path |-> SubSeq(leaf.path, 1, CHOOSE i \in SensitiveAt(leaf.path) :
                                              \A j \in SensitiveAt(leaf.path) : i <= j),
            says |-> {}]

scrub(v) == {ScrubLeaf(leaf) : leaf \in v}

(* A value rendered as one text: the keys have become a part of it. *)
KeysSay(path) == {[what |-> "token", at |-> "head"] : i \in {j \in DOMAIN path : path[j] \in TokenKeys}}
Flatten(v)    == UNION {leaf.says \cup KeysSay(leaf.path) : leaf \in v}

(* Mutation: scrubbed when the keys have become text. *)
RenderBlastRadiusFirst(v) == scrub_text(Flatten(v))

(* _render_blast_radius and _code *)
RenderBlastRadius(v) == scrub_text(Flatten(scrub(v)))

Init ==
    /\ stage = "plan"
    /\ value = {} /\ text = {} /\ item = {} /\ raw = {} /\ alert = {}

(* audit.open: what plan has found, and as they are its reason, the actions*)
(* it intends and what the event says of the caller.                       *)
Open(v, t) ==
    /\ stage = "plan"
    /\ stage' = "close"
    /\ value' = v
    /\ item' = scrub(v)
    /\ raw' = t
    /\ UNCHANGED <<text, alert>>

(* audit.record_unplanned has no structures; the reason, with the value of *)
(* an exclusion tag, is written as it is.  The plan goes into the alert.   *)
RecordUnplanned(v, t) ==
    /\ stage = "plan"
    /\ stage' = "alert"
    /\ value' = v
    /\ text' = t
    /\ raw' = t
    /\ UNCHANGED <<item, alert>>

(* audit.close: the outcome's texts as they are. *)
Close(t) ==
    /\ stage = "close"
    /\ stage' = "alert"
    /\ text' = t
    /\ raw' = raw \cup t
    /\ UNCHANGED <<value, item, alert>>

(* build_payload scrubs each text, and then the payload as a whole.  What  *)
(* is joined with others in one text, in the blast radius and the list of  *)
(* actions, may be behind the cut there: uncut is what is not.            *)
Alert(uncut) ==
    /\ stage = "alert"
    /\ stage' = "done"
    /\ uncut \subseteq RenderBlastRadius(value) \cup scrub_text(text)
    /\ alert' = scrub({[path |-> <<"blocks">>, says |-> uncut],
                       [path |-> <<"blocks">>, says |-> scrub_text(text)]})
    /\ UNCHANGED <<value, text, item, raw>>

(* A secret has the name of one: it stands under a sensitive key.  Texts   *)
(* may say anything else.                                                  *)
IsNamed(leaf) == \E i \in DOMAIN leaf.path : leaf.path[i] \in Sensitive
Secrets(says) == {c \in says : c.what = "secret"}

InputValues == {v \in Values : \A leaf \in v : Secrets(leaf.says) # {} => IsNamed(leaf)}
InputTexts  == {t \in Texts : Secrets(t) = {}}

Next ==
    \/ /\ stage = "plan"
       /\ \E v \in InputValues, t \in InputTexts : Open(v, t) \/ RecordUnplanned(v, t)
    \/ \E t \in InputTexts : Close(t)
    \/ \E uncut \in SUBSET (RenderBlastRadius(value) \cup scrub_text(text)) : Alert(uncut)

Spec == Init /\ [][Next]_vars

-----------------------------------------------------------------------------
Credentials(says) == {c \in says : c.what \in {"secret", "token"}}

(* What goes through scrub has no credential in it, whichever way a value  *)
(* is nested and although rendering it turns its keys into text (redact.py:*)
(* 3-11, slack.py:200-207).  redact.py:3-4 has it that everything written  *)
(* does: not so the item's other texts (raw) and the keys of its mappings, *)
(* which may have tokens in them.                                          *)
ScrubbedIsClean == \A leaf \in item \cup alert : Credentials(leaf.says) = {}

IsEvidence(c) == c.what = "id" /\ c.at = "head"

(* The identifiers that the alert is useless without (redact.py:13-15) and *)
(* the snapshot is evidence of get through as far as texts are not cut off,*)
(* unless a key hides them; and the item's other texts have all of them.   *)
EvidenceStays ==
    /\ item # {} => \A leaf \in value : \A c \in leaf.says :
          IsEvidence(c) /\ ~IsNamed(leaf) =>
              \E kept \in item : kept.path = leaf.path /\ c \in kept.says
    /\ \A c \in text :
          /\ c.what = "id" => c \in raw
          /\ alert # {} /\ IsEvidence(c) => \E leaf \in alert : c \in leaf.says
=============================================================================
