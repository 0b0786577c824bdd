---------------------------- MODULE IntentForms -----------------------------
(***************************************************************************)
(* From a payload to a validated intent: the parsing and validation stages *)
(* of crates/statechronicle-intent/src (parse.rs, raw.rs, validate.rs,     *)
(* validated.rs) and the identifiers they build, in                        *)
(* crates/statechronicle-domain/src (ids.rs, intent.rs).                   *)
(*                                                                         *)
(* A text is what the validators can see of it: whether it has the prefix  *)
(* its kind asks for, how many characters it has in all, and whether one   *)
(* of them is a control character. A document also has its lengths, as it  *)
(* came and in its canonical encoding, and the depth of its deepest input, *)
(* counted from that input.                                                *)
(***************************************************************************)
EXTENDS Integers

CONSTANTS MaxIdLength,  \* MAX_ID_LENGTH
          PrefixLength, \* the characters of int_, evt_, cmt_, snp_ and stc_
          MaxBytes,     \* MAX_INTENT_BYTES
          MaxJsonDepth, \* MAX_JSON_DEPTH
          MaxNonceBytes,
          NoExpiry      \* an intent that does not expire

ASSUME FormsAssumption ==
    /\ MaxIdLength \in Nat /\ PrefixLength \in Nat /\ MaxBytes \in Nat
    /\ MaxJsonDepth \in Nat /\ MaxNonceBytes \in Nat

Text(prefixed, length, control) == [prefixed |-> prefixed, length |-> length, control |-> control]

(* validate_operation, validate_key_id, and the three scope identifiers of *)
(* try_from_intent.                                                        *)
ValidName(text) == text.length > 0 /\ ~text.control /\ text.length <= MaxIdLength

(* validate_id: the prefix and something after it.                         *)
ValidateId(text) ==
    text.prefixed /\ text.length > PrefixLength /\ ~text.control /\ text.length <= MaxIdLength

(* Nonce::from_b64u_str                                                    *)
ValidNonce(nonce) == nonce.prefixed /\ nonce.bytes <= MaxNonceBytes

(* expires_at must be later than created_at.                               *)
ValidExpiry(doc) == doc.expires_at = NoExpiry \/ doc.expires_at > doc.created_at

(* parse_intent: the document itself and the object of its inputs are two  *)
(* levels on top of the deepest input.                                     *)
ParseIntent(doc) == doc.bytes <= MaxBytes /\ doc.depth + 2 <= MaxJsonDepth

(* parse_signature                                                         *)
ParseSignature(signature) ==
    signature.alg = "ed25519" /\ ValidName(signature.key_id) /\ signature.well_formed

(* validate: the ids that have a checked type of their own. The tenant,    *)
(* the actor and the resource are taken as they come.                      *)
Validate(doc) ==
    /\ doc.schema
    /\ ValidateId(doc.intent_id) /\ ValidName(doc.operation)
    /\ ValidExpiry(doc)
    /\ ValidNonce(doc.nonce)
    /\ \A s \in doc.signatures : ParseSignature(s)

(* Variant: an intent may expire the moment it is created.                 *)
TryFromIntentLate(doc) ==
    /\ doc.schema
    /\ \A text \in {doc.tenant, doc.actor, doc.resource} : ValidName(text)
    /\ (doc.expires_at = NoExpiry \/ doc.expires_at > doc.created_at + 1)
    /\ doc.depth <= MaxJsonDepth /\ doc.canonical <= MaxBytes

(* try_from_intent: an intent that is typed already.                       *)
TryFromIntent(doc) ==
    /\ doc.schema
    /\ \A text \in {doc.tenant, doc.actor, doc.resource} : ValidName(text)
    /\ ValidExpiry(doc)
    /\ doc.depth <= MaxJsonDepth
    /\ doc.canonical <= MaxBytes

(* is_expired, conflict::check_expiry                                      *)
IsExpired(doc, at) == doc.expires_at # NoExpiry /\ doc.expires_at <= at
=============================================================================
