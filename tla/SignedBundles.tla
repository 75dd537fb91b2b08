--------------------------- MODULE SignedBundles ---------------------------
(***************************************************************************)
(* The signed requests of the two run services: review_bundle.py and       *)
(* plagiarism_bundle.py.  Both accept an envelope of payload, key id and   *)
(* signature; the payloads differ.  Of a payload are kept the fields that  *)
(* are compared with something; "texts" and "objects" say whether all its  *)
(* plain strings, digests, paths and nested objects are well formed.       *)
(* Signing is outside the system: "signed" says which key would verify the *)
(* signature over exactly these payload bytes.                             *)
(***************************************************************************)
EXTENDS Integers, Sequences, FiniteSets

CONSTANTS
  Keys,           \* the key ids for which the services have a public key
  MaxValidity,    \* 15 minutes
  MaxSubmissions, \* 1000
  NightlyModel    \* the only model of nightly requests

ASSUME BundleConstants == MaxValidity \in Nat \ {0} /\ MaxSubmissions \in Nat \ {0}

(* A stored request is read back without asking for the time.              *)
AnyTime == -1

(* The envelope has exactly its three fields, its key is known, and the    *)
(* signature is of that key (_verify_signed_payload).                      *)
SignatureVerified(e) == e.fields /\ e.key \in Keys /\ e.signed = e.key

(* The window is half open, and not longer than MaxValidity.               *)
InWindow(e, now) ==
  /\ e.issued < e.expires /\ e.expires - e.issued <= MaxValidity
  /\ now # AnyTime => e.issued <= now /\ now < e.expires

ValidSource(e) ==
  /\ e.source \in {"manual", "nightly"}
  /\ e.source = "nightly" => e.model = NightlyModel

ValidSubmission(s) == s.canonical /\ s.texts /\ s.runState = "Success"

ValidBasis(e) == e.basis

VerifyReviewBundle(e, now) ==
  /\ SignatureVerified(e)
  /\ e.schema = "review-bundle-v1" /\ e.audience = "oj-checker"
  /\ ValidSource(e) /\ e.texts
  /\ InWindow(e, now)
  /\ Len(e.submissions) = 1 /\ ValidSubmission(e.submissions[1])
  /\ ValidBasis(e)

(* The submissions are those of one lab, each once, with the target.       *)
ValidCorpus(e) ==
  /\ Len(e.submissions) \in 1..MaxSubmissions
  /\ \A i \in DOMAIN e.submissions :
       /\ e.submissions[i].canonical /\ e.submissions[i].texts
       /\ e.submissions[i].lab = e.submissions[1].lab
       /\ \A j \in DOMAIN e.submissions :
            i # j => e.submissions[i].id # e.submissions[j].id
  /\ \E i \in DOMAIN e.submissions : e.submissions[i].id = e.target

VerifyPlagiarismBundle(e, now) ==
  /\ SignatureVerified(e)
  /\ e.schema = "plagiarism-review-bundle-v1" /\ e.audience = "oj-checker"
  /\ e.source = "manual" /\ e.texts
  /\ InWindow(e, now)
  /\ ValidCorpus(e) /\ ValidBasis(e)

=============================================================================
