--------------------------------- MODULE Hsm ---------------------------------
(***************************************************************************)
(* Key custody (security/hsm.py) and the model provenance signed with it   *)
(* (provenance/signing.py).  A handle is a side and a label, and is        *)
(* resolved by its label each time it is used.  The in-memory backend      *)
(* refuses a label twice, under its lock; a PKCS#11 token takes any label  *)
(* again, and the first object a search yields is then any of them.        *)
(* sign_model() lists, generates, signs and exports in four calls.         *)
(* Keys are numbers; a ciphertext or signature is the key that made it.    *)
(***************************************************************************)
EXTENDS Naturals, FiniteSets

CONSTANTS Labels, MaxHsmKeys, MaxOutputs,
          Signers   \* threads that call sign_model(), once each

ASSUME HsmAssumption == {MaxHsmKeys, MaxOutputs} \subseteq Nat

VARIABLES backend,    \* the backend from_config chose, or "none" / "refused"
          hsmKeys,    \* key pairs: [label, key]
          handed,     \* ghost: [label, key] of each handle pair handed out
          outputs,    \* ciphertexts and signatures: [label, key]
          hsmOpened,  \* the outcome of the last decrypt or verify
          keysMade,
          signer      \* signer[s]: where its sign_model() is, and its result

hsmVars == <<backend, hsmKeys, handed, outputs, hsmOpened, keysMade, signer>>

HsmInit ==
  /\ backend = "none" /\ hsmKeys = {} /\ handed = {} /\ outputs = {}
  /\ hsmOpened = "none" /\ keysMade = 0
  /\ signer = [s \in Signers |-> [at |-> "idle"]]

\* HSMBackend.from_config: in_memory unless told otherwise; softhsm2 needs the
\* library, its module file and an initialised token; other names are refused.
FromConfig(name, ready) ==
  /\ backend = "none"
  /\ backend' = IF name \in {"absent", "in_memory"} THEN "in_memory"
                ELSE IF name = "softhsm2" /\ ready THEN "softhsm2"
                ELSE "refused"
  /\ UNCHANGED <<hsmKeys, handed, outputs, hsmOpened, keysMade, signer>>

LabelsHeld == {k.label : k \in hsmKeys}

\* A new pair under the label and its handles.
StoreKey(label) ==
  /\ keysMade < MaxHsmKeys
  /\ keysMade' = keysMade + 1
  /\ hsmKeys' = hsmKeys \cup {[label |-> label, key |-> keysMade']}
  /\ handed' = handed \cup {[label |-> label, key |-> keysMade']}
  /\ UNCHANGED <<backend, outputs, hsmOpened>>

\* InMemoryHSMBackend.generate_keypair: ValueError when the label is taken.
GenerateInMemory(label) ==
  /\ backend = "in_memory" /\ label \notin LabelsHeld
  /\ StoreKey(label)

\* SoftHSM2Backend.generate_keypair
GenerateOnToken(label) ==
  /\ backend = "softhsm2"
  /\ StoreKey(label)

Generate(label) == GenerateInMemory(label) \/ GenerateOnToken(label)

\* _resolve / the object search: any key under the label.
Resolve(label) == {k.key : k \in {x \in hsmKeys : x.label = label}}

\* encrypt (public side) or sign (private side), with a handle handed out.
UseKey(label) ==
  /\ label \in LabelsHeld /\ Cardinality(outputs) < MaxOutputs
  /\ \E key \in Resolve(label) :
       outputs' = outputs \cup {[label |-> label, key |-> key]}
  /\ UNCHANGED <<backend, hsmKeys, handed, hsmOpened, keysMade, signer>>

\* decrypt or verify with the other handle of the pair.
OpenOutput(o) ==
  /\ \E key \in Resolve(o.label) :
       hsmOpened' = IF key = o.key THEN "ok" ELSE "failed"
  /\ UNCHANGED <<backend, hsmKeys, handed, outputs, keysMade, signer>>

-----------------------------------------------------------------------------
(* sign_model and verify_model.                                            *)

SignerAt(s, next) == signer' = [signer EXCEPT ![s] = next]

\* list_keys: whether the signer's label is there.
ListKeys(s, label) ==
  /\ signer[s].at = "idle" /\ backend \in {"in_memory", "softhsm2"}
  /\ SignerAt(s, [at |-> IF label \in LabelsHeld THEN "sign" ELSE "generate",
                  label |-> label])
  /\ UNCHANGED <<backend, hsmKeys, handed, outputs, hsmOpened, keysMade>>

\* generate_keypair; another signer may have been faster, and the in-memory
\* backend then raises out of sign_model().
GenerateForSigner(s) ==
  /\ signer[s].at = "generate"
  /\ \/ /\ Generate(signer[s].label)
        /\ SignerAt(s, [signer[s] EXCEPT !.at = "sign"])
     \/ /\ backend = "in_memory" /\ signer[s].label \in LabelsHeld
        /\ SignerAt(s, [at |-> "raised"])
        /\ UNCHANGED <<backend, hsmKeys, handed, outputs, hsmOpened, keysMade>>

SignPayload(s) ==
  /\ signer[s].at = "sign"
  /\ \E key \in Resolve(signer[s].label) :
       SignerAt(s, [at |-> "export", label |-> signer[s].label, by |-> key])
  /\ UNCHANGED <<backend, hsmKeys, handed, outputs, hsmOpened, keysMade>>

\* export_public: the public key as SPKI, or the bare modulus from a token.
ExportPublic(s) ==
  /\ signer[s].at = "export"
  /\ \E key \in Resolve(signer[s].label) :
       SignerAt(s, [at |-> "signed", by |-> signer[s].by, embedded |-> key,
                    form |-> IF backend = "in_memory" THEN "spki" ELSE "modulus"])
  /\ UNCHANGED <<backend, hsmKeys, handed, outputs, hsmOpened, keysMade>>

\* verify_model of a provenance under the key pinned, 0 for none: what is no
\* SPKI does not load, and raises.
VerifyModel(p, pinned) ==
  IF pinned \notin {0, p.embedded} THEN "rejected"
  ELSE IF p.form # "spki" THEN "raises"
  ELSE IF p.by = p.embedded THEN "verified" ELSE "rejected"

HsmNext ==
  \/ \E name \in {"absent", "in_memory", "softhsm2", "unknown"}, ready \in BOOLEAN :
       FromConfig(name, ready)
  \/ \E label \in Labels : \/ Generate(label) /\ UNCHANGED signer
                           \/ UseKey(label)
  \/ \E o \in outputs : OpenOutput(o)
  \/ \E s \in Signers :
       \/ \E label \in Labels : ListKeys(s, label)
       \/ GenerateForSigner(s) \/ SignPayload(s) \/ ExportPublic(s)

HsmSpec == HsmInit /\ [][HsmNext]_hsmVars

HsmTypeOK ==
  /\ backend \in {"none", "refused", "in_memory", "softhsm2"}
  /\ hsmKeys \subseteq [label : Labels, key : 1..MaxHsmKeys]
  /\ hsmOpened \in {"none", "ok", "failed"}
  /\ \A s \in Signers :
       signer[s].at \in {"idle", "generate", "sign", "export", "signed", "raised"}

\* No label was generated twice, which only a PKCS#11 token lets happen.
LabelsUnique ==
  \A x, y \in handed : backend = "softhsm2" /\ x.label = y.label => x = y

\* A handle means the pair it was handed out for, for good: whatever labels are
\* generated afterwards, by signers that race for the same new label too, what
\* was made with one side opens with the other, and a model signed in memory
\* verifies under the key embedded with it, and under no other one pinned.  On a
\* PKCS#11 token the handles keep their keys as long as no label was generated
\* twice.
HandlesKeepKeys ==
  LabelsUnique =>
    /\ \A h \in handed : Resolve(h.label) = {h.key}
    /\ hsmOpened # "failed"
    /\ \A s \in Signers :
         signer[s].at = "signed" =>
           \A pinned \in 0..MaxHsmKeys :
             /\ VerifyModel(signer[s], pinned) = "verified" =>
                  pinned \in {0, signer[s].by}
             /\ backend = "in_memory" /\ pinned \in {0, signer[s].by} =>
                  VerifyModel(signer[s], pinned) = "verified"
=============================================================================
