---------------------------- MODULE ArtefactVault ----------------------------
(***************************************************************************)
(* The artefact vault (runtime/artefact_vault.py): model files under their *)
(* hash.  store() writes beside the file and renames, then writes the      *)
(* metadata in place, under a lock of its process only.  A hash stands for *)
(* the content; a file is absent, torn or whole, or altered by other hands.*)
(***************************************************************************)
EXTENDS Naturals, FiniteSets

CONSTANTS Shas,       \* contents, by their hash
          Vaults,     \* processes, each with a vault on the same root
          MaxStores   \* calls of store()

ASSUME VaultAssumption == Shas # {} /\ MaxStores \in Nat

Contents == {"absent", "torn", "whole", "altered"}

VARIABLES vBin,    \* vBin[h]: h.bin
          vTmp,    \* vTmp[h]: h.bin.tmp
          vMeta,   \* vMeta[h]: the sidecar
          vAt,     \* vAt[p]: where p's store() is, and of what
          vDone,   \* the hashes store() has returned
          vShared, \* ghost: two processes stored the same content at once
          vMeddled,\* ghost: files altered from outside
          vStores

vaultVars == <<vBin, vTmp, vMeta, vAt, vDone, vShared, vMeddled, vStores>>

NoStore == [at |-> "idle", sha |-> CHOOSE h \in Shas : TRUE]

VaultInit ==
  /\ vBin = [h \in Shas |-> "absent"]
  /\ vTmp = [h \in Shas |-> "absent"]
  /\ vMeta = [h \in Shas |-> "absent"]
  /\ vAt = [p \in Vaults |-> NoStore]
  /\ vDone = {} /\ vMeddled = {}
  /\ vShared = FALSE
  /\ vStores = 0

Going(p, next) == vAt' = [vAt EXCEPT ![p].at = next]

\* store(): the lock is taken; a file that is there is not written again.
StoreArtefact(p, h) ==
  /\ vAt[p].at = "idle" /\ vStores < MaxStores
  /\ vStores' = vStores + 1
  /\ vAt' = [vAt EXCEPT ![p] = [at |-> IF vBin[h] = "absent" THEN "open" ELSE "meta",
                                sha |-> h]]
  /\ vShared' = (vShared \/ \E q \in Vaults : vAt[q].at # "idle" /\ vAt[q].sha = h)
  /\ UNCHANGED <<vBin, vTmp, vMeta, vDone, vMeddled>>

\* Fault: the file is written in place.
OpenBin(p) ==
  /\ vAt[p].at = "open"
  /\ vBin' = [vBin EXCEPT ![vAt[p].sha] = "torn"]
  /\ vTmp' = [vTmp EXCEPT ![vAt[p].sha] = "torn"]
  /\ Going(p, "write")
  /\ UNCHANGED <<vMeta, vDone, vShared, vMeddled, vStores>>

\* write_bytes of the temporary file: opened and truncated ...
OpenTmp(p) ==
  /\ vAt[p].at = "open"
  /\ vTmp' = [vTmp EXCEPT ![vAt[p].sha] = "torn"]
  /\ Going(p, "write")
  /\ UNCHANGED <<vBin, vMeta, vDone, vShared, vMeddled, vStores>>

\* ... and written, wherever the name it was opened under has gone since: the
\* other process may have renamed it over the file.
WriteTmp(p) ==
  LET h == vAt[p].sha
  IN  /\ vAt[p].at = "write"
      /\ \/ /\ vTmp[h] # "absent"
            /\ vTmp' = [vTmp EXCEPT ![h] = "whole"]
            /\ UNCHANGED vBin
         \/ /\ vTmp[h] = "absent"
            /\ vBin' = [vBin EXCEPT ![h] = "whole"]
            /\ UNCHANGED vTmp
      /\ Going(p, "rename")
      /\ UNCHANGED <<vMeta, vDone, vShared, vMeddled, vStores>>

\* replace(): atomic; it raises when the temporary file is gone.
Rename(p) ==
  LET h == vAt[p].sha
  IN  /\ vAt[p].at = "rename"
      /\ \/ /\ vTmp[h] # "absent"
            /\ vBin' = [vBin EXCEPT ![h] = vTmp[h]]
            /\ vTmp' = [vTmp EXCEPT ![h] = "absent"]
            /\ Going(p, "meta")
         \/ /\ vTmp[h] = "absent"
            /\ Going(p, "idle")
            /\ UNCHANGED <<vBin, vTmp>>
      /\ UNCHANGED <<vMeta, vDone, vShared, vMeddled, vStores>>

\* write_text of the sidecar: truncated, then written.
OpenMeta(p) ==
  /\ vAt[p].at = "meta"
  /\ vMeta' = [vMeta EXCEPT ![vAt[p].sha] = "torn"]
  /\ Going(p, "metaWrite")
  /\ UNCHANGED <<vBin, vTmp, vDone, vShared, vMeddled, vStores>>

WriteMeta(p) ==
  /\ vAt[p].at = "metaWrite"
  /\ vMeta' = [vMeta EXCEPT ![vAt[p].sha] = "whole"]
  /\ vDone' = vDone \cup {vAt[p].sha}
  /\ Going(p, "idle")
  /\ UNCHANGED <<vBin, vTmp, vShared, vMeddled, vStores>>

\* The process dies, or the disk is full, in the middle of store().
StoreDies(p) ==
  /\ vAt[p].at # "idle"
  /\ Going(p, "idle")
  /\ UNCHANGED <<vBin, vTmp, vMeta, vDone, vShared, vMeddled, vStores>>

\* A stored file is altered by other hands.
Meddle(h) ==
  /\ vBin[h] = "whole" /\ vMeddled = {}
  /\ vBin' = [vBin EXCEPT ![h] = "altered"]
  /\ vMeddled' = {h}
  /\ UNCHANGED <<vTmp, vMeta, vAt, vDone, vShared, vStores>>

VaultNext ==
  \/ \E p \in Vaults :
       \/ \E h \in Shas : StoreArtefact(p, h)
       \/ OpenTmp(p) \/ WriteTmp(p) \/ Rename(p) \/ OpenMeta(p) \/ WriteMeta(p)
       \/ StoreDies(p)
  \/ \E h \in Shas : Meddle(h)

VaultSpec == VaultInit /\ [][VaultNext]_vaultVars

\* retrieve(): the content, or an exception.
Retrieve(h) ==
  IF vBin[h] = "absent" THEN "FileNotFoundError"
  ELSE IF vBin[h] # "whole" THEN "IntegrityError"
  ELSE "content"

\* list_artefacts(): sidecars that do not parse are passed over, where
\* metadata() of one raises.
ListArtefacts == {h \in Shas : vMeta[h] = "whole"}

VaultTypeOK ==
  /\ vBin \in [Shas -> Contents] /\ vTmp \in [Shas -> Contents]
  /\ vMeta \in [Shas -> Contents]
  /\ vDone \subseteq Shas /\ vStores \in 0..MaxStores

\* A stored artefact stays retrievable: whatever store() dies in the middle of,
\* its own first write or a repeated one, the file is absent or whole, never
\* torn, so that exists() never stands in the way of storing it again; and it is
\* listed only if it is there.  Two processes that store the same content at
\* once share the temporary file and are excepted.
ArtefactsWhole ==
  ~vShared =>
    \A h \in Shas \ vMeddled :
      /\ Retrieve(h) # "IntegrityError"
      /\ h \in vDone \cup ListArtefacts => Retrieve(h) = "content"
=============================================================================
