---------------------------- MODULE SecureStore ----------------------------
(***************************************************************************)
(* What the device keeps across a power cut: the key and certificate slots *)
(* of the secure store (linux/security.c behind crypto.c and crypto_sw.c)  *)
(* and the two entries of the key-value store that enrolment writes, the   *)
(* thing name of the AWS provider and the registered marker of the core.   *)
(*                                                                         *)
(* A key is a number: 0 is an empty slot, 1..MaxMint are the keys generated *)
(* into the slot, in order; Legacy is the signing key that an older release *)
(* left in EC_0 and Claim the bootstrap key the application configures.     *)
(* A certificate is named by the key it certifies.                          *)
(***************************************************************************)
EXTENDS Integers, FiniteSets

CONSTANT MaxMint    \* keys generated into one slot, and sessions opened

ASSUME MaxMintAssumption == MaxMint \in Nat \ {0}

VARIABLES
  slot,     \* [Slots -> key or certificate]
  thing,    \* the stored thing name: none, this device's, or another one
  marker,   \* the registered marker is stored
  minted    \* what was generated so far, per slot, and the sessions

storeVars == <<slot, thing, marker, minted>>

\* cloud.h: EC_0/X509_0 claim, EC_1/X509_1 runtime, EC_2 device signer.
Slots == {"EC_0", "X509_0", "EC_1", "X509_1", "EC_2"}
Fresh == {"EC_1", "EC_2", "session"}

None == 0
Legacy == MaxMint + 1
Claim == MaxMint + 2
Keys == 0..Claim

----------------------------------------------------------------------------
(* The files of linux/security.c: one per slot, replaced by a rename.       *)

\* sec_open_store_dir: a missing directory is created for a write; nothing is
\* stored then.
OpenStoreDir(create) ==
  {"OK", "IO"} \cup
    (IF create \/ \E s \in Slots : slot[s] # None THEN {} ELSE {"NO_RESOURCE"})

\* The system calls of a write that may fail: creating and filling the temporary
\* file, copying the old one, the rename, the sync of the directory, removing the
\* copy, and putting the old file back.
FileCalls == {"temp", "copy", "rename", "sync", "unlink", "restore"}

\* sec_create_backup copies the old file, if there is one.
BackedUp(old, fails) == old = None \/ "copy" \notin fails

\* Where actrust_sec_store_write has reached its rename; what comes after it is
\* undone by renaming the copy back or, without an old file, removing the new one.
Renamed(old, fails) ==
  {"temp", "rename"} \cap fails = {} /\ BackedUp(old, fails)
Confirmed(old, fails) == "sync" \notin fails /\ (old = None \/ "unlink" \notin fails)

StoreWrite(old, v, fails) ==
  LET done == Renamed(old, fails) /\ Confirmed(old, fails)
      kept == done \/ (Renamed(old, fails) /\ "restore" \in fails)
  IN  [ok |-> done, content |-> IF kept THEN v ELSE old]

\* actrust_sec_store_write on slot s. A power cut in the middle leaves the old or
\* the new content, as a failure does.
Writes(s, v) ==
  LET opened == {StoreWrite(slot[s], v, fails) : fails \in SUBSET FileCalls}
  IN  UNION {IF dir = "OK" THEN {[ok |-> w.ok, slot |-> [slot EXCEPT ![s] = w.content]] :
                                   w \in opened}
             ELSE {[ok |-> FALSE, slot |-> slot]} : dir \in OpenStoreDir(TRUE)}

\* actrust_sec_store_read: the content, an absent slot, or an I/O error.
Reads(s) ==
  UNION {IF dir = "OK" THEN {IF slot[s] = None THEN "NO_RESOURCE" ELSE "OK", "IO"}
         ELSE {dir} : dir \in OpenStoreDir(FALSE)}

\* actrust_sec_store_delete: a failed unlink leaves the slot.
Deletes(s) == {slot, [slot EXCEPT ![s] = None]}

----------------------------------------------------------------------------
(* The software backend, crypto_sw.c                                        *)

\* sw_store_key_blob
StoreKeyBlob(s, k) == Writes(s, k)

\* sw_crypto_key_generate_ec_impl: nothing is stored when no key is found.
SwKeyGenerate(s) == StoreKeyBlob(s, minted[s] + 1)

\* key_deserialize: a blob from which no key can be rebuilt is an error, not an
\* absent slot.
Rebuilt(res) == IF res = "OK" THEN {"OK", "IO"} ELSE {res}

\* sw_crypto_key_open reads the blob and rebuilds the key.
SwKeyOpen(s) == UNION {Rebuilt(res) : res \in Reads(s)}

\* sw_crypto_key_migrate: open the source, write its blob to the target.
SwKeyMigrate(s, t) ==
  UNION {IF res = "OK" THEN Writes(t, slot[s]) ELSE {[ok |-> FALSE, slot |-> slot]} :
           res \in SwKeyOpen(s)}

\* sw_crypto_key_import: parse the PEM, then sw_store_key_blob.
SwKeyImport(s, k) == StoreKeyBlob(s, k)

\* sw_crypto_key_destroy
SwKeyDestroy(s) == Deletes(s)

----------------------------------------------------------------------------
(* The dispatch of crypto.c: by the table of keys to a backend, which is    *)
(* the software one for every key of this profile                           *)

KeyTable == [EC_0 |-> "EC", EC_1 |-> "EC", AES_0 |-> "AES", EC_2 |-> "EC"]
Refused == {[ok |-> FALSE, slot |-> slot]}

KeyGenerate(s) == IF s \in DOMAIN KeyTable THEN SwKeyGenerate(s) ELSE Refused
KeyOpen(s) == IF s \in DOMAIN KeyTable THEN SwKeyOpen(s) ELSE {"INVALID_ARG"}
KeyImport(s, k) == IF s \in DOMAIN KeyTable THEN SwKeyImport(s, k) ELSE Refused
KeyDestroy(s) == IF s \in DOMAIN KeyTable THEN SwKeyDestroy(s) ELSE {slot}

\* actrust_crypto_key_migrate: between two different keys of one type.
KeyMigrate(s, t) ==
  IF s # t /\ {s, t} \subseteq DOMAIN KeyTable /\ KeyTable[s] = KeyTable[t]
    THEN SwKeyMigrate(s, t) ELSE Refused

\* actrust_crypto_cert_write, _read and _delete go straight to the store.
CertWrite(s, c) == Writes(s, c)
CertRead(s) == Reads(s)
CertDelete(s) == Deletes(s)

----------------------------------------------------------------------------
\* A device as manufactured, one that an older release registered (its signing
\* key is in EC_0), and one whose stored identity belongs to another product.
StoreInit ==
  /\ minted = [f \in Fresh |-> 0]
  /\ \/ /\ slot = [s \in Slots |-> None]
        /\ thing = "none" /\ marker = FALSE
     \/ /\ slot = [[s \in Slots |-> None] EXCEPT !["EC_0"] = Legacy]
        /\ thing = "none" /\ marker = TRUE
     \/ /\ slot = [[s \in Slots |-> None] EXCEPT !["EC_1"] = Legacy,
                                                !["X509_1"] = Legacy]
        /\ thing = "other" /\ marker = FALSE

StoreTypeOK ==
  /\ slot \in [Slots -> Keys]
  /\ thing \in {"none", "own", "other"}
  /\ marker \in BOOLEAN
  /\ minted \in [Fresh -> 0..MaxMint]
=============================================================================
