-------------------------- MODULE EnrolmentProofs --------------------------
(***************************************************************************)
(* Enrolment is right for any number of keys, sessions, power cuts and     *)
(* attempts and any length of the downlink queue: every answer the server  *)
(* gets is sound, the registered marker stands for an accepted key, and a  *)
(* complete identity can connect, each with the exceptions its definition  *)
(* names.                                                                  *)
(***************************************************************************)
EXTENDS Enrolment, SequenceTheorems, TLAPS

(* Where a registration is in progress, where its key is in use, and where *)
(* its session has been sent to the server.                                *)
Pending == {"await_challenge", "took_challenge", "answer", "await_result", "took_result"}
Signing == Pending \cup {"request"}
Active == Signing \cup {"keypair", "cleanup"}

(* A message of the server belongs to a session that was opened, a         *)
(* challenge carries that session's nonce or none, and a good result was   *)
(* sent for a key the server accepted.                                     *)
GoodMessage(m) ==
  /\ m.session \in 1..minted["session"]
  /\ m.kind = "challenge" => m.nonce \in {None, m.session}
  /\ m.kind = "result" /\ m.status = "ok" => asked[m.session] \in accepted

ServerInv ==
  /\ \A m \in wire : GoodMessage(m)
  /\ \A i \in DOMAIN dlq : dlq[i] \in wire
  /\ \A m \in sent : m.session \in 1..minted["session"]
  /\ None \notin accepted

(* A registration signs with the key in EC_2, which is the key it has told *)
(* the server, and ends without an error only if that key was accepted.    *)
RegisterInv ==
  /\ reg.inProgress <=> pc \in Active
  /\ reg.inProgress => reg.nonce \in {None, reg.session}
  /\ pc \in Signing => signKey = slot["EC_2"] /\ signKey # None
  /\ pc \in Pending =>
       reg.session \in 1..minted["session"] /\ asked[reg.session] = signKey
  /\ pc = "answer" => reg.nonce # None
  /\ pc \in {"await_result", "took_result"} =>
       reg.phase = "WAIT_RESULT" /\ (reg.ok => signKey \in accepted)
  /\ pc = "commit" \/ (pc = "cleanup" /\ ~failed) => slot["EC_2"] \in accepted

(* Only a device that is not registered registers, and init overwrites     *)
(* EC_0 only when a registered device no longer needs it.                  *)
MarkerInv ==
  /\ pc \in Active \cup {"commit"} => state = "unregistered"
  /\ state = "unregistered" => ~marker \/ torn
  /\ pc \in {"claim_cert", "claim_key"} /\ marker /\ ~torn => slot["EC_2"] \in accepted

(* An attempt at provisioning, once its key is generated.                  *)
Attempt == pc \in Provisioning \ {"request_cert"}

(* Nothing AWS has sent is newer than the last key.  Within an attempt, a  *)
(* certificate for the last key means that key is stored; its ownership    *)
(* token, that the certificate is stored too; a registration with it, that *)
(* AWS has attached it - unless a late answer was applied.                 *)
Complete == slot["EC_1"] = minted["EC_1"] /\ slot["X509_1"] = minted["EC_1"]

ProvisionInv ==
  /\ token <= minted["EC_1"]
  /\ \A m \in mail : m.key <= minted["EC_1"]
  /\ \A m \in mail : m.kind = "register" /\ m.name # "rejected" => m.key \in enrolled
  /\ Attempt => \A m \in mail :
       m.kind = "csr" /\ m.key = minted["EC_1"] => slot["EC_1"] = minted["EC_1"]
  /\ Attempt /\ excuse = {} =>
       /\ token = minted["EC_1"] => Complete
       /\ \A m \in mail :
            m.kind = "register" /\ m.name # "rejected" /\ m.key = minted["EC_1"] => Complete
       /\ thing = "own" => Complete /\ minted["EC_1"] \in enrolled
  /\ pc \in {"first", "request_cert"} /\ excuse = {} => thing = "none"

EnrolInv ==
  TypeOK /\ AnswersSound /\ MarkerHasKey /\ IdentityUsable
    /\ ServerInv /\ RegisterInv /\ MarkerInv /\ ProvisionInv

-----------------------------------------------------------------------------
(* The secure store.  Whatever fails in it, a write leaves the old or the  *)
(* new content, and the new one if it succeeds.                            *)
Outcome(w, s, v) ==
  /\ w.slot = slot \/ w.slot = [slot EXCEPT ![s] = v]
  /\ w.ok => w.slot = [slot EXCEPT ![s] = v]

(* Every write the secure store offers has such an outcome.                *)
LEMMA WritesOutcome ==
  ASSUME slot \in [Slots -> Keys], NEW s \in Slots, NEW v, NEW w \in Writes(s, v)
  PROVE  Outcome(w, s, v)
<1>1. [slot EXCEPT ![s] = slot[s]] = slot
  OBVIOUS
<1>2. \/ w = [ok |-> FALSE, slot |-> slot]
      \/ \E fails \in SUBSET FileCalls :
           w = [ok |-> StoreWrite(slot[s], v, fails).ok,
                slot |-> [slot EXCEPT ![s] = StoreWrite(slot[s], v, fails).content]]
  BY DEF Writes
<1>3. ASSUME NEW fails \in SUBSET FileCalls
      PROVE  /\ StoreWrite(slot[s], v, fails).content \in {v, slot[s]}
             /\ StoreWrite(slot[s], v, fails).ok => StoreWrite(slot[s], v, fails).content = v
  BY DEF StoreWrite
<1>4. CASE w = [ok |-> FALSE, slot |-> slot]
  <2>1. w.slot = slot /\ ~w.ok
    BY <1>4
  <2> QED BY <2>1 DEF Outcome
<1>5. ASSUME NEW fails \in SUBSET FileCalls,
             w = [ok |-> StoreWrite(slot[s], v, fails).ok,
                  slot |-> [slot EXCEPT ![s] = StoreWrite(slot[s], v, fails).content]]
      PROVE  Outcome(w, s, v)
  <2>1. /\ w.slot = [slot EXCEPT ![s] = StoreWrite(slot[s], v, fails).content]
        /\ w.ok => StoreWrite(slot[s], v, fails).ok
    BY <1>5
  <2> QED BY <1>1, <1>3, <2>1 DEF Outcome
<1> QED BY <1>2, <1>4, <1>5

(* The operations on the five slots.                                       *)
LEMMA KeyOutcomes ==
  ASSUME slot \in [Slots -> Keys]
  PROVE  /\ \A s \in {"EC_0", "EC_1", "EC_2"} :
              /\ \A w \in KeyGenerate(s) : Outcome(w, s, minted[s] + 1)
              /\ \A k : \A w \in KeyImport(s, k) : Outcome(w, s, k)
              /\ \A r \in KeyDestroy(s) : r = slot \/ r = [slot EXCEPT ![s] = None]
         /\ \A w \in KeyMigrate("EC_0", "EC_2") : Outcome(w, "EC_2", slot["EC_0"])
         /\ \A s \in {"X509_0", "X509_1"} :
              /\ \A c : \A w \in CertWrite(s, c) : Outcome(w, s, c)
              /\ \A r \in CertDelete(s) : r = slot \/ r = [slot EXCEPT ![s] = None]
<1>0. /\ {"EC_0", "EC_1", "EC_2", "X509_0", "X509_1"} = Slots
      /\ {"EC_0", "EC_1", "EC_2"} \subseteq DOMAIN KeyTable
      /\ KeyTable["EC_0"] = KeyTable["EC_2"]
  BY DEF Slots, KeyTable
<1>1. ASSUME NEW s \in {"EC_0", "EC_1", "EC_2"}, NEW w \in KeyGenerate(s)
      PROVE  Outcome(w, s, minted[s] + 1)
  <2>1. w \in Writes(s, minted[s] + 1) /\ s \in Slots
    BY <1>0, <1>1 DEF KeyGenerate, SwKeyGenerate, StoreKeyBlob
  <2> QED BY <2>1, WritesOutcome
<1>2. ASSUME NEW s \in {"EC_0", "EC_1", "EC_2"}, NEW k, NEW w \in KeyImport(s, k)
      PROVE  Outcome(w, s, k)
  <2>1. w \in Writes(s, k) /\ s \in Slots
    BY <1>0, <1>2 DEF KeyImport, SwKeyImport, StoreKeyBlob
  <2> QED BY <2>1, WritesOutcome
<1>3. ASSUME NEW s \in {"EC_0", "EC_1", "EC_2"}, NEW r \in KeyDestroy(s)
      PROVE  r = slot \/ r = [slot EXCEPT ![s] = None]
  BY <1>0, <1>3 DEF KeyDestroy, SwKeyDestroy, Deletes
<1>4. ASSUME NEW w \in KeyMigrate("EC_0", "EC_2") PROVE Outcome(w, "EC_2", slot["EC_0"])
  <2>1. w \in SwKeyMigrate("EC_0", "EC_2")
    BY <1>0, <1>4 DEF KeyMigrate
  <2>2. w \in Writes("EC_2", slot["EC_0"]) \/ w = [ok |-> FALSE, slot |-> slot]
    BY <2>1 DEF SwKeyMigrate
  <2>3. "EC_2" \in Slots
    BY <1>0
  <2>4. CASE w = [ok |-> FALSE, slot |-> slot]
    <3>1. w.slot = slot /\ ~w.ok
      BY <2>4
    <3> QED BY <3>1 DEF Outcome
  <2> QED BY <2>2, <2>3, <2>4, WritesOutcome
<1>5. ASSUME NEW s \in {"X509_0", "X509_1"}, NEW c, NEW w \in CertWrite(s, c)
      PROVE  Outcome(w, s, c)
  BY <1>0, <1>5, WritesOutcome DEF CertWrite
<1>6. ASSUME NEW s \in {"X509_0", "X509_1"}, NEW r \in CertDelete(s)
      PROVE  r = slot \/ r = [slot EXCEPT ![s] = None]
  BY <1>6 DEF CertDelete, Deletes
<1> QED BY <1>1, <1>2, <1>3, <1>4, <1>5, <1>6

(* A key that opens is there, and one that is reported absent is not.      *)
LEMMA KeyOpenMeans ==
  ASSUME NEW s \in {"EC_0", "EC_1", "EC_2"}, NEW res \in KeyOpen(s)
  PROVE  /\ res \in {"OK", "IO", "NO_RESOURCE"}
         /\ res = "OK" => slot[s] # None
         /\ res = "NO_RESOURCE" => slot[s] = None
<1>1. s \in DOMAIN KeyTable /\ s \in Slots
  BY DEF KeyTable, Slots
<1>2. PICK r \in Reads(s) : res \in Rebuilt(r)
  BY <1>1 DEF KeyOpen, SwKeyOpen
<1>3. /\ r \in {"OK", "IO", "NO_RESOURCE"}
      /\ r = "OK" => slot[s] # None
      /\ r = "NO_RESOURCE" => slot[s] = None
  BY <1>1, <1>2 DEF Reads, OpenStoreDir
<1> QED BY <1>2, <1>3 DEF Rebuilt

(* A write of a key leaves slots that hold keys.                           *)
LEMMA OutcomeTyped ==
  ASSUME slot \in [Slots -> Keys], NEW w, NEW s \in Slots, NEW v \in Keys, Outcome(w, s, v)
  PROVE  /\ w.slot \in [Slots -> Keys] /\ w.slot[s] \in {slot[s], v}
         /\ w.ok => w.slot[s] = v
         /\ \A r \in Slots : r # s => w.slot[r] = slot[r]
BY DEF Outcome

(* A step of the provider leaves the core's part of the store alone.       *)
CoreKept ==
  /\ marker' = marker /\ slot'["EC_0"] = slot["EC_0"] /\ slot'["EC_2"] = slot["EC_2"]
  /\ minted'["EC_2"] = minted["EC_2"] /\ minted'["session"] = minted["session"]
  /\ pc \in AwsPcs /\ pc' \in AwsPcs \cup {"ready", "connected"}

AwsTypes ==
  slot \in [Slots -> Keys] /\ thing \in {"none", "own", "other"}
    /\ minted \in [Fresh -> 0..MaxMint] /\ AwsTypeOK

(* The provider's steps: its own state stays well formed, and the core's   *)
(* part of the store stays as it is.                                       *)
LEMMA AwsStep ==
  ASSUME TypeOK, AwsNext
  PROVE  AwsTypes' /\ CoreKept
<1>0. /\ slot \in [Slots -> Keys] /\ thing \in {"none", "own", "other"}
      /\ minted \in [Fresh -> 0..MaxMint] /\ AwsTypeOK
      /\ MaxMint \in Nat \ {0} /\ "EC_1" \in Slots /\ "X509_1" \in Slots /\ None \in 0..MaxMint
      /\ 0..MaxMint \subseteq Keys
  BY MaxMintAssumption DEF TypeOK, StoreTypeOK, Slots, None, Keys, Claim
<1> USE <1>0
<1> USE DEF Goto, storeVars
<1>1. ASSUME RuntimeConnect PROVE AwsTypes' /\ CoreKept
  BY <1>1 DEF RuntimeConnect, Clear, NotReady,
     AwsTypes, AwsTypeOK, CoreKept, AwsPcs, Provisioning, Phases
<1>2. ASSUME FirstConnect PROVE AwsTypes' /\ CoreKept
  BY <1>2 DEF FirstConnect, Clear,
     AwsTypes, AwsTypeOK, CoreKept, AwsPcs, Provisioning, Phases
<1>3. ASSUME RequestCert PROVE AwsTypes' /\ CoreKept
  <2>1. PICK w \in KeyGenerate("EC_1") :
          /\ slot' = w.slot
          /\ \/ Abandon /\ UNCHANGED mail
             \/ /\ w.ok
                /\ \E answer \in BOOLEAN, accept \in BOOLEAN :
                     mail' = mail \cup (IF ~answer THEN {} ELSE
                       {[kind |-> "csr", ok |-> accept, key |-> minted'["EC_1"]]})
                /\ Goto("arm_cert") /\ UNCHANGED then
    BY <1>3 DEF RequestCert
  <2>2. /\ minted["EC_1"] + 1 \in 0..MaxMint /\ minted' = [minted EXCEPT !["EC_1"] = @ + 1]
        /\ pc = "request_cert" /\ UNCHANGED <<thing, marker, phase, token, enrolled, excuse>>
    BY <1>3 DEF RequestCert, Fresh
  <2>3. minted' \in [Fresh -> 0..MaxMint] /\ minted'["EC_1"] = minted["EC_1"] + 1
        /\ minted'["EC_2"] = minted["EC_2"] /\ minted'["session"] = minted["session"]
    BY <2>2 DEF Fresh
  <2>4. Outcome(w, "EC_1", minted["EC_1"] + 1)
    BY KeyOutcomes
  <2>5. /\ slot' \in [Slots -> Keys]
        /\ slot'["EC_0"] = slot["EC_0"] /\ slot'["EC_2"] = slot["EC_2"]
    BY <2>1, <2>2, <2>4, OutcomeTyped DEF Slots
  <2>6. mail' \subseteq Answers
    <3>1. CASE UNCHANGED mail
      BY <3>1 DEF AwsTypeOK
    <3>2. ASSUME NEW answer \in BOOLEAN, NEW accept \in BOOLEAN,
                 mail' = mail \cup (IF ~answer THEN {} ELSE
                   {[kind |-> "csr", ok |-> accept, key |-> minted'["EC_1"]]})
          PROVE  mail' \subseteq Answers
      <4>1. [kind |-> "csr", ok |-> accept, key |-> minted'["EC_1"]] \in Answers
        BY <2>2, <2>3 DEF Answers
      <4> QED BY <3>2, <4>1 DEF AwsTypeOK
    <3> QED BY <2>1, <3>1, <3>2
  <2>7. pc' \in {"leave", "arm_cert"} /\ then' = then
    BY <2>1 DEF Abandon, Goto
  <2> QED BY <2>2, <2>3, <2>5, <2>6, <2>7 DEF AwsTypes, AwsTypeOK, CoreKept, AwsPcs, Provisioning
<1>4. ASSUME ArmCert PROVE AwsTypes' /\ CoreKept
  BY <1>4 DEF ArmCert, Arm,
     AwsTypes, AwsTypeOK, CoreKept, AwsPcs, Provisioning, Phases
<1>5. ASSUME AwaitCert PROVE AwsTypes' /\ CoreKept
  BY <1>5 DEF AwaitCert, Await, Abandon,
     AwsTypes, AwsTypeOK, CoreKept, AwsPcs, Provisioning, Phases
<1>6. ASSUME RequestRegister PROVE AwsTypes' /\ CoreKept
  <2>1. /\ UNCHANGED <<slot, thing, marker, minted, phase, token, excuse>> /\ then' = then
        /\ pc = "request_register" /\ pc' \in {"leave", "arm_register"}
    BY <1>6 DEF RequestRegister, storeVars, Abandon, Goto
  <2>2. token \in Keys
    BY DEF AwsTypeOK
  <2>3. \A name \in {"own", "other", "rejected"} :
          [kind |-> "register", name |-> name, key |-> token] \in Answers
    BY <2>2 DEF Answers
  <2>4. mail' \subseteq Answers /\ enrolled' \subseteq Keys \ {None}
    BY <1>6, <2>2, <2>3 DEF RequestRegister, AwsTypeOK
  <2> QED BY <2>1, <2>4 DEF AwsTypes, AwsTypeOK, CoreKept, AwsPcs, Provisioning
<1>7. ASSUME ArmRegister PROVE AwsTypes' /\ CoreKept
  BY <1>7 DEF ArmRegister, Arm,
     AwsTypes, AwsTypeOK, CoreKept, AwsPcs, Provisioning, Phases
<1>8. ASSUME AwaitRegister PROVE AwsTypes' /\ CoreKept
  BY <1>8 DEF AwaitRegister, Await, Abandon,
     AwsTypes, AwsTypeOK, CoreKept, AwsPcs, Provisioning, Phases
<1>9. ASSUME Finish PROVE AwsTypes' /\ CoreKept
  BY <1>9 DEF Finish,
     AwsTypes, AwsTypeOK, CoreKept, AwsPcs, Provisioning, Phases
<1>10. ASSUME Leave PROVE AwsTypes' /\ CoreKept
  BY <1>10 DEF Leave, Clear,
     AwsTypes, AwsTypeOK, CoreKept, AwsPcs, Provisioning, Phases
<1>11. ASSUME ClearKey PROVE AwsTypes' /\ CoreKept
  <2>1. slot' = slot \/ slot' = [slot EXCEPT !["EC_1"] = None]
    BY <1>11, KeyOutcomes DEF ClearKey
  <2>2. slot' \in [Slots -> Keys] /\ slot'["EC_0"] = slot["EC_0"] /\ slot'["EC_2"] = slot["EC_2"]
    BY <2>1 DEF Slots
  <2> QED BY <1>11, <2>2 DEF ClearKey, AwsTypes, AwsTypeOK, CoreKept, AwsPcs, Goto
<1>12. ASSUME ClearCert PROVE AwsTypes' /\ CoreKept
  <2>1. slot' = slot \/ slot' = [slot EXCEPT !["X509_1"] = None]
    BY <1>12, KeyOutcomes DEF ClearCert
  <2>2. slot' \in [Slots -> Keys] /\ slot'["EC_0"] = slot["EC_0"] /\ slot'["EC_2"] = slot["EC_2"]
    BY <2>1 DEF Slots
  <2> QED BY <1>12, <2>2 DEF ClearCert, AwsTypes, AwsTypeOK, CoreKept, AwsPcs, Goto
<1>13. ASSUME ClearThing PROVE AwsTypes' /\ CoreKept
  BY <1>13 DEF ClearThing,
     AwsTypes, AwsTypeOK, CoreKept, AwsPcs, Provisioning, Phases
<1>14. ASSUME RegistrationCallback PROVE AwsTypes' /\ CoreKept
  <2>1. PICK m \in mail : \/ HandleCsrAccepted(m) \/ HandleCsrRejected(m)
                          \/ HandleRegisterAccepted(m) \/ HandleRegisterRejected(m)
    BY <1>14 DEF RegistrationCallback
  <2>2. UNCHANGED <<marker, minted, pc, then, mail, enrolled>> /\ pc \in AwsPcs
    BY <1>14 DEF RegistrationCallback, AwsPcs
  <2>3. ASSUME HandleCsrAccepted(m) PROVE AwsTypes' /\ CoreKept
    <3>1. m.key \in 0..MaxMint
      BY <2>3 DEF HandleCsrAccepted, AwsTypeOK, Answers
    <3>2. PICK w \in CertWrite("X509_1", m.key) :
            /\ slot' = w.slot /\ excuse' = excuse \cup Late(m.key)
            /\ \/ w.ok /\ token' = m.key /\ phase' = "CSR_ACCEPTED"
               \/ UNCHANGED <<token, phase>>
      BY <2>3 DEF HandleCsrAccepted
    <3>3. Outcome(w, "X509_1", m.key)
      BY KeyOutcomes
    <3>4. /\ slot' \in [Slots -> Keys]
          /\ slot'["EC_0"] = slot["EC_0"] /\ slot'["EC_2"] = slot["EC_2"]
      BY <3>1, <3>2, <3>3, OutcomeTyped DEF Slots
    <3>5. token' \in 0..MaxMint /\ phase' \in Phases /\ excuse' \subseteq {"late", "uncleared"}
      BY <3>1, <3>2 DEF AwsTypeOK, Phases, Late
    <3> QED BY <2>2, <2>3, <3>4, <3>5 DEF HandleCsrAccepted, AwsTypes, AwsTypeOK, CoreKept
  <2>4. ASSUME HandleCsrRejected(m) \/ HandleRegisterAccepted(m) \/ HandleRegisterRejected(m)
        PROVE AwsTypes' /\ CoreKept
    <3>1. slot' = slot /\ token' = token /\ thing' \in {thing, "own"}
      BY <2>4 DEF HandleCsrRejected, HandleRegisterAccepted, HandleRegisterRejected
    <3>2. phase' \in Phases /\ excuse' \subseteq {"late", "uncleared"}
      BY <2>4 DEF HandleCsrRejected, HandleRegisterAccepted, HandleRegisterRejected, AwsTypeOK,
         Phases, Late
    <3> QED BY <2>2, <3>1, <3>2 DEF AwsTypes, AwsTypeOK, CoreKept
  <2> QED BY <2>1, <2>3, <2>4
<1> QED
  BY <1>1, <1>2, <1>3, <1>4, <1>5, <1>6, <1>7, <1>8, <1>9, <1>10, <1>11, <1>12, <1>13,
     <1>14 DEF AwsNext

(* A step of the core leaves the provider's part alone, and is outside of  *)
(* every attempt at provisioning.                                          *)
AwsKept ==
  /\ UNCHANGED <<thing, mail, enrolled, excuse>> /\ token' \in {token, None}
  /\ slot'["EC_1"] = slot["EC_1"] /\ slot'["X509_1"] = slot["X509_1"]
  /\ minted'["EC_1"] = minted["EC_1"]
  /\ pc' \in CorePcs \cup {"runtime"}

(* The core's steps: the store and the provider's state stay well formed,  *)
(* and the provider's part of the store stays as it is.                    *)
LEMMA CoreStep ==
  ASSUME TypeOK, CoreNext
  PROVE  AwsTypes' /\ AwsKept
<1>0. /\ slot \in [Slots -> Keys] /\ thing \in {"none", "own", "other"}
      /\ minted \in [Fresh -> 0..MaxMint] /\ AwsTypeOK
      /\ MaxMint \in Nat \ {0} /\ Claim \in Keys /\ None \in 0..MaxMint
      /\ 0..MaxMint \subseteq Keys
  BY MaxMintAssumption DEF TypeOK, StoreTypeOK, Slots, None, Keys, Claim
<1> USE <1>0
<1>1. ASSUME StartInit PROVE AwsTypes' /\ AwsKept
  BY <1>1 DEF StartInit,
     AwsTypes, AwsTypeOK, AwsKept, CorePcs, Online, Registering, storeVars, awsVars, provider,
     coreVars, Goto
<1>2. ASSUME PrepareSigningKey PROVE AwsTypes' /\ AwsKept
  <2>1. /\ UNCHANGED <<thing, minted, provider>>
        /\ pc' \in {"claim_cert", "off"}
        /\ slot' = slot \/ \E w \in KeyMigrate("EC_0", "EC_2") : slot' = w.slot
    BY <1>2 DEF PrepareSigningKey, Goto
  <2>2. slot["EC_0"] \in Keys
    BY DEF Slots
  <2>3. slot' \in [Slots -> Keys] /\ slot'["EC_1"] = slot["EC_1"] /\ slot'["X509_1"] = slot["X509_1"]
    BY <2>1, <2>2, KeyOutcomes, OutcomeTyped DEF Slots
  <2> QED BY <2>1, <2>3 DEF AwsTypes, AwsTypeOK, AwsKept, CorePcs, provider
<1>3. ASSUME StoreClaimCert PROVE AwsTypes' /\ AwsKept
  <2>1. /\ UNCHANGED <<thing, minted, provider>>
        /\ pc' \in {"claim_key", "off", "ready"}
        /\ slot' = slot \/ \E w \in CertWrite("X509_0", Claim) : slot' = w.slot
    BY <1>3 DEF StoreClaimCert, FailInit, Goto
  <2>2. slot' \in [Slots -> Keys] /\ slot'["EC_1"] = slot["EC_1"] /\ slot'["X509_1"] = slot["X509_1"]
    BY <2>1, KeyOutcomes, OutcomeTyped DEF Slots
  <2> QED BY <2>1, <2>2 DEF AwsTypes, AwsTypeOK, AwsKept, CorePcs, provider
<1>4. ASSUME StoreClaimKey PROVE AwsTypes' /\ AwsKept
  <2>1. /\ UNCHANGED <<thing, minted, provider>>
        /\ pc' \in {"off", "ready"}
        /\ \E w \in KeyImport("EC_0", Claim) : slot' = w.slot
    BY <1>4 DEF StoreClaimKey, FailInit, Goto
  <2>2. slot' \in [Slots -> Keys] /\ slot'["EC_1"] = slot["EC_1"] /\ slot'["X509_1"] = slot["X509_1"]
    BY <2>1, KeyOutcomes, OutcomeTyped DEF Slots
  <2> QED BY <2>1, <2>2 DEF AwsTypes, AwsTypeOK, AwsKept, CorePcs, provider
<1>5. ASSUME Connect PROVE AwsTypes' /\ AwsKept
  BY <1>5 DEF Connect,
     AwsTypes, AwsTypeOK, AwsKept, CorePcs, Online, Registering, storeVars, awsVars, provider,
     coreVars, Goto
<1>6. ASSUME FinishConnect PROVE AwsTypes' /\ AwsKept
  BY <1>6 DEF FinishConnect,
     AwsTypes, AwsTypeOK, AwsKept, CorePcs, Online, Registering, storeVars, awsVars, provider,
     coreVars, Goto
<1>7. ASSUME Disconnect PROVE AwsTypes' /\ AwsKept
  BY <1>7 DEF Disconnect,
     AwsTypes, AwsTypeOK, AwsKept, CorePcs, Online, Registering, storeVars, awsVars, provider,
     coreVars, Goto
<1>8. ASSUME Register PROVE AwsTypes' /\ AwsKept
  BY <1>8 DEF Register,
     AwsTypes, AwsTypeOK, AwsKept, CorePcs, Online, Registering, storeVars, awsVars, provider,
     coreVars, Goto
<1>9. ASSUME MakeKeypair PROVE AwsTypes' /\ AwsKept
  <2>1. /\ UNCHANGED <<thing, provider>> /\ pc' \in {"request", "cleanup"}
        /\ \E w \in KeyGenerate("EC_2") : slot' = w.slot
        /\ minted["EC_2"] + 1 \in 0..MaxMint /\ minted' = [minted EXCEPT !["EC_2"] = @ + 1]
    BY <1>9 DEF MakeKeypair, Fail, Goto, Fresh
  <2>2. minted' \in [Fresh -> 0..MaxMint] /\ minted'["EC_1"] = minted["EC_1"]
    BY <2>1 DEF Fresh
  <2>3. slot' \in [Slots -> Keys] /\ slot'["EC_1"] = slot["EC_1"] /\ slot'["X509_1"] = slot["X509_1"]
    BY <2>1, KeyOutcomes, OutcomeTyped DEF Slots
  <2> QED BY <2>1, <2>2, <2>3
          DEF AwsTypes, AwsTypeOK, AwsKept, CorePcs, Online, Registering, provider
<1>10. ASSUME RequestChallenge PROVE AwsTypes' /\ AwsKept
  <2>1. /\ UNCHANGED <<slot, thing, provider>> /\ pc' \in {"await_challenge", "cleanup"}
        /\ minted["session"] + 1 \in 0..MaxMint
        /\ minted' = [minted EXCEPT !["session"] = minted["session"] + 1]
    BY <1>10 DEF RequestChallenge, FreshSession, Fail, Goto, Fresh
  <2>2. minted' \in [Fresh -> 0..MaxMint] /\ minted'["EC_1"] = minted["EC_1"]
    BY <2>1 DEF Fresh
  <2> QED BY <2>1, <2>2
          DEF AwsTypes, AwsTypeOK, AwsKept, CorePcs, Online, Registering, provider
<1>11. ASSUME AwaitChallenge PROVE AwsTypes' /\ AwsKept
  BY <1>11 DEF AwaitChallenge, TakePost,
     AwsTypes, AwsTypeOK, AwsKept, CorePcs, Online, Registering, storeVars, awsVars, provider,
     coreVars, Goto
<1>12. ASSUME TookChallenge PROVE AwsTypes' /\ AwsKept
  BY <1>12 DEF TookChallenge, TakeOutcome,
     AwsTypes, AwsTypeOK, AwsKept, CorePcs, Online, Registering, storeVars, awsVars, provider,
     coreVars, Goto
<1>13. ASSUME AnswerChallenge PROVE AwsTypes' /\ AwsKept
  BY <1>13 DEF AnswerChallenge, Fail, ChallengeResponse,
     AwsTypes, AwsTypeOK, AwsKept, CorePcs, Online, Registering, storeVars, awsVars, provider,
     coreVars, Goto
<1>14. ASSUME AwaitResult PROVE AwsTypes' /\ AwsKept
  BY <1>14 DEF AwaitResult, TakePost,
     AwsTypes, AwsTypeOK, AwsKept, CorePcs, Online, Registering, storeVars, awsVars, provider,
     coreVars, Goto
<1>15. ASSUME TookResult PROVE AwsTypes' /\ AwsKept
  BY <1>15 DEF TookResult, TakeOutcome,
     AwsTypes, AwsTypeOK, AwsKept, CorePcs, Online, Registering, storeVars, awsVars, provider,
     coreVars, Goto
<1>16. ASSUME Cleanup PROVE AwsTypes' /\ AwsKept
  <2>1. /\ UNCHANGED <<thing, minted, provider>> /\ pc' \in {"online", "commit"}
        /\ slot' = slot \/ slot' = [slot EXCEPT !["EC_2"] = None]
    BY <1>16, KeyOutcomes DEF Cleanup, Goto
  <2>2. slot' \in [Slots -> Keys] /\ slot'["EC_1"] = slot["EC_1"] /\ slot'["X509_1"] = slot["X509_1"]
    BY <2>1 DEF Slots
  <2> QED BY <2>1, <2>2
          DEF AwsTypes, AwsTypeOK, AwsKept, CorePcs, Online, Registering, provider
<1>17. ASSUME CommitRegistered PROVE AwsTypes' /\ AwsKept
  BY <1>17 DEF CommitRegistered,
     AwsTypes, AwsTypeOK, AwsKept, CorePcs, Online, Registering, storeVars, awsVars, provider,
     coreVars, Goto
<1>18. ASSUME RuntimeCallback PROVE AwsTypes' /\ AwsKept
  BY <1>18 DEF RuntimeCallback,
     AwsTypes, AwsTypeOK, AwsKept, CorePcs, Online, Registering, storeVars, awsVars, provider,
     coreVars, Goto
<1>19. ASSUME DownlinkDispatch PROVE AwsTypes' /\ AwsKept
  BY <1>19 DEF DownlinkDispatch, HandleChallenge, HandleRegisterResult, SessionMatches,
     AwsTypes, AwsTypeOK, AwsKept, CorePcs, Online, Registering, storeVars, awsVars, provider,
     coreVars, Goto
<1>20. ASSUME Restart PROVE AwsTypes' /\ AwsKept
  BY <1>20 DEF Restart,
     AwsTypes, AwsTypeOK, AwsKept, CorePcs, Phases, storeVars
<1> QED
  BY <1>1, <1>2, <1>3, <1>4, <1>5, <1>6, <1>7, <1>8, <1>9, <1>10, <1>11, <1>12, <1>13,
     <1>14, <1>15, <1>16, <1>17, <1>18, <1>19, <1>20 DEF CoreNext

(* The core's memory and the server's, without and with the flags.         *)
RegType == [inProgress : BOOLEAN, ok : BOOLEAN, nonce : Sessions, session : Sessions,
            phase : {"IDLE", "WAIT_CHALLENGE", "WAIT_RESULT"}]

Memory ==
  /\ state \in {"down", "ready", "unregistered", "registered"} /\ signKey \in Keys
  /\ dlq \in Seq(Messages) /\ Len(dlq) <= DownlinkCap /\ wire \subseteq Messages
  /\ asked \in [1..MaxMint -> Keys]
  /\ sent \subseteq [session : Sessions, nonce : Sessions, key : Keys] /\ accepted \subseteq Keys

Flags ==
  /\ marker \in BOOLEAN /\ torn \in BOOLEAN /\ failed \in BOOLEAN
  /\ reg \in RegType /\ sem \in [challenge : BOOLEAN, result : BOOLEAN]

(* The core's values stay well formed.                                     *)
LEMMA MemoryNext ==
  ASSUME TypeOK, CoreNext, AwsTypes'
  PROVE  Memory'
<1>0. /\ slot \in [Slots -> Keys] /\ minted \in [Fresh -> 0..MaxMint] /\ Memory /\ reg \in RegType
      /\ MaxMint \in Nat \ {0} /\ None \in Sessions
      /\ Sessions = 0..MaxMint /\ Sessions \subseteq Keys /\ "EC_2" \in Slots
      /\ slot' \in [Slots -> Keys] /\ minted' \in [Fresh -> 0..MaxMint]
  <2>1. /\ MaxMint \in Nat \ {0} /\ None \in Sessions /\ Sessions = 0..MaxMint
        /\ Sessions \subseteq Keys /\ "EC_2" \in Slots
    BY MaxMintAssumption DEF Sessions, None, Keys, Claim, Slots
  <2>2. slot \in [Slots -> Keys] /\ minted \in [Fresh -> 0..MaxMint] /\ Memory
    BY DEF TypeOK, StoreTypeOK, Memory
  <2>3. reg \in RegType
    BY DEF TypeOK, RegType
  <2> QED BY <2>1, <2>2, <2>3 DEF AwsTypes
<1> USE <1>0
<1>1. ASSUME StartInit PROVE Memory'
  BY <1>1 DEF StartInit, Memory, server, coreVars
<1>2. ASSUME PrepareSigningKey PROVE Memory'
  <2>1. signKey' \in {signKey, slot["EC_2"], slot'["EC_2"]}
    BY <1>2 DEF PrepareSigningKey
  <2> QED BY <1>2, <2>1 DEF PrepareSigningKey, Memory, server
<1>3. ASSUME StoreClaimCert PROVE Memory'
  BY <1>3 DEF StoreClaimCert, FailInit, Memory, server, coreVars
<1>4. ASSUME StoreClaimKey PROVE Memory'
  BY <1>4 DEF StoreClaimKey, FailInit, Memory, server, coreVars
<1>5. ASSUME Connect PROVE Memory'
  BY <1>5 DEF Connect, Memory, server, coreVars
<1>6. ASSUME FinishConnect PROVE Memory'
  BY <1>6 DEF FinishConnect, Memory, server, coreVars
<1>7. ASSUME Disconnect PROVE Memory'
  BY <1>7 DEF Disconnect, Memory, server, coreVars
<1>8. ASSUME Register PROVE Memory'
  BY <1>8 DEF Register, Memory, server, coreVars
<1>9. ASSUME MakeKeypair PROVE Memory'
  <2>1. signKey' \in {None, minted'["EC_2"]} /\ UNCHANGED <<state, dlq, wire, asked, sent, accepted>>
    BY <1>9 DEF MakeKeypair, server
  <2>2. signKey' \in Keys
    BY <2>1 DEF Fresh
  <2> QED BY <2>1, <2>2 DEF Memory
<1>10. ASSUME RequestChallenge PROVE Memory'
  <2>1. FreshSession \in 1..MaxMint
    BY <1>10 DEF RequestChallenge, FreshSession, Fresh
  <2>2. /\ UNCHANGED <<state, signKey, dlq, sent, accepted>>
        /\ asked' = asked \/ asked' = [asked EXCEPT ![FreshSession] = signKey]
    BY <1>10 DEF RequestChallenge, RegisterRequest
  <2>3. /\ [kind |-> "challenge", session |-> FreshSession, nonce |-> FreshSession] \in Messages
        /\ [kind |-> "challenge", session |-> FreshSession, nonce |-> None] \in Messages
    BY <2>1 DEF Messages
  <2>4. wire' \subseteq Messages
    BY <1>10, <2>3 DEF RequestChallenge, Memory
  <2>5. asked' \in [1..MaxMint -> Keys]
    BY <2>1, <2>2 DEF Memory
  <2> QED BY <2>2, <2>4, <2>5 DEF Memory
<1>11. ASSUME AwaitChallenge PROVE Memory'
  BY <1>11 DEF AwaitChallenge, TakePost, Memory, server, coreVars
<1>12. ASSUME TookChallenge PROVE Memory'
  BY <1>12 DEF TookChallenge, TakeOutcome, Memory, server, coreVars
<1>13. ASSUME AnswerChallenge PROVE Memory'
  <2>1. UNCHANGED <<state, signKey, dlq, asked>>
    BY <1>13 DEF AnswerChallenge
  <2>2. /\ ChallengeResponse \in [session : Sessions, nonce : Sessions, key : Keys]
        /\ ChallengeResponse.key = signKey /\ ChallengeResponse.session = reg.session
    BY DEF ChallengeResponse, RegType, Memory
  <2>3. \A st \in {"ok", "no"} :
          [kind |-> "result", session |-> reg.session, status |-> st] \in Messages
    BY DEF Messages, RegType
  <2>4. /\ sent' = sent \/ sent' = sent \cup {ChallengeResponse}
        /\ accepted' \subseteq accepted \cup {signKey}
    BY <1>13, <2>2 DEF AnswerChallenge
  <2>5. wire' \subseteq Messages
    BY <1>13, <2>2, <2>3 DEF AnswerChallenge, Memory
  <2> QED BY <2>1, <2>2, <2>4, <2>5 DEF Memory
<1>14. ASSUME AwaitResult PROVE Memory'
  BY <1>14 DEF AwaitResult, TakePost, Memory, server, coreVars
<1>15. ASSUME TookResult PROVE Memory'
  BY <1>15 DEF TookResult, TakeOutcome, Memory, server, coreVars
<1>16. ASSUME Cleanup PROVE Memory'
  BY <1>16 DEF Cleanup, Memory, server, coreVars
<1>17. ASSUME CommitRegistered PROVE Memory'
  BY <1>17 DEF CommitRegistered, Memory, server, coreVars
<1>18. ASSUME RuntimeCallback PROVE Memory'
  <2>1. PICK m \in wire : dlq' = Append(dlq, m)
    BY <1>18 DEF RuntimeCallback
  <2>2. dlq' \in Seq(Messages) /\ Len(dlq') = Len(dlq) + 1 /\ Len(dlq) < DownlinkCap
    BY <1>18, <2>1 DEF RuntimeCallback, QueueHasRoom, Memory
  <2>3. Len(dlq') <= DownlinkCap
    BY <2>2, DownlinkCapAssumption DEF Memory
  <2> QED BY <1>18, <2>2, <2>3 DEF RuntimeCallback, Memory, server
<1>19. ASSUME DownlinkDispatch PROVE Memory'
  <2>1. dlq' \in Seq(Messages) /\ Len(dlq') = Len(dlq) - 1
    BY <1>19 DEF DownlinkDispatch, Memory
  <2>2. Len(dlq') <= DownlinkCap
    BY <2>1, DownlinkCapAssumption DEF Memory
  <2> QED BY <1>19, <2>1, <2>2 DEF DownlinkDispatch, Memory, server
<1>20. ASSUME Restart PROVE Memory'
  <2>1. dlq' = <<>> /\ Len(dlq') = 0 /\ dlq' \in Seq(Messages)
    BY <1>20 DEF Restart
  <2> QED BY <1>20, <2>1, DownlinkCapAssumption DEF Restart, Memory, server
<1> QED
  BY <1>1, <1>2, <1>3, <1>4, <1>5, <1>6, <1>7, <1>8, <1>9, <1>10, <1>11, <1>12, <1>13,
     <1>14, <1>15, <1>16, <1>17, <1>18, <1>19, <1>20 DEF CoreNext

(* The record of a registration stays one when its fields are assigned.    *)
LEMMA RegAssigned ==
  ASSUME NEW r \in RegType, NEW a \in BOOLEAN, NEW b \in BOOLEAN, NEW n \in Sessions,
         NEW k \in Sessions, NEW ph \in {"IDLE", "WAIT_CHALLENGE", "WAIT_RESULT"}
  PROVE  /\ [r EXCEPT !.phase = ph] \in RegType
         /\ [r EXCEPT !.ok = b] \in RegType
         /\ [r EXCEPT !.inProgress = a] \in RegType
         /\ [r EXCEPT !.nonce = n] \in RegType
         /\ [r EXCEPT !.session = k] \in RegType
<1>1. [r EXCEPT !.phase = ph] \in RegType
  BY DEF RegType
<1>2. [r EXCEPT !.ok = b] \in RegType
  BY DEF RegType
<1>3. [r EXCEPT !.inProgress = a] \in RegType
  BY DEF RegType
<1>4. [r EXCEPT !.nonce = n] \in RegType
  BY DEF RegType
<1>5. [r EXCEPT !.session = k] \in RegType
  BY DEF RegType
<1> QED BY <1>1, <1>2, <1>3, <1>4, <1>5

(* The core's flags stay Boolean.                                          *)
LEMMA FlagsNext ==
  ASSUME TypeOK, CoreNext
  PROVE  Flags'
<1>0. /\ marker \in BOOLEAN /\ torn \in BOOLEAN /\ failed \in BOOLEAN
      /\ reg \in RegType /\ sem \in [challenge : BOOLEAN, result : BOOLEAN]
      /\ minted \in [Fresh -> 0..MaxMint] /\ dlq \in Seq(Messages)
      /\ None \in Sessions /\ Sessions = 0..MaxMint /\ MaxMint \in Nat
  BY MaxMintAssumption DEF TypeOK, StoreTypeOK, RegType, None, Sessions
<1>i. Idle \in RegType
  BY <1>0 DEF Idle, RegType
<1>s. /\ NoPosts \in [challenge : BOOLEAN, result : BOOLEAN]
      /\ \A b \in BOOLEAN : /\ [sem EXCEPT !.challenge = b] \in [challenge : BOOLEAN, result : BOOLEAN]
                            /\ [sem EXCEPT !.result = b] \in [challenge : BOOLEAN, result : BOOLEAN]
  BY <1>0 DEF NoPosts
<1> USE <1>0
<1>1. ASSUME StartInit PROVE Flags'
  BY <1>1, RegAssigned, <1>i, <1>s DEF StartInit, Flags,
     storeVars, coreVars
<1>2. ASSUME PrepareSigningKey PROVE Flags'
  BY <1>2, RegAssigned, <1>i, <1>s DEF PrepareSigningKey, Flags,
     storeVars, coreVars
<1>3. ASSUME StoreClaimCert PROVE Flags'
  BY <1>3, RegAssigned, <1>i, <1>s DEF StoreClaimCert, FailInit, Flags,
     storeVars, coreVars
<1>4. ASSUME StoreClaimKey PROVE Flags'
  BY <1>4, RegAssigned, <1>i, <1>s DEF StoreClaimKey, FailInit, Flags,
     storeVars, coreVars
<1>5. ASSUME Connect PROVE Flags'
  BY <1>5, RegAssigned, <1>i, <1>s DEF Connect, Flags,
     storeVars, coreVars
<1>6. ASSUME FinishConnect PROVE Flags'
  BY <1>6, RegAssigned, <1>i, <1>s DEF FinishConnect, Flags,
     storeVars, coreVars
<1>7. ASSUME Disconnect PROVE Flags'
  BY <1>7, RegAssigned, <1>i, <1>s DEF Disconnect, Flags,
     storeVars, coreVars
<1>8. ASSUME Register PROVE Flags'
  BY <1>8, RegAssigned, <1>i, <1>s DEF Register, Flags,
     storeVars, coreVars
<1>9. ASSUME MakeKeypair PROVE Flags'
  BY <1>9, RegAssigned, <1>i, <1>s DEF MakeKeypair, Fail, Flags,
     storeVars, coreVars
<1>10. ASSUME RequestChallenge PROVE Flags'
  <2>1. minted["session"] + 1 \in Sessions /\ UNCHANGED <<marker, torn, sem>>
    BY <1>10 DEF RequestChallenge, FreshSession, Fresh
  <2>2. failed' \in BOOLEAN
    BY <1>10 DEF RequestChallenge, Fail
  <2>3. reg' \in RegType
    <3> DEFINE k == minted["session"] + 1
    <3>1. \/ reg' = [reg EXCEPT !.session = k, !.phase = "WAIT_CHALLENGE", !.ok = FALSE, !.nonce = None]
          \/ reg' = [reg EXCEPT !.session = k, !.ok = FALSE, !.nonce = None]
      BY <1>10 DEF RequestChallenge, FreshSession
    <3>2. k \in Sessions
      BY <2>1
    <3> HIDE DEF k
    <3>3. [reg EXCEPT !.session = k, !.ok = FALSE, !.nonce = None] \in RegType
      BY <3>2, RegAssigned
    <3>4. [reg EXCEPT !.session = k, !.phase = "WAIT_CHALLENGE", !.ok = FALSE, !.nonce = None]
            \in RegType
      BY <3>2, RegAssigned
    <3> QED BY <3>1, <3>3, <3>4
  <2> QED BY <2>1, <2>2, <2>3 DEF Flags
<1>11. ASSUME AwaitChallenge PROVE Flags'
  BY <1>11, RegAssigned, <1>i, <1>s DEF AwaitChallenge, TakePost, Flags,
     storeVars, coreVars
<1>12. ASSUME TookChallenge PROVE Flags'
  BY <1>12, RegAssigned, <1>i, <1>s DEF TookChallenge, TakeOutcome, Flags,
     storeVars, coreVars
<1>13. ASSUME AnswerChallenge PROVE Flags'
  <2>1. UNCHANGED <<marker, torn, sem>> /\ failed' \in BOOLEAN
    BY <1>13 DEF AnswerChallenge, Fail, storeVars
  <2>2. reg' = reg \/ reg' = [reg EXCEPT !.phase = "WAIT_RESULT", !.ok = FALSE]
    BY <1>13 DEF AnswerChallenge
  <2>3. [reg EXCEPT !.phase = "WAIT_RESULT", !.ok = FALSE] \in RegType
    BY RegAssigned
  <2> QED BY <2>1, <2>2, <2>3 DEF Flags
<1>14. ASSUME AwaitResult PROVE Flags'
  BY <1>14, RegAssigned, <1>i, <1>s DEF AwaitResult, TakePost, Flags,
     storeVars, coreVars
<1>15. ASSUME TookResult PROVE Flags'
  BY <1>15, RegAssigned, <1>i, <1>s DEF TookResult, TakeOutcome, Flags,
     storeVars, coreVars
<1>16. ASSUME Cleanup PROVE Flags'
  BY <1>16, RegAssigned, <1>i, <1>s DEF Cleanup, Flags,
     storeVars, coreVars
<1>17. ASSUME CommitRegistered PROVE Flags'
  BY <1>17, RegAssigned, <1>i, <1>s DEF CommitRegistered, Flags,
     storeVars, coreVars
<1>18. ASSUME RuntimeCallback PROVE Flags'
  BY <1>18, RegAssigned, <1>i, <1>s DEF RuntimeCallback, Flags,
     storeVars, coreVars
<1>19. ASSUME DownlinkDispatch PROVE Flags'
  <2>1. Head(dlq) \in Messages
    BY <1>19 DEF DownlinkDispatch
  <2>2. PICK m \in Messages : HandleChallenge(m) \/ HandleRegisterResult(m)
    BY <1>19, <2>1 DEF DownlinkDispatch
  <2>3. m.kind = "challenge" => m.nonce \in Sessions
    BY DEF Messages
  <2>4. UNCHANGED <<marker, torn, failed>>
    BY <1>19 DEF DownlinkDispatch, storeVars
  <2>5. reg' \in RegType
    <3>1. PICK b \in BOOLEAN, c \in BOOLEAN : b = (m.nonce # None) /\ c = (m.status = "ok")
      BY Zenon
    <3>2. [reg EXCEPT !.ok = c] \in RegType
      BY RegAssigned
    <3>3. m.kind = "challenge" => [reg EXCEPT !.ok = b, !.nonce = m.nonce] \in RegType
      BY <2>3, RegAssigned
    <3>4. \/ reg' = reg
          \/ m.kind = "challenge" /\ reg' = [reg EXCEPT !.ok = b, !.nonce = m.nonce]
          \/ reg' = [reg EXCEPT !.ok = c]
      BY <2>2, <3>1, Zenon DEF HandleChallenge, HandleRegisterResult
    <3> QED BY <3>2, <3>3, <3>4
  <2>6. sem' \in [challenge : BOOLEAN, result : BOOLEAN]
    BY <1>s, <2>2 DEF HandleChallenge, HandleRegisterResult
  <2> QED BY <2>4, <2>5, <2>6 DEF Flags
<1>20. ASSUME Restart PROVE Flags'
  BY <1>20, RegAssigned, <1>i, <1>s DEF Restart, Flags,
     storeVars, coreVars
<1> QED
  BY <1>1, <1>2, <1>3, <1>4, <1>5, <1>6, <1>7, <1>8, <1>9, <1>10, <1>11, <1>12, <1>13,
     <1>14, <1>15, <1>16, <1>17, <1>18, <1>19, <1>20 DEF CoreNext

(* The state stays well formed, and the downlink queue within its bound.   *)
LEMMA TypeNext == ASSUME TypeOK, [Next]_vars PROVE TypeOK'
<1>1. /\ slot \in [Slots -> Keys] /\ thing \in {"none", "own", "other"}
      /\ minted \in [Fresh -> 0..MaxMint] /\ AwsTypes /\ Memory /\ Flags
  <2>1. slot \in [Slots -> Keys] /\ thing \in {"none", "own", "other"}
        /\ minted \in [Fresh -> 0..MaxMint] /\ AwsTypes /\ Memory
    BY DEF TypeOK, StoreTypeOK, AwsTypes, Memory
  <2>2. Flags
    BY DEF TypeOK, StoreTypeOK, Flags, RegType
  <2> QED BY <2>1, <2>2
<1>2. AwsTypes' /\ Memory' /\ Flags' /\ pc' \in CorePcs \cup AwsPcs => TypeOK'
  BY DEF TypeOK, StoreTypeOK, AwsTypes, Memory, Flags, RegType
<1>3. CASE CoreNext
  <2>1. AwsTypes' /\ pc' \in CorePcs \cup AwsPcs
    BY <1>3, CoreStep DEF AwsKept, AwsPcs
  <2> QED BY <1>2, <1>3, <2>1, MemoryNext, FlagsNext
<1>4. CASE AwsNext /\ UNCHANGED coreVars
  <2>1. AwsTypes' /\ pc' \in CorePcs \cup AwsPcs /\ marker' = marker
    BY <1>4, AwsStep DEF CoreKept, CorePcs, Online
  <2>2. Memory' /\ Flags'
    BY <1>1, <1>4, <2>1 DEF coreVars, Memory, Flags
  <2> QED BY <1>2, <2>1, <2>2
<1>5. CASE UNCHANGED vars
  <2>1. AwsTypes' /\ Memory' /\ Flags'
    BY <1>1, <1>5 DEF vars, storeVars, awsVars, coreVars, AwsTypes, AwsTypeOK, Memory, Flags
  <2>2. pc' \in CorePcs \cup AwsPcs
    BY <1>5 DEF vars, awsVars, TypeOK
  <2> QED BY <1>2, <2>1, <2>2
<1> QED BY <1>3, <1>4, <1>5 DEF Next

-----------------------------------------------------------------------------
(* The handshake.  A step of the provider does not touch it.               *)
HandshakeInv == AnswersSound /\ MarkerHasKey /\ ServerInv /\ RegisterInv /\ MarkerInv

(* A step that keeps the core's part keeps the handshake's invariant.      *)
LEMMA HandshakeFrame ==
  ASSUME HandshakeInv, CoreKept, UNCHANGED coreVars
  PROVE  HandshakeInv'
<1>1. /\ UNCHANGED <<state, signKey, reg, sem, failed, dlq, wire, asked, sent, accepted, torn>>
      /\ marker' = marker /\ slot'["EC_0"] = slot["EC_0"] /\ slot'["EC_2"] = slot["EC_2"]
      /\ minted'["session"] = minted["session"]
  BY DEF coreVars, CoreKept
<1>2. /\ pc \notin Active \cup {"commit", "claim_cert", "claim_key"}
      /\ pc' \notin Active \cup {"commit", "claim_cert", "claim_key"}
  BY DEF CoreKept, AwsPcs, Provisioning, Active, Signing, Pending
<1>3. AnswersSound' /\ MarkerHasKey' /\ ServerInv'
  BY <1>1 DEF HandshakeInv, AnswersSound, MarkerHasKey, ServerInv, GoodMessage
<1>4. RegisterInv'
  BY <1>1, <1>2 DEF HandshakeInv, RegisterInv, Active, Signing, Pending
<1>5. MarkerInv'
  BY <1>1, <1>2 DEF HandshakeInv, MarkerInv
<1> QED BY <1>3, <1>4, <1>5 DEF HandshakeInv

(* Provisioning.  A step of the core does not touch it.                    *)
LEMMA ProvisionFrame ==
  ASSUME TypeOK, IdentityUsable, ProvisionInv, AwsKept
  PROVE  IdentityUsable' /\ ProvisionInv'
<1>1. /\ UNCHANGED <<thing, mail, enrolled, excuse>> /\ token' \in {token, None}
      /\ slot'["EC_1"] = slot["EC_1"] /\ slot'["X509_1"] = slot["X509_1"]
      /\ minted'["EC_1"] = minted["EC_1"]
  BY DEF AwsKept
<1>2. ~Attempt' /\ pc' \notin {"first", "request_cert"}
  BY DEF AwsKept, Attempt, CorePcs, Online, Registering, Provisioning
<1>3. None <= minted["EC_1"]
  BY DEF TypeOK, StoreTypeOK, Fresh, None
<1>4. IdentityUsable'
  BY <1>1 DEF IdentityUsable
<1>5. ProvisionInv'
  BY <1>1, <1>2, <1>3 DEF ProvisionInv
<1> QED BY <1>4, <1>5

(* The server's side: what it has sent was asked for, and the sessions and *)
(* the responses it knows are never changed by a later attempt.            *)
LEMMA ServerNext ==
  ASSUME TypeOK, HandshakeInv, CoreNext
  PROVE  (AnswersSound /\ ServerInv)'
<1>0. /\ AnswersSound /\ ServerInv /\ RegisterInv /\ minted \in [Fresh -> 0..MaxMint]
      /\ MaxMint \in Nat \ {0} /\ wire \subseteq Messages /\ dlq \in Seq(Messages)
      /\ asked \in [1..MaxMint -> Keys]
  BY MaxMintAssumption DEF HandshakeInv, TypeOK, StoreTypeOK
<1>f. UNCHANGED <<wire, asked, sent, accepted>> /\ minted'["session"] = minted["session"]
        /\ (\A j \in DOMAIN dlq' : dlq'[j] \in wire) => (AnswersSound /\ ServerInv)'
  BY <1>0 DEF AnswersSound, ServerInv, GoodMessage
<1> USE <1>0
<1>1. ASSUME StartInit PROVE (AnswersSound /\ ServerInv)'
  BY <1>1, <1>f DEF StartInit, server, storeVars, coreVars, ServerInv
<1>2. ASSUME PrepareSigningKey PROVE (AnswersSound /\ ServerInv)'
  BY <1>2, <1>f DEF PrepareSigningKey, server, storeVars, coreVars, ServerInv
<1>3. ASSUME StoreClaimCert PROVE (AnswersSound /\ ServerInv)'
  BY <1>3, <1>f DEF StoreClaimCert, FailInit, server, storeVars, coreVars, ServerInv
<1>4. ASSUME StoreClaimKey PROVE (AnswersSound /\ ServerInv)'
  BY <1>4, <1>f DEF StoreClaimKey, FailInit, server, storeVars, coreVars, ServerInv
<1>5. ASSUME Connect PROVE (AnswersSound /\ ServerInv)'
  BY <1>5, <1>f DEF Connect, server, storeVars, coreVars, ServerInv
<1>6. ASSUME FinishConnect PROVE (AnswersSound /\ ServerInv)'
  BY <1>6, <1>f DEF FinishConnect, server, storeVars, coreVars, ServerInv
<1>7. ASSUME Disconnect PROVE (AnswersSound /\ ServerInv)'
  BY <1>7, <1>f DEF Disconnect, server, storeVars, coreVars, ServerInv
<1>8. ASSUME Register PROVE (AnswersSound /\ ServerInv)'
  BY <1>8, <1>f DEF Register, server, storeVars, coreVars, ServerInv
<1>9. ASSUME MakeKeypair PROVE (AnswersSound /\ ServerInv)'
  <2>1. minted'["session"] = minted["session"]
    BY <1>9 DEF MakeKeypair, Fresh
  <2> QED BY <1>9, <1>f, <2>1 DEF MakeKeypair, server, ServerInv
<1>10. ASSUME RequestChallenge PROVE (AnswersSound /\ ServerInv)'
  <2> DEFINE k == minted["session"] + 1
  <2>1. /\ k \in 1..MaxMint /\ minted'["session"] = k /\ UNCHANGED <<dlq, sent, accepted>>
        /\ asked' = asked \/ asked' = [asked EXCEPT ![k] = signKey]
        /\ \/ wire' = wire
           \/ \E S \in SUBSET {[kind |-> "challenge", session |-> k, nonce |-> k],
                               [kind |-> "challenge", session |-> k, nonce |-> None]} :
                wire' = wire \cup S
    <3>1. k \in 1..MaxMint
      BY <1>10 DEF RequestChallenge, FreshSession, Fresh
    <3>2. /\ minted' = [minted EXCEPT !["session"] = k] /\ UNCHANGED <<dlq, sent, accepted>>
          /\ asked' = asked \/ asked' = [asked EXCEPT ![k] = signKey]
      BY <1>10 DEF RequestChallenge, FreshSession, RegisterRequest
    <3>3. minted'["session"] = k
      BY <3>2 DEF Fresh
    <3>4. \/ wire' = wire
          \/ \E S \in SUBSET {[kind |-> "challenge", session |-> k, nonce |-> k],
                              [kind |-> "challenge", session |-> k, nonce |-> None]} :
               wire' = wire \cup S
      BY <1>10, Zenon DEF RequestChallenge, FreshSession
    <3> QED BY <3>1, <3>2, <3>3, <3>4
  <2>2. minted["session"] \in Nat /\ k > minted["session"]
    BY DEF Fresh
  <2>3. \A j \in 1..minted["session"] : j \in 1..k /\ asked'[j] = asked[j]
    BY <2>1, <2>2
  <2> HIDE DEF k
  <2>4. \A x \in wire : GoodMessage(x)'
    BY <2>1, <2>3 DEF ServerInv, GoodMessage
  <2>5. \A x : x = [kind |-> "challenge", session |-> k, nonce |-> k]
               \/ x = [kind |-> "challenge", session |-> k, nonce |-> None] => GoodMessage(x)'
    BY <2>1 DEF GoodMessage
  <2>6. \A x \in wire' : GoodMessage(x)'
    BY <2>1, <2>4, <2>5
  <2>7. wire \subseteq wire'
    BY <2>1
  <2> QED BY <2>1, <2>3, <2>6, <2>7 DEF ServerInv, AnswersSound
<1>11. ASSUME AwaitChallenge PROVE (AnswersSound /\ ServerInv)'
  BY <1>11, <1>f DEF AwaitChallenge, TakePost, server, storeVars, coreVars, ServerInv
<1>12. ASSUME TookChallenge PROVE (AnswersSound /\ ServerInv)'
  BY <1>12, <1>f DEF TookChallenge, TakeOutcome, server, storeVars, coreVars, ServerInv
<1>13. ASSUME AnswerChallenge PROVE (AnswersSound /\ ServerInv)'
  <2> DEFINE r == ChallengeResponse
  <2>1. /\ pc = "answer" /\ UNCHANGED <<dlq, asked>> /\ minted' = minted
    BY <1>13 DEF AnswerChallenge, storeVars
  <2>2. /\ reg.session \in 1..minted["session"] /\ asked[reg.session] = signKey
        /\ reg.nonce = reg.session /\ signKey # None
    BY <2>1 DEF RegisterInv, Pending, Signing, Active
  <2>3. r.session = reg.session /\ r.nonce = reg.nonce /\ r.key = signKey
    BY DEF ChallengeResponse
  <2>4. /\ sent' = sent \/ sent' = sent \cup {r}
        /\ \/ UNCHANGED <<wire, accepted>>
           \/ \E accept \in BOOLEAN :
                /\ accepted' = IF accept THEN accepted \cup {signKey} ELSE accepted
                /\ \/ wire' = wire
                   \/ wire' = wire \cup {[kind |-> "result", session |-> reg.session,
                                          status |-> IF accept THEN "ok" ELSE "no"]}
    <3>1. CASE UNCHANGED <<reg, sent, accepted, wire>>
      BY <3>1
    <3>2. ASSUME NEW accept \in BOOLEAN, NEW answer \in BOOLEAN,
                 accepted' = IF accept THEN accepted \cup {r.key} ELSE accepted,
                 wire' = wire \cup (IF ~answer THEN {} ELSE
                   {[kind |-> "result", session |-> r.session,
                     status |-> IF accept THEN "ok" ELSE "no"]}),
                 sent' = sent \cup {r}
          PROVE  /\ sent' = sent \/ sent' = sent \cup {r}
                 /\ \E acc \in BOOLEAN :
                      /\ accepted' = IF acc THEN accepted \cup {signKey} ELSE accepted
                      /\ \/ wire' = wire
                         \/ wire' = wire \cup {[kind |-> "result", session |-> reg.session,
                                                status |-> IF acc THEN "ok" ELSE "no"]}
      <4>1. CASE answer
        BY <2>3, <3>2, <4>1
      <4>2. CASE ~answer
        BY <2>3, <3>2, <4>2
      <4> QED BY <4>1, <4>2
    <3> HIDE DEF r
    <3>3. \/ UNCHANGED <<reg, sent, accepted, wire>>
          \/ /\ sent' = sent \cup {r}
             /\ \E accept \in {FALSE, r.nonce = r.session /\ r.key = asked[r.session]},
                   answer \in BOOLEAN :
                  /\ accepted' = IF accept THEN accepted \cup {r.key} ELSE accepted
                  /\ wire' = wire \cup (IF ~answer THEN {} ELSE
                       {[kind |-> "result", session |-> r.session,
                         status |-> IF accept THEN "ok" ELSE "no"]})
      BY <1>13, Zenon DEF AnswerChallenge, r
    <3> QED BY <3>1, <3>2, <3>3
  <2>5. accepted \subseteq accepted' /\ None \notin accepted' /\ wire \subseteq wire'
    BY <2>2, <2>4 DEF ServerInv
  <2>6. \A x \in wire' : GoodMessage(x)'
    <3>1. \A x \in wire : GoodMessage(x)'
      BY <2>1, <2>5 DEF ServerInv, GoodMessage
    <3>2. CASE wire' = wire
      BY <3>1, <3>2
    <3>3. ASSUME NEW accept \in BOOLEAN,
                 accepted' = IF accept THEN accepted \cup {signKey} ELSE accepted
          PROVE  \A x : x = [kind |-> "result", session |-> reg.session,
                             status |-> IF accept THEN "ok" ELSE "no"] => GoodMessage(x)'
      BY <2>1, <2>2, <3>3 DEF GoodMessage
    <3> QED BY <2>4, <3>1, <3>2, <3>3
  <2>7. \A x \in sent' : /\ x.session \in 1..minted'["session"]
                         /\ x.nonce = x.session /\ x.key = asked'[x.session]
    BY <2>1, <2>2, <2>3, <2>4 DEF AnswersSound, ServerInv
  <2> QED BY <2>1, <2>5, <2>6, <2>7 DEF AnswersSound, ServerInv
<1>14. ASSUME AwaitResult PROVE (AnswersSound /\ ServerInv)'
  BY <1>14, <1>f DEF AwaitResult, TakePost, server, storeVars, coreVars, ServerInv
<1>15. ASSUME TookResult PROVE (AnswersSound /\ ServerInv)'
  BY <1>15, <1>f DEF TookResult, TakeOutcome, server, storeVars, coreVars, ServerInv
<1>16. ASSUME Cleanup PROVE (AnswersSound /\ ServerInv)'
  BY <1>16, <1>f DEF Cleanup, server, storeVars, coreVars, ServerInv
<1>17. ASSUME CommitRegistered PROVE (AnswersSound /\ ServerInv)'
  BY <1>17, <1>f DEF CommitRegistered, server, storeVars, coreVars, ServerInv
<1>18. ASSUME RuntimeCallback PROVE (AnswersSound /\ ServerInv)'
  <2>1. PICK m \in wire : dlq' = Append(dlq, m)
    BY <1>18 DEF RuntimeCallback
  <2>2. \A j \in DOMAIN dlq' : dlq'[j] \in wire
    BY <2>1 DEF ServerInv
  <2> QED BY <1>18, <1>f, <2>2 DEF RuntimeCallback, server, storeVars
<1>19. ASSUME DownlinkDispatch PROVE (AnswersSound /\ ServerInv)'
  <2>1. dlq' = Tail(dlq) /\ dlq # <<>>
    BY <1>19 DEF DownlinkDispatch
  <2>2. \A j \in DOMAIN dlq' : dlq'[j] \in wire
    BY <2>1 DEF ServerInv
  <2> QED BY <1>19, <1>f, <2>2 DEF DownlinkDispatch, server, storeVars
<1>20. ASSUME Restart PROVE (AnswersSound /\ ServerInv)'
  <2>1. \A j \in DOMAIN dlq' : dlq'[j] \in wire
    BY <1>20 DEF Restart
  <2> QED BY <1>20, <1>f, <2>1 DEF Restart, server, storeVars
<1> QED
  BY <1>1, <1>2, <1>3, <1>4, <1>5, <1>6, <1>7, <1>8, <1>9, <1>10, <1>11, <1>12, <1>13,
     <1>14, <1>15, <1>16, <1>17, <1>18, <1>19, <1>20 DEF CoreNext

(* The registration in progress: its key, its session and its outcome stay *)
(* the ones it has sent to the server.                                     *)
LEMMA RegisterNext ==
  ASSUME TypeOK, HandshakeInv, CoreNext
  PROVE  RegisterInv'
<1>0. /\ RegisterInv /\ ServerInv /\ reg \in RegType /\ minted \in [Fresh -> 0..MaxMint]
      /\ slot \in [Slots -> Keys] /\ asked \in [1..MaxMint -> Keys]
      /\ MaxMint \in Nat \ {0} /\ dlq \in Seq(Messages)
  BY MaxMintAssumption DEF HandshakeInv, TypeOK, StoreTypeOK, RegType
<1> USE <1>0 DEF RegisterInv, Active, Signing, Pending, server, storeVars, coreVars, Goto
<1>q. \* outside of a registration
  ASSUME pc \notin Active \cup {"commit"}, pc' \notin Active \cup {"commit"}, reg' = reg \/ reg' = Idle
  PROVE  RegisterInv'
  BY <1>q DEF Idle
<1>1. ASSUME StartInit PROVE RegisterInv'
  BY <1>1, <1>q DEF StartInit
<1>2. ASSUME PrepareSigningKey PROVE RegisterInv'
  BY <1>2, <1>q DEF PrepareSigningKey
<1>3. ASSUME StoreClaimCert PROVE RegisterInv'
  BY <1>3, <1>q DEF StoreClaimCert, FailInit
<1>4. ASSUME StoreClaimKey PROVE RegisterInv'
  BY <1>4, <1>q DEF StoreClaimKey, FailInit
<1>5. ASSUME Connect PROVE RegisterInv'
  BY <1>5, <1>q DEF Connect
<1>6. ASSUME FinishConnect PROVE RegisterInv'
  BY <1>6, <1>q DEF FinishConnect
<1>7. ASSUME Disconnect PROVE RegisterInv'
  BY <1>7, <1>q DEF Disconnect
<1>8. ASSUME Register PROVE RegisterInv'
  BY <1>8 DEF Register, Idle
<1>9. ASSUME MakeKeypair PROVE RegisterInv'
  <2>1. PICK w \in KeyGenerate("EC_2") :
          /\ slot' = w.slot /\ signKey' = IF w.ok THEN minted'["EC_2"] ELSE None
          /\ \/ w.ok /\ Goto("request") /\ UNCHANGED failed
             \/ Fail
    BY <1>9 DEF MakeKeypair
  <2>2. minted["EC_2"] + 1 \in Keys /\ minted'["EC_2"] = minted["EC_2"] + 1 /\ minted["EC_2"] + 1 # None
    BY <1>9 DEF MakeKeypair, Fresh, Keys, Claim, None
  <2>3. w.ok => slot'["EC_2"] = minted["EC_2"] + 1
    BY <2>1, <2>2, KeyOutcomes, OutcomeTyped DEF Slots
  <2>4. pc = "keypair" /\ reg' = reg
    BY <1>9 DEF MakeKeypair
  <2>5. CASE w.ok /\ Goto("request")
    BY <2>1, <2>2, <2>3, <2>4, <2>5
  <2>6. CASE Fail
    BY <2>4, <2>6 DEF Fail
  <2> QED BY <2>1, <2>5, <2>6
<1>10. ASSUME RequestChallenge PROVE RegisterInv'
  <2> DEFINE k == minted["session"] + 1
  <2>1. /\ k \in 1..MaxMint /\ minted'["session"] = k /\ UNCHANGED <<slot, signKey, accepted>>
        /\ pc = "request"
    BY <1>10 DEF RequestChallenge, FreshSession, Fresh
  <2>2. /\ reg'.inProgress = reg.inProgress /\ reg'.session = k /\ reg'.nonce = None
        /\ \/ pc' = "await_challenge" /\ asked' = [asked EXCEPT ![k] = signKey]
           \/ pc' = "cleanup" /\ failed' = TRUE
    BY <1>10 DEF RequestChallenge, FreshSession, RegisterRequest, RegType, Fail
  <2>3. k \in 1..k
    BY <2>1
  <2> HIDE DEF k
  <2> QED BY <2>1, <2>2, <2>3
<1>11. ASSUME AwaitChallenge PROVE RegisterInv'
  BY <1>11 DEF AwaitChallenge, TakePost
<1>12. ASSUME TookChallenge PROVE RegisterInv'
  <2>1. /\ pc = "took_challenge" /\ UNCHANGED <<slot, minted, signKey, asked, accepted>>
        /\ reg' = [reg EXCEPT !.phase = "IDLE"]
        /\ \/ pc' = "cleanup" /\ failed'
           \/ pc' = "answer" /\ ~failed' /\ reg.ok /\ reg.nonce # None
    BY <1>12 DEF TookChallenge, TakeOutcome
  <2>2. /\ reg'.inProgress = reg.inProgress /\ reg'.nonce = reg.nonce
        /\ reg'.session = reg.session
    BY <2>1 DEF RegType
  <2> QED BY <2>1, <2>2
<1>13. ASSUME AnswerChallenge PROVE RegisterInv'
  <2>1. /\ pc = "answer" /\ UNCHANGED <<slot, minted, signKey, asked>>
        /\ \/ pc' = "await_result" /\ reg' = [reg EXCEPT !.phase = "WAIT_RESULT", !.ok = FALSE]
           \/ pc' = "cleanup" /\ failed' = TRUE /\ reg' = reg
    BY <1>13 DEF AnswerChallenge, Fail
  <2> QED BY <2>1 DEF RegType
<1>14. ASSUME AwaitResult PROVE RegisterInv'
  BY <1>14 DEF AwaitResult, TakePost
<1>15. ASSUME TookResult PROVE RegisterInv'
  <2>1. /\ pc = "took_result" /\ UNCHANGED <<slot, minted, signKey, asked, accepted>>
        /\ reg' = [reg EXCEPT !.phase = "IDLE"]
        /\ \/ pc' = "cleanup" /\ failed'
           \/ pc' = "cleanup" /\ ~failed' /\ reg.ok
    BY <1>15 DEF TookResult, TakeOutcome
  <2>2. /\ reg'.inProgress = reg.inProgress /\ reg'.nonce = reg.nonce
        /\ reg'.session = reg.session
    BY <2>1 DEF RegType
  <2> QED BY <2>1, <2>2
<1>16. ASSUME Cleanup PROVE RegisterInv'
  <2>1. /\ pc = "cleanup" /\ reg'.inProgress = FALSE /\ UNCHANGED accepted
        /\ \/ pc' = "online"
           \/ pc' = "commit" /\ ~failed /\ slot' = slot
    BY <1>16 DEF Cleanup, RegType
  <2> QED BY <2>1
<1>17. ASSUME CommitRegistered PROVE RegisterInv'
  BY <1>17 DEF CommitRegistered
<1>18. ASSUME RuntimeCallback PROVE RegisterInv'
  BY <1>18 DEF RuntimeCallback, awsVars
<1>19. ASSUME DownlinkDispatch PROVE RegisterInv'
  <2>1. UNCHANGED <<slot, minted, pc, signKey, failed, asked, accepted>>
    BY <1>19 DEF DownlinkDispatch, awsVars
  <2>2. PICK m \in wire : HandleChallenge(m) \/ HandleRegisterResult(m)
    <3>1. Head(dlq) = dlq[1] /\ 1 \in DOMAIN dlq
      BY <1>19 DEF DownlinkDispatch
    <3> QED BY <1>19, <3>1 DEF DownlinkDispatch, ServerInv
  <2>3. GoodMessage(m)
    BY DEF ServerInv
  <2>4. CASE reg' = reg
    BY <2>1, <2>4
  <2>5. ASSUME HandleChallenge(m), reg' # reg PROVE RegisterInv'
    <3>1. /\ reg.inProgress /\ reg.phase = "WAIT_CHALLENGE" /\ m.session = reg.session
          /\ reg.nonce = None /\ reg' = [reg EXCEPT !.ok = (m.nonce # None), !.nonce = m.nonce]
          /\ m.kind = "challenge"
      BY <2>5 DEF HandleChallenge, SessionMatches
    <3>2. /\ reg'.inProgress = reg.inProgress /\ reg'.session = reg.session
          /\ reg'.nonce \in {None, reg.session}
      BY <2>3, <3>1 DEF RegType, GoodMessage
    <3> QED BY <2>1, <3>1, <3>2
  <2>6. ASSUME HandleRegisterResult(m), reg' # reg PROVE RegisterInv'
    <3>1. /\ m.session = reg.session /\ m.kind = "result"
          /\ reg' = [reg EXCEPT !.ok = (m.status = "ok")]
      BY <2>6 DEF HandleRegisterResult, SessionMatches
    <3>2. /\ reg'.inProgress = reg.inProgress /\ reg'.session = reg.session
          /\ reg'.nonce = reg.nonce /\ reg'.phase = reg.phase /\ (reg'.ok => m.status = "ok")
      BY <3>1 DEF RegType
    <3> QED BY <2>1, <2>3, <3>1, <3>2 DEF GoodMessage
  <2> QED BY <2>2, <2>4, <2>5, <2>6
<1>20. ASSUME Restart PROVE RegisterInv'
  BY <1>20 DEF Restart, Idle
<1> QED
  BY <1>1, <1>2, <1>3, <1>4, <1>5, <1>6, <1>7, <1>8, <1>9, <1>10, <1>11, <1>12, <1>13,
     <1>14, <1>15, <1>16, <1>17, <1>18, <1>19, <1>20 DEF CoreNext

(* The registered marker: a device that has it keeps an accepted key,      *)
(* through migration, claim credentials, registrations and power cuts.     *)
LEMMA MarkerNext ==
  ASSUME TypeOK, HandshakeInv, CoreNext
  PROVE  (MarkerHasKey /\ MarkerInv)'
<1>0. /\ MarkerHasKey /\ MarkerInv /\ RegisterInv /\ None \notin accepted
      /\ slot \in [Slots -> Keys] /\ Claim \in Keys
  BY MaxMintAssumption DEF HandshakeInv, ServerInv, TypeOK, StoreTypeOK, Keys, Claim
<1> USE <1>0 DEF MarkerHasKey, MarkerInv, Active, Signing, Pending, server, storeVars, coreVars,
        Goto
<1>1. ASSUME StartInit PROVE (MarkerHasKey /\ MarkerInv)'
  BY <1>1 DEF StartInit
<1>2. ASSUME PrepareSigningKey PROVE (MarkerHasKey /\ MarkerInv)'
  <2>1. PICK res \in KeyOpen("EC_2") :
          \/ res = "OK" /\ pc' = "claim_cert" /\ UNCHANGED slot
          \/ ~marker /\ pc' = "claim_cert" /\ UNCHANGED slot
          \/ /\ res = "NO_RESOURCE"
             /\ \E w \in KeyMigrate("EC_0", "EC_2") :
                  /\ slot' = w.slot
                  /\ (w.ok /\ pc' = "claim_cert") \/ pc' = "off"
          \/ pc' = "off" /\ UNCHANGED slot
    BY <1>2 DEF PrepareSigningKey
  <2>2. res = "OK" => slot["EC_2"] # None
    BY KeyOpenMeans
  <2>3. res = "NO_RESOURCE" => slot["EC_2"] = None
    BY KeyOpenMeans
  <2>4. /\ pc = "prepare" /\ UNCHANGED <<marker, torn, state, accepted>>
    BY <1>2 DEF PrepareSigningKey
  <2>5. CASE UNCHANGED slot /\ pc' \in {"claim_cert", "off"}
               /\ (res = "OK" \/ ~marker \/ pc' = "off")
    BY <2>2, <2>4, <2>5
  <2>6. ASSUME res = "NO_RESOURCE", NEW w \in KeyMigrate("EC_0", "EC_2"), slot' = w.slot,
               (w.ok /\ pc' = "claim_cert") \/ pc' = "off"
        PROVE  (MarkerHasKey /\ MarkerInv)'
    <3>1. slot["EC_0"] \in Keys /\ Outcome(w, "EC_2", slot["EC_0"])
      BY KeyOutcomes DEF Slots
    <3>2. /\ slot'["EC_0"] = slot["EC_0"] /\ slot'["EC_2"] \in {slot["EC_2"], slot["EC_0"]}
          /\ w.ok => slot'["EC_2"] = slot["EC_0"]
      BY <2>6, <3>1, OutcomeTyped DEF Slots
    <3>3. marker /\ ~torn => slot["EC_0"] \in accepted
      BY <2>3, <2>6
    <3> QED BY <2>3, <2>4, <2>6, <3>2, <3>3
  <2> QED BY <2>1, <2>5, <2>6
<1>3. ASSUME StoreClaimCert PROVE (MarkerHasKey /\ MarkerInv)'
  <2>1. /\ pc = "claim_cert" /\ pc' \in {"ready", "claim_key", "off"}
        /\ state' \in {state, "ready"} /\ UNCHANGED <<marker, torn, accepted>>
        /\ slot' = slot \/ \E w \in CertWrite("X509_0", Claim) : slot' = w.slot
    BY <1>3 DEF StoreClaimCert, FailInit
  <2>2. slot'["EC_0"] = slot["EC_0"] /\ slot'["EC_2"] = slot["EC_2"]
    BY <2>1, KeyOutcomes, OutcomeTyped DEF Slots
  <2> QED BY <2>1, <2>2
<1>4. ASSUME StoreClaimKey PROVE (MarkerHasKey /\ MarkerInv)'
  <2>1. /\ pc = "claim_key" /\ pc' \in {"ready", "off"}
        /\ state' \in {state, "ready"} /\ UNCHANGED <<marker, torn, accepted>>
        /\ \E w \in KeyImport("EC_0", Claim) : slot' = w.slot
    BY <1>4 DEF StoreClaimKey, FailInit
  <2>2. slot'["EC_2"] = slot["EC_2"]
    BY <2>1, KeyOutcomes, OutcomeTyped DEF Slots
  <2> QED BY <2>1, <2>2
<1>5. ASSUME Connect PROVE (MarkerHasKey /\ MarkerInv)'
  BY <1>5 DEF Connect
<1>6. ASSUME FinishConnect PROVE (MarkerHasKey /\ MarkerInv)'
  BY <1>6 DEF FinishConnect
<1>7. ASSUME Disconnect PROVE (MarkerHasKey /\ MarkerInv)'
  BY <1>7 DEF Disconnect
<1>8. ASSUME Register PROVE (MarkerHasKey /\ MarkerInv)'
  BY <1>8 DEF Register
<1>9. ASSUME MakeKeypair PROVE (MarkerHasKey /\ MarkerInv)'
  BY <1>9 DEF MakeKeypair, Fail
<1>10. ASSUME RequestChallenge PROVE (MarkerHasKey /\ MarkerInv)'
  BY <1>10 DEF RequestChallenge, Fail, FreshSession, RegisterRequest
<1>11. ASSUME AwaitChallenge PROVE (MarkerHasKey /\ MarkerInv)'
  BY <1>11 DEF AwaitChallenge, TakePost
<1>12. ASSUME TookChallenge PROVE (MarkerHasKey /\ MarkerInv)'
  BY <1>12 DEF TookChallenge, TakeOutcome
<1>13. ASSUME AnswerChallenge PROVE (MarkerHasKey /\ MarkerInv)'
  <2>1. /\ pc' \in {"await_result", "cleanup"} /\ pc = "answer"
        /\ UNCHANGED <<marker, torn, state>>
    BY <1>13 DEF AnswerChallenge, Fail
  <2> QED BY <2>1
<1>14. ASSUME AwaitResult PROVE (MarkerHasKey /\ MarkerInv)'
  BY <1>14 DEF AwaitResult, TakePost
<1>15. ASSUME TookResult PROVE (MarkerHasKey /\ MarkerInv)'
  BY <1>15 DEF TookResult, TakeOutcome
<1>16. ASSUME Cleanup PROVE (MarkerHasKey /\ MarkerInv)'
  <2>1. pc' \in {"online", "commit"} /\ UNCHANGED <<marker, torn, state>>
    BY <1>16 DEF Cleanup
  <2> QED BY <1>16, <2>1 DEF Cleanup
<1>17. ASSUME CommitRegistered PROVE (MarkerHasKey /\ MarkerInv)'
  <2>1. slot["EC_2"] \in accepted
    BY <1>17 DEF CommitRegistered, RegisterInv
  <2> QED BY <1>17, <2>1 DEF CommitRegistered
<1>18. ASSUME RuntimeCallback PROVE (MarkerHasKey /\ MarkerInv)'
  BY <1>18 DEF RuntimeCallback, awsVars
<1>19. ASSUME DownlinkDispatch PROVE (MarkerHasKey /\ MarkerInv)'
  BY <1>19 DEF DownlinkDispatch, HandleChallenge, HandleRegisterResult, SessionMatches, awsVars
<1>20. ASSUME Restart PROVE (MarkerHasKey /\ MarkerInv)'
  BY <1>20 DEF Restart
<1> QED
  BY <1>1, <1>2, <1>3, <1>4, <1>5, <1>6, <1>7, <1>8, <1>9, <1>10, <1>11, <1>12, <1>13,
     <1>14, <1>15, <1>16, <1>17, <1>18, <1>19, <1>20 DEF CoreNext

(* Every step keeps the handshake's invariant.                             *)
LEMMA HandshakeNext == ASSUME TypeOK, HandshakeInv, [Next]_vars PROVE HandshakeInv'
<1>1. CASE CoreNext
  BY <1>1, ServerNext, RegisterNext, MarkerNext DEF HandshakeInv
<1>2. CASE AwsNext /\ UNCHANGED coreVars
  BY <1>2, AwsStep, HandshakeFrame
<1>3. CASE UNCHANGED vars
  BY <1>3 DEF vars, storeVars, awsVars, coreVars, HandshakeInv, AnswersSound, MarkerHasKey,
     ServerInv, GoodMessage, RegisterInv, MarkerInv
<1> QED BY <1>1, <1>2, <1>3 DEF Next

-----------------------------------------------------------------------------
(* Provisioning: an identity is complete only with the certificate of its  *)
(* own key, attached to the thing.                                         *)
LEMMA ProvisionNext ==
  ASSUME TypeOK, IdentityUsable, ProvisionInv, AwsNext
  PROVE  (IdentityUsable /\ ProvisionInv)'
<1>0. /\ IdentityUsable /\ ProvisionInv /\ slot \in [Slots -> Keys] /\ mail \subseteq Answers
      /\ minted \in [Fresh -> 0..MaxMint] /\ MaxMint \in Nat \ {0} /\ token \in 0..MaxMint
      /\ then \in {"first", "ready"}
  BY MaxMintAssumption DEF TypeOK, StoreTypeOK, AwsTypeOK
<1>n. minted["EC_1"] \in 0..MaxMint /\ None <= minted["EC_1"]
  BY <1>0 DEF Fresh, None
<1>q. \* outside of an attempt, with nothing stored or received
  ASSUME UNCHANGED <<slot, thing, minted, mail, enrolled>>, excuse \subseteq excuse',
         token' \in {token, None}, ~Attempt',
         pc' \in {"first", "request_cert"} /\ excuse' = {} => thing' = "none"
  PROVE  (IdentityUsable /\ ProvisionInv)'
  <2>1. excuse' = {} => excuse = {}
    BY <1>q
  <2>2. IdentityUsable'
    BY <1>0, <1>q, <2>1 DEF IdentityUsable
  <2>3. ProvisionInv'
    BY <1>0, <1>n, <1>q DEF ProvisionInv
  <2> QED BY <2>2, <2>3
<1>i. \* within an attempt
  ASSUME UNCHANGED <<slot, thing, minted, token, mail, enrolled, excuse>>, Attempt, Attempt'
  PROVE  (IdentityUsable /\ ProvisionInv)'
  BY <1>0, <1>i DEF IdentityUsable, ProvisionInv, Complete, Attempt, Provisioning
<1> USE <1>0 DEF Attempt, Provisioning, Goto, storeVars
<1>1. ASSUME RuntimeConnect PROVE (IdentityUsable /\ ProvisionInv)'
  <2>1. /\ UNCHANGED <<slot, thing, minted, token, mail, enrolled, excuse>>
        /\ pc' \in {"ready", "clear_key", "connected"} \/ (pc' = "first" /\ thing = "none")
    BY <1>1 DEF RuntimeConnect, Clear, NotReady
  <2> QED BY <1>q, <2>1
<1>2. ASSUME FirstConnect PROVE (IdentityUsable /\ ProvisionInv)'
  <2>1. /\ UNCHANGED <<slot, thing, minted, token, mail, enrolled, excuse>>
        /\ pc = "first" /\ pc' \in {"clear_key", "request_cert"}
    BY <1>2 DEF FirstConnect, Clear
  <2> QED BY <1>q, <2>1 DEF ProvisionInv
<1>3. ASSUME RequestCert PROVE (IdentityUsable /\ ProvisionInv)'
  <2> DEFINE k == minted["EC_1"] + 1
  <2>1. /\ k \in 0..MaxMint /\ minted'["EC_1"] = k /\ minted["EC_1"] < k
        /\ pc = "request_cert" /\ UNCHANGED <<thing, token, enrolled, excuse>>
    BY <1>3, <1>n DEF RequestCert, Fresh
  <2>2. PICK w \in KeyGenerate("EC_1") :
          /\ slot' = w.slot
          /\ \/ pc' = "leave" /\ mail' = mail
             \/ /\ w.ok /\ pc' = "arm_cert"
                /\ mail' = mail
                   \/ \E accept \in BOOLEAN :
                        mail' = mail \cup {[kind |-> "csr", ok |-> accept, key |-> minted'["EC_1"]]}
    BY <1>3 DEF RequestCert, Abandon
  <2>3. /\ Outcome(w, "EC_1", k) /\ k \in Keys /\ "EC_1" \in Slots
    BY <2>1, KeyOutcomes, MaxMintAssumption DEF Keys, Claim, Slots
  <2>4. /\ w.ok => slot'["EC_1"] = k
        /\ slot'["X509_1"] = slot["X509_1"]
    BY <2>2, <2>3, OutcomeTyped DEF Slots
  <2> HIDE DEF k
  <2>5. IdentityUsable'
    BY <2>1 DEF IdentityUsable, ProvisionInv
  <2>6. \A m \in mail : m.key < k
    <3> SUFFICES ASSUME NEW m \in mail PROVE m.key < k
      OBVIOUS
    <3>1. m.key \in Int /\ m.key <= minted["EC_1"]
      BY MaxMintAssumption DEF ProvisionInv, Answers, Keys, Claim
    <3> QED BY <1>n, <2>1, <3>1
  <2>7. token' < k
    BY <1>n, <2>1 DEF ProvisionInv
  <2>8. \A m \in mail' : \/ m \in mail
                         \/ w.ok /\ m.kind = "csr" /\ m.key = k
    BY <2>1, <2>2
  <2>9. \A m \in mail' : m.key <= k /\ (m \notin mail => m.kind = "csr" /\ m.key = k /\ w.ok)
    <3> SUFFICES ASSUME NEW m \in mail'
                 PROVE m.key <= k /\ (m \notin mail => m.kind = "csr" /\ m.key = k /\ w.ok)
      OBVIOUS
    <3>1. m \in mail => m.key \in Int /\ m.key < k
      BY <2>6, MaxMintAssumption DEF Answers, Keys, Claim
    <3> QED BY <2>1, <2>8, <3>1
  <2>10. \A m \in mail : m.key # k
    BY <2>1, <2>6, MaxMintAssumption DEF Answers, Keys, Claim
  <2>11. token' # k /\ token' <= k
    BY <2>1, <2>7
  <2>12. thing = "own" => excuse # {}
    BY <2>1 DEF ProvisionInv
  <2>13. pc' \in {"leave", "arm_cert"}
    BY <2>2
  <2>14. ProvisionInv'
    BY <2>1, <2>4, <2>9, <2>10, <2>11, <2>12, <2>13 DEF ProvisionInv
  <2> QED BY <2>5, <2>14
<1>4. ASSUME ArmCert PROVE (IdentityUsable /\ ProvisionInv)'
  BY <1>4, <1>i DEF ArmCert, Arm
<1>5. ASSUME AwaitCert PROVE (IdentityUsable /\ ProvisionInv)'
  BY <1>5, <1>i DEF AwaitCert, Await, Abandon
<1>6. ASSUME RequestRegister PROVE (IdentityUsable /\ ProvisionInv)'
  <2>1. /\ UNCHANGED <<slot, thing, minted, token, excuse>> /\ pc = "request_register"
        /\ pc' \in {"leave", "arm_register"} /\ enrolled \subseteq enrolled'
    BY <1>6 DEF RequestRegister, Abandon
  <2>2. \A m \in mail' : \/ m \in mail
                         \/ /\ m.kind = "register" /\ m.key = token
                            /\ m.name # "rejected" => token \in enrolled'
    BY <1>6 DEF RequestRegister
  <2>3. IdentityUsable'
    BY <2>1 DEF IdentityUsable
  <2>4. ProvisionInv'
    BY <2>1, <2>2 DEF ProvisionInv, Complete
  <2> QED BY <2>3, <2>4
<1>7. ASSUME ArmRegister PROVE (IdentityUsable /\ ProvisionInv)'
  BY <1>7, <1>i DEF ArmRegister, Arm
<1>8. ASSUME AwaitRegister PROVE (IdentityUsable /\ ProvisionInv)'
  BY <1>8, <1>i DEF AwaitRegister, Await, Abandon
<1>9. ASSUME Finish PROVE (IdentityUsable /\ ProvisionInv)'
  BY <1>9, <1>q DEF Finish
<1>10. ASSUME Leave PROVE (IdentityUsable /\ ProvisionInv)'
  BY <1>10, <1>q DEF Leave, Clear
<1>11. ASSUME ClearKey PROVE (IdentityUsable /\ ProvisionInv)'
  <2>1. slot' = slot \/ slot' = [slot EXCEPT !["EC_1"] = None]
    BY <1>11, KeyOutcomes DEF ClearKey
  <2>2. /\ UNCHANGED <<thing, minted, token, mail, enrolled>> /\ pc' = "clear_cert"
        /\ excuse' = {} => slot'["EC_1"] = None
    BY <1>11 DEF ClearKey
  <2>3. IdentityUsable'
    BY <2>2 DEF IdentityUsable
  <2>4. ProvisionInv'
    BY <2>2 DEF ProvisionInv
  <2> QED BY <2>3, <2>4
<1>12. ASSUME ClearCert PROVE (IdentityUsable /\ ProvisionInv)'
  <2>1. slot' = slot \/ slot' = [slot EXCEPT !["X509_1"] = None]
    BY <1>12, KeyOutcomes DEF ClearCert
  <2>2. /\ UNCHANGED <<thing, minted, token, mail, enrolled>> /\ pc' = "clear_thing"
        /\ excuse' = {} => excuse = {} /\ slot'["X509_1"] = None
    BY <1>12 DEF ClearCert
  <2>3. IdentityUsable'
    BY <2>2 DEF IdentityUsable
  <2>4. ProvisionInv'
    BY <2>2 DEF ProvisionInv
  <2> QED BY <2>3, <2>4
<1>13. ASSUME ClearThing PROVE (IdentityUsable /\ ProvisionInv)'
  <2>1. /\ UNCHANGED <<slot, minted, mail, enrolled>> /\ token' = None /\ pc' \in {"first", "ready"}
        /\ excuse' = {} => thing' = "none"
    BY <1>13 DEF ClearThing
  <2>2. IdentityUsable'
    BY <2>1 DEF IdentityUsable
  <2>3. ProvisionInv'
    BY <1>n, <2>1 DEF ProvisionInv
  <2> QED BY <2>2, <2>3
<1>14. ASSUME RegistrationCallback PROVE (IdentityUsable /\ ProvisionInv)'
  <2>1. PICK m \in mail : \/ HandleCsrAccepted(m) \/ HandleCsrRejected(m)
                          \/ HandleRegisterAccepted(m) \/ HandleRegisterRejected(m)
    BY <1>14 DEF RegistrationCallback
  <2>2. UNCHANGED <<minted, pc, mail, enrolled>> /\ pc \in Provisioning
    BY <1>14 DEF RegistrationCallback
  <2>3. CASE UNCHANGED <<slot, thing, token, excuse>>
    BY <2>2, <2>3 DEF IdentityUsable, ProvisionInv, Complete
  <2>4. ASSUME HandleCsrAccepted(m) PROVE (IdentityUsable /\ ProvisionInv)'
    <3>1. m.key \in Keys /\ m.key <= minted["EC_1"] /\ m.kind = "csr" /\ thing' = thing
      BY <2>4, MaxMintAssumption DEF HandleCsrAccepted, Answers, Keys, Claim, ProvisionInv
    <3>2. PICK w \in CertWrite("X509_1", m.key) :
            /\ slot' = w.slot /\ excuse' = excuse \cup Late(m.key)
            /\ (w.ok /\ token' = m.key) \/ token' = token
      BY <2>4 DEF HandleCsrAccepted
    <3>3. /\ slot'["X509_1"] \in {slot["X509_1"], m.key} /\ slot'["EC_1"] = slot["EC_1"]
          /\ w.ok => slot'["X509_1"] = m.key
      BY <3>1, <3>2, KeyOutcomes, OutcomeTyped DEF Slots
    <3>4. excuse' = {} => excuse = {} /\ Attempt /\ m.key = minted["EC_1"]
      BY <2>2, <3>2 DEF Late
    <3>5. excuse' = {} => slot["EC_1"] = minted["EC_1"]
      BY <3>1, <3>4 DEF ProvisionInv
    <3>6. excuse' = {} /\ thing = "own" => Complete /\ minted["EC_1"] \in enrolled
      BY <3>4 DEF ProvisionInv
    <3>7. IdentityUsable'
      BY <2>2, <3>1, <3>3, <3>4, <3>5, <3>6 DEF IdentityUsable, Complete
    <3>8. Attempt' /\ excuse' = {} =>
            /\ token' = minted'["EC_1"] => Complete'
            /\ \A x \in mail' : x.kind = "register" /\ x.name # "rejected"
                                  /\ x.key = minted'["EC_1"] => Complete'
            /\ thing' = "own" => Complete' /\ minted'["EC_1"] \in enrolled'
      BY <2>2, <3>1, <3>2, <3>3, <3>4, <3>5, <3>6 DEF ProvisionInv, Complete
    <3>9. token' <= minted'["EC_1"]
      BY <2>2, <3>1, <3>2 DEF ProvisionInv
    <3>10. ProvisionInv'
      BY <2>2, <3>1, <3>3, <3>4, <3>8, <3>9 DEF ProvisionInv
    <3> QED BY <3>7, <3>10
  <2>5. ASSUME HandleRegisterAccepted(m) PROVE (IdentityUsable /\ ProvisionInv)'
    <3>1. CASE UNCHANGED <<slot, thing, token, excuse>>
      BY <2>3, <3>1
    <3>2. CASE excuse' = excuse \cup Late(m.key) /\ thing' \in {thing, "own"}
      <4>1. UNCHANGED <<slot, token>> /\ m.kind = "register" /\ m.name # "rejected"
        BY <2>5 DEF HandleRegisterAccepted
      <4>2. excuse' = {} => excuse = {} /\ Attempt /\ m.key = minted["EC_1"]
        BY <2>2, <3>2 DEF Late
      <4>3. excuse' = {} => Complete /\ minted["EC_1"] \in enrolled
        BY <4>1, <4>2 DEF ProvisionInv
      <4>4. IdentityUsable'
        BY <2>2, <4>1, <4>3 DEF IdentityUsable, Complete
      <4>5. ProvisionInv'
        BY <2>2, <3>2, <4>1, <4>2, <4>3 DEF ProvisionInv, Complete
      <4> QED BY <4>4, <4>5
    <3> QED BY <2>5, <3>1, <3>2 DEF HandleRegisterAccepted
  <2> QED BY <2>1, <2>3, <2>4, <2>5 DEF HandleCsrRejected, HandleRegisterRejected
<1> QED
  BY <1>1, <1>2, <1>3, <1>4, <1>5, <1>6, <1>7, <1>8, <1>9, <1>10, <1>11, <1>12, <1>13,
     <1>14 DEF AwsNext

-----------------------------------------------------------------------------
(* A device as manufactured, one registered by an older release, and one   *)
(* that carries the identity of another product.                           *)
LEMMA EnrolInit == Init => EnrolInv
<1> SUFFICES ASSUME Init PROVE EnrolInv
  OBVIOUS
<1> USE MaxMintAssumption DEF Init, StoreInit, AwsInit
<1>1. /\ None \in 0..MaxMint /\ None \in Keys /\ Legacy \in Keys /\ Legacy # None /\ None \in Sessions
  BY DEF None, Keys, Legacy, Claim, Sessions
<1>2. AwsTypes
  BY <1>1 DEF AwsTypes, AwsTypeOK, Phases, Fresh, Slots
<1>3. Memory
  <2>1. dlq \in Seq(Messages) /\ Len(dlq) = 0
    OBVIOUS
  <2> QED BY <1>1, <2>1, DownlinkCapAssumption DEF Memory
<1>4. Flags
  <2>1. reg \in RegType /\ sem \in [challenge : BOOLEAN, result : BOOLEAN]
    BY <1>1 DEF Idle, NoPosts, RegType
  <2>2. marker \in BOOLEAN /\ torn \in BOOLEAN /\ failed \in BOOLEAN
    OBVIOUS
  <2> QED BY <2>1, <2>2 DEF Flags
<1>5. TypeOK
  <2>1. pc \in CorePcs \cup AwsPcs
    BY DEF CorePcs
  <2> QED BY <1>2, <1>3, <1>4, <2>1 DEF TypeOK, StoreTypeOK, AwsTypes, Memory, Flags, RegType
<1>6. AnswersSound /\ ServerInv
  BY <1>1 DEF AnswersSound, ServerInv
<1>7. MarkerHasKey /\ MarkerInv
  BY <1>1 DEF MarkerHasKey, MarkerInv, Slots, Active, Signing, Pending
<1>8. RegisterInv
  BY DEF RegisterInv, Idle, Active, Signing, Pending
<1>9. IdentityUsable /\ ProvisionInv
  BY <1>1 DEF IdentityUsable, ProvisionInv, Attempt, Provisioning, Fresh, None
<1> QED BY <1>5, <1>6, <1>7, <1>8, <1>9 DEF EnrolInv

(* The inductive invariant holds in every reachable state.                 *)
LEMMA EnrolAlways == Spec => []EnrolInv
<1>1. EnrolInv /\ [Next]_vars => EnrolInv'
  <2> SUFFICES ASSUME EnrolInv, [Next]_vars PROVE EnrolInv'
    OBVIOUS
  <2>1. TypeOK /\ HandshakeInv /\ IdentityUsable /\ ProvisionInv
    BY DEF EnrolInv, HandshakeInv
  <2>2. TypeOK' /\ HandshakeInv'
    BY <2>1, TypeNext, HandshakeNext
  <2>3. (IdentityUsable /\ ProvisionInv)'
    <3>1. CASE CoreNext
      BY <2>1, <3>1, CoreStep, ProvisionFrame
    <3>2. CASE AwsNext
      BY <2>1, <3>2, ProvisionNext
    <3>3. CASE UNCHANGED vars
      BY <2>1, <3>3 DEF vars, storeVars, awsVars, IdentityUsable, ProvisionInv, Complete, Attempt
    <3> QED BY <3>1, <3>2, <3>3 DEF Next
  <2> QED BY <2>2, <2>3 DEF EnrolInv, HandshakeInv
<1> QED BY <1>1, EnrolInit, PTL DEF Spec

(* The state is well formed, and the downlink queue never exceeds its      *)
(* capacity, whatever it is.                                               *)
THEOREM EnrolmentTypeCorrect == Spec => []TypeOK
<1>1. EnrolInv => TypeOK
  BY DEF EnrolInv
<1> QED BY <1>1, EnrolAlways, PTL

(* Every response the server gets answers the nonce of the session it      *)
(* names and is signed with the key requested in it, for any number of     *)
(* late, repeated and lost messages (core_handle_challenge).               *)
THEOREM ResponsesSound == Spec => []AnswersSound
<1>1. EnrolInv => AnswersSound
  BY DEF EnrolInv
<1> QED BY <1>1, EnrolAlways, PTL

(* A registered marker stands for a key the server accepted, through any   *)
(* sequence of attempts, failed writes and power cuts; the exception is    *)
(* the marker whose write core_persist_registered reported as failed.      *)
THEOREM MarkerMeansKey == Spec => []MarkerHasKey
<1>1. EnrolInv => MarkerHasKey
  BY DEF EnrolInv
<1> QED BY <1>1, EnrolAlways, PTL

(* A complete runtime identity can connect, through any sequence of        *)
(* provisioning attempts, failed writes and power cuts, unless a late      *)
(* answer was applied or a delete of clear_runtime_identity failed.        *)
THEOREM IdentityConnects == Spec => []IdentityUsable
<1>1. EnrolInv => IdentityUsable
  BY DEF EnrolInv
<1> QED BY <1>1, EnrolAlways, PTL
=============================================================================
