---------------------------- MODULE AwsProvider ----------------------------
(***************************************************************************)
(* The AWS provider's connect (cloud_aws.c): the runtime connection with a *)
(* stored identity and, when there is none, fleet provisioning: a new key, *)
(* a certificate request, a registration of the thing, and the runtime     *)
(* connection again. The answers arrive on the MQTT process task           *)
(* (cloud_aws_callback.c), which shares the phase with the service task.   *)
(* AWS answers a request, or not, and an answer may be delivered late,     *)
(* twice or never.                                                         *)
(***************************************************************************)
EXTENDS SecureStore

VARIABLES
  pc,        \* where the service task is
  then,      \* where it goes when the runtime identity is cleared
  phase,     \* aws_ctx->registration_phase
  token,     \* ownership_token: the certificate it belongs to
  mail,      \* answers AWS has sent on the provisioning topics
  enrolled,  \* certificates AWS has attached to the thing
  excuse     \* history: "late" - an answer to an earlier attempt was applied
             \* "uncleared" - a delete of the identity failed

awsVars == <<pc, then, phase, token, mail, enrolled, excuse>>

Phases ==
  {"REQUEST_CERT", "WAIT_CSR_RESPONSE", "CSR_ACCEPTED", "CSR_REJECTED",
   "REQUEST_REGISTER", "WAIT_REGISTER_RESPONSE", "REGISTER_ACCEPTED",
   "REGISTER_REJECTED", "FINISH"}

Answers ==
  [kind : {"csr"}, ok : BOOLEAN, key : 0..MaxMint]
    \cup [kind : {"register"}, name : {"own", "other", "rejected"}, key : Keys]

\* The provisioning topics are subscribed and the process task runs.
Provisioning ==
  {"request_cert", "arm_cert", "await_cert", "request_register",
   "arm_register", "await_register", "finish", "leave"}

AwsPcs ==
  {"runtime", "first", "reconnect", "clear_key", "clear_cert", "clear_thing"}
    \cup Provisioning

AwsInit ==
  /\ then = "ready" /\ phase = "REQUEST_CERT" /\ token = None
  /\ mail = {} /\ enrolled = {Legacy} /\ excuse = {}

Goto(p) == pc' = p

----------------------------------------------------------------------------
(* clear_runtime_identity: key, certificate, thing name, in this order,     *)
(* every failure ignored; then the in-memory copies.                        *)

Clear(p) == pc' = "clear_key" /\ then' = p

ClearKey ==
  /\ pc = "clear_key"
  /\ slot' \in KeyDestroy("EC_1")
  /\ excuse' = IF slot'["EC_1"] = None THEN {} ELSE {"uncleared"}
  /\ Goto("clear_cert")
  /\ UNCHANGED <<thing, marker, minted, then, phase, token, mail, enrolled>>

ClearCert ==
  /\ pc = "clear_cert"
  /\ slot' \in CertDelete("X509_1")
  /\ excuse' = excuse \cup (IF slot'["X509_1"] = None THEN {} ELSE {"uncleared"})
  /\ Goto("clear_thing")
  /\ UNCHANGED <<thing, marker, minted, then, phase, token, mail, enrolled>>

ClearThing ==
  /\ pc = "clear_thing"
  /\ thing' \in {"none", thing}
  /\ excuse' = excuse \cup (IF thing' = "none" THEN {} ELSE {"uncleared"})
  /\ token' = None
  /\ Goto(then) /\ then' = "ready"
  /\ UNCHANGED <<slot, marker, minted, phase, mail, enrolled>>

----------------------------------------------------------------------------
(* runtime_connect, entered at "runtime" and, after provisioning, again at  *)
(* "reconnect", where NOT_READY is an error of the connect.                 *)

NotReady == IF pc = "runtime" THEN "first" ELSE "ready"

\* load_cert_and_key: the first of the two reads that fails is the result.
LoadCertAndKey(c, k) ==
  {IF r[1] # "OK" THEN r[1] ELSE r[2] : r \in CertRead(c) \X KeyOpen(k)}

\* validate_thing_name: the name must be the one of this device.
ValidThingName(name) == name = "own"

RuntimeConnect ==
  /\ pc \in {"runtime", "reconnect"}
  /\ \/ Goto("ready") /\ UNCHANGED then            \* an error of the KV store
     \/ /\ thing = "none"
        /\ Goto(NotReady) /\ UNCHANGED then
     \/ /\ thing # "none" /\ ~ValidThingName(thing)
        /\ Clear(NotReady)
     \/ /\ ValidThingName(thing)
        /\ \E res \in LoadCertAndKey("X509_1", "EC_1") :
             \/ res = "NO_RESOURCE" /\ Clear(NotReady)
             \/ res = "IO" /\ Goto("ready") /\ UNCHANGED then
             \/ /\ res = "OK"
                /\ \/ Goto("ready")                \* identity kept
                   \/ /\ slot["X509_1"] = slot["EC_1"]
                      /\ slot["X509_1"] \in enrolled
                      /\ Goto("connected")
                /\ UNCHANGED then
  /\ UNCHANGED <<storeVars, phase, token, mail, enrolled, excuse>>

----------------------------------------------------------------------------
(* first_connect, one action per request and per wait.                      *)

\* A failure: disconnect and join, while the callback may still run, and clear.
Abandon == Goto("leave") /\ UNCHANGED then

Leave ==
  /\ pc = "leave"
  /\ Clear("ready")
  /\ UNCHANGED <<storeVars, phase, token, mail, enrolled, excuse>>

FirstConnect ==
  /\ pc = "first"
  /\ \/ Clear("ready") /\ UNCHANGED phase     \* no connection or subscription
     \/ /\ "OK" \in LoadCertAndKey("X509_0", "EC_0")
        /\ phase' = "REQUEST_CERT"
        /\ Goto("request_cert") /\ UNCHANGED then
  /\ UNCHANGED <<storeVars, token, mail, enrolled, excuse>>

\* request_cert: a new runtime key is stored before its CSR is published. AWS
\* answers the CSR or not.
RequestCert ==
  /\ pc = "request_cert"
  /\ minted["EC_1"] < MaxMint
  /\ minted' = [minted EXCEPT !["EC_1"] = @ + 1]
  /\ \E w \in KeyGenerate("EC_1") :
       /\ slot' = w.slot
       /\ \/ Abandon /\ UNCHANGED mail
          \/ /\ w.ok
             /\ \E answer \in BOOLEAN, accept \in BOOLEAN :
                  mail' = mail \cup (IF ~answer THEN {} ELSE
                    {[kind |-> "csr", ok |-> accept, key |-> minted'["EC_1"]]})
             /\ Goto("arm_cert") /\ UNCHANGED then
  /\ UNCHANGED <<thing, marker, phase, token, enrolled, excuse>>

\* wait_registration_phase starts by setting the phase: an answer that has
\* already been handled is overwritten.
Arm(from, wait, to) ==
  /\ pc = from
  /\ phase' = wait
  /\ Goto(to)
  /\ UNCHANGED <<storeVars, then, token, mail, enrolled, excuse>>

ArmCert == Arm("arm_cert", "WAIT_CSR_RESPONSE", "await_cert")
ArmRegister == Arm("arm_register", "WAIT_REGISTER_RESPONSE", "await_register")

\* The loop of wait_registration_phase: it ends at the accepted phase, at the
\* rejected one or at the deadline, and ignores every other phase.
Await(from, accepted, next, to) ==
  /\ pc = from
  /\ \/ phase = accepted /\ phase' = next /\ Goto(to) /\ UNCHANGED then
     \/ phase # accepted /\ Abandon /\ UNCHANGED phase
  /\ UNCHANGED <<storeVars, token, mail, enrolled, excuse>>

AwaitCert ==
  Await("await_cert", "CSR_ACCEPTED", "REQUEST_REGISTER", "request_register")
AwaitRegister == Await("await_register", "REGISTER_ACCEPTED", "FINISH", "finish")

\* request_register publishes the token; AWS attaches the token's certificate to
\* the thing and answers, refuses, or stays silent.
RequestRegister ==
  /\ pc = "request_register"
  /\ \/ Abandon /\ UNCHANGED <<mail, enrolled>>
     \/ /\ \/ UNCHANGED <<mail, enrolled>>
           \/ /\ mail' = mail \cup {[kind |-> "register", name |-> "rejected",
                                     key |-> token]}
              /\ UNCHANGED enrolled
           \/ /\ token # None
              /\ enrolled' = enrolled \cup {token}
              /\ \E name \in {"own", "other"} :
                   mail' = mail \cup {[kind |-> "register", name |-> name,
                                       key |-> token]}
        /\ Goto("arm_register") /\ UNCHANGED then
  /\ UNCHANGED <<storeVars, phase, token, excuse>>

\* Disconnect and join before the runtime connection; a failure of either is
\* returned and keeps the identity.
Finish ==
  /\ pc = "finish"
  /\ pc' \in {"ready", "reconnect"}
  /\ UNCHANGED <<storeVars, then, phase, token, mail, enrolled, excuse>>

----------------------------------------------------------------------------
(* registration_callback, on the process task. No handler looks at the      *)
(* phase, and an answer does not name the request it belongs to.            *)

\* The answer belongs to an earlier attempt.
Late(k) == IF pc # "request_cert" /\ k = minted["EC_1"] THEN {} ELSE {"late"}

\* Mutant of HandleCsrAccepted: the result of the write is not looked at.
HandleCsrUnchecked(m) ==
  /\ m.kind = "csr" /\ m.ok
  /\ \E w \in CertWrite("X509_1", m.key) :
       /\ slot' = w.slot
       /\ excuse' = excuse \cup Late(m.key)
       /\ token' = m.key /\ phase' = "CSR_ACCEPTED"
  /\ UNCHANGED thing

\* The certificate is stored; a missing token leaves the phase.
HandleCsrAccepted(m) ==
  /\ m.kind = "csr" /\ m.ok
  /\ \E w \in CertWrite("X509_1", m.key) :
       /\ slot' = w.slot
       /\ excuse' = excuse \cup Late(m.key)
       /\ \/ w.ok /\ token' = m.key /\ phase' = "CSR_ACCEPTED"
          \/ UNCHANGED <<token, phase>>
  /\ UNCHANGED thing

HandleCsrRejected(m) ==
  /\ m.kind = "csr" /\ ~m.ok
  /\ phase' = "CSR_REJECTED"
  /\ UNCHANGED <<slot, thing, token, excuse>>

\* The thing name is validated and stored before the phase is set.
HandleRegisterAccepted(m) ==
  /\ m.kind = "register" /\ m.name # "rejected"
  /\ \/ /\ ValidThingName(m.name)
        /\ excuse' = excuse \cup Late(m.key)
        /\ \/ thing' = "own" /\ phase' \in {phase, "REGISTER_ACCEPTED"}
           \/ UNCHANGED <<thing, phase>>
     \/ /\ ~ValidThingName(m.name)
        /\ phase' = "REGISTER_REJECTED"
        /\ UNCHANGED <<thing, excuse>>
  /\ UNCHANGED <<slot, token>>

HandleRegisterRejected(m) ==
  /\ m.kind = "register" /\ m.name = "rejected"
  /\ phase' = "REGISTER_REJECTED"
  /\ UNCHANGED <<slot, thing, token, excuse>>

RegistrationCallback ==
  /\ pc \in Provisioning
  /\ \E m \in mail : \/ HandleCsrAccepted(m)
                     \/ HandleCsrRejected(m)
                     \/ HandleRegisterAccepted(m)
                     \/ HandleRegisterRejected(m)
  /\ UNCHANGED <<marker, minted, pc, then, mail, enrolled>>

AwsNext ==
  \/ RuntimeConnect \/ FirstConnect \/ RequestCert \/ ArmCert \/ AwaitCert
  \/ RequestRegister \/ ArmRegister \/ AwaitRegister \/ Finish \/ Leave
  \/ ClearKey \/ ClearCert \/ ClearThing
  \/ RegistrationCallback

AwsTypeOK ==
  /\ then \in {"first", "ready"}
  /\ phase \in Phases
  /\ token \in 0..MaxMint
  /\ mail \subseteq Answers
  /\ enrolled \subseteq Keys \ {None}
  /\ excuse \subseteq {"late", "uncleared"}
=============================================================================
