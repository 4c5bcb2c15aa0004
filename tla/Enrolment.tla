----------------------------- MODULE Enrolment -----------------------------
(***************************************************************************)
(* How a device gets its identity and keeps it: the part of core_ops.c     *)
(* that prepares the keys at init, connects through the AWS provider       *)
(* (AwsProvider) and registers the device signing key with the server by   *)
(* challenge and response, against a network that delays, repeats and      *)
(* loses messages, a store whose writes may fail, and power cuts between   *)
(* any two steps.                                                          *)
(*                                                                         *)
(* The service task runs the jobs, the MQTT process task puts the server's *)
(* messages into the downlink queue, the downlink task handles them under  *)
(* the core lock; a step of the service task is what it does between two   *)
(* waits. JobQueue, CoreLifecycle and BoundedQueue model what is left out. *)
(***************************************************************************)
EXTENDS AwsProvider, Sequences

CONSTANT DownlinkCap   \* CONFIG_ACTRUST_CLOUD_DOWNLINK_QUEUE_SIZE

ASSUME DownlinkCapAssumption == DownlinkCap \in Nat \ {0}

VARIABLES
  state,     \* the core's state, as far as registration is concerned
  signKey,   \* ctx->sign_key: the key the open handle signs with
  reg,       \* ctx->reg
  sem,       \* challenge_sem and result_sem were posted; each is awaited once
  failed,    \* err of the registration in progress
  dlq,       \* the cloud's downlink queue
  wire,      \* what the server has sent on the register topics
  asked,     \* the public key the server got with each session's request
  sent,      \* the responses the server got
  accepted,  \* the keys the server has accepted
  torn       \* history: the marker is stored though storing it reported an error

coreVars ==
  <<state, signKey, reg, sem, failed, dlq, wire, asked, sent, accepted, torn>>
vars == <<storeVars, awsVars, coreVars>>

Sessions == 0..MaxMint
Messages ==
  [kind : {"challenge"}, session : Sessions, nonce : Sessions]
    \cup [kind : {"result"}, session : Sessions, status : {"ok", "no"}]

\* The service task is in a job of a connected core.
Registering ==
  {"keypair", "request", "await_challenge", "took_challenge", "answer",
   "await_result", "took_result", "cleanup", "commit"}
Online == {"connected", "online"} \cup Registering
CorePcs == {"off", "prepare", "claim_cert", "claim_key", "ready"} \cup Online

Idle == [inProgress |-> FALSE, phase |-> "IDLE", ok |-> FALSE, nonce |-> None,
         session |-> None]
NoPosts == [challenge |-> FALSE, result |-> FALSE]

Init ==
  /\ StoreInit /\ AwsInit
  /\ pc = "off" /\ state = "down" /\ signKey = None /\ reg = Idle
  /\ sem = NoPosts /\ failed = FALSE /\ dlq = <<>>
  /\ wire = {} /\ asked = [s \in 1..MaxMint |-> None] /\ sent = {}
  /\ accepted = {Legacy} /\ torn = FALSE

\* Left alone by every step of the core: what belongs to the provider.
provider == <<then, phase, token, mail, enrolled, excuse>>
server == <<wire, asked, sent, accepted>>

----------------------------------------------------------------------------
(* core_ops_init                                                            *)

StartInit ==
  /\ pc = "off"
  /\ Goto("prepare")
  /\ UNCHANGED <<storeVars, provider, coreVars>>

\* prepare_signing_key: open EC_2; a registered device without it copies the key
\* of an older release. An unregistered device goes on without a key.
PrepareSigningKey ==
  /\ pc = "prepare"
  /\ \E res \in KeyOpen("EC_2") :
       \/ /\ res = "OK"
          /\ signKey' = slot["EC_2"]
          /\ Goto("claim_cert") /\ UNCHANGED slot
       \/ /\ res # "OK" /\ ~marker
          /\ Goto("claim_cert") /\ UNCHANGED <<slot, signKey>>
       \/ /\ res = "NO_RESOURCE" /\ marker
          /\ \E w \in KeyMigrate("EC_0", "EC_2") :
               /\ slot' = w.slot
               /\ \/ w.ok /\ signKey' = slot'["EC_2"] /\ Goto("claim_cert")
                  \/ Goto("off") /\ UNCHANGED signKey
       \/ /\ res = "IO" /\ marker
          /\ Goto("off") /\ UNCHANGED <<slot, signKey>>
  /\ UNCHANGED <<thing, marker, minted, provider, state, reg, sem, failed, dlq,
                 server, torn>>

\* A failed init rolls back: the signing key's handle is closed.
FailInit == Goto("off") /\ signKey' = None /\ UNCHANGED state

\* store_claim_credentials: nothing without a configuration, else the claim
\* certificate and then the claim key.
StoreClaimCert ==
  /\ pc = "claim_cert"
  /\ \/ Goto("ready") /\ state' = "ready" /\ UNCHANGED <<slot, signKey>>
     \/ \E w \in CertWrite("X509_0", Claim) :
          /\ slot' = w.slot
          /\ \/ w.ok /\ Goto("claim_key") /\ UNCHANGED <<state, signKey>>
             \/ ~w.ok /\ FailInit
  /\ UNCHANGED <<thing, marker, minted, provider, reg, sem, failed, dlq, server,
                 torn>>

StoreClaimKey ==
  /\ pc = "claim_key"
  /\ \E w \in KeyImport("EC_0", Claim) :
       /\ slot' = w.slot
       /\ \/ w.ok /\ Goto("ready") /\ state' = "ready" /\ UNCHANGED signKey
          \/ ~w.ok /\ FailInit
  /\ UNCHANGED <<thing, marker, minted, provider, reg, sem, failed, dlq, server,
                 torn>>

----------------------------------------------------------------------------
(* core_ops_connect and _disconnect                                         *)

Connect ==
  /\ pc = "ready"
  /\ Goto("runtime")
  /\ UNCHANGED <<storeVars, provider, coreVars>>

\* After actrust_cloud_connect: the marker and the key decide the state; an error
\* or a marker without a key disconnects again.
FinishConnect ==
  /\ pc = "connected"
  /\ \/ Goto("ready") /\ UNCHANGED state
     \/ /\ marker => signKey # None
        /\ state' = IF marker THEN "registered" ELSE "unregistered"
        /\ Goto("online")
  /\ UNCHANGED <<storeVars, provider, signKey, reg, sem, failed, dlq, server, torn>>

Disconnect ==
  /\ pc = "online"
  /\ state' = "ready"
  /\ Goto("ready")
  /\ UNCHANGED <<storeVars, provider, signKey, reg, sem, failed, dlq, server, torn>>

----------------------------------------------------------------------------
(* core_ops_register                                                        *)

\* Mutant of Register: a second job, queued before the first one ended, runs.
RegisterUnchecked ==
  /\ pc = "online"
  /\ reg' = [Idle EXCEPT !.inProgress = TRUE]
  /\ Goto("keypair")
  /\ UNCHANGED <<storeVars, provider, state, signKey, sem, failed, dlq, server, torn>>

\* The state is checked again when the job runs; then the semaphores are created
\* and the registration record is reset.
Register ==
  /\ pc = "online"
  /\ state = "unregistered"
  /\ reg' = [Idle EXCEPT !.inProgress = TRUE]
  /\ Goto("keypair")
  /\ UNCHANGED <<storeVars, provider, state, signKey, sem, failed, dlq, server, torn>>

Fail == Goto("cleanup") /\ failed' = TRUE

\* make_keypair overwrites the signing slot and its handle.
MakeKeypair ==
  /\ pc = "keypair"
  /\ minted["EC_2"] < MaxMint
  /\ minted' = [minted EXCEPT !["EC_2"] = @ + 1]
  /\ \E w \in KeyGenerate("EC_2") :
       /\ slot' = w.slot
       /\ signKey' = IF w.ok THEN minted'["EC_2"] ELSE None
       /\ \/ w.ok /\ Goto("request") /\ UNCHANGED failed
          \/ Fail
  /\ UNCHANGED <<thing, marker, provider, state, reg, sem, dlq, server, torn>>

\* generate_session_id: random, so different from every earlier one.
FreshSession == minted["session"] + 1

\* build_register_req names the session and the public part of the new key.
RegisterRequest(s) == [asked EXCEPT ![s] = signKey]

\* request_challenge up to the wait: a fresh session, the phase, the request. The
\* server answers it with a challenge, with one that has no nonce, or not.
RequestChallenge ==
  /\ pc = "request"
  /\ FreshSession <= MaxMint
  /\ minted' = [minted EXCEPT !["session"] = FreshSession]
  /\ LET s == FreshSession IN
     \/ /\ reg' = [reg EXCEPT !.session = s, !.phase = "WAIT_CHALLENGE",
                              !.ok = FALSE, !.nonce = None]
        /\ asked' = RegisterRequest(s)
        /\ \E S \in SUBSET {[kind |-> "challenge", session |-> s, nonce |-> s],
                            [kind |-> "challenge", session |-> s, nonce |-> None]} :
             wire' = wire \cup S
        /\ Goto("await_challenge") /\ UNCHANGED failed
     \/ /\ reg' = [reg EXCEPT !.session = s, !.ok = FALSE, !.nonce = None]
        /\ Fail /\ UNCHANGED <<asked, wire>>
  /\ UNCHANGED <<slot, thing, marker, provider, state, signKey, sem, dlq, sent,
                 accepted, torn>>

\* actrust_sem_wait takes a post or runs into its time limit; the core lock is
\* taken after it, so that a message may be handled in between.
TakePost(from, which, to) ==
  /\ pc = from
  /\ \/ sem[which] /\ sem' = [sem EXCEPT ![which] = FALSE] /\ UNCHANGED failed
     \/ ~sem[which] /\ failed' = TRUE /\ UNCHANGED sem
  /\ Goto(to)
  /\ UNCHANGED <<storeVars, provider, state, signKey, reg, dlq, server, torn>>

AwaitChallenge == TakePost("await_challenge", "challenge", "took_challenge")
AwaitResult == TakePost("await_result", "result", "took_result")

\* Under the lock the phase goes back to idle and the outcome is read.
TakeOutcome(from, good, to) ==
  /\ pc = from
  /\ reg' = [reg EXCEPT !.phase = "IDLE"]
  /\ failed' = (failed \/ ~good)
  /\ Goto(IF failed' THEN "cleanup" ELSE to)
  /\ UNCHANGED <<storeVars, provider, state, signKey, sem, dlq, server, torn>>

TookChallenge == TakeOutcome("took_challenge", reg.ok /\ reg.nonce # None, "answer")
TookResult == TakeOutcome("took_result", reg.ok, "cleanup")

\* build_challenge_resp names the session and carries the signature of the nonce.
ChallengeResponse == [session |-> reg.session, nonce |-> reg.nonce, key |-> signKey]

\* answer_challenge up to the wait: the nonce is signed with the new key. The
\* server checks the signature against the key and the nonce of the session,
\* accepts the key or refuses it, and its result may be lost.
AnswerChallenge ==
  /\ pc = "answer"
  /\ LET m == ChallengeResponse
         valid == m.nonce = m.session /\ m.key = asked[m.session] IN
     \/ /\ reg' = [reg EXCEPT !.phase = "WAIT_RESULT", !.ok = FALSE]
        /\ sent' = sent \cup {m}
        /\ \E accept \in {FALSE, valid}, answer \in BOOLEAN :
             /\ accepted' = IF accept THEN accepted \cup {m.key} ELSE accepted
             /\ wire' = wire \cup (IF ~answer THEN {} ELSE
                  {[kind |-> "result", session |-> m.session,
                    status |-> IF accept THEN "ok" ELSE "no"]})
        /\ Goto("await_result") /\ UNCHANGED failed
     \/ /\ UNCHANGED <<reg, sent, accepted, wire>>
        /\ Fail
  /\ UNCHANGED <<storeVars, provider, state, signKey, sem, dlq, asked, torn>>

\* The end of do_register: after an error the handle is closed and the stored key
\* destroyed; the record is reset and the semaphores go.
Cleanup ==
  /\ pc = "cleanup"
  /\ \/ /\ failed
        /\ signKey' = None
        /\ slot' \in KeyDestroy("EC_2")
        /\ Goto("online")
     \/ ~failed /\ Goto("commit") /\ UNCHANGED <<slot, signKey>>
  /\ reg' = [reg EXCEPT !.inProgress = FALSE, !.phase = "IDLE", !.session = None]
  /\ sem' = NoPosts
  /\ failed' = FALSE
  /\ UNCHANGED <<thing, marker, minted, provider, state, dlq, server, torn>>

\* commit_registered: the marker, then the state. kv_set may report an error and
\* still have stored the marker.
CommitRegistered ==
  /\ pc = "commit"
  /\ \/ marker' = TRUE /\ torn' = FALSE /\ state' = "registered"
     \/ marker' = TRUE /\ torn' = TRUE /\ UNCHANGED state
     \/ UNCHANGED <<marker, torn, state>>
  /\ Goto("online")
  /\ UNCHANGED <<slot, thing, minted, provider, signKey, reg, sem, failed, dlq,
                 server>>

----------------------------------------------------------------------------
(* The other two tasks                                                      *)

\* Mutant of QueueHasRoom: the limit is off by one.
RoomAtTheLimit == Len(dlq) <= DownlinkCap

\* queue_register_command pushes without waiting.
QueueHasRoom == Len(dlq) < DownlinkCap

\* runtime_callback, on the process task: a message of the server goes to the
\* downlink queue, or is dropped when the queue is full.
RuntimeCallback ==
  /\ pc \in Online
  /\ QueueHasRoom
  /\ \E m \in wire : dlq' = Append(dlq, m)
  /\ UNCHANGED <<storeVars, awsVars, state, signKey, reg, sem, failed, server, torn>>

\* Mutant of SessionMatches: the session of a message is not compared.
AnySession(m) == reg.session # None /\ m.session # None

\* session_matches_locked
SessionMatches(m) == reg.session # None /\ m.session = reg.session

\* Dropped outside its phase, for another session, or after the first nonce.
HandleChallenge(m) ==
  /\ m.kind = "challenge"
  /\ IF /\ reg.inProgress /\ reg.phase = "WAIT_CHALLENGE"
        /\ SessionMatches(m)
        /\ reg.nonce = None
     THEN /\ reg' = [reg EXCEPT !.ok = (m.nonce # None), !.nonce = m.nonce]
          /\ sem' = [sem EXCEPT !.challenge = TRUE]
     ELSE UNCHANGED <<reg, sem>>

HandleRegisterResult(m) ==
  /\ m.kind = "result"
  /\ IF /\ reg.inProgress /\ reg.phase = "WAIT_RESULT"
        /\ SessionMatches(m)
     THEN /\ reg' = [reg EXCEPT !.ok = (m.status = "ok")]
          /\ sem' = [sem EXCEPT !.result = TRUE]
     ELSE UNCHANGED <<reg, sem>>

\* The downlink task runs from the end of a connect to the disconnect.
DownlinkDispatch ==
  /\ pc \in Online \ {"connected"}
  /\ dlq # <<>>
  /\ dlq' = Tail(dlq)
  /\ HandleChallenge(Head(dlq)) \/ HandleRegisterResult(Head(dlq))
  /\ UNCHANGED <<storeVars, awsVars, state, signKey, failed, server, torn>>

----------------------------------------------------------------------------
\* A power cut, or a deinit and a new init: what is in memory is lost.
Restart ==
  /\ pc # "off"
  /\ pc' = "off" /\ state' = "down" /\ signKey' = None /\ reg' = Idle
  /\ sem' = NoPosts /\ failed' = FALSE /\ dlq' = <<>>
  /\ then' = "ready" /\ phase' = "REQUEST_CERT" /\ token' = None
  /\ UNCHANGED <<storeVars, mail, enrolled, excuse, server, torn>>

CoreNext ==
  \/ StartInit \/ PrepareSigningKey \/ StoreClaimCert \/ StoreClaimKey
  \/ Connect \/ FinishConnect \/ Disconnect
  \/ Register \/ MakeKeypair \/ RequestChallenge \/ AwaitChallenge
  \/ TookChallenge \/ AnswerChallenge \/ AwaitResult \/ TookResult
  \/ Cleanup \/ CommitRegistered
  \/ RuntimeCallback \/ DownlinkDispatch
  \/ Restart

Next == CoreNext \/ (AwsNext /\ UNCHANGED coreVars)

Spec == Init /\ [][Next]_vars

----------------------------------------------------------------------------
\* The shape of the state; the downlink queue never exceeds its capacity.
TypeOK ==
  /\ StoreTypeOK /\ AwsTypeOK
  /\ pc \in CorePcs \cup AwsPcs
  /\ state \in {"down", "ready", "unregistered", "registered"}
  /\ signKey \in Keys
  /\ reg \in [inProgress : BOOLEAN, ok : BOOLEAN, nonce : Sessions,
              session : Sessions,
              phase : {"IDLE", "WAIT_CHALLENGE", "WAIT_RESULT"}]
  /\ sem \in [challenge : BOOLEAN, result : BOOLEAN]
  /\ failed \in BOOLEAN
  /\ dlq \in Seq(Messages) /\ Len(dlq) <= DownlinkCap
  /\ wire \subseteq Messages
  /\ asked \in [1..MaxMint -> Keys]
  /\ sent \subseteq [session : Sessions, nonce : Sessions, key : Keys]
  /\ accepted \subseteq Keys
  /\ torn \in BOOLEAN

\* The registered marker stands for a key the server accepted: the signing slot
\* holds it, or, on a device an older release registered, EC_0 until the key is
\* copied. It covers power cuts between the writes, late and repeated messages of
\* earlier sessions, time-outs, and the order in which init migrates the old key
\* and overwrites EC_0. The exception is a marker whose write was reported as
\* failed (core_persist_registered).
MarkerHasKey ==
  marker /\ ~torn =>
    \/ slot["EC_2"] \in accepted
    \/ slot["EC_2"] = None /\ slot["EC_0"] \in accepted

\* Every response the server gets answers the nonce issued for the session it
\* names and is signed with the key requested in that session
\* (core_handle_challenge, request_challenge, answer_challenge).
AnswersSound ==
  \A m \in sent : m.nonce = m.session /\ m.key = asked[m.session]

\* A complete stored runtime identity can connect: the certificate is for the
\* stored key and AWS has attached it to the thing. Otherwise runtime_connect
\* keeps an identity that no connect can use and never asks for a new one
\* (cloud_aws.c:974-980). Two things are excepted: an answer to an earlier
\* attempt was applied, or a delete failed while the identity was being cleared.
IdentityUsable ==
  /\ excuse = {} /\ thing = "own"
  /\ slot["EC_1"] # None /\ slot["X509_1"] # None
  => slot["EC_1"] = slot["X509_1"] /\ slot["X509_1"] \in enrolled
=============================================================================
