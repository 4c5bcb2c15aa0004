------------------------------ MODULE KvAtomic ------------------------------
(***************************************************************************)
(* What one namespace of the key-value store promises (kv.h): a map from   *)
(* keys to values with room for Capacity keys.  A call changes the map at  *)
(* most once, completely, and only while it runs.  A call that reports     *)
(* success has taken effect; one that reports an I/O error, or is cut off  *)
(* by a crash, has taken effect or not.  "persistent data survives across  *)
(* reboots".                                                               *)
(***************************************************************************)
EXTENDS Naturals, FiniteSets

CONSTANTS Keys, Vals, Capacity,
          NoVal,   \* what an absent key maps to
          NoCall   \* no call is running

VARIABLES store,   \* the map
          call,    \* the running call, or NoCall
          ret      \* what the last completed call reported

avars == <<store, call, ret>>

Calls == [kind : {"set"}, key : Keys, val : Vals]
           \cup [kind : {"get", "del"}, key : Keys, val : {NoVal}]

(* The map after a call has taken effect.                                  *)
Effect(c) == CASE c.kind = "get" -> store
               [] c.kind = "set" -> [store EXCEPT ![c.key] = c.val]
               [] c.kind = "del" -> [store EXCEPT ![c.key] = NoVal]

Present == {k \in Keys : store[k] # NoVal}

AtomicInit ==
  /\ store = [k \in Keys |-> NoVal]
  /\ call = NoCall
  /\ ret = [status |-> "none", val |-> NoVal]

Begin(c) == call = NoCall /\ call' = c /\ UNCHANGED <<store, ret>>

TakeEffect ==
  /\ call # NoCall
  /\ call.kind = "set" /\ store[call.key] = NoVal => Cardinality(Present) < Capacity
  /\ call.kind = "del" => store[call.key] # NoVal
  /\ store' = Effect(call)
  /\ UNCHANGED <<call, ret>>

Report(status, v) == call' = NoCall /\ ret' = [status |-> status, val |-> v]

ReturnOk ==
  /\ call # NoCall
  /\ Effect(call) = store
  /\ call.kind = "get" => store[call.key] # NoVal
  /\ Report("ok", IF call.kind = "get" THEN store[call.key] ELSE NoVal)
  /\ UNCHANGED store

ReturnMissing ==
  /\ call # NoCall /\ call.kind \in {"get", "del"}
  /\ store[call.key] = NoVal
  /\ Report("missing", NoVal)
  /\ UNCHANGED store

ReturnFull ==
  /\ call # NoCall /\ call.kind = "set"
  /\ store[call.key] = NoVal /\ Cardinality(Present) = Capacity
  /\ Report("full", NoVal)
  /\ UNCHANGED store

(* A read error that the code reports as a full store.                     *)
ReturnUnread ==
  /\ call # NoCall /\ call.kind = "set" /\ store[call.key] = NoVal
  /\ Report("unread", NoVal)
  /\ UNCHANGED store

(* An I/O error or a crash ends the call with or without its effect.       *)
CutOff ==
  /\ call # NoCall
  /\ store' \in {store, Effect(call)}
  /\ \/ Report("io", NoVal)
     \/ call' = NoCall /\ UNCHANGED ret

AtomicNext ==
  \/ \E c \in Calls : Begin(c)
  \/ TakeEffect \/ ReturnOk \/ ReturnMissing \/ ReturnFull \/ ReturnUnread \/ CutOff

AtomicSpec == AtomicInit /\ [][AtomicNext]_avars
=============================================================================
