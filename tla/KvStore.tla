------------------------------- MODULE KvStore -------------------------------
(***************************************************************************)
(* One namespace of the journaled key-value store (kv.c) on a storage      *)
(* region that may fail a write or lose power at any moment.               *)
(*                                                                         *)
(* The region holds two superblocks, Records fixed record slots and two    *)
(* journal slots; each is a cell.  A call runs under the namespace lock,   *)
(* so there is one call at a time.  It is a list of storage writes (todo)  *)
(* carried out in order; the adapters fsync every write, so a write that   *)
(* completed is durable, and a write that was cut off leaves a cell with   *)
(* its old, its new or a torn content.  A torn cell fails its CRC.         *)
(***************************************************************************)
EXTENDS Integers, FiniteSets, Sequences

CONSTANTS Keys, Vals,
          Records,      \* CONFIG_ACTRUST_KV_MAX_RECORDS
          NoVal, NoCall,
          MaxGen        \* bound on the superblock generation (uint64 in the code)

ASSUME KvAssumption ==
  /\ Records \in Nat \ {0} /\ MaxGen \in Nat \ {0}
  /\ NoVal \notin Vals

VARIABLES
  disk,    \* disk[c]: the content of cell c
  pc,      \* "down", "recover", "write", "locate" or "ready"
  todo,    \* the storage writes the running call has still to do
  then,    \* where the call goes on once todo is done
  call,    \* the running call, NoCall when there is none (also during open)
  ret,     \* what the last completed call reported
  tears    \* whether a write inside one 512-byte sector of this storage can tear

vars == <<disk, pc, todo, then, call, ret, tears>>

Slots   == 0..(Records - 1)
SbCell(i)  == <<"sb", i>>
JnlCell(i) == <<"jnl", i>>
RecCell(i) == <<"rec", i>>
SbCells  == {SbCell(i) : i \in 0..1}
JnlCells == {JnlCell(i) : i \in 0..1}
RecCells == {RecCell(i) : i \in Slots}
Cells    == SbCells \cup JnlCells \cup RecCells

(* Contents of a cell.  A record with used = 0 and a cleared journal both  *)
(* read as Zero.                                                           *)
Zero == [kind |-> "zero"]
Torn == [kind |-> "torn"]
Record(k, v) == [kind |-> "rec", key |-> k, val |-> v]
Superblock(g, n) == [kind |-> "sb", gen |-> g, count |-> n]
Journal(st, o, base, i, n, r) ==
  [kind |-> "jnl", state |-> st, op |-> o, gen |-> base + 1, base |-> base,
   idx |-> i, count |-> n, rec |-> r]

Write(c, v) == [cells |-> {c}, val |-> v]

Calls == [kind : {"set"}, key : Keys, val : Vals]
           \cup [kind : {"get", "del"}, key : Keys, val : {NoVal}]

-----------------------------------------------------------------------------
(* Reading the region.                                                     *)

(* kv_select_superblock: the valid superblock of the higher generation,    *)
(* the first one on a tie.                                                 *)
SbValid(i) == disk[SbCell(i)].kind = "sb"
NoSuperblock == ~SbValid(0) /\ ~SbValid(1)
CurrentIndex ==
  IF SbValid(1) /\ (~SbValid(0) \/ disk[SbCell(1)].gen > disk[SbCell(0)].gen)
    THEN 1 ELSE 0
Current == disk[SbCell(CurrentIndex)]

(* The valid journal of the highest generation, the first one on a tie.    *)
JnlValid(i) == disk[JnlCell(i)].kind = "jnl"
NoJournal == ~JnlValid(0) /\ ~JnlValid(1)
JnlIndex ==
  IF JnlValid(1) /\ (~JnlValid(0) \/ disk[JnlCell(1)].gen > disk[JnlCell(0)].gen)
    THEN 1 ELSE 0
Jnl == disk[JnlCell(JnlIndex)]

(* kv_validate_records.                                                    *)
Used == {i \in Slots : disk[RecCell(i)].kind = "rec"}
RecordsReadable == \A i \in Slots : disk[RecCell(i)].kind # "torn"
RecordsValid == RecordsReadable /\ Cardinality(Used) = Current.count

(* kv_find_record keeps the last slot that matches; kv_find_free_record    *)
(* takes the first unused one.                                             *)
Matching(k) == {i \in Used : disk[RecCell(i)].key = k}
Found(k) == CHOOSE i \in Matching(k) : \A n \in Matching(k) : n <= i
Free == Slots \ Used
FirstFree == CHOOSE i \in Free : \A n \in Free : i <= n

-----------------------------------------------------------------------------
(* The writes of each procedure.                                           *)

(* kv_complete_format.                                                     *)
CompleteFormat ==
  << [cells |-> SbCells \cup RecCells, val |-> Zero],
     Write(SbCell(0), Superblock(1, 0)), Write(SbCell(1), Superblock(1, 0)) >>

FormatJournal(st) == Journal(st, "format", 0, 0, 0, Zero)

Format ==
  << Write(JnlCell(0), FormatJournal("prepared")) >> \o CompleteFormat
  \o << Write(JnlCell(0), FormatJournal("committed")), Write(JnlCell(0), Zero) >>

(* Mutation: the record of the journal is not written again.               *)
ReplayHeaderOnly ==
  << Write(SbCell((CurrentIndex + 1) % 2), Superblock(Jnl.gen, Jnl.count)),
     Write(JnlCell(JnlIndex), Zero) >>

(* The part of kv_recover that redoes a prepared journal.                  *)
Replay ==
  << Write(RecCell(Jnl.idx), Jnl.rec),
     Write(SbCell((CurrentIndex + 1) % 2), Superblock(Jnl.gen, Jnl.count)),
     Write(JnlCell(JnlIndex), Zero) >>

(* Mutations: the record is overwritten before the journal is prepared;    *)
(* the superblock is published before the record is written.               *)
TransactionUnprepared(o, i, n, r) ==
  << Write(RecCell(i), r),
     Write(JnlCell(Current.gen % 2), Journal("prepared", o, Current.gen, i, n, r)),
     Write(SbCell((CurrentIndex + 1) % 2), Superblock(Current.gen + 1, n)),
     Write(JnlCell(Current.gen % 2), Zero) >>
TransactionSbFirst(o, i, n, r) ==
  << Write(JnlCell(Current.gen % 2), Journal("prepared", o, Current.gen, i, n, r)),
     Write(SbCell((CurrentIndex + 1) % 2), Superblock(Current.gen + 1, n)),
     Write(RecCell(i), r),
     Write(JnlCell(Current.gen % 2), Zero) >>

(* kv_transaction.                                                         *)
Transaction(o, i, n, r) ==
  LET base == Current.gen
      cell == JnlCell(base % 2)
  IN  << Write(cell, Journal("prepared", o, base, i, n, r)),
         Write(RecCell(i), r),
         Write(SbCell((CurrentIndex + 1) % 2), Superblock(base + 1, n)),
         Write(cell, Journal("committed", o, base, i, n, r)),
         Write(cell, Zero) >>

-----------------------------------------------------------------------------
Init ==
  /\ disk = [c \in Cells |-> Zero]
  /\ pc = "down" /\ todo = <<>> /\ then = "none"
  /\ call = NoCall
  /\ ret = [status |-> "none", val |-> NoVal]
  /\ tears \in BOOLEAN

Opening == call = NoCall

(* The call returns.  A failed open leaves no handle.                      *)
Return(status, v) ==
  /\ pc' = IF Opening /\ status # "ok" THEN "down" ELSE "ready"
  /\ todo' = <<>> /\ then' = "none" /\ call' = NoCall
  /\ ret' = IF Opening THEN ret ELSE [status |-> status, val |-> v]

(* actrust_kv_init or actrust_kv_open: kv_prepare_storage.  The header of  *)
(* superblock 0 decides whether recovery is tried at all: it is zero or    *)
(* that of version 2 unless the very first superblock write was torn, and  *)
(* that rejection is one of the cases of RecoverFails.                     *)
Open ==
  /\ pc = "down"
  /\ pc' = "recover"
  /\ UNCHANGED <<disk, todo, then, call, ret, tears>>

Close == pc = "ready" /\ pc' = "down" /\ UNCHANGED <<disk, todo, then, call, ret, tears>>

(* actrust_kv_set, _get, _exists, _del: kv_load_current comes first.       *)
BeginCall(c) ==
  /\ pc = "ready"
  /\ call' = c
  /\ pc' = "recover"
  /\ UNCHANGED <<disk, todo, then, ret, tears>>

-----------------------------------------------------------------------------
(* kv_recover, one action per path.                                        *)

Recovered == IF Opening THEN "open" ELSE "locate"
Perform(ws, goal) ==
  /\ pc' = "write" /\ todo' = ws /\ then' = goal
  /\ UNCHANGED <<disk, call, ret, tears>>

RecoverFormat ==
  /\ pc = "recover" /\ NoSuperblock
  /\ ~NoJournal /\ \A i \in 0..1 : disk[JnlCell(i)].kind # "torn"
  /\ Jnl.op = "format" /\ Jnl.base = 0 /\ Jnl.gen # 0
  /\ Perform(CompleteFormat \o <<Write(JnlCell(JnlIndex), Zero)>>, Recovered)

(* NO_RESOURCE: no superblock and no journal.  open formats a region that  *)
(* is entirely zero.                                                       *)
FormatVirgin ==
  /\ pc = "recover" /\ Opening
  /\ \A c \in Cells : disk[c] = Zero
  /\ Perform(Format, "open")

RecoverClean ==
  /\ pc = "recover" /\ ~NoSuperblock
  /\ NoJournal /\ RecordsValid
  /\ Perform(<<>>, Recovered)

RecoverClear ==
  /\ pc = "recover" /\ ~NoSuperblock
  /\ ~NoJournal /\ Jnl.gen <= Current.gen
  /\ Perform(<<Write(JnlCell(JnlIndex), Zero)>>, Recovered)

RecoverReplay ==
  /\ pc = "recover" /\ ~NoSuperblock
  /\ ~NoJournal /\ Jnl.gen > Current.gen
  /\ Jnl.base = Current.gen /\ Jnl.op # "format"
  /\ Perform(Replay, Recovered)

(* Every other content is rejected, and any read may fail.                 *)
RecoverFails ==
  /\ pc = "recover"
  /\ Return("io", NoVal)
  /\ UNCHANGED <<disk, tears>>

-----------------------------------------------------------------------------
(* What follows recovery in a call.                                        *)

(* actrust_kv_set: the key's slot, else a free one.                        *)
SetIn(i, n) ==
  /\ pc = "locate" /\ call.kind = "set" /\ RecordsReadable
  /\ Current.gen < MaxGen
  /\ Perform(Transaction("set", i, n, Record(call.key, call.val)), "done")
IsNew == Matching(call.key) = {}

(* Mutation: an overwrite counts as a new record.                          *)
SetKeyMiscounts ==
  /\ call # NoCall
  /\ IF IsNew THEN Free # {} /\ SetIn(FirstFree, Cardinality(Used) + 1)
              ELSE SetIn(Found(call.key), Cardinality(Used) + 1)
SetKey ==
  /\ call # NoCall
  /\ IF IsNew THEN Free # {} /\ SetIn(FirstFree, Cardinality(Used) + 1)
              ELSE SetIn(Found(call.key), Cardinality(Used))

DelKey ==
  /\ pc = "locate" /\ call.kind = "del" /\ RecordsReadable
  /\ Current.gen < MaxGen
  /\ Matching(call.key) # {}
  /\ Perform(Transaction("del", Found(call.key), Cardinality(Used) - 1, Zero), "done")

GetKey ==
  /\ pc = "locate" /\ call.kind = "get" /\ RecordsReadable
  /\ Matching(call.key) # {}
  /\ Return("ok", disk[RecCell(Found(call.key))].val)
  /\ UNCHANGED <<disk, tears>>

KeyMissing ==
  /\ pc = "locate" /\ call.kind \in {"get", "del"} /\ RecordsReadable
  /\ Matching(call.key) = {}
  /\ Return("missing", NoVal)
  /\ UNCHANGED <<disk, tears>>

StoreFull ==
  /\ pc = "locate" /\ call.kind = "set" /\ RecordsReadable
  /\ Matching(call.key) = {} /\ Free = {}
  /\ Return("full", NoVal)
  /\ UNCHANGED <<disk, tears>>

(* A record that cannot be read hides the free slots behind it.  The       *)
(* caller gets the error of a full store; the model tells the two apart.   *)
FreeUnread ==
  /\ pc = "locate" /\ call.kind = "set" /\ RecordsReadable
  /\ Matching(call.key) = {}
  /\ Return("unread", NoVal)
  /\ UNCHANGED <<disk, tears>>

LocateFails ==
  /\ pc = "locate"
  /\ Return("io", NoVal)
  /\ UNCHANGED <<disk, tears>>

-----------------------------------------------------------------------------
(* actrust_storage_write and _erase.                                       *)

Stored(w) == [c \in Cells |-> IF c \in w.cells THEN w.val ELSE disk[c]]

(* Whether the write changes more than one sector of the cell: a record    *)
(* does, and so does a journal slot unless only the head of a prepared     *)
(* FORMAT journal comes or goes (its embedded record is all zero).         *)
SpansSectors(c, v) ==
  \/ c \in RecCells
  \/ c \in JnlCells /\ {disk[c], v} # {Zero, FormatJournal("prepared")}

(* Each cell of a write that was cut off is as it was, written or torn.    *)
Tearable(w) == {c \in w.cells : disk[c] # w.val /\ (tears \/ SpansSectors(c, w.val))}
CutStates(w) ==
  {[c \in Cells |-> CASE c \in done -> w.val [] c \in torn -> Torn [] OTHER -> disk[c]] :
     done \in SUBSET w.cells, torn \in SUBSET Tearable(w)}

WriteDone ==
  /\ pc = "write" /\ todo # <<>>
  /\ disk' = Stored(Head(todo))
  /\ todo' = Tail(todo)
  /\ UNCHANGED <<pc, then, call, ret, tears>>

(* A write, or the sync before it, fails and the call gives up.            *)
WriteFails ==
  /\ pc = "write" /\ todo # <<>>
  /\ disk' \in CutStates(Head(todo))
  /\ Return("io", NoVal)
  /\ UNCHANGED tears

WritesDone ==
  /\ pc = "write" /\ todo = <<>>
  /\ \/ then = "locate" /\ pc' = "locate" /\ then' = "none"
                        /\ UNCHANGED <<disk, todo, call, ret, tears>>
     \/ then # "locate" /\ Return("ok", NoVal) /\ UNCHANGED <<disk, tears>>

(* Power loss, or the process dies.                                        *)
Crash ==
  /\ pc # "down"
  /\ IF pc = "write" /\ todo # <<>> THEN disk' \in CutStates(Head(todo))
                                   ELSE UNCHANGED disk
  /\ pc' = "down" /\ todo' = <<>> /\ then' = "none" /\ call' = NoCall
  /\ UNCHANGED <<ret, tears>>

Next ==
  \/ Open \/ Close \/ \E c \in Calls : BeginCall(c)
  \/ RecoverFormat \/ FormatVirgin \/ RecoverClean \/ RecoverClear
  \/ RecoverReplay \/ RecoverFails
  \/ SetKey \/ DelKey \/ GetKey \/ KeyMissing \/ StoreFull \/ FreeUnread \/ LocateFails
  \/ WriteDone \/ WriteFails \/ WritesDone \/ Crash

Spec == Init /\ [][Next]_vars
-----------------------------------------------------------------------------
(* The properties.                                                         *)

(* Contents has the shape of what kv.c writes to each kind of cell.        *)
Contents(c) ==
  {Zero, Torn} \cup
    CASE c \in SbCells  -> [kind : {"sb"}, gen : 1..MaxGen, count : 0..Records]
      [] c \in RecCells -> [kind : {"rec"}, key : Keys, val : Vals]
      [] c \in JnlCells ->
           [kind : {"jnl"}, state : {"prepared", "committed"},
            op : {"format", "set", "del"}, gen : 1..MaxGen, base : 0..MaxGen,
            idx : Slots, count : 0..Records,
            rec : {Zero} \cup [kind : {"rec"}, key : Keys, val : Vals]]

(* Type invariant: every cell holds something kv.c writes there, and the   *)
(* call in progress is one of kv.h's.                                      *)
TypeOK ==
  /\ DOMAIN disk = Cells /\ \A c \in Cells : disk[c] \in Contents(c)
  /\ pc \in {"down", "recover", "write", "locate", "ready"}
  /\ \A i \in DOMAIN todo : todo[i].cells \subseteq Cells
  /\ then \in {"none", "open", "locate", "done"}
  /\ call \in Calls \cup {NoCall}
  /\ pc \in {"down", "ready"} => call = NoCall
  /\ ret.status \in {"none", "ok", "io", "missing", "full", "unread"}
  /\ ret.val \in Vals \cup {NoVal} /\ tears \in BOOLEAN

(* What the region means: the records, with the change of a prepared       *)
(* journal that is newer than the superblock already made.                 *)
Pending == ~NoSuperblock /\ ~NoJournal /\ Jnl.gen > Current.gen /\ Jnl.op # "format"
LogicalRec(i) == IF Pending /\ i = Jnl.idx THEN Jnl.rec ELSE disk[RecCell(i)]
LogicalStore ==
  [k \in Keys |->
     LET hits == {i \in Slots : LogicalRec(i).kind = "rec" /\ LogicalRec(i).key = k}
     IN  IF hits = {} THEN NoVal ELSE LogicalRec(CHOOSE i \in hits : TRUE).val]

(* Every call is atomic and durable through write errors and power loss,   *)
(* wherever they cut kv_transaction, kv_recover or the recovery of a       *)
(* recovery: the namespace is the abstract map, which a call changes once  *)
(* and completely, and what set acknowledged a later get returns.          *)
Atomic == INSTANCE KvAtomic WITH store <- LogicalStore, Capacity <- Records
IsAtomicMap == Atomic!AtomicSpec

(* The contents kv_recover accepts, or kv_prepare_storage formats.         *)
Recoverable ==
  IF NoSuperblock
    THEN \/ /\ \A i \in 0..1 : disk[JnlCell(i)] # Torn
            /\ ~NoJournal /\ Jnl.op = "format" /\ Jnl.base = 0
         \/ Opening /\ \A c \in Cells : disk[c] = Zero
    ELSE \/ NoJournal /\ RecordsValid
         \/ ~NoJournal /\ Jnl.gen <= Current.gen
         \/ Pending /\ Jnl.base = Current.gen

(* No sequence of write errors and power losses makes a namespace          *)
(* unusable: kv_recover never meets a region it has to reject, except that *)
(* a storage that tears a single sector can spoil the very first format.   *)
NeverBricked ==
  pc \in {"down", "recover"} /\ (tears => ~NoSuperblock) => Recoverable

(* When kv_recover reports success, the region is clean whatever path it   *)
(* took: no record is damaged, their number is the recorded one, no key    *)
(* sits in two slots (kv_find_record would keep the last), and no valid    *)
(* journal is left, in the slot kv_recover did not select either.          *)
RecoveredConsistent ==
  pc = "locate" =>
    /\ RecordsValid
    /\ \A i, n \in Used : disk[RecCell(i)].key = disk[RecCell(n)].key => i = n
    /\ NoJournal
=============================================================================
