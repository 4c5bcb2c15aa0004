---------------------------- MODULE KvStoreProofs ----------------------------
(***************************************************************************)
(* The key-value store is atomic and durable for any keys, values, number  *)
(* of record slots and generations, and wherever write errors and power    *)
(* losses cut a transaction, a recovery or a format.  The argument is that *)
(* the region means the same records before and after every write but one: *)
(* the journal write that prepares a transaction, which means them with    *)
(* the transaction's record in place.                                      *)
(***************************************************************************)
EXTENDS KvStore, FiniteSetTheorems, SequenceTheorems, WellFoundedInduction, TLAPS

(* What kv.c writes to each kind of cell, and the writes it can list.      *)
RecContents == {Zero} \cup [kind : {"rec"}, key : Keys, val : Vals]
SbContents  == [kind : {"sb"}, gen : 1..MaxGen, count : 0..Records]
JnlContents == [kind : {"jnl"}, state : {"prepared", "committed"},
                op : {"format", "set", "del"}, gen : 1..MaxGen, base : 0..MaxGen,
                idx : Slots, count : 0..Records, rec : RecContents]
Writes == [cells : SUBSET Cells, val : RecContents \cup SbContents \cup JnlContents]

(* Each cell holds its kind of content, or is zero or torn.                *)
DiskTyped ==
  /\ DOMAIN disk = Cells
  /\ \A i \in 0..1 : disk[SbCell(i)] \in {Zero, Torn} \cup SbContents
  /\ \A i \in 0..1 : disk[JnlCell(i)] \in {Zero, Torn} \cup JnlContents
  /\ \A i \in Slots : disk[RecCell(i)] \in {Torn} \cup RecContents

(* The records as recovery would leave them, and what must hold of them:   *)
(* readable, as many as the header counts, no key twice.                   *)
Logical == [i \in Slots |-> LogicalRec(i)]
LogicalCount == IF Pending THEN Jnl.count ELSE Current.count
InUse(recs) == {i \in Slots : recs[i].kind = "rec"}
Consistent(recs, n) ==
  /\ recs \in [Slots -> RecContents]
  /\ Cardinality(InUse(recs)) = n
  /\ \A i, j \in InUse(recs) : recs[i].key = recs[j].key => i = j

(* A region whose first format has not published a superblock.             *)
Unformatted ==
  /\ disk[SbCell(0)] \in {Zero, Torn} /\ disk[SbCell(1)] = Zero
  /\ disk[JnlCell(0)] \in {Zero, Torn, FormatJournal("prepared")}
  /\ disk[JnlCell(1)] = Zero
  /\ \A i \in Slots : disk[RecCell(i)] = Zero
  /\ disk[JnlCell(0)] = Zero => disk[SbCell(0)] = Zero
  /\ disk[JnlCell(0)] = Torn => tears

(* A formatted region: at most one journal, which is for the next          *)
(* generation or for none, and consistent records behind it.               *)
OneJournal == ~(JnlValid(0) /\ JnlValid(1))
Follows(v) ==
  /\ v.gen = v.base + 1
  /\ v.gen > Current.gen => v.base = Current.gen /\ v.op # "format"
Formatted ==
  /\ OneJournal
  /\ \A j \in 0..1 : JnlValid(j) => Follows(disk[JnlCell(j)])
  /\ Consistent(Logical, LogicalCount)

DiskOK == IF NoSuperblock THEN Unformatted ELSE Formatted

(* What a call has still to write, from the last write back: the journal   *)
(* is cleared, perhaps marked as committed first; the superblock is        *)
(* published before that, the record before that, and the journal first.   *)
ClearWrite(j) == Write(JnlCell(j), Zero)
Clearing(s, j, g) ==
  \/ s = <<ClearWrite(j)>>
  \/ \E v \in JnlContents : /\ v.gen = v.base + 1 /\ v.gen <= g
                            /\ s = <<Write(JnlCell(j), v), ClearWrite(j)>>
Other == (CurrentIndex + 1) % 2
Publishing(s, j, v) ==
  /\ s # <<>> /\ Head(s) = Write(SbCell(Other), Superblock(v.gen, v.count))
  /\ Clearing(Tail(s), j, v.gen)
Redoing(s, j, v) ==
  /\ s # <<>> /\ Head(s) = Write(RecCell(v.idx), v.rec)
  /\ Publishing(Tail(s), j, v)
Preparing(s, j, v) ==
  /\ s # <<>> /\ Head(s) = Write(JnlCell(j), v)
  /\ Redoing(Tail(s), j, v)

(* The four writes of a format that precede those of Clearing.             *)
EraseWrite == [cells |-> SbCells \cup RecCells, val |-> Zero]
FormatSb1(s) ==
  /\ s # <<>> /\ Head(s) = Write(SbCell(1), Superblock(1, 0))
  /\ Clearing(Tail(s), 0, 1)
FormatSb0(s) ==
  /\ s # <<>> /\ Head(s) = Write(SbCell(0), Superblock(1, 0)) /\ FormatSb1(Tail(s))
FormatErase(s) == s # <<>> /\ Head(s) = EraseWrite /\ FormatSb0(Tail(s))
FormatBegin(s) ==
  /\ s # <<>> /\ Head(s) = Write(JnlCell(0), FormatJournal("prepared"))
  /\ FormatErase(Tail(s))

(* Where a call in "write" stands, and what the region holds there.        *)
Settled(j) == ~NoSuperblock /\ ~Pending /\ ~JnlValid(1 - j)
Prepared(j) == ~NoSuperblock /\ Pending /\ JnlValid(j)
Finished == todo = <<>> /\ ~NoSuperblock /\ NoJournal
ToClear == \E j \in 0..1 : Settled(j) /\ Clearing(todo, j, Current.gen)
ToPublish ==
  \E j \in 0..1 :
    /\ Prepared(j) /\ Publishing(todo, j, disk[JnlCell(j)])
    /\ disk[RecCell(disk[JnlCell(j)].idx)] = disk[JnlCell(j)].rec
ToRedo == \E j \in 0..1 : Prepared(j) /\ Redoing(todo, j, disk[JnlCell(j)])

FormatPrepared == disk[JnlCell(0)] = FormatJournal("prepared")
AllZero == \A c \in Cells : disk[c] = Zero
ToFormat ==
  \/ AllZero /\ FormatBegin(todo)
  \/ NoSuperblock /\ FormatPrepared /\ (FormatErase(todo) \/ FormatSb0(todo))
  \/ /\ FormatPrepared /\ FormatSb1(todo) /\ disk[SbCell(0)] = Superblock(1, 0)
     /\ ~SbValid(1) /\ ~JnlValid(1)

(* The effect of a call on the records, done and to be done.               *)
Applied(recs) ==
  \/ call.kind = "set" /\ \E i \in Slots : recs[i] = Record(call.key, call.val)
  \/ call.kind = "del" /\ \A i \in InUse(recs) : recs[i].key # call.key
Makes(recs, v) ==
  \/ /\ call.kind = "set" /\ v.rec = Record(call.key, call.val)
     /\ IF recs[v.idx].kind = "rec" THEN recs[v.idx].key = call.key
                                    ELSE \A i \in InUse(recs) : recs[i].key # call.key
  \/ /\ call.kind = "del" /\ v.rec = Zero
     /\ recs[v.idx].kind = "rec" /\ recs[v.idx].key = call.key
Plan(j, v) ==
  /\ v.op # "format" /\ v.base = Current.gen /\ v.gen = v.base + 1
  /\ Preparing(todo, j, v)
  /\ Consistent([Logical EXCEPT ![v.idx] = v.rec], v.count)
  /\ Makes(Logical, v)
ToPrepare ==
  /\ ~NoSuperblock /\ NoJournal /\ then = "done"
  /\ \E j \in 0..1, v \in JnlContents : Plan(j, v)

(* A running call is about to prepare its transaction, or its effect is    *)
(* in the region already; recovery and format have no effect.              *)
TodoOK ==
  \/ ToPrepare
  \/ /\ Finished \/ ToClear \/ ToPublish \/ ToRedo \/ ToFormat
     /\ then = "done" => Applied(Logical)

(* The call, its place and its result.                                     *)
ControlOK ==
  /\ pc \in {"down", "recover", "write", "locate", "ready"}
  /\ todo \in Seq(Writes)
  /\ then \in {"none", "open", "locate", "done"}
  /\ call \in Calls \cup {NoCall}
  /\ pc \in {"down", "ready"} => call = NoCall
  /\ pc = "locate" => call # NoCall
  /\ pc = "write" => then # "none" /\ (then = "open" <=> call = NoCall)
  /\ ret.status \in {"none", "ok", "io", "missing", "full", "unread"}
  /\ ret.val \in Vals \cup {NoVal} /\ tears \in BOOLEAN

(* The inductive invariant.                                                *)
KvInv ==
  /\ DiskTyped /\ DiskOK /\ ControlOK
  /\ NoSuperblock => call = NoCall /\ pc # "ready"
  /\ pc = "locate" => NoJournal
  /\ pc = "write" => TodoOK

-----------------------------------------------------------------------------
(* Facts about cells, slots and lists of writes.                           *)

(* The cells of the region are told apart by kind and number.              *)
LEMMA CellFacts ==
  /\ \A i \in 0..1 : /\ SbCell(i) \in Cells /\ SbCell(i) \in SbCells
                     /\ SbCell(i) \notin RecCells /\ SbCell(i) \notin JnlCells
  /\ \A i \in 0..1 : /\ JnlCell(i) \in Cells /\ JnlCell(i) \in JnlCells
                     /\ JnlCell(i) \notin RecCells /\ JnlCell(i) \notin SbCells
  /\ \A i \in Slots : /\ RecCell(i) \in Cells /\ RecCell(i) \in RecCells
                      /\ RecCell(i) \notin SbCells /\ RecCell(i) \notin JnlCells
  /\ \A i, j \in 0..1 : SbCell(i) # JnlCell(j)
  /\ \A i \in 0..1, j \in Slots : SbCell(i) # RecCell(j) /\ JnlCell(i) # RecCell(j)
  /\ \A i, j \in 0..1 : SbCell(i) = SbCell(j) => i = j
  /\ \A i, j \in 0..1 : JnlCell(i) = JnlCell(j) => i = j
  /\ \A i, j \in Slots : RecCell(i) = RecCell(j) => i = j
BY DEF SbCell, JnlCell, RecCell, Cells, SbCells, JnlCells, RecCells

(* Every cell is a superblock, a journal or a record.                      *)
LEMMA CellCases ==
  ASSUME NEW c \in Cells
  PROVE  \/ \E i \in 0..1 : c = SbCell(i)
         \/ \E i \in 0..1 : c = JnlCell(i)
         \/ \E i \in Slots : c = RecCell(i)
BY DEF Cells, SbCells, JnlCells, RecCells

(* The slots are a finite set of numbers, 0 among them.                    *)
LEMMA SlotFacts ==
  /\ Slots \subseteq Nat /\ 0 \in Slots
  /\ IsFiniteSet(Slots) /\ Cardinality(Slots) = Records
<1>1. Records \in Nat /\ Records > 0
  BY KvAssumption
<1>2. IsFiniteSet(Slots) /\ Cardinality(Slots) = Records
  BY <1>1, FS_Interval DEF Slots
<1> QED
  BY <1>1, <1>2 DEF Slots

(* A set of slots that is not empty has a first and a last one.            *)
LEMMA FirstAndLast ==
  ASSUME NEW S \in SUBSET Slots, S # {}
  PROVE  /\ \E i \in S : \A n \in S : i <= n
         /\ \E i \in S : \A n \in S : n <= i
<1> DEFINE Up == {{k \in S : k <= i} : i \in S}
           Down == {{k \in S : i <= k} : i \in S}
           R == StrictSubsetOrdering(S)
<1>1. IsFiniteSet(S) /\ S \subseteq Nat
  BY SlotFacts, FS_Subset
<1>2. IsWellFoundedOn(R, SUBSET S)
  BY <1>1, FS_StrictSubsetOrderingWellFounded, FS_FiniteSubsetsOfFinite
<1>3. \A a, b \in SUBSET S : a \subseteq b /\ a # b => <<a, b>> \in R
  BY DEF StrictSubsetOrdering
<1>4. \E i \in S : \A n \in S : i <= n
  <2>1. Up \subseteq SUBSET S /\ Up # {}
    OBVIOUS
  <2>2. PICK x \in Up : \A y \in Up : ~(<<y, x>> \in R)
    <3> HIDE DEF Up, R
    <3> QED BY <1>2, <2>1, WFMin
  <2>3. PICK i \in S : x = {k \in S : k <= i}
    OBVIOUS
  <2>4. ASSUME NEW n \in S, ~(i <= n)
        PROVE  FALSE
    <3> DEFINE y == {k \in S : k <= n}
    <3>1. y \in Up /\ y \in SUBSET S /\ x \in SUBSET S
      BY <2>3
    <3>2. i \in Nat /\ n \in Nat /\ n < i
      BY <1>1, <2>4
    <3>3. i <= i /\ ~(i <= n) /\ \A k \in S : k <= n => k <= i
      BY <1>1, <3>2
    <3>4. y \subseteq x /\ i \in x /\ i \notin y
      BY <2>3, <3>3, Zenon
    <3> HIDE DEF y, Up, R
    <3> QED BY <3>1, <3>4, <2>2, <1>3
  <2> QED BY <2>4
<1>5. \E i \in S : \A n \in S : n <= i
  <2>1. Down \subseteq SUBSET S /\ Down # {}
    OBVIOUS
  <2>2. PICK x \in Down : \A y \in Down : ~(<<y, x>> \in R)
    <3> HIDE DEF Down, R
    <3> QED BY <1>2, <2>1, WFMin
  <2>3. PICK i \in S : x = {k \in S : i <= k}
    OBVIOUS
  <2>4. ASSUME NEW n \in S, ~(n <= i)
        PROVE  FALSE
    <3> DEFINE y == {k \in S : n <= k}
    <3>1. y \in Down /\ y \in SUBSET S /\ x \in SUBSET S
      BY <2>3
    <3>2. i \in Nat /\ n \in Nat /\ i < n
      BY <1>1, <2>4
    <3>3. i <= i /\ ~(n <= i) /\ \A k \in S : n <= k => i <= k
      BY <1>1, <3>2
    <3>4. y \subseteq x /\ i \in x /\ i \notin y
      BY <2>3, <3>3, Zenon
    <3> HIDE DEF y, Down, R
    <3> QED BY <3>1, <3>4, <2>2, <1>3
  <2> QED BY <2>4
<1> QED BY <1>4, <1>5

-----------------------------------------------------------------------------
(* What a write leaves behind.                                             *)

(* The cell c is as it was, written or torn, and no other cell changed.    *)
Touched(c, v) ==
  /\ DOMAIN disk' = Cells
  /\ \A d \in Cells \ {c} : disk'[d] = disk[d]
  /\ disk'[c] \in {disk[c], v, Torn}
  /\ disk'[c] = Torn => disk[c] = Torn \/ v = Torn \/ tears \/ SpansSectors(c, v)

(* A write that was cut off touches its cell only.                         *)
LEMMA CutTouches ==
  ASSUME NEW c \in Cells, NEW v, disk' \in CutStates(Write(c, v))
  PROVE  Touched(c, v)
<1> DEFINE w == Write(c, v)
<1>1. w.cells = {c} /\ w.val = v
  BY DEF Write
<1>2. PICK done \in SUBSET w.cells, torn \in SUBSET Tearable(w) :
        disk' = [d \in Cells |-> CASE d \in done -> w.val [] d \in torn -> Torn
                                   [] OTHER -> disk[d]]
  BY DEF CutStates
<1>3. done \subseteq {c} /\ torn \subseteq {c}
  BY <1>1, <1>2 DEF Tearable
<1>4. c \in torn => tears \/ SpansSectors(c, v)
  BY <1>1, <1>2 DEF Tearable
<1> HIDE DEF w
<1> QED
  BY <1>1, <1>2, <1>3, <1>4 DEF Touched

(* A write that completed is one of the outcomes of a write cut off.       *)
LEMMA StoredIsCut ==
  ASSUME NEW w
  PROVE  Stored(w) \in CutStates(w)
<1>1. Stored(w) = [c \in Cells |-> CASE c \in w.cells -> w.val [] c \in {} -> Torn
                                     [] OTHER -> disk[c]]
  BY DEF Stored
<1>2. w.cells \in SUBSET w.cells /\ {} \in SUBSET Tearable(w)
  OBVIOUS
<1>3. \E done \in SUBSET w.cells, torn \in SUBSET Tearable(w) :
        Stored(w) = [c \in Cells |-> CASE c \in done -> w.val [] c \in torn -> Torn
                                       [] OTHER -> disk[c]]
  BY <1>1, <1>2
<1> HIDE DEF Stored
<1> QED
  BY <1>3 DEF CutStates

(* A write that completed touches its cell and leaves the new content.     *)
LEMMA StoreTouches ==
  ASSUME NEW c \in Cells, NEW v, disk' = Stored(Write(c, v))
  PROVE  Touched(c, v) /\ disk'[c] = v
<1>1. Touched(c, v)
  BY StoredIsCut, CutTouches
<1>2. disk'[c] = v
  BY DEF Stored, Write
<1> QED BY <1>1, <1>2

(* The cells that a write to one cell leaves alone.                        *)
LEMMA TouchedOthers ==
  ASSUME NEW c \in Cells, NEW v, Touched(c, v)
  PROVE  /\ \A i \in 0..1 : c # SbCell(i) => disk'[SbCell(i)] = disk[SbCell(i)]
         /\ \A i \in 0..1 : c # JnlCell(i) => disk'[JnlCell(i)] = disk[JnlCell(i)]
         /\ \A i \in Slots : c # RecCell(i) => disk'[RecCell(i)] = disk[RecCell(i)]
BY CellFacts DEF Touched

(* The contents of the cells are told apart by their kind.                 *)
LEMMA KindFacts ==
  /\ Zero.kind = "zero" /\ Torn.kind = "torn" /\ Zero # Torn
  /\ \A v \in RecContents : v.kind \in {"zero", "rec"} /\ v # Torn
                            /\ (v.kind = "rec" => v.key \in Keys /\ v.val \in Vals)
  /\ \A v \in SbContents : v.kind = "sb" /\ v.gen \in 1..MaxGen /\ v.count \in 0..Records
  /\ \A v \in JnlContents :
       /\ v.kind = "jnl" /\ v.gen \in 1..MaxGen /\ v.base \in 0..MaxGen
       /\ v.idx \in Slots /\ v.count \in 0..Records /\ v.rec \in RecContents
  /\ MaxGen \in Nat /\ MaxGen > 0 /\ Records \in Nat /\ Records > 0
BY KvAssumption DEF Zero, Torn, RecContents, SbContents, JnlContents

-----------------------------------------------------------------------------
(* Reading a formatted region.                                             *)

(* kv_select_superblock takes a valid superblock, and the other one is     *)
(* not newer.                                                              *)
LEMMA CurrentView ==
  ASSUME DiskTyped, ~NoSuperblock
  PROVE  /\ CurrentIndex \in 0..1 /\ SbValid(CurrentIndex)
         /\ Current \in SbContents /\ Current = disk[SbCell(CurrentIndex)]
         /\ Other \in 0..1 /\ Other # CurrentIndex
         /\ SbValid(Other) => disk[SbCell(Other)].gen <= Current.gen
<1>1. CurrentIndex \in 0..1 /\ SbValid(CurrentIndex)
  BY DEF CurrentIndex, NoSuperblock
<1>2. Current \in SbContents /\ Current = disk[SbCell(CurrentIndex)]
  BY <1>1, KindFacts DEF Current, SbValid, DiskTyped
<1>3. Other \in 0..1 /\ Other # CurrentIndex
  BY <1>1 DEF Other
<1>4. ASSUME SbValid(Other)
      PROVE  disk[SbCell(Other)].gen <= Current.gen
  <2>1. SbValid(0) /\ SbValid(1)
    BY <1>1, <1>3, <1>4
  <2>2. disk[SbCell(0)].gen \in Int /\ disk[SbCell(1)].gen \in Int
    BY <2>1, KindFacts DEF SbValid, DiskTyped
  <2> QED
    BY <2>1, <2>2, <1>1, <1>3 DEF Current, CurrentIndex
<1> QED BY <1>1, <1>2, <1>3, <1>4

(* The valid journal is the one kv_recover selects.                        *)
LEMMA JournalView ==
  ASSUME DiskTyped, OneJournal, NEW j \in 0..1, JnlValid(j)
  PROVE  /\ JnlIndex = j /\ Jnl = disk[JnlCell(j)] /\ Jnl \in JnlContents
         /\ ~NoJournal /\ ~JnlValid(1 - j)
<1>1. j = 0 \/ j = 1
  OBVIOUS
<1>2. ~JnlValid(1 - j) /\ JnlIndex = j
  BY <1>1 DEF OneJournal, JnlIndex
<1>3. Jnl = disk[JnlCell(j)] /\ ~NoJournal
  BY <1>1, <1>2 DEF Jnl, NoJournal
<1>4. Jnl \in JnlContents
  BY <1>3, KindFacts DEF JnlValid, DiskTyped
<1> QED BY <1>2, <1>3, <1>4

(* Without a pending change the records are what they are.                 *)
LEMMA NothingPending ==
  ASSUME ~Pending
  PROVE  /\ Logical = [i \in Slots |-> disk[RecCell(i)]]
         /\ LogicalCount = Current.count
BY DEF Logical, LogicalRec, LogicalCount

(* With one, the journal's record stands in its slot.                      *)
LEMMA SomethingPending ==
  ASSUME Pending
  PROVE  /\ Logical = [i \in Slots |-> IF i = Jnl.idx THEN Jnl.rec ELSE disk[RecCell(i)]]
         /\ LogicalCount = Jnl.count
BY DEF Logical, LogicalRec, LogicalCount

(* The superblocks stay, and so does what is read from them.               *)
LEMMA SameSuperblocks ==
  ASSUME \A i \in 0..1 : disk'[SbCell(i)] = disk[SbCell(i)]
  PROVE  /\ \A i \in 0..1 : SbValid(i)' <=> SbValid(i)
         /\ NoSuperblock' <=> NoSuperblock
         /\ CurrentIndex' = CurrentIndex /\ Current' = Current /\ Other' = Other
<1>1. \A i \in 0..1 : SbValid(i)' <=> SbValid(i)
  BY DEF SbValid
<1>2. CurrentIndex' = CurrentIndex
  BY <1>1 DEF CurrentIndex
<1>3. CurrentIndex \in 0..1
  BY DEF CurrentIndex
<1> QED
  BY <1>1, <1>2, <1>3 DEF NoSuperblock, Current, Other

(* The journals stay, and so does what is read from them.                  *)
LEMMA SameJournals ==
  ASSUME \A i \in 0..1 : disk'[JnlCell(i)] = disk[JnlCell(i)]
  PROVE  /\ \A i \in 0..1 : JnlValid(i)' <=> JnlValid(i)
         /\ (OneJournal' <=> OneJournal) /\ (NoJournal' <=> NoJournal)
         /\ JnlIndex' = JnlIndex /\ Jnl' = Jnl
<1>1. \A i \in 0..1 : JnlValid(i)' <=> JnlValid(i)
  BY DEF JnlValid
<1>2. JnlIndex' = JnlIndex
  BY <1>1 DEF JnlIndex
<1>3. JnlIndex \in 0..1
  BY DEF JnlIndex
<1> QED
  BY <1>1, <1>2, <1>3 DEF OneJournal, NoJournal, Jnl

-----------------------------------------------------------------------------
(* One lemma for each kind of write to a formatted region.                 *)

(* The journal is marked as committed or cleared: nothing is pending       *)
(* before or after, and no record changes.                                 *)
LEMMA ClearStep ==
  ASSUME DiskTyped, Formatted, NEW j \in 0..1, Settled(j), NEW v,
         v = Zero \/ (v \in JnlContents /\ v.gen = v.base + 1 /\ v.gen <= Current.gen),
         Touched(JnlCell(j), v)
  PROVE  /\ DiskTyped' /\ Formatted' /\ Settled(j)' /\ Logical' = Logical
         /\ Current' = Current
         /\ disk'[JnlCell(j)] = Zero => NoJournal'
<1>1. /\ \A i \in 0..1 : disk'[SbCell(i)] = disk[SbCell(i)]
      /\ \A i \in Slots : disk'[RecCell(i)] = disk[RecCell(i)]
      /\ \A i \in 0..1 : i # j => disk'[JnlCell(i)] = disk[JnlCell(i)]
      /\ disk'[JnlCell(j)] \in {disk[JnlCell(j)], v, Torn} /\ DOMAIN disk' = Cells
  BY TouchedOthers, CellFacts DEF Touched
<1>2. DiskTyped'
  BY <1>1 DEF DiskTyped
<1>3. ~NoSuperblock' /\ Current' = Current /\ Current.gen \in Int
  BY <1>1, SameSuperblocks, CurrentView, KindFacts DEF Settled
<1>4. ~JnlValid(1 - j)' /\ OneJournal'
  BY <1>1 DEF Settled, JnlValid, OneJournal
<1>5. ASSUME JnlValid(j)'
      PROVE  /\ disk'[JnlCell(j)].gen = disk'[JnlCell(j)].base + 1
             /\ disk'[JnlCell(j)].gen <= Current.gen /\ disk'[JnlCell(j)].gen \in Int
  <2>1. CASE disk'[JnlCell(j)] = disk[JnlCell(j)]
    <3>1. JnlValid(j)
      BY <1>5, <2>1 DEF JnlValid
    <3>2. Jnl = disk[JnlCell(j)] /\ ~NoJournal /\ Jnl \in JnlContents
      BY <3>1, JournalView DEF Formatted
    <3>3. Follows(Jnl) /\ Jnl.gen \in Int
      BY <3>1, <3>2, KindFacts DEF Formatted
    <3> QED
      BY <2>1, <3>2, <3>3, <1>3 DEF Follows, Settled, Pending
  <2>2. CASE disk'[JnlCell(j)] = v
    BY <2>2, <1>5, KindFacts DEF JnlValid
  <2>3. CASE disk'[JnlCell(j)] = Torn
    BY <2>3, <1>5, KindFacts DEF JnlValid
  <2> QED BY <1>1, <2>1, <2>2, <2>3
<1>6. ~Pending'
  <2>1. CASE JnlValid(j)'
    <3>1. Jnl' = disk'[JnlCell(j)]
      BY <1>4, <2>1 DEF Jnl, JnlIndex
    <3> QED BY <3>1, <2>1, <1>3, <1>5 DEF Pending
  <2>2. CASE ~JnlValid(j)'
    BY <2>2, <1>4 DEF Pending, NoJournal
  <2> QED BY <2>1, <2>2
<1>7. Logical' = Logical /\ LogicalCount' = LogicalCount
  <2>1. Logical = [i \in Slots |-> disk[RecCell(i)]] /\ LogicalCount = Current.count
    BY NothingPending DEF Settled
  <2>2. Logical' = [i \in Slots |-> disk'[RecCell(i)]] /\ LogicalCount' = Current'.count
    BY <1>6 DEF Logical, LogicalRec, LogicalCount
  <2> QED BY <2>1, <2>2, <1>1, <1>3
<1>8. \A i \in 0..1 : JnlValid(i)' => Follows(disk[JnlCell(i)])'
  BY <1>3, <1>4, <1>5 DEF Follows
<1>9. Formatted'
  BY <1>4, <1>7, <1>8 DEF Formatted
<1>10. Settled(j)'
  BY <1>3, <1>4, <1>6 DEF Settled
<1>11. disk'[JnlCell(j)] = Zero => NoJournal'
  BY <1>4, KindFacts DEF NoJournal, JnlValid
<1> QED BY <1>2, <1>3, <1>7, <1>9, <1>10, <1>11

(* The record of the pending change is written: the journal stands for it  *)
(* whatever the slot holds.                                                *)
LEMMA RecordStep ==
  ASSUME DiskTyped, Formatted, NEW j \in 0..1, Prepared(j),
         Touched(RecCell(disk[JnlCell(j)].idx), disk[JnlCell(j)].rec)
  PROVE  /\ DiskTyped' /\ Formatted' /\ Prepared(j)' /\ Logical' = Logical
         /\ disk'[JnlCell(j)] = disk[JnlCell(j)] /\ Other' = Other
<1> DEFINE v == disk[JnlCell(j)]
<1>1. JnlValid(j) /\ Jnl = v /\ v \in JnlContents /\ Pending /\ OneJournal /\ ~NoSuperblock
  BY JournalView DEF Prepared, Formatted
<1>2. v.idx \in Slots /\ v.rec \in RecContents
  BY <1>1, KindFacts
<1> HIDE DEF v
<1>3. /\ \A i \in 0..1 : disk'[SbCell(i)] = disk[SbCell(i)]
      /\ \A i \in Slots : i # v.idx => disk'[RecCell(i)] = disk[RecCell(i)]
      /\ \A i \in 0..1 : disk'[JnlCell(i)] = disk[JnlCell(i)]
      /\ disk'[RecCell(v.idx)] \in {disk[RecCell(v.idx)], v.rec, Torn} /\ DOMAIN disk' = Cells
  BY <1>2, TouchedOthers, CellFacts DEF Touched, v
<1>4. DiskTyped'
  BY <1>2, <1>3 DEF DiskTyped
<1>5. /\ ~NoSuperblock' /\ Current' = Current /\ Other' = Other
      /\ Jnl' = Jnl /\ ~NoJournal' /\ OneJournal' /\ JnlValid(j)'
      /\ \A i \in 0..1 : JnlValid(i)' <=> JnlValid(i)
  BY <1>1, <1>3, SameSuperblocks, SameJournals, JournalView
<1>6. Pending'
  BY <1>1, <1>5 DEF Pending
<1>7. Logical' = Logical /\ LogicalCount' = LogicalCount
  <2>1. /\ Logical = [i \in Slots |-> IF i = v.idx THEN v.rec ELSE disk[RecCell(i)]]
        /\ LogicalCount = v.count
    BY <1>1, SomethingPending
  <2>2. /\ Logical' = [i \in Slots |-> IF i = v.idx THEN v.rec ELSE disk'[RecCell(i)]]
        /\ LogicalCount' = v.count
    BY <1>1, <1>5, <1>6 DEF Logical, LogicalRec, LogicalCount
  <2> QED BY <2>1, <2>2, <1>3
<1>8. \A i \in 0..1 : JnlValid(i)' => Follows(disk[JnlCell(i)])'
  BY <1>3, <1>5 DEF Follows, Formatted
<1>9. Formatted'
  BY <1>5, <1>7, <1>8 DEF Formatted
<1> QED
  BY <1>1, <1>3, <1>4, <1>5, <1>6, <1>7, <1>9 DEF Prepared

(* The superblock that makes the pending change current is written: until  *)
(* it is, the journal stands for the record, and then the record itself.   *)
LEMMA PublishStep ==
  ASSUME DiskTyped, Formatted, NEW j \in 0..1, Prepared(j), NEW v, v = disk[JnlCell(j)],
         disk[RecCell(v.idx)] = v.rec,
         Touched(SbCell(Other), Superblock(v.gen, v.count))
  PROVE  /\ DiskTyped' /\ ~NoSuperblock' /\ Formatted' /\ Logical' = Logical
         /\ disk'[SbCell(Other)] = Superblock(v.gen, v.count) =>
              Settled(j)' /\ Current'.gen = v.gen
<1> DEFINE new == Superblock(v.gen, v.count)
<1>1. JnlValid(j) /\ Jnl = v /\ v \in JnlContents /\ Pending /\ OneJournal /\ ~NoSuperblock
      /\ ~JnlValid(1 - j) /\ ~NoJournal
  BY JournalView DEF Prepared, Formatted
<1>2. /\ v.idx \in Slots /\ v.rec \in RecContents
      /\ v.gen \in 1..MaxGen /\ v.base \in 0..MaxGen /\ v.count \in 0..Records
  BY <1>1, KindFacts
<1>3. new \in SbContents /\ new.kind = "sb" /\ new.gen = v.gen /\ new.count = v.count
  BY <1>2 DEF Superblock, SbContents
<1>4. PICK c \in 0..1, o \in 0..1 :
        /\ c = CurrentIndex /\ SbValid(c) /\ Current = disk[SbCell(c)]
        /\ o = Other /\ o # c /\ Current.gen \in 1..MaxGen
        /\ SbValid(o) => disk[SbCell(o)].gen <= Current.gen
  BY <1>1, CurrentView, KindFacts
<1>5. v.gen = v.base + 1 /\ v.gen > Current.gen /\ v.base = Current.gen /\ v.op # "format"
  BY <1>1 DEF Formatted, Follows, Pending
<1> HIDE DEF new
<1>6. /\ disk'[SbCell(c)] = disk[SbCell(c)]
      /\ \A i \in Slots : disk'[RecCell(i)] = disk[RecCell(i)]
      /\ \A i \in 0..1 : disk'[JnlCell(i)] = disk[JnlCell(i)]
      /\ disk'[SbCell(o)] \in {disk[SbCell(o)], new, Torn} /\ DOMAIN disk' = Cells
  BY <1>4, TouchedOthers, CellFacts DEF Touched, new
<1>7. \A i \in 0..1 : i = o \/ i = c
  BY <1>4
<1>8. DiskTyped'
  BY <1>3, <1>6, <1>7 DEF DiskTyped
<1>9. SbValid(c)' /\ ~NoSuperblock'
  <2>1. disk'[SbCell(c)].kind = "sb"
    BY <1>4, <1>6 DEF SbValid
  <2>2. SbValid(0)' \/ SbValid(1)'
    BY <2>1, <1>4 DEF SbValid
  <2> QED BY <2>1, <2>2 DEF SbValid, NoSuperblock
<1>10. /\ Jnl' = v /\ ~NoJournal' /\ OneJournal' /\ JnlValid(j)' /\ ~JnlValid(1 - j)'
       /\ \A i \in 0..1 : JnlValid(i)' <=> JnlValid(i)
  BY <1>1, <1>6, SameJournals
<1>11. CASE disk'[SbCell(o)] = new
  <2>1. SbValid(0)' /\ SbValid(1)'
    BY <1>3, <1>6, <1>7, <1>4, <1>11 DEF SbValid
  <2>2. disk'[SbCell(o)].gen > disk'[SbCell(c)].gen
    BY <1>3, <1>4, <1>5, <1>6, <1>11
  <2>3. CurrentIndex' = o
    BY <2>1, <2>2, <1>2, <1>3, <1>4, <1>5, <1>6, <1>11 DEF CurrentIndex
  <2>4. Current' = new
    BY <2>3, <1>11 DEF Current
  <2>5. ~Pending'
    BY <2>4, <1>2, <1>3, <1>10 DEF Pending
  <2>6. Logical' = Logical /\ LogicalCount' = LogicalCount
    <3>1. /\ Logical = [i \in Slots |-> IF i = v.idx THEN v.rec ELSE disk[RecCell(i)]]
          /\ LogicalCount = v.count
      BY <1>1, SomethingPending
    <3>2. /\ Logical' = [i \in Slots |-> disk'[RecCell(i)]]
          /\ LogicalCount' = v.count
      BY <2>4, <2>5, <1>3 DEF Logical, LogicalRec, LogicalCount
    <3> QED BY <3>1, <3>2, <1>6
  <2>7. \A i \in 0..1 : JnlValid(i)' => Follows(disk[JnlCell(i)])'
    <3>1. \A i \in 0..1 : JnlValid(i)' => i = j
      BY <1>10
    <3> QED BY <3>1, <2>4, <1>2, <1>3, <1>5, <1>6 DEF Follows
  <2>8. Formatted'
    BY <2>6, <2>7, <1>10 DEF Formatted
  <2>9. Settled(j)' /\ Current'.gen = v.gen
    BY <2>4, <2>5, <1>3, <1>9, <1>10 DEF Settled
  <2> QED BY <2>6, <2>8, <2>9, <1>4, <1>8, <1>9
<1>12. CASE disk'[SbCell(o)] \in {disk[SbCell(o)], Torn} /\ disk'[SbCell(o)] # new
  <2>1. SbValid(o)' => disk'[SbCell(o)].gen <= Current.gen /\ SbValid(o)
                       /\ disk'[SbCell(o)] = disk[SbCell(o)]
    BY <1>12, <1>4, KindFacts DEF SbValid
  <2>2. CurrentIndex' = CurrentIndex /\ Current' = Current
    <3>1. CASE SbValid(o)'
      BY <3>1, <2>1, <1>4, <1>6, <1>7, SameSuperblocks
    <3>2. CASE ~SbValid(o)'
      BY <3>2, <1>4, <1>6, <1>9 DEF CurrentIndex, Current
    <3> QED BY <3>1, <3>2
  <2>3. Pending'
    BY <2>2, <1>1, <1>9, <1>10 DEF Pending
  <2>4. Logical' = Logical /\ LogicalCount' = LogicalCount
    <3>1. /\ Logical = [i \in Slots |-> IF i = v.idx THEN v.rec ELSE disk[RecCell(i)]]
          /\ LogicalCount = v.count
      BY <1>1, SomethingPending
    <3>2. /\ Logical' = [i \in Slots |-> IF i = v.idx THEN v.rec ELSE disk'[RecCell(i)]]
          /\ LogicalCount' = v.count
      BY <2>3, <1>10 DEF Logical, LogicalRec, LogicalCount
    <3> QED BY <3>1, <3>2, <1>6
  <2>5. \A i \in 0..1 : JnlValid(i)' => Follows(disk[JnlCell(i)])'
    BY <2>2, <1>6, <1>10 DEF Follows, Formatted
  <2>6. Formatted'
    BY <2>4, <2>5, <1>10 DEF Formatted
  <2> QED BY <2>4, <2>6, <1>8, <1>9, <1>12, <1>4 DEF new
<1> QED BY <1>6, <1>11, <1>12

(* The journal of a new transaction is written: if it gets there, the      *)
(* region means the new records, and the old ones otherwise.               *)
LEMMA PrepareStep ==
  ASSUME DiskTyped, Formatted, ~NoSuperblock, NoJournal,
         NEW j \in 0..1, NEW v \in JnlContents,
         v.op # "format", v.base = Current.gen, v.gen = v.base + 1,
         Consistent([Logical EXCEPT ![v.idx] = v.rec], v.count),
         Touched(JnlCell(j), v)
  PROVE  /\ DiskTyped' /\ ~NoSuperblock' /\ Formatted' /\ Other' = Other
         /\ \/ Logical' = Logical
            \/ disk'[JnlCell(j)] = v
         /\ disk'[JnlCell(j)] = v =>
              Prepared(j)' /\ Logical' = [Logical EXCEPT ![v.idx] = v.rec]
<1>1. /\ \A i \in 0..1 : disk'[SbCell(i)] = disk[SbCell(i)]
      /\ \A i \in Slots : disk'[RecCell(i)] = disk[RecCell(i)]
      /\ \A i \in 0..1 : i # j => disk'[JnlCell(i)] = disk[JnlCell(i)]
      /\ disk'[JnlCell(j)] \in {disk[JnlCell(j)], v, Torn} /\ DOMAIN disk' = Cells
  BY TouchedOthers, CellFacts DEF Touched
<1>2. DiskTyped'
  BY <1>1 DEF DiskTyped
<1>3. /\ ~NoSuperblock' /\ Current' = Current /\ Other' = Other
      /\ Current.gen \in 1..MaxGen
  BY <1>1, SameSuperblocks, CurrentView, KindFacts
<1>4. ~JnlValid(1 - j)' /\ OneJournal'
  BY <1>1 DEF NoJournal, JnlValid, OneJournal
<1>5. ~Pending
  BY DEF Pending
<1>6. Logical = [i \in Slots |-> disk[RecCell(i)]] /\ LogicalCount = Current.count
  BY <1>5, NothingPending
<1>7. CASE disk'[JnlCell(j)] = v
  <2>1. JnlValid(j)' /\ Jnl' = v /\ ~NoJournal'
    BY <1>4, <1>7, KindFacts DEF Jnl, JnlIndex, JnlValid, NoJournal
  <2>2. Pending'
    BY <2>1, <1>3 DEF Pending
  <2>3. /\ Logical' = [i \in Slots |-> IF i = v.idx THEN v.rec ELSE disk'[RecCell(i)]]
        /\ LogicalCount' = v.count
    BY <2>1, <2>2 DEF Logical, LogicalRec, LogicalCount
  <2>4. Logical' = [Logical EXCEPT ![v.idx] = v.rec]
    BY <2>3, <1>1, <1>6
  <2>5. \A i \in 0..1 : JnlValid(i)' => Follows(disk[JnlCell(i)])'
    <3>1. \A i \in 0..1 : JnlValid(i)' => i = j
      BY <1>4
    <3> QED BY <3>1, <1>3, <1>7 DEF Follows
  <2>6. Formatted'
    BY <2>3, <2>4, <2>5, <1>4 DEF Formatted
  <2>7. Prepared(j)'
    BY <2>1, <2>2, <1>3 DEF Prepared
  <2> QED BY <1>2, <1>3, <1>7, <2>4, <2>6, <2>7
<1>8. CASE disk'[JnlCell(j)] \in {disk[JnlCell(j)], Torn} /\ disk'[JnlCell(j)] # v
  <2>1. NoJournal'
    BY <1>4, <1>8, KindFacts DEF NoJournal, JnlValid
  <2>2. ~Pending'
    BY <2>1 DEF Pending
  <2>3. Logical' = Logical /\ LogicalCount' = LogicalCount
    BY <2>2, <1>1, <1>3, <1>6 DEF Logical, LogicalRec, LogicalCount
  <2>4. \A i \in 0..1 : ~JnlValid(i)'
    BY <2>1 DEF NoJournal
  <2>5. Formatted'
    BY <2>3, <2>4, <1>4 DEF Formatted
  <2> QED BY <1>2, <1>3, <1>8, <2>3, <2>5
<1> QED BY <1>1, <1>7, <1>8

-----------------------------------------------------------------------------
(* One lemma for each kind of write of the first format.                   *)

(* The journal of a format is one kv_recover accepts, for generation 1.    *)
LEMMA FormatJournalFacts ==
  ASSUME NEW st \in {"prepared", "committed"}
  PROVE  /\ FormatJournal(st) \in JnlContents
         /\ FormatJournal(st).kind = "jnl" /\ FormatJournal(st).op = "format"
         /\ FormatJournal(st).gen = 1 /\ FormatJournal(st).base = 0
BY SlotFacts, KindFacts DEF FormatJournal, Journal, JnlContents, RecContents

(* No record at all is consistent with a count of zero.                    *)
LEMMA EmptyConsistent == Consistent([i \in Slots |-> Zero], 0)
<1> DEFINE recs == [i \in Slots |-> Zero]
<1>1. recs \in [Slots -> RecContents]
  BY DEF RecContents
<1>2. InUse(recs) = {}
  BY KindFacts DEF InUse
<1> HIDE DEF recs
<1>3. Cardinality(InUse(recs)) = 0
  BY <1>2, FS_EmptySet
<1>4. Consistent(recs, 0)
  BY <1>1, <1>2, <1>3 DEF Consistent
<1> QED BY <1>4 DEF recs

(* A region without a superblock means no records.                         *)
LEMMA UnformattedLogical ==
  ASSUME NoSuperblock, Unformatted
  PROVE  Logical = [i \in Slots |-> Zero]
<1>1. ~Pending
  BY DEF Pending
<1> QED
  BY <1>1, NothingPending DEF Unformatted

(* A superblock is a valid content, and the only one of its kind.          *)
LEMMA FirstSuperblock ==
  /\ Superblock(1, 0) \in SbContents /\ Superblock(1, 0).kind = "sb"
  /\ Superblock(1, 0).gen = 1 /\ Superblock(1, 0).count = 0
BY KindFacts DEF Superblock, SbContents

(* The journal of the format is written to a region of zeros.              *)
LEMMA FormatBeginStep ==
  ASSUME DiskTyped, AllZero, Touched(JnlCell(0), FormatJournal("prepared"))
  PROVE  /\ DiskTyped' /\ NoSuperblock' /\ Logical' = Logical
         /\ tears' = tears => Unformatted'
         /\ disk'[JnlCell(0)] = FormatJournal("prepared") => FormatPrepared'
<1> DEFINE v == FormatJournal("prepared")
<1>1. /\ \A i \in 0..1 : disk'[SbCell(i)] = Zero /\ disk[SbCell(i)] = Zero
      /\ \A i \in Slots : disk'[RecCell(i)] = Zero /\ disk[RecCell(i)] = Zero
      /\ disk'[JnlCell(1)] = Zero /\ disk[JnlCell(0)] = Zero
      /\ disk'[JnlCell(0)] \in {Zero, v, Torn} /\ DOMAIN disk' = Cells
  BY TouchedOthers, CellFacts DEF Touched, AllZero
<1>2. v \in JnlContents /\ v # Torn /\ v # Zero
  BY FormatJournalFacts, KindFacts
<1>3. ~SpansSectors(JnlCell(0), v)
  BY <1>1, CellFacts DEF SpansSectors
<1> HIDE DEF v
<1>4. disk'[JnlCell(0)] = Torn => tears
  BY <1>1, <1>2, <1>3, KindFacts DEF Touched, v
<1>5. DiskTyped'
  BY <1>1, <1>2 DEF DiskTyped, RecContents
<1>6. NoSuperblock' /\ NoSuperblock
  BY <1>1, KindFacts DEF NoSuperblock, SbValid
<1>7. Logical' = Logical
  BY <1>1, <1>6 DEF Logical, LogicalRec, Pending
<1> QED
  BY <1>1, <1>4, <1>5, <1>6, <1>7 DEF Unformatted, FormatPrepared, v

(* The erase of the superblocks and records: all are zero but the first    *)
(* superblock, which may have been torn and may stay so.                   *)
LEMMA FormatEraseStep ==
  ASSUME DiskTyped, NoSuperblock, Unformatted, FormatPrepared,
         disk' \in CutStates(EraseWrite)
  PROVE  /\ DiskTyped' /\ NoSuperblock' /\ Logical' = Logical
         /\ Unformatted' /\ FormatPrepared'
<1> DEFINE w == EraseWrite
<1>1. w.cells = SbCells \cup RecCells /\ w.val = Zero
  BY DEF EraseWrite
<1>2. PICK done \in SUBSET w.cells, torn \in SUBSET Tearable(w) :
        disk' = [d \in Cells |-> CASE d \in done -> w.val [] d \in torn -> Torn
                                   [] OTHER -> disk[d]]
  BY DEF CutStates
<1>3. torn \subseteq w.cells /\ \A c \in torn : disk[c] # Zero
  BY <1>1, <1>2 DEF Tearable
<1> HIDE DEF w
<1>4. \A c \in Cells : disk'[c] \in {disk[c], Zero, Torn}
  BY <1>1, <1>2
<1>5. \A c \in Cells : disk[c] = Zero => disk'[c] = Zero
  BY <1>1, <1>2, <1>3
<1>6. \A c \in Cells : c \notin SbCells \cup RecCells => disk'[c] = disk[c]
  BY <1>1, <1>2, <1>3
<1>7. /\ disk'[SbCell(0)] \in {Zero, Torn} /\ disk'[SbCell(1)] = Zero
      /\ \A i \in Slots : disk'[RecCell(i)] = Zero
      /\ disk'[JnlCell(0)] = disk[JnlCell(0)] /\ disk'[JnlCell(1)] = Zero
  BY <1>4, <1>5, <1>6, CellFacts DEF Unformatted
<1>8. DOMAIN disk' = Cells
  BY <1>2
<1>9. disk[JnlCell(0)] \in JnlContents /\ disk[JnlCell(0)] # Zero /\ disk[JnlCell(0)] # Torn
  BY FormatJournalFacts, KindFacts DEF FormatPrepared
<1>10. \A i \in 0..1 : i = 0 \/ i = 1
  OBVIOUS
<1>11. DiskTyped'
  BY <1>7, <1>8, <1>9, <1>10 DEF DiskTyped, RecContents
<1>12. NoSuperblock'
  BY <1>7, KindFacts DEF NoSuperblock, SbValid
<1>13. Logical' = Logical
  BY <1>7, <1>12 DEF Logical, LogicalRec, Pending, Unformatted
<1> QED
  BY <1>7, <1>9, <1>11, <1>12, <1>13 DEF Unformatted, FormatPrepared

(* The first superblock is written: the region becomes a formatted one.    *)
LEMMA FormatSb0Step ==
  ASSUME DiskTyped, NoSuperblock, Unformatted, FormatPrepared,
         Touched(SbCell(0), Superblock(1, 0))
  PROVE  /\ DiskTyped' /\ Logical' = Logical /\ FormatPrepared'
         /\ IF NoSuperblock' THEN Unformatted' ELSE Formatted'
         /\ disk'[SbCell(0)] = Superblock(1, 0) =>
              ~NoSuperblock' /\ ~SbValid(1)' /\ ~JnlValid(1)'
<1>1. /\ disk'[SbCell(1)] = Zero /\ disk'[SbCell(0)] \in {Zero, Torn, Superblock(1, 0)}
      /\ \A i \in Slots : disk'[RecCell(i)] = Zero
      /\ disk'[JnlCell(0)] = disk[JnlCell(0)] /\ disk'[JnlCell(1)] = Zero
      /\ DOMAIN disk' = Cells
  BY TouchedOthers, CellFacts DEF Touched, Unformatted
<1>2. disk[JnlCell(0)] = FormatJournal("prepared") /\ FormatJournal("prepared") \in JnlContents
      /\ FormatJournal("prepared") # Zero /\ FormatJournal("prepared") # Torn
  BY FormatJournalFacts, KindFacts DEF FormatPrepared
<1>3. \A i \in 0..1 : i = 0 \/ i = 1
  OBVIOUS
<1>4. DiskTyped'
  BY <1>1, <1>2, <1>3, FirstSuperblock DEF DiskTyped, RecContents
<1>5. FormatPrepared' /\ ~SbValid(1)' /\ ~JnlValid(1)' /\ OneJournal'
  BY <1>1, <1>2, KindFacts DEF FormatPrepared, SbValid, JnlValid, OneJournal
<1>6. Logical = [i \in Slots |-> Zero]
  BY UnformattedLogical
<1>7. CASE NoSuperblock'
  <2>1. Logical' = [i \in Slots |-> Zero]
    BY <1>1, <1>7 DEF Logical, LogicalRec, Pending
  <2>2. disk'[SbCell(0)] \in {Zero, Torn} /\ disk'[SbCell(0)] # Superblock(1, 0)
    BY <1>1, <1>7, FirstSuperblock DEF NoSuperblock, SbValid
  <2>3. Unformatted'
    BY <2>2, <1>1, <1>2 DEF Unformatted
  <2> QED BY <1>4, <1>5, <1>6, <1>7, <2>1, <2>2, <2>3
<1>8. CASE ~NoSuperblock'
  <2>1. disk'[SbCell(0)] = Superblock(1, 0)
    BY <1>1, <1>5, <1>8, KindFacts DEF NoSuperblock, SbValid
  <2>2. Current' = Superblock(1, 0)
    BY <2>1, <1>5 DEF Current, CurrentIndex
  <2>3. Jnl' = FormatJournal("prepared")
    BY <1>1, <1>2, <1>5 DEF Jnl, JnlIndex
  <2>4. ~Pending'
    BY <2>3, FormatJournalFacts DEF Pending
  <2>5. Logical' = [i \in Slots |-> Zero] /\ LogicalCount' = 0
    BY <1>1, <2>2, <2>4, FirstSuperblock DEF Logical, LogicalRec, LogicalCount
  <2>6. \A i \in 0..1 : JnlValid(i)' => Follows(disk[JnlCell(i)])'
    BY <1>1, <1>2, <1>3, <1>5, <2>2, FormatJournalFacts, FirstSuperblock DEF Follows
  <2>7. Formatted'
    BY <1>5, <2>5, <2>6, EmptyConsistent DEF Formatted
  <2> QED BY <1>4, <1>5, <1>6, <1>8, <2>5, <2>7
<1> QED BY <1>7, <1>8

(* The second superblock is written: it repeats the first.                 *)
LEMMA FormatSb1Step ==
  ASSUME DiskTyped, Formatted, FormatPrepared, disk[SbCell(0)] = Superblock(1, 0),
         ~SbValid(1), ~JnlValid(1),
         Touched(SbCell(1), Superblock(1, 0))
  PROVE  /\ DiskTyped' /\ ~NoSuperblock' /\ Formatted' /\ Logical' = Logical
         /\ Settled(0)' /\ Current'.gen = 1
<1>1. /\ disk'[SbCell(0)] = Superblock(1, 0)
      /\ disk'[SbCell(1)] \in {disk[SbCell(1)], Superblock(1, 0), Torn}
      /\ \A i \in Slots : disk'[RecCell(i)] = disk[RecCell(i)]
      /\ \A i \in 0..1 : disk'[JnlCell(i)] = disk[JnlCell(i)]
      /\ DOMAIN disk' = Cells
  BY TouchedOthers, CellFacts DEF Touched
<1>2. \A i \in 0..1 : i = 0 \/ i = 1
  OBVIOUS
<1>3. DiskTyped'
  BY <1>1, <1>2, FirstSuperblock DEF DiskTyped
<1>4. SbValid(0)' /\ SbValid(0) /\ ~NoSuperblock'
  BY <1>1, FirstSuperblock DEF SbValid, NoSuperblock
<1>5. Current = Superblock(1, 0)
  BY <1>4 DEF Current, CurrentIndex
<1>6. SbValid(1)' => disk'[SbCell(1)] = Superblock(1, 0)
  BY <1>1, KindFacts DEF SbValid
<1>7. Current' = Superblock(1, 0)
  BY <1>1, <1>4, <1>6, FirstSuperblock DEF Current, CurrentIndex
<1>8. /\ Jnl' = Jnl /\ OneJournal' /\ ~JnlValid(1)'
      /\ \A i \in 0..1 : JnlValid(i)' <=> JnlValid(i)
  BY <1>1, SameJournals DEF Formatted
<1>9. Jnl = FormatJournal("prepared")
  BY FormatJournalFacts DEF Jnl, JnlIndex, FormatPrepared
<1>10. ~Pending /\ ~Pending'
  BY <1>8, <1>9, FormatJournalFacts DEF Pending
<1>11. Logical' = Logical /\ LogicalCount' = LogicalCount
  BY <1>1, <1>5, <1>7, <1>10 DEF Logical, LogicalRec, LogicalCount
<1>12. \A i \in 0..1 : JnlValid(i)' => Follows(disk[JnlCell(i)])'
  BY <1>1, <1>5, <1>7, <1>8 DEF Follows, Formatted
<1>13. Formatted'
  BY <1>8, <1>11, <1>12 DEF Formatted
<1>14. Settled(0)'
  BY <1>4, <1>8, <1>10 DEF Settled
<1> QED
  BY <1>3, <1>4, <1>7, <1>11, <1>13, <1>14, FirstSuperblock

-----------------------------------------------------------------------------
(* Every write, carried out or cut off, keeps the region in order.         *)

(* The next of the writes that clear a journal, and the rest.              *)
LEMMA ClearingNext ==
  ASSUME NEW s, NEW j, NEW g, Clearing(s, j, g)
  PROVE  /\ s # <<>>
         /\ \E v : /\ Head(s) = Write(JnlCell(j), v)
                   /\ v = Zero \/ (v \in JnlContents /\ v.gen = v.base + 1 /\ v.gen <= g)
                   /\ \/ v = Zero /\ Tail(s) = <<>>
                      \/ Clearing(Tail(s), j, g)
<1>1. CASE s = <<ClearWrite(j)>>
  BY <1>1 DEF ClearWrite
<1>2. ASSUME NEW v \in JnlContents, v.gen = v.base + 1 /\ v.gen <= g,
             s = <<Write(JnlCell(j), v), ClearWrite(j)>>
      PROVE  /\ s # <<>> /\ Head(s) = Write(JnlCell(j), v)
             /\ Clearing(Tail(s), j, g)
  <2>1. Tail(s) = <<ClearWrite(j)>>
    BY <1>2
  <2> QED BY <1>2, <2>1 DEF Clearing
<1> QED
  BY <1>1, <1>2 DEF Clearing

(* The record that a call changes has the effect that the call promises.   *)
LEMMA MakesApplied ==
  ASSUME NEW recs, NEW n, Consistent(recs, n), NEW v \in JnlContents, Makes(recs, v)
  PROVE  Applied([recs EXCEPT ![v.idx] = v.rec])
<1> DEFINE new == [recs EXCEPT ![v.idx] = v.rec]
<1>1. recs \in [Slots -> RecContents] /\ v.idx \in Slots
  BY KindFacts DEF Consistent
<1>2. new[v.idx] = v.rec /\ \A i \in Slots : i # v.idx => new[i] = recs[i]
  BY <1>1
<1> HIDE DEF new
<1>3. CASE call.kind = "set" /\ v.rec = Record(call.key, call.val)
  BY <1>1, <1>2, <1>3 DEF Applied, new
<1>4. CASE /\ call.kind = "del" /\ v.rec = Zero
           /\ recs[v.idx].kind = "rec" /\ recs[v.idx].key = call.key
  <2>1. ASSUME NEW i \in InUse(new)
        PROVE  new[i].key # call.key
    <3>1. i \in Slots /\ i # v.idx
      BY <1>2, <1>4, KindFacts DEF InUse
    <3>2. i \in InUse(recs) /\ v.idx \in InUse(recs) /\ new[i] = recs[i]
      BY <3>1, <1>1, <1>2, <1>4 DEF InUse
    <3> QED BY <3>1, <3>2, <1>4 DEF Consistent
  <2> QED BY <2>1, <1>4 DEF Applied, new
<1> QED BY <1>3, <1>4 DEF Makes

(* The change of a transaction, seen in the meaning of the region.         *)
Change ==
  \E v \in JnlContents :
    /\ Makes(Logical, v) /\ then = "done"
    /\ Consistent([Logical EXCEPT ![v.idx] = v.rec], v.count)
    /\ Logical' = [Logical EXCEPT ![v.idx] = v.rec]

(* A write that is cut off leaves a region in order, which means what it   *)
(* meant, or also the change of the transaction that is being prepared.    *)
LEMMA CutKeeps ==
  ASSUME DiskTyped, DiskOK, TodoOK, todo # <<>>, tears' = tears,
         disk' \in CutStates(Head(todo))
  PROVE  /\ DiskTyped' /\ DiskOK' /\ (NoSuperblock' => NoSuperblock)
         /\ Logical' = Logical \/ Change
<1>1. ASSUME ToClear
      PROVE  DiskTyped' /\ ~NoSuperblock' /\ Formatted' /\ Logical' = Logical
  <2>1. PICK j \in 0..1 : Settled(j) /\ Clearing(todo, j, Current.gen)
    BY <1>1 DEF ToClear
  <2>2. PICK v : /\ Head(todo) = Write(JnlCell(j), v)
                 /\ v = Zero \/ (v \in JnlContents /\ v.gen = v.base + 1 /\ v.gen <= Current.gen)
    BY <2>1, ClearingNext
  <2>3. Touched(JnlCell(j), v)
    BY <2>2, CutTouches, CellFacts
  <2>4. Formatted
    BY <2>1 DEF DiskOK, Settled
  <2>5. DiskTyped' /\ Formatted' /\ Settled(j)' /\ Logical' = Logical
    BY <2>1, <2>2, <2>3, <2>4, ClearStep
  <2> QED BY <2>5 DEF Settled
<1>2. ASSUME ToPublish
      PROVE  DiskTyped' /\ ~NoSuperblock' /\ Formatted' /\ Logical' = Logical
  <2>1. PICK j \in 0..1 :
          /\ Prepared(j) /\ Publishing(todo, j, disk[JnlCell(j)])
          /\ disk[RecCell(disk[JnlCell(j)].idx)] = disk[JnlCell(j)].rec
    BY <1>2 DEF ToPublish
  <2>2. PICK v : v = disk[JnlCell(j)]
    OBVIOUS
  <2>3. Formatted /\ ~NoSuperblock
    BY <2>1 DEF DiskOK, Prepared
  <2>4. Touched(SbCell(Other), Superblock(v.gen, v.count))
    BY <2>1, <2>2, <2>3, CutTouches, CellFacts, CurrentView DEF Publishing
  <2> QED BY <2>1, <2>2, <2>3, <2>4, PublishStep
<1>3. ASSUME ToRedo
      PROVE  DiskTyped' /\ ~NoSuperblock' /\ Formatted' /\ Logical' = Logical
  <2>1. PICK j \in 0..1 : Prepared(j) /\ Redoing(todo, j, disk[JnlCell(j)])
    BY <1>3 DEF ToRedo
  <2>2. Formatted
    BY <2>1 DEF DiskOK, Prepared
  <2>3. disk[JnlCell(j)].idx \in Slots
    BY <2>1, <2>2, JournalView, KindFacts DEF Prepared, Formatted
  <2>4. Touched(RecCell(disk[JnlCell(j)].idx), disk[JnlCell(j)].rec)
    BY <2>1, <2>3, CutTouches, CellFacts DEF Redoing
  <2>5. DiskTyped' /\ Formatted' /\ Prepared(j)' /\ Logical' = Logical
    BY <2>1, <2>2, <2>4, RecordStep
  <2> QED BY <2>5 DEF Prepared
<1>4. ASSUME ToPrepare
      PROVE  /\ DiskTyped' /\ ~NoSuperblock' /\ Formatted'
             /\ Logical' = Logical \/ Change
  <2>1. PICK j \in 0..1, v \in JnlContents : Plan(j, v)
    BY <1>4 DEF ToPrepare
  <2>2. Formatted /\ ~NoSuperblock /\ NoJournal /\ then = "done"
    BY <1>4 DEF DiskOK, ToPrepare
  <2>3. Touched(JnlCell(j), v)
    BY <2>1, CutTouches, CellFacts DEF Plan, Preparing
  <2>4. /\ DiskTyped' /\ ~NoSuperblock' /\ Formatted'
        /\ Logical' = Logical \/ Logical' = [Logical EXCEPT ![v.idx] = v.rec]
    BY <2>1, <2>2, <2>3, PrepareStep DEF Plan
  <2> QED BY <2>1, <2>2, <2>4 DEF Change, Plan
<1>5. ASSUME ToFormat
      PROVE  DiskTyped' /\ DiskOK' /\ (NoSuperblock' => NoSuperblock) /\ Logical' = Logical
  <2>1. CASE AllZero /\ FormatBegin(todo)
    <3>1. Touched(JnlCell(0), FormatJournal("prepared"))
      BY <2>1, CutTouches, CellFacts DEF FormatBegin
    <3>2. DiskTyped' /\ NoSuperblock' /\ Logical' = Logical /\ Unformatted'
      BY <2>1, <3>1, FormatBeginStep
    <3>3. NoSuperblock
      BY <2>1, CellFacts, KindFacts DEF AllZero, NoSuperblock, SbValid
    <3> QED BY <3>2, <3>3 DEF DiskOK
  <2>2. CASE NoSuperblock /\ FormatPrepared /\ FormatErase(todo)
    <3>1. Unformatted
      BY <2>2 DEF DiskOK
    <3>2. disk' \in CutStates(EraseWrite)
      BY <2>2 DEF FormatErase
    <3>3. DiskTyped' /\ NoSuperblock' /\ Logical' = Logical /\ Unformatted'
      BY <2>2, <3>1, <3>2, FormatEraseStep
    <3> QED BY <2>2, <3>3 DEF DiskOK
  <2>3. CASE NoSuperblock /\ FormatPrepared /\ FormatSb0(todo)
    <3>1. Unformatted
      BY <2>3 DEF DiskOK
    <3>2. Touched(SbCell(0), Superblock(1, 0))
      BY <2>3, CutTouches, CellFacts DEF FormatSb0
    <3>3. DiskTyped' /\ Logical' = Logical /\ IF NoSuperblock' THEN Unformatted' ELSE Formatted'
      BY <2>3, <3>1, <3>2, FormatSb0Step
    <3> QED BY <2>3, <3>3 DEF DiskOK
  <2>4. CASE /\ FormatPrepared /\ FormatSb1(todo) /\ disk[SbCell(0)] = Superblock(1, 0)
             /\ ~SbValid(1) /\ ~JnlValid(1)
    <3>1. Formatted
      BY <2>4, FirstSuperblock DEF DiskOK, NoSuperblock, SbValid
    <3>2. Touched(SbCell(1), Superblock(1, 0))
      BY <2>4, CutTouches, CellFacts DEF FormatSb1
    <3>3. DiskTyped' /\ ~NoSuperblock' /\ Formatted' /\ Logical' = Logical
      BY <2>4, <3>1, <3>2, FormatSb1Step
    <3> QED BY <3>3 DEF DiskOK
  <2> QED BY <1>5, <2>1, <2>2, <2>3, <2>4 DEF ToFormat
<1> QED
  BY <1>1, <1>2, <1>3, <1>4, <1>5 DEF TodoOK, Finished, DiskOK

(* A write that completes, in turn, leaves the rest of the call in order.  *)
LEMMA DoneKeeps ==
  ASSUME DiskTyped, DiskOK, TodoOK, todo # <<>>, UNCHANGED <<tears, then, call>>,
         disk' = Stored(Head(todo)), todo' = Tail(todo)
  PROVE  TodoOK'
<1>1. disk' \in CutStates(Head(todo))
  BY StoredIsCut
<1>2. /\ DiskTyped' /\ DiskOK' /\ (NoSuperblock' => NoSuperblock)
      /\ Logical' = Logical \/ Change
  BY <1>1, CutKeeps
<1>3. ASSUME Logical' = Logical, then = "done" => Applied(Logical)
      PROVE  then' = "done" => Applied(Logical)'
  BY <1>3 DEF Applied
<1>4. ASSUME ToClear
      PROVE  Logical' = Logical /\ (Finished' \/ ToClear')
  <2>1. PICK j \in 0..1 : Settled(j) /\ Clearing(todo, j, Current.gen)
    BY <1>4 DEF ToClear
  <2>2. PICK v : /\ Head(todo) = Write(JnlCell(j), v)
                 /\ v = Zero \/ (v \in JnlContents /\ v.gen = v.base + 1 /\ v.gen <= Current.gen)
                 /\ (v = Zero /\ Tail(todo) = <<>>) \/ Clearing(Tail(todo), j, Current.gen)
    BY <2>1, ClearingNext
  <2>3. Touched(JnlCell(j), v) /\ disk'[JnlCell(j)] = v
    BY <2>2, StoreTouches, CellFacts
  <2>4. Formatted
    BY <2>1 DEF DiskOK, Settled
  <2>5. /\ Settled(j)' /\ Logical' = Logical /\ Current' = Current
        /\ disk'[JnlCell(j)] = Zero => NoJournal'
    BY <2>1, <2>2, <2>3, <2>4, ClearStep
  <2>6. CASE v = Zero /\ Tail(todo) = <<>>
    BY <2>3, <2>5, <2>6 DEF Finished, Settled
  <2>7. CASE Clearing(Tail(todo), j, Current.gen)
    BY <2>5, <2>7 DEF ToClear
  <2> QED BY <2>2, <2>5, <2>6, <2>7
<1>5. ASSUME ToPublish
      PROVE  Logical' = Logical /\ ToClear'
  <2>1. PICK j \in 0..1 :
          /\ Prepared(j) /\ Publishing(todo, j, disk[JnlCell(j)])
          /\ disk[RecCell(disk[JnlCell(j)].idx)] = disk[JnlCell(j)].rec
    BY <1>5 DEF ToPublish
  <2>2. PICK v : v = disk[JnlCell(j)]
    OBVIOUS
  <2>3. Formatted /\ ~NoSuperblock
    BY <2>1 DEF DiskOK, Prepared
  <2>4. /\ Touched(SbCell(Other), Superblock(v.gen, v.count))
        /\ disk'[SbCell(Other)] = Superblock(v.gen, v.count)
    BY <2>1, <2>2, <2>3, StoreTouches, CellFacts, CurrentView DEF Publishing
  <2>5. Logical' = Logical /\ Settled(j)' /\ Current'.gen = v.gen
    BY <2>1, <2>2, <2>3, <2>4, PublishStep
  <2>6. Clearing(Tail(todo), j, v.gen)
    BY <2>1, <2>2 DEF Publishing
  <2> QED BY <2>5, <2>6 DEF ToClear
<1>6. ASSUME ToRedo
      PROVE  Logical' = Logical /\ ToPublish'
  <2>1. PICK j \in 0..1 : Prepared(j) /\ Redoing(todo, j, disk[JnlCell(j)])
    BY <1>6 DEF ToRedo
  <2>2. PICK v : v = disk[JnlCell(j)]
    OBVIOUS
  <2>3. Formatted
    BY <2>1 DEF DiskOK, Prepared
  <2>4. v.idx \in Slots
    BY <2>1, <2>2, <2>3, JournalView, KindFacts DEF Prepared, Formatted
  <2>5. Touched(RecCell(v.idx), v.rec) /\ disk'[RecCell(v.idx)] = v.rec
    BY <2>1, <2>2, <2>4, StoreTouches, CellFacts DEF Redoing
  <2>6. Prepared(j)' /\ Logical' = Logical /\ disk'[JnlCell(j)] = v /\ Other' = Other
    BY <2>1, <2>2, <2>3, <2>5, RecordStep
  <2>7. Publishing(Tail(todo), j, v)
    BY <2>1, <2>2 DEF Redoing
  <2>8. Publishing(todo, j, disk[JnlCell(j)])'
    BY <2>6, <2>7 DEF Publishing
  <2> QED BY <2>5, <2>6, <2>8 DEF ToPublish
<1>7. ASSUME ToPrepare
      PROVE  ToRedo' /\ Applied(Logical)'
  <2>1. PICK j \in 0..1, v \in JnlContents : Plan(j, v)
    BY <1>7 DEF ToPrepare
  <2>2. Formatted /\ ~NoSuperblock /\ NoJournal
    BY <1>7 DEF DiskOK, ToPrepare
  <2>3. Touched(JnlCell(j), v) /\ disk'[JnlCell(j)] = v
    BY <2>1, StoreTouches, CellFacts DEF Plan, Preparing
  <2>4. Other' = Other /\ Prepared(j)' /\ Logical' = [Logical EXCEPT ![v.idx] = v.rec]
    BY <2>1, <2>2, <2>3, PrepareStep DEF Plan
  <2>5. Redoing(Tail(todo), j, v)
    BY <2>1 DEF Plan, Preparing
  <2>6. Redoing(todo, j, disk[JnlCell(j)])'
    BY <2>3, <2>4, <2>5 DEF Redoing, Publishing
  <2>7. Applied([Logical EXCEPT ![v.idx] = v.rec])
    BY <2>1, <2>2, MakesApplied DEF Plan, Formatted
  <2>8. Applied(Logical)'
    BY <2>4, <2>7 DEF Applied
  <2> QED BY <2>4, <2>6, <2>8 DEF ToRedo
<1>8. ASSUME ToFormat
      PROVE  Logical' = Logical /\ (ToFormat' \/ ToClear')
  <2>1. CASE AllZero /\ FormatBegin(todo)
    <3>1. /\ Touched(JnlCell(0), FormatJournal("prepared"))
          /\ disk'[JnlCell(0)] = FormatJournal("prepared")
      BY <2>1, StoreTouches, CellFacts DEF FormatBegin
    <3>2. NoSuperblock' /\ Logical' = Logical /\ FormatPrepared'
      BY <2>1, <3>1, FormatBeginStep
    <3>3. FormatErase(todo)'
      BY <2>1 DEF FormatBegin, FormatErase, FormatSb0, FormatSb1, EraseWrite
    <3> QED BY <3>2, <3>3 DEF ToFormat
  <2>2. CASE NoSuperblock /\ FormatPrepared /\ FormatErase(todo)
    <3>1. Unformatted
      BY <2>2 DEF DiskOK
    <3>2. disk' \in CutStates(EraseWrite)
      BY <1>1, <2>2 DEF FormatErase
    <3>3. NoSuperblock' /\ Logical' = Logical /\ FormatPrepared'
      BY <2>2, <3>1, <3>2, FormatEraseStep
    <3>4. FormatSb0(todo)'
      BY <2>2 DEF FormatErase, FormatSb0, FormatSb1
    <3> QED BY <3>3, <3>4 DEF ToFormat
  <2>3. CASE NoSuperblock /\ FormatPrepared /\ FormatSb0(todo)
    <3>1. Unformatted
      BY <2>3 DEF DiskOK
    <3>2. Touched(SbCell(0), Superblock(1, 0)) /\ disk'[SbCell(0)] = Superblock(1, 0)
      BY <2>3, StoreTouches, CellFacts DEF FormatSb0
    <3>3. Logical' = Logical /\ FormatPrepared' /\ ~SbValid(1)' /\ ~JnlValid(1)'
      BY <2>3, <3>1, <3>2, FormatSb0Step
    <3>4. FormatSb1(todo)'
      BY <2>3 DEF FormatSb0, FormatSb1
    <3> QED BY <3>2, <3>3, <3>4 DEF ToFormat
  <2>4. CASE /\ FormatPrepared /\ FormatSb1(todo) /\ disk[SbCell(0)] = Superblock(1, 0)
             /\ ~SbValid(1) /\ ~JnlValid(1)
    <3>1. Formatted
      BY <2>4, FirstSuperblock DEF DiskOK, NoSuperblock, SbValid
    <3>2. Touched(SbCell(1), Superblock(1, 0))
      BY <2>4, StoreTouches, CellFacts DEF FormatSb1
    <3>3. Logical' = Logical /\ Settled(0)' /\ Current'.gen = 1
      BY <2>4, <3>1, <3>2, FormatSb1Step
    <3>4. Clearing(Tail(todo), 0, 1)
      BY <2>4 DEF FormatSb1
    <3> QED BY <3>3, <3>4 DEF ToClear
  <2> QED BY <1>8, <2>1, <2>2, <2>3, <2>4 DEF ToFormat
<1> QED
  BY <1>3, <1>4, <1>5, <1>6, <1>7, <1>8 DEF TodoOK, Finished

-----------------------------------------------------------------------------
(* What each call sets out to write.                                       *)

(* What is read from the region depends on the region alone.               *)
LEMMA SameDisk ==
  ASSUME disk' = disk
  PROVE  /\ DiskTyped' <=> DiskTyped
         /\ \A i : (SbValid(i)' <=> SbValid(i)) /\ (JnlValid(i)' <=> JnlValid(i))
         /\ (NoSuperblock' <=> NoSuperblock) /\ (NoJournal' <=> NoJournal)
         /\ Current' = Current /\ Other' = Other /\ Jnl' = Jnl
         /\ (Pending' <=> Pending) /\ Logical' = Logical
         /\ (Formatted' <=> Formatted) /\ (tears' = tears => (DiskOK' <=> DiskOK))
<1>1. /\ DiskTyped' <=> DiskTyped
      /\ \A i : (SbValid(i)' <=> SbValid(i)) /\ (JnlValid(i)' <=> JnlValid(i))
      /\ (NoSuperblock' <=> NoSuperblock) /\ (NoJournal' <=> NoJournal)
      /\ (OneJournal' <=> OneJournal)
  BY DEF DiskTyped, SbValid, JnlValid, NoSuperblock, NoJournal, OneJournal
<1>2. CurrentIndex' = CurrentIndex /\ JnlIndex' = JnlIndex
  BY <1>1 DEF CurrentIndex, JnlIndex
<1>3. Current' = Current /\ Other' = Other /\ Jnl' = Jnl
  BY <1>2 DEF Current, Other, Jnl
<1>4. Pending' <=> Pending
  BY <1>1, <1>3 DEF Pending
<1>5. Logical' = Logical /\ LogicalCount' = LogicalCount
  BY <1>3, <1>4 DEF Logical, LogicalRec, LogicalCount
<1>6. \A j \in 0..1 : Follows(disk[JnlCell(j)])' <=> Follows(disk[JnlCell(j)])
  BY <1>3 DEF Follows
<1>7. Formatted' <=> Formatted
  BY <1>1, <1>5, <1>6 DEF Formatted
<1>8. tears' = tears => (Unformatted' <=> Unformatted)
  BY DEF Unformatted
<1> QED BY <1>1, <1>3, <1>4, <1>5, <1>7, <1>8 DEF DiskOK

(* Joining the parts of the two formats: three writes and one,             *)
LEMMA JoinThreeOne ==
  ASSUME NEW a, NEW b, NEW c, NEW d
  PROVE  <<a, b, c>> \o <<d>> = <<a, b, c, d>>
<1> DEFINE S == {a, b, c, d}
           s == <<a, b, c>> \o <<d>>
<1>1. <<a, b, c>> \in Seq(S) /\ <<d>> \in Seq(S) /\ <<a, b, c, d>> \in Seq(S)
  OBVIOUS
<1> HIDE DEF S
<1>2. /\ s \in Seq(S) /\ Len(s) = 4
      /\ \A i \in 1..4 : s[i] = IF i <= 3 THEN <<a, b, c>>[i] ELSE <<d>>[i - 3]
  BY <1>1, ConcatProperties
<1> HIDE DEF s
<1>3. s[1] = a /\ s[2] = b /\ s[3] = c /\ s[4] = d
  BY <1>2
<1>4. s = <<a, b, c, d>>
  BY <1>1, <1>2, <1>3, SeqEqual
<1> QED BY <1>4 DEF s

(* one write and three,                                                    *)
LEMMA JoinOneThree ==
  ASSUME NEW a, NEW b, NEW c, NEW d
  PROVE  <<a>> \o <<b, c, d>> = <<a, b, c, d>>
<1> DEFINE S == {a, b, c, d}
           s == <<a>> \o <<b, c, d>>
<1>1. <<a>> \in Seq(S) /\ <<b, c, d>> \in Seq(S) /\ <<a, b, c, d>> \in Seq(S)
  OBVIOUS
<1> HIDE DEF S
<1>2. /\ s \in Seq(S) /\ Len(s) = 4
      /\ \A i \in 1..4 : s[i] = IF i <= 1 THEN <<a>>[i] ELSE <<b, c, d>>[i - 1]
  BY <1>1, ConcatProperties
<1> HIDE DEF s
<1>3. s[1] = a /\ s[2] = b /\ s[3] = c /\ s[4] = d
  BY <1>2
<1>4. s = <<a, b, c, d>>
  BY <1>1, <1>2, <1>3, SeqEqual
<1> QED BY <1>4 DEF s

(* four writes and two.                                                    *)
LEMMA JoinFourTwo ==
  ASSUME NEW a, NEW b, NEW c, NEW d, NEW e, NEW f
  PROVE  <<a, b, c, d>> \o <<e, f>> = <<a, b, c, d, e, f>>
<1> DEFINE S == {a, b, c, d, e, f}
           s == <<a, b, c, d>> \o <<e, f>>
<1>1. <<a, b, c, d>> \in Seq(S) /\ <<e, f>> \in Seq(S) /\ <<a, b, c, d, e, f>> \in Seq(S)
  OBVIOUS
<1> HIDE DEF S
<1>2. /\ s \in Seq(S) /\ Len(s) = 6
      /\ \A i \in 1..6 : s[i] = IF i <= 4 THEN <<a, b, c, d>>[i] ELSE <<e, f>>[i - 4]
  BY <1>1, ConcatProperties
<1> HIDE DEF s
<1>3. s[1] = a /\ s[2] = b /\ s[3] = c /\ s[4] = d /\ s[5] = e /\ s[6] = f
  BY <1>2
<1>4. s = <<a, b, c, d, e, f>>
  BY <1>1, <1>2, <1>3, SeqEqual
<1> QED BY <1>4 DEF s

(* A write to one cell of a content that kv.c writes there.                *)
LEMMA WriteTyped ==
  ASSUME NEW c \in Cells, NEW v \in RecContents \cup SbContents \cup JnlContents
  PROVE  Write(c, v) \in Writes
BY DEF Write, Writes

(* The writes of the two formats, in order.                                *)
LEMMA FormatLists ==
  /\ FormatBegin(Format) /\ Format \in Seq(Writes)
  /\ LET s == CompleteFormat \o <<Write(JnlCell(0), Zero)>>
     IN  FormatErase(s) /\ s \in Seq(Writes)
<1> DEFINE a == Write(JnlCell(0), FormatJournal("prepared"))
           b == EraseWrite
           c == Write(SbCell(0), Superblock(1, 0))
           d == Write(SbCell(1), Superblock(1, 0))
           e == Write(JnlCell(0), FormatJournal("committed"))
           f == Write(JnlCell(0), Zero)
<1>1. Zero \in RecContents
  BY DEF RecContents
<1>2. a \in Writes /\ c \in Writes /\ d \in Writes /\ e \in Writes /\ f \in Writes
  BY <1>1, WriteTyped, CellFacts, FirstSuperblock, FormatJournalFacts
<1>3. b \in Writes
  BY <1>1 DEF EraseWrite, Writes, Cells
<1>4. Format = <<a, b, c, d, e, f>>
  <2>1. Format = <<a>> \o <<b, c, d>> \o <<e, f>>
    BY DEF Format, CompleteFormat, EraseWrite
  <2> HIDE DEF a, b, c, d, e, f
  <2>2. <<a>> \o <<b, c, d>> = <<a, b, c, d>>
    BY JoinOneThree, Zenon
  <2>3. <<a, b, c, d>> \o <<e, f>> = <<a, b, c, d, e, f>>
    BY JoinFourTwo, SMT
  <2> QED BY <2>1, <2>2, <2>3, Zenon
<1>5. CompleteFormat \o <<f>> = <<b, c, d, f>>
  <2>1. CompleteFormat = <<b, c, d>>
    BY DEF CompleteFormat, EraseWrite
  <2> HIDE DEF a, b, c, d, e, f
  <2> QED BY <2>1, JoinThreeOne, Zenon
<1>6. Clearing(<<f>>, 0, 1) /\ Clearing(<<e, f>>, 0, 1)
  BY FormatJournalFacts DEF Clearing, ClearWrite
<1> HIDE DEF a, b, c, d, e, f
<1>7. Format \in Seq(Writes) /\ <<b, c, d, f>> \in Seq(Writes)
  BY <1>2, <1>3, <1>4
<1>8. FormatSb1(<<d, f>>) /\ FormatSb1(<<d, e, f>>)
  <2>1. Tail(<<d, f>>) = <<f>> /\ Tail(<<d, e, f>>) = <<e, f>>
    OBVIOUS
  <2> QED BY <1>6, <2>1 DEF FormatSb1, d
<1>9. FormatSb0(<<c, d, f>>) /\ FormatSb0(<<c, d, e, f>>)
  <2>1. Tail(<<c, d, f>>) = <<d, f>> /\ Tail(<<c, d, e, f>>) = <<d, e, f>>
    OBVIOUS
  <2> QED BY <1>8, <2>1 DEF FormatSb0, c
<1>10. FormatErase(<<b, c, d, f>>) /\ FormatErase(<<b, c, d, e, f>>)
  <2>1. Tail(<<b, c, d, f>>) = <<c, d, f>> /\ Tail(<<b, c, d, e, f>>) = <<c, d, e, f>>
    OBVIOUS
  <2> QED BY <1>9, <2>1 DEF FormatErase, b
<1>11. FormatBegin(<<a, b, c, d, e, f>>)
  <2>1. Tail(<<a, b, c, d, e, f>>) = <<b, c, d, e, f>>
    OBVIOUS
  <2> QED BY <1>10, <2>1 DEF FormatBegin, a
<1> QED BY <1>4, <1>5, <1>7, <1>10, <1>11 DEF f

(* The writes of a transaction, in order.                                  *)
LEMMA TransactionList ==
  ASSUME NEW o \in {"set", "del"}, NEW i \in Slots, NEW n \in 0..Records,
         NEW r \in RecContents, DiskTyped, ~NoSuperblock, Current.gen < MaxGen
  PROVE  \E j \in 0..1, v \in JnlContents :
           /\ v.op # "format" /\ v.base = Current.gen /\ v.gen = v.base + 1
           /\ v.idx = i /\ v.rec = r /\ v.count = n
           /\ Preparing(Transaction(o, i, n, r), j, v)
           /\ Transaction(o, i, n, r) \in Seq(Writes)
<1>1. Current.gen \in 1..MaxGen /\ Other \in 0..1
  BY CurrentView, KindFacts
<1> DEFINE base == Current.gen
           j == base % 2
           v == Journal("prepared", o, base, i, n, r)
           u == Journal("committed", o, base, i, n, r)
           a == Write(JnlCell(j), v)
           b == Write(RecCell(i), r)
           c == Write(SbCell(Other), Superblock(base + 1, n))
           d == Write(JnlCell(j), u)
           e == Write(JnlCell(j), Zero)
<1>2. j \in 0..1 /\ base + 1 \in 1..MaxGen /\ base \in 0..MaxGen
  BY <1>1, KindFacts
<1>3. /\ v \in JnlContents /\ v.op = o /\ v.base = base /\ v.gen = base + 1
      /\ v.idx = i /\ v.rec = r /\ v.count = n
  BY <1>2 DEF Journal, JnlContents
<1>4. u \in JnlContents /\ u.base = base /\ u.gen = base + 1
  BY <1>2 DEF Journal, JnlContents
<1>5. Superblock(base + 1, n) \in SbContents
  BY <1>2 DEF Superblock, SbContents
<1>6. a \in Writes /\ b \in Writes /\ c \in Writes /\ d \in Writes /\ e \in Writes
  BY <1>1, <1>2, <1>3, <1>4, <1>5, WriteTyped, CellFacts DEF RecContents
<1>7. Transaction(o, i, n, r) = <<a, b, c, d, e>>
  BY DEF Transaction, Other
<1>8. Clearing(<<d, e>>, j, base + 1)
  BY <1>2, <1>4 DEF Clearing, ClearWrite
<1> HIDE DEF base, j, v, u
<1>9. Publishing(<<c, d, e>>, j, v)
  <2>1. Tail(<<c, d, e>>) = <<d, e>> /\ Head(<<c, d, e>>) = c /\ <<c, d, e>> # <<>>
    OBVIOUS
  <2> QED BY <1>3, <1>8, <2>1 DEF Publishing
<1>10. Redoing(<<b, c, d, e>>, j, v)
  <2>1. Tail(<<b, c, d, e>>) = <<c, d, e>> /\ Head(<<b, c, d, e>>) = b /\ <<b, c, d, e>> # <<>>
    OBVIOUS
  <2> QED BY <1>3, <1>9, <2>1 DEF Redoing
<1>11. Preparing(<<a, b, c, d, e>>, j, v)
  <2>1. /\ Tail(<<a, b, c, d, e>>) = <<b, c, d, e>> /\ Head(<<a, b, c, d, e>>) = a
        /\ <<a, b, c, d, e>> # <<>>
    OBVIOUS
  <2> QED BY <1>10, <2>1 DEF Preparing
<1>12. <<a, b, c, d, e>> \in Seq(Writes)
  BY <1>6
<1> QED BY <1>2, <1>3, <1>7, <1>11, <1>12 DEF base

-----------------------------------------------------------------------------
(* The slots a call chooses.                                               *)

(* In a clean region the slots in use are the records of its meaning.      *)
LEMMA CleanRegion ==
  ASSUME DiskTyped, DiskOK, ~NoSuperblock, NoJournal
  PROVE  /\ Formatted /\ Consistent(Logical, Current.count)
         /\ Logical = [i \in Slots |-> disk[RecCell(i)]]
         /\ Used = InUse(Logical)
         /\ \A k : Matching(k) = {i \in InUse(Logical) : Logical[i].key = k}
<1>1. ~Pending /\ Formatted
  BY DEF Pending, DiskOK
<1>2. Logical = [i \in Slots |-> disk[RecCell(i)]] /\ LogicalCount = Current.count
  BY <1>1, NothingPending
<1>3. Used = InUse(Logical)
  BY <1>2 DEF Used, InUse
<1>4. \A i \in InUse(Logical) : Logical[i] = disk[RecCell(i)]
  BY <1>2 DEF InUse
<1>5. \A k : Matching(k) = {i \in InUse(Logical) : Logical[i].key = k}
  BY <1>3, <1>4 DEF Matching
<1> QED BY <1>1, <1>2, <1>3, <1>5 DEF Formatted

(* kv_find_record returns a slot with the key, kv_find_free_record one     *)
(* that is not in use.                                                     *)
LEMMA ChosenSlots ==
  /\ \A k : Matching(k) # {} => Found(k) \in Matching(k)
  /\ Free # {} => FirstFree \in Free
  /\ \A k : Matching(k) \subseteq Used
  /\ Used \subseteq Slots /\ Free \subseteq Slots
<1>1. (\A k : Matching(k) \subseteq Used) /\ Used \subseteq Slots /\ Free \subseteq Slots
  BY DEF Matching, Used, Free
<1>2. ASSUME NEW k, Matching(k) # {}
      PROVE  Found(k) \in Matching(k)
  <2> DEFINE S == Matching(k)
  <2>1. S \in SUBSET Slots /\ S # {}
    BY <1>1, <1>2
  <2> HIDE DEF S
  <2>2. \E i \in S : \A n \in S : n <= i
    BY <2>1, FirstAndLast
  <2> QED BY <2>2 DEF Found, S
<1>3. ASSUME Free # {}
      PROVE  FirstFree \in Free
  <2>1. \E i \in Free : \A n \in Free : i <= n
    BY <1>1, <1>3, FirstAndLast
  <2> QED BY <2>1 DEF FirstFree
<1> QED BY <1>1, <1>2, <1>3

(* A count of slots in use fits the header.                                *)
LEMMA CountFits ==
  ASSUME NEW recs
  PROVE  /\ IsFiniteSet(InUse(recs)) /\ Cardinality(InUse(recs)) \in 0..Records
         /\ Cardinality(InUse(recs)) = Records => InUse(recs) = Slots
<1>1. InUse(recs) \in SUBSET Slots
  BY DEF InUse
<1>2. /\ IsFiniteSet(InUse(recs)) /\ Cardinality(InUse(recs)) <= Records
      /\ Cardinality(InUse(recs)) = Records => InUse(recs) = Slots
  BY <1>1, SlotFacts, FS_Subset
<1> QED BY <1>2, FS_CardinalityType, KindFacts

(* A record put in a slot: of the same key, or of a key that is new.       *)
LEMMA PutConsistent ==
  ASSUME NEW recs, NEW n, Consistent(recs, n), NEW i \in Slots,
         NEW k \in Keys, NEW w \in Vals,
         \A h \in InUse(recs) : h # i => recs[h].key # k
  PROVE  Consistent([recs EXCEPT ![i] = Record(k, w)],
                    IF i \in InUse(recs) THEN n ELSE n + 1)
<1> DEFINE r == Record(k, w)
           new == [recs EXCEPT ![i] = r]
<1>1. r \in RecContents /\ r.kind = "rec" /\ r.key = k
  BY DEF Record, RecContents
<1>2. recs \in [Slots -> RecContents]
  BY DEF Consistent
<1> HIDE DEF r
<1>3. new \in [Slots -> RecContents] /\ new[i] = r /\ \A h \in Slots : h # i => new[h] = recs[h]
  BY <1>1, <1>2
<1> HIDE DEF new
<1>4. InUse(new) = InUse(recs) \cup {i}
  BY <1>1, <1>3 DEF InUse
<1>5. IsFiniteSet(InUse(recs)) /\ Cardinality(InUse(recs)) = n /\ n \in Nat
  BY CountFits DEF Consistent
<1>6. Cardinality(InUse(new)) = IF i \in InUse(recs) THEN n ELSE n + 1
  BY <1>4, <1>5, FS_AddElement
<1>7. ASSUME NEW a \in InUse(new), NEW b \in InUse(new), new[a].key = new[b].key
      PROVE  a = b
  <2>1. a \in Slots /\ b \in Slots
    BY DEF InUse
  <2>2. CASE a = i
    BY <2>1, <2>2, <1>1, <1>3, <1>4, <1>7
  <2>3. CASE b = i
    BY <2>1, <2>3, <1>1, <1>3, <1>4, <1>7
  <2>4. CASE a # i /\ b # i
    BY <2>1, <2>4, <1>3, <1>4, <1>7 DEF Consistent
  <2> QED BY <2>2, <2>3, <2>4
<1>8. Consistent(new, IF i \in InUse(recs) THEN n ELSE n + 1)
  BY <1>3, <1>6, <1>7 DEF Consistent
<1> QED BY <1>8 DEF new, r

(* A record taken out of its slot.                                         *)
LEMMA TakeConsistent ==
  ASSUME NEW recs, NEW n, Consistent(recs, n), NEW i \in InUse(recs)
  PROVE  Consistent([recs EXCEPT ![i] = Zero], n - 1)
<1> DEFINE new == [recs EXCEPT ![i] = Zero]
<1>1. recs \in [Slots -> RecContents] /\ i \in Slots
  BY DEF Consistent, InUse
<1>2. /\ new \in [Slots -> RecContents] /\ new[i] = Zero
      /\ \A h \in Slots : h # i => new[h] = recs[h]
  BY <1>1 DEF RecContents
<1> HIDE DEF new
<1>3. InUse(new) = InUse(recs) \ {i}
  BY <1>1, <1>2, KindFacts DEF InUse
<1>4. IsFiniteSet(InUse(recs)) /\ Cardinality(InUse(recs)) = n
  BY CountFits DEF Consistent
<1>5. Cardinality(InUse(new)) = n - 1
  BY <1>3, <1>4, FS_RemoveElement
<1>6. \A a, b \in InUse(new) : new[a].key = new[b].key => a = b
  <2>1. \A a \in InUse(new) : a \in InUse(recs) /\ new[a] = recs[a]
    BY <1>2, <1>3 DEF InUse
  <2> QED BY <2>1 DEF Consistent
<1>7. Consistent(new, n - 1)
  BY <1>2, <1>5, <1>6 DEF Consistent
<1> QED BY <1>7 DEF new

(* A set or del that starts its transaction plans a consistent change.     *)
LEMMA TransactionPlanned ==
  ASSUME KvInv, pc = "locate", NEW o \in {"set", "del"}, NEW i \in Slots, NEW n,
         NEW r \in RecContents, Current.gen < MaxGen,
         Consistent([Logical EXCEPT ![i] = r], n),
         \A v \in JnlContents : v.idx = i /\ v.rec = r => Makes(Logical, v),
         Perform(Transaction(o, i, n, r), "done")
  PROVE  ToPrepare' /\ todo' \in Seq(Writes)
<1>1. disk' = disk /\ call' = call /\ then' = "done" /\ todo' = Transaction(o, i, n, r)
  BY DEF Perform
<1>2. DiskTyped /\ ~NoSuperblock /\ NoJournal
  BY DEF KvInv, ControlOK
<1>3. n \in 0..Records
  BY CountFits DEF Consistent
<1>4. PICK j \in 0..1, v \in JnlContents :
           /\ v.op # "format" /\ v.base = Current.gen /\ v.gen = v.base + 1
           /\ v.idx = i /\ v.rec = r /\ v.count = n
           /\ Preparing(Transaction(o, i, n, r), j, v)
           /\ Transaction(o, i, n, r) \in Seq(Writes)
  BY <1>2, <1>3, TransactionList
<1>5. /\ ~NoSuperblock' /\ NoJournal' /\ Current' = Current /\ Other' = Other
      /\ Logical' = Logical
  BY <1>1, <1>2, SameDisk
<1>6. Preparing(todo, j, v)'
  BY <1>1, <1>4, <1>5 DEF Preparing, Redoing, Publishing
<1>7. Makes(Logical, v)'
  <2>1. Makes(Logical, v)
    BY <1>4
  <2> QED BY <2>1, <1>1, <1>5 DEF Makes
<1>8. Plan(j, v)'
  BY <1>4, <1>5, <1>6, <1>7 DEF Plan
<1> QED BY <1>1, <1>4, <1>5, <1>8 DEF ToPrepare

-----------------------------------------------------------------------------
(* The invariant is inductive.                                             *)

(* A call with nothing left to write has left a clean region behind.       *)
LEMMA NothingLeft ==
  ASSUME TodoOK, todo = <<>>
  PROVE  ~NoSuperblock /\ NoJournal /\ (then = "done" => Applied(Logical))
<1>1. ~ToPrepare
  BY DEF ToPrepare, Plan, Preparing
<1>2. ~ToClear
  BY ClearingNext DEF ToClear
<1>3. ~ToPublish /\ ~ToRedo /\ ~ToFormat
  BY DEF ToPublish, Publishing, ToRedo, Redoing, ToFormat, FormatBegin, FormatErase,
         FormatSb0, FormatSb1
<1> QED BY <1>1, <1>2, <1>3 DEF TodoOK, Finished

(* A call may return with a region in order.                               *)
LEMMA ReturnKeeps ==
  ASSUME KvInv, DiskTyped', DiskOK', NoSuperblock' => NoSuperblock, tears' = tears,
         NEW status \in {"ok", "io", "missing", "full", "unread"}, NEW v \in Vals \cup {NoVal},
         status = "ok" => ~NoSuperblock', Return(status, v)
  PROVE  KvInv'
<1>1. /\ pc' \in {"down", "ready"} /\ todo' \in Seq(Writes) /\ then' = "none" /\ call' = NoCall
      /\ pc' = "ready" => ~Opening \/ status = "ok"
  BY DEF Return
<1>2. ret'.status \in {"none", "ok", "io", "missing", "full", "unread"} /\ ret'.val \in Vals \cup {NoVal}
  BY DEF Return, KvInv, ControlOK
<1>3. ControlOK'
  BY <1>1, <1>2 DEF ControlOK, KvInv
<1>4. NoSuperblock' => pc' # "ready"
  BY <1>1 DEF KvInv, Opening
<1> QED BY <1>1, <1>3, <1>4 DEF KvInv

(* A call sets out to write, with the region as it is.                     *)
LEMMA PerformKeeps ==
  ASSUME KvInv, NEW ws, NEW goal \in {"open", "locate", "done"},
         goal = "open" <=> call = NoCall, Perform(ws, goal),
         TodoOK', todo' \in Seq(Writes)
  PROVE  KvInv'
<1>1. disk' = disk /\ UNCHANGED <<call, ret, tears>> /\ pc' = "write" /\ then' = goal
  BY DEF Perform
<1>2. DiskTyped' /\ DiskOK' /\ (NoSuperblock' <=> NoSuperblock)
  BY <1>1, SameDisk DEF KvInv
<1>3. ControlOK'
  BY <1>1 DEF ControlOK, KvInv
<1> QED BY <1>1, <1>2, <1>3 DEF KvInv

(* kv_recover completes a format that was cut off.                         *)
LEMMA RecoverFormatKeeps ==
  ASSUME KvInv, RecoverFormat
  PROVE  KvInv'
<1>1. DiskTyped /\ Unformatted /\ NoSuperblock /\ call = NoCall /\ ~NoJournal
  BY DEF KvInv, DiskOK, RecoverFormat
<1>2. ~JnlValid(1) /\ JnlValid(0)
  BY <1>1, KindFacts DEF Unformatted, JnlValid, NoJournal
<1>3. JnlIndex = 0 /\ FormatPrepared
  BY <1>1, <1>2, KindFacts DEF JnlIndex, Unformatted, JnlValid, FormatPrepared
<1>4. Perform(CompleteFormat \o <<Write(JnlCell(0), Zero)>>, "open")
  BY <1>1, <1>3 DEF RecoverFormat, Recovered, Opening
<1>5. disk' = disk /\ then' = "open" /\ todo' = CompleteFormat \o <<Write(JnlCell(0), Zero)>>
  BY <1>4 DEF Perform
<1>6. todo' \in Seq(Writes) /\ FormatErase(todo')
  BY <1>5, FormatLists
<1>7. FormatErase(todo)'
  BY <1>6 DEF FormatErase, FormatSb0, FormatSb1
<1>8. NoSuperblock' /\ FormatPrepared'
  BY <1>1, <1>3, <1>5, SameDisk DEF FormatPrepared
<1>9. TodoOK'
  BY <1>5, <1>7, <1>8 DEF TodoOK, ToFormat
<1> QED BY <1>1, <1>4, <1>6, <1>9, PerformKeeps

(* kv_prepare_storage formats a region of zeros.                           *)
LEMMA FormatVirginKeeps ==
  ASSUME KvInv, FormatVirgin
  PROVE  KvInv'
<1>1. call = NoCall /\ Perform(Format, "open") /\ AllZero
  BY DEF FormatVirgin, Opening, AllZero
<1>2. disk' = disk /\ then' = "open" /\ todo' = Format
  BY <1>1 DEF Perform
<1>3. todo' \in Seq(Writes) /\ FormatBegin(todo')
  BY <1>2, FormatLists
<1>4. FormatBegin(todo)'
  BY <1>3 DEF FormatBegin, FormatErase, FormatSb0, FormatSb1
<1>5. AllZero'
  BY <1>1, <1>2 DEF AllZero
<1>6. TodoOK'
  BY <1>2, <1>4, <1>5 DEF TodoOK, ToFormat
<1> QED BY <1>1, <1>3, <1>6, PerformKeeps

(* kv_recover finds a clean region.                                        *)
LEMMA RecoverCleanKeeps ==
  ASSUME KvInv, RecoverClean
  PROVE  KvInv'
<1>1. Perform(<<>>, Recovered) /\ ~NoSuperblock /\ NoJournal
  BY DEF RecoverClean
<1>2. disk' = disk /\ then' = Recovered /\ todo' = <<>>
  BY <1>1 DEF Perform
<1>3. Recovered \in {"open", "locate"} /\ (Recovered = "open" <=> call = NoCall)
  BY DEF Recovered, Opening
<1>4. ~NoSuperblock' /\ NoJournal'
  BY <1>1, <1>2, SameDisk
<1>5. TodoOK' /\ todo' \in Seq(Writes)
  BY <1>2, <1>3, <1>4 DEF TodoOK, Finished
<1> QED BY <1>1, <1>3, <1>5, PerformKeeps

(* kv_recover clears a journal whose change is in place.                   *)
LEMMA RecoverClearKeeps ==
  ASSUME KvInv, RecoverClear
  PROVE  KvInv'
<1>1. /\ Perform(<<Write(JnlCell(JnlIndex), Zero)>>, Recovered)
      /\ ~NoSuperblock /\ ~NoJournal /\ Jnl.gen <= Current.gen
  BY DEF RecoverClear
<1>2. DiskTyped /\ Formatted
  BY <1>1 DEF KvInv, DiskOK
<1>3. PICK j \in 0..1 : JnlValid(j)
  BY <1>1 DEF NoJournal
<1>4. JnlIndex = j /\ ~JnlValid(1 - j) /\ Jnl \in JnlContents
  BY <1>2, <1>3, JournalView DEF Formatted
<1>5. ~Pending
  <2>1. Jnl.gen \in Int /\ Current.gen \in Int
    BY <1>1, <1>2, <1>4, CurrentView, KindFacts
  <2> QED BY <2>1, <1>1 DEF Pending
<1>6. disk' = disk /\ then' = Recovered /\ todo' = <<ClearWrite(j)>>
  BY <1>1, <1>4 DEF Perform, ClearWrite
<1>7. Recovered \in {"open", "locate"} /\ (Recovered = "open" <=> call = NoCall)
  BY DEF Recovered, Opening
<1>8. Settled(j)'
  BY <1>1, <1>4, <1>5, <1>6, SameDisk DEF Settled
<1>9. ToClear'
  BY <1>6, <1>8 DEF ToClear, Clearing
<1>10. todo' \in Seq(Writes)
  <2>1. ClearWrite(j) \in Writes
    BY WriteTyped, CellFacts DEF ClearWrite, RecContents
  <2> QED BY <2>1, <1>6
<1>11. TodoOK'
  BY <1>6, <1>7, <1>9 DEF TodoOK
<1> QED BY <1>1, <1>7, <1>10, <1>11, PerformKeeps

(* kv_recover redoes the change of a prepared journal.                     *)
LEMMA RecoverReplayKeeps ==
  ASSUME KvInv, RecoverReplay
  PROVE  KvInv'
<1>1. /\ Perform(Replay, Recovered) /\ ~NoSuperblock /\ ~NoJournal
      /\ Jnl.gen > Current.gen /\ Jnl.op # "format"
  BY DEF RecoverReplay
<1>2. DiskTyped /\ Formatted /\ Pending
  BY <1>1 DEF KvInv, DiskOK, Pending
<1>3. PICK j \in 0..1 : JnlValid(j)
  BY <1>1 DEF NoJournal
<1>4. JnlIndex = j /\ ~JnlValid(1 - j) /\ Jnl \in JnlContents /\ Jnl = disk[JnlCell(j)]
  BY <1>2, <1>3, JournalView DEF Formatted
<1>5. PICK v \in JnlContents : v = disk[JnlCell(j)]
  BY <1>4
<1> DEFINE a == Write(RecCell(v.idx), v.rec)
           b == Write(SbCell(Other), Superblock(v.gen, v.count))
           c == ClearWrite(j)
<1>6. disk' = disk /\ then' = Recovered /\ todo' = <<a, b, c>>
  BY <1>1, <1>4, <1>5 DEF Perform, Replay, ClearWrite, Other
<1>7. Recovered \in {"open", "locate"} /\ (Recovered = "open" <=> call = NoCall)
  BY DEF Recovered, Opening
<1>8. Prepared(j)' /\ Other' = Other /\ disk'[JnlCell(j)] = v
  BY <1>1, <1>2, <1>3, <1>5, <1>6, SameDisk DEF Prepared
<1>9. Publishing(<<b, c>>, j, v)
  <2>1. Clearing(<<c>>, j, v.gen)
    BY DEF Clearing
  <2>2. Head(<<b, c>>) = b /\ Tail(<<b, c>>) = <<c>> /\ <<b, c>> # <<>>
    OBVIOUS
  <2> QED BY <2>1, <2>2 DEF Publishing
<1>10. Redoing(<<a, b, c>>, j, v)
  <2>1. Head(<<a, b, c>>) = a /\ Tail(<<a, b, c>>) = <<b, c>> /\ <<a, b, c>> # <<>>
    OBVIOUS
  <2> QED BY <2>1, <1>9 DEF Redoing
<1>11. Redoing(todo, j, disk[JnlCell(j)])'
  BY <1>6, <1>8, <1>10 DEF Redoing, Publishing
<1>12. TodoOK'
  BY <1>6, <1>7, <1>8, <1>11 DEF TodoOK, ToRedo
<1>13. todo' \in Seq(Writes)
  <2>1. v.idx \in Slots /\ v.rec \in RecContents /\ Superblock(v.gen, v.count) \in SbContents
    BY KindFacts DEF Superblock, SbContents
  <2>2. a \in Writes /\ b \in Writes /\ c \in Writes
    BY <1>1, <1>2, <2>1, CurrentView, WriteTyped, CellFacts DEF ClearWrite, RecContents
  <2> QED BY <2>2, <1>6
<1> QED BY <1>1, <1>7, <1>12, <1>13, PerformKeeps

(* The running call of actrust_kv_set or actrust_kv_del.                   *)
LEMMA CallFacts ==
  ASSUME KvInv, pc = "locate"
  PROVE  /\ call \in Calls /\ call # NoCall /\ call.key \in Keys
         /\ call.kind = "set" => call.val \in Vals
         /\ DiskTyped /\ DiskOK /\ ~NoSuperblock /\ NoJournal
BY DEF KvInv, ControlOK, Calls

(* actrust_kv_set plans its transaction.                                   *)
LEMMA SetKeyKeeps ==
  ASSUME KvInv, SetKey
  PROVE  KvInv'
<1> DEFINE k == call.key
           r == Record(call.key, call.val)
<1>1. pc = "locate" /\ call.kind = "set" /\ Current.gen < MaxGen
  BY DEF SetKey, SetIn
<1>2. /\ call # NoCall /\ k \in Keys /\ call.val \in Vals
      /\ DiskTyped /\ DiskOK /\ ~NoSuperblock /\ NoJournal
  BY <1>1, CallFacts
<1>3. /\ Consistent(Logical, Current.count) /\ Used = InUse(Logical)
      /\ Matching(k) = {i \in InUse(Logical) : Logical[i].key = k}
  BY <1>2, CleanRegion
<1>4. Cardinality(Used) = Current.count /\ Current.count \in Nat
  BY <1>3, CountFits DEF Consistent
<1>5. r \in RecContents
  BY <1>2 DEF Record, RecContents
<1>6. PICK i \in Slots, n \in Nat :
        /\ Perform(Transaction("set", i, n, r), "done")
        /\ Consistent([Logical EXCEPT ![i] = r], n)
        /\ IF Logical[i].kind = "rec" THEN Logical[i].key = k
                                      ELSE \A h \in InUse(Logical) : Logical[h].key # k
  <2>1. CASE IsNew
    <3>1. FirstFree \in Free /\ SetIn(FirstFree, Cardinality(Used) + 1)
      BY <2>1, ChosenSlots DEF SetKey
    <3>2. FirstFree \in Slots /\ FirstFree \notin InUse(Logical)
      BY <3>1, <1>3 DEF Free
    <3>3. \A h \in InUse(Logical) : Logical[h].key # k
      BY <2>1, <1>3 DEF IsNew
    <3>4. Consistent([Logical EXCEPT ![FirstFree] = r], Current.count + 1)
      BY <3>2, <3>3, <1>2, <1>3, PutConsistent
    <3>5. Logical[FirstFree].kind # "rec"
      BY <3>2 DEF InUse
    <3> QED BY <3>1, <3>2, <3>3, <3>4, <3>5, <1>4 DEF SetIn
  <2>2. CASE ~IsNew
    <3>1. Found(k) \in Matching(k) /\ SetIn(Found(k), Cardinality(Used))
      BY <2>2, ChosenSlots DEF SetKey, IsNew
    <3>2. Found(k) \in Slots /\ Found(k) \in InUse(Logical) /\ Logical[Found(k)].key = k
      BY <3>1, <1>3 DEF InUse
    <3>3. \A h \in InUse(Logical) : h # Found(k) => Logical[h].key # k
      BY <3>2, <1>3 DEF Consistent
    <3>4. Consistent([Logical EXCEPT ![Found(k)] = r], Current.count)
      BY <3>2, <3>3, <1>2, <1>3, PutConsistent
    <3>5. Logical[Found(k)].kind = "rec"
      BY <3>2 DEF InUse
    <3> QED BY <3>1, <3>2, <3>4, <3>5, <1>4 DEF SetIn
  <2> QED BY <2>1, <2>2
<1>7. \A v \in JnlContents : v.idx = i /\ v.rec = r => Makes(Logical, v)
  BY <1>1, <1>6 DEF Makes
<1>8. ToPrepare' /\ todo' \in Seq(Writes)
  BY <1>1, <1>5, <1>6, <1>7, TransactionPlanned
<1>9. TodoOK'
  BY <1>8 DEF TodoOK
<1> QED BY <1>1, <1>2, <1>6, <1>8, <1>9, PerformKeeps

(* actrust_kv_del plans its transaction.                                   *)
LEMMA DelKeyKeeps ==
  ASSUME KvInv, DelKey
  PROVE  KvInv'
<1> DEFINE k == call.key
           i == Found(call.key)
<1>1. /\ pc = "locate" /\ call.kind = "del" /\ Current.gen < MaxGen /\ Matching(k) # {}
      /\ Perform(Transaction("del", i, Cardinality(Used) - 1, Zero), "done")
  BY DEF DelKey
<1>2. /\ call # NoCall /\ k \in Keys
      /\ DiskTyped /\ DiskOK /\ ~NoSuperblock /\ NoJournal
  BY <1>1, CallFacts
<1>3. /\ Consistent(Logical, Current.count) /\ Used = InUse(Logical)
      /\ Matching(k) = {h \in InUse(Logical) : Logical[h].key = k}
  BY <1>2, CleanRegion
<1>4. Cardinality(Used) = Current.count
  BY <1>3 DEF Consistent
<1>5. i \in InUse(Logical) /\ Logical[i].key = k /\ i \in Slots /\ Logical[i].kind = "rec"
  BY <1>1, <1>3, ChosenSlots DEF InUse
<1>6. Zero \in RecContents
  BY DEF RecContents
<1>7. Consistent([Logical EXCEPT ![i] = Zero], Current.count - 1)
  BY <1>3, <1>5, TakeConsistent
<1>8. \A v \in JnlContents : v.idx = i /\ v.rec = Zero => Makes(Logical, v)
  BY <1>1, <1>5 DEF Makes
<1> HIDE DEF i
<1>9. ToPrepare' /\ todo' \in Seq(Writes)
  BY <1>1, <1>4, <1>5, <1>6, <1>7, <1>8, TransactionPlanned
<1>10. TodoOK'
  BY <1>9 DEF TodoOK
<1> QED BY <1>1, <1>2, <1>9, <1>10, PerformKeeps

(* A call that does not write returns with the region as it is.            *)
LEMMA QuietReturnKeeps ==
  ASSUME KvInv, UNCHANGED <<disk, tears>>, NEW status \in {"ok", "io", "missing", "full", "unread"},
         NEW v \in Vals \cup {NoVal}, status = "ok" => ~NoSuperblock, Return(status, v)
  PROVE  KvInv'
<1>1. DiskTyped' /\ DiskOK' /\ (NoSuperblock' <=> NoSuperblock)
  BY SameDisk DEF KvInv
<1> QED BY <1>1, ReturnKeeps

(* The value that actrust_kv_get returns is one that was set.              *)
LEMMA GetKeyFacts ==
  ASSUME KvInv, GetKey
  PROVE  /\ ~NoSuperblock /\ Found(call.key) \in Matching(call.key)
         /\ disk[RecCell(Found(call.key))].val \in Vals
<1>1. pc = "locate" /\ Matching(call.key) # {}
  BY DEF GetKey
<1>2. DiskTyped /\ ~NoSuperblock
  BY <1>1, CallFacts
<1>3. Found(call.key) \in Matching(call.key)
  BY <1>1, ChosenSlots
<1>4. PICK i \in Slots : i = Found(call.key) /\ disk[RecCell(i)].kind = "rec"
  BY <1>3 DEF Matching, Used
<1>5. disk[RecCell(i)].val \in Vals
  BY <1>2, <1>4, KindFacts DEF DiskTyped
<1> QED BY <1>2, <1>3, <1>4, <1>5

(* A freshly erased flash region.                                          *)
LEMMA KvInit == Init => KvInv
<1> SUFFICES ASSUME Init PROVE KvInv
  OBVIOUS
<1>1. AllZero /\ DOMAIN disk = Cells
  BY DEF Init, AllZero
<1>2. /\ \A i \in 0..1 : disk[SbCell(i)] = Zero /\ disk[JnlCell(i)] = Zero
      /\ \A i \in Slots : disk[RecCell(i)] = Zero
  BY <1>1, CellFacts DEF AllZero
<1>3. DiskTyped
  BY <1>1, <1>2 DEF DiskTyped, RecContents
<1>4. NoSuperblock /\ Unformatted
  BY <1>2, KindFacts DEF NoSuperblock, SbValid, Unformatted
<1>5. ControlOK
  BY DEF Init, ControlOK
<1> QED BY <1>3, <1>4, <1>5 DEF KvInv, DiskOK, Init

(* Every step keeps the invariant.                                         *)
LEMMA KvNext == KvInv /\ [Next]_vars => KvInv'
<1> SUFFICES ASSUME KvInv, [Next]_vars PROVE KvInv'
  OBVIOUS
<1>0. NoVal \in Vals \cup {NoVal}
  OBVIOUS
<1>1. CASE UNCHANGED vars
  <2>1. UNCHANGED <<disk, tears, then, call, pc, todo, ret>>
    BY <1>1 DEF vars
  <2>2. /\ DiskTyped' /\ DiskOK' /\ (NoSuperblock' <=> NoSuperblock) /\ (NoJournal' <=> NoJournal)
        /\ Logical' = Logical /\ Other' = Other /\ Current' = Current /\ (Pending' <=> Pending)
        /\ \A i : (SbValid(i)' <=> SbValid(i)) /\ (JnlValid(i)' <=> JnlValid(i))
    BY <2>1, SameDisk DEF KvInv
  <2>3. ControlOK'
    BY <2>1 DEF ControlOK, KvInv
  <2>4. pc = "write" => TodoOK'
    <3> SUFFICES ASSUME pc = "write", TodoOK PROVE TodoOK'
      BY DEF KvInv
    <3>1. Finished => Finished'
      BY <2>1, <2>2 DEF Finished
    <3>2. ToClear => ToClear'
      BY <2>1, <2>2 DEF ToClear, Settled
    <3>3. ToPublish => ToPublish'
      BY <2>1, <2>2 DEF ToPublish, Prepared, Publishing
    <3>4. ToRedo => ToRedo'
      BY <2>1, <2>2 DEF ToRedo, Prepared, Redoing, Publishing
    <3>5. ToFormat => ToFormat'
      BY <2>1, <2>2 DEF ToFormat, AllZero, FormatPrepared, FormatBegin, FormatErase,
                        FormatSb0, FormatSb1
    <3>6. ToPrepare => ToPrepare'
      BY <2>1, <2>2 DEF ToPrepare, Plan, Preparing, Redoing, Publishing, Makes
    <3>7. Applied(Logical) => Applied(Logical)'
      BY <2>1, <2>2 DEF Applied
    <3> QED BY <2>1, <3>1, <3>2, <3>3, <3>4, <3>5, <3>6, <3>7 DEF TodoOK
  <2> QED BY <2>1, <2>2, <2>3, <2>4 DEF KvInv
<1>2. CASE Open
  <2>1. pc = "down" /\ pc' = "recover" /\ UNCHANGED <<disk, todo, then, call, ret, tears>>
    BY <1>2 DEF Open
  <2>2. DiskTyped' /\ DiskOK' /\ (NoSuperblock' <=> NoSuperblock)
    BY <2>1, SameDisk DEF KvInv
  <2> QED BY <2>1, <2>2 DEF KvInv, ControlOK
<1>3. CASE Close
  <2>1. pc = "ready" /\ pc' = "down" /\ UNCHANGED <<disk, todo, then, call, ret, tears>>
    BY <1>3 DEF Close
  <2>2. DiskTyped' /\ DiskOK' /\ (NoSuperblock' <=> NoSuperblock)
    BY <2>1, SameDisk DEF KvInv
  <2> QED BY <2>1, <2>2 DEF KvInv, ControlOK
<1>4. ASSUME NEW c \in Calls, BeginCall(c)
      PROVE  KvInv'
  <2>1. /\ pc = "ready" /\ pc' = "recover" /\ call' = c
        /\ UNCHANGED <<disk, todo, then, ret, tears>>
    BY <1>4 DEF BeginCall
  <2>2. DiskTyped' /\ DiskOK' /\ ~NoSuperblock'
    BY <2>1, SameDisk DEF KvInv
  <2> QED BY <2>1, <2>2 DEF KvInv, ControlOK
<1>5. CASE RecoverFormat
  BY <1>5, RecoverFormatKeeps
<1>6. CASE FormatVirgin
  BY <1>6, FormatVirginKeeps
<1>7. CASE RecoverClean
  BY <1>7, RecoverCleanKeeps
<1>8. CASE RecoverClear
  BY <1>8, RecoverClearKeeps
<1>9. CASE RecoverReplay
  BY <1>9, RecoverReplayKeeps
<1>10. CASE RecoverFails \/ LocateFails
  BY <1>0, <1>10, QuietReturnKeeps DEF RecoverFails, LocateFails
<1>11. CASE SetKey
  BY <1>11, SetKeyKeeps
<1>12. CASE DelKey
  BY <1>12, DelKeyKeeps
<1>13. CASE GetKey
  BY <1>13, GetKeyFacts, QuietReturnKeeps DEF GetKey
<1>14. CASE KeyMissing \/ StoreFull \/ FreeUnread
  BY <1>0, <1>14, QuietReturnKeeps DEF KeyMissing, StoreFull, FreeUnread
<1>15. CASE WriteDone
  <2>1. /\ pc = "write" /\ todo # <<>> /\ disk' = Stored(Head(todo)) /\ todo' = Tail(todo)
        /\ UNCHANGED <<pc, then, call, ret, tears>>
    BY <1>15 DEF WriteDone
  <2>2. DiskTyped /\ DiskOK /\ TodoOK /\ todo \in Seq(Writes)
    BY <2>1 DEF KvInv, ControlOK
  <2>3. TodoOK'
    BY <2>1, <2>2, DoneKeeps
  <2>4. disk' \in CutStates(Head(todo))
    BY <2>1, StoredIsCut
  <2>5. DiskTyped' /\ DiskOK' /\ (NoSuperblock' => NoSuperblock)
    BY <2>1, <2>2, <2>4, CutKeeps
  <2>6. todo' \in Seq(Writes)
    BY <2>1, <2>2, HeadTailProperties
  <2>7. ControlOK'
    BY <2>1, <2>6 DEF KvInv, ControlOK
  <2> QED BY <2>1, <2>3, <2>5, <2>7 DEF KvInv
<1>16. CASE WriteFails
  <2>1. /\ pc = "write" /\ todo # <<>> /\ disk' \in CutStates(Head(todo))
        /\ Return("io", NoVal) /\ tears' = tears
    BY <1>16 DEF WriteFails
  <2>2. DiskTyped' /\ DiskOK' /\ (NoSuperblock' => NoSuperblock)
    BY <2>1, CutKeeps DEF KvInv
  <2> QED BY <1>0, <2>1, <2>2, ReturnKeeps
<1>17. CASE WritesDone
  <2>1. pc = "write" /\ todo = <<>> /\ ~NoSuperblock /\ NoJournal
    BY <1>17, NothingLeft DEF WritesDone, KvInv
  <2>2. CASE /\ then = "locate" /\ pc' = "locate" /\ then' = "none"
             /\ UNCHANGED <<disk, todo, call, ret, tears>>
    <3>1. DiskTyped' /\ DiskOK' /\ (NoSuperblock' <=> NoSuperblock) /\ NoJournal'
      BY <2>1, <2>2, SameDisk DEF KvInv
    <3>2. ControlOK'
      BY <2>1, <2>2 DEF KvInv, ControlOK
    <3> QED BY <2>1, <2>2, <3>1, <3>2 DEF KvInv
  <2>3. CASE then # "locate" /\ Return("ok", NoVal) /\ UNCHANGED <<disk, tears>>
    BY <1>0, <2>1, <2>3, QuietReturnKeeps
  <2> QED BY <1>17, <2>2, <2>3 DEF WritesDone
<1>18. CASE Crash
  <2>1. /\ pc' = "down" /\ todo' = <<>> /\ then' = "none" /\ call' = NoCall
        /\ UNCHANGED <<ret, tears>>
    BY <1>18 DEF Crash
  <2>2. DiskTyped' /\ DiskOK'
    <3>1. CASE pc = "write" /\ todo # <<>>
      BY <1>18, <2>1, <3>1, CutKeeps DEF KvInv, Crash
    <3>2. CASE ~(pc = "write" /\ todo # <<>>)
      BY <1>18, <2>1, <3>2, SameDisk DEF KvInv, Crash
    <3> QED BY <3>1, <3>2
  <2>3. ControlOK'
    BY <2>1 DEF KvInv, ControlOK
  <2> QED BY <2>1, <2>2, <2>3 DEF KvInv
<1> QED
  BY <1>1, <1>2, <1>3, <1>4, <1>5, <1>6, <1>7, <1>8, <1>9, <1>10, <1>11, <1>12, <1>13,
     <1>14, <1>15, <1>16, <1>17, <1>18 DEF Next

(* The region and the running call stay in order, whatever fails.          *)
LEMMA KvInvariant == Spec => []KvInv
BY KvInit, KvNext, PTL DEF Spec

-----------------------------------------------------------------------------
(* Every cell holds what kv.c writes there, and the call in progress is    *)
(* one of kv.h's.                                                          *)
THEOREM KvTypeCorrect == Spec => []TypeOK
<1>1. KvInv => TypeOK
  <2> SUFFICES ASSUME KvInv PROVE TypeOK
    OBVIOUS
  <2>1. ASSUME NEW c \in Cells
        PROVE  disk[c] \in Contents(c)
    <3>1. ASSUME NEW i \in 0..1, c = SbCell(i)
          PROVE  disk[c] \in Contents(c)
      <4>1. c \in SbCells /\ c \notin RecCells /\ c \notin JnlCells
        BY <3>1, CellFacts
      <4>2. Contents(c) = {Zero, Torn} \cup SbContents
        BY <4>1 DEF Contents, SbContents
      <4> QED BY <3>1, <4>2 DEF KvInv, DiskTyped
    <3>2. ASSUME NEW i \in 0..1, c = JnlCell(i)
          PROVE  disk[c] \in Contents(c)
      <4>1. c \in JnlCells /\ c \notin SbCells /\ c \notin RecCells
        BY <3>2, CellFacts
      <4>2. Contents(c) = {Zero, Torn} \cup JnlContents
        BY <4>1 DEF Contents, JnlContents, RecContents
      <4> QED BY <3>2, <4>2 DEF KvInv, DiskTyped
    <3>3. ASSUME NEW i \in Slots, c = RecCell(i)
          PROVE  disk[c] \in Contents(c)
      <4>1. c \in RecCells /\ c \notin SbCells /\ c \notin JnlCells
        BY <3>3, CellFacts
      <4>2. Contents(c) = {Zero, Torn} \cup [kind : {"rec"}, key : Keys, val : Vals]
        BY <4>1 DEF Contents
      <4> QED BY <3>3, <4>2 DEF KvInv, DiskTyped, RecContents
    <3> QED BY <3>1, <3>2, <3>3, CellCases
  <2>2. \A i \in DOMAIN todo : todo[i].cells \subseteq Cells
    <3>1. todo \in Seq(Writes)
      BY DEF KvInv, ControlOK
    <3>2. \A i \in DOMAIN todo : todo[i] \in Writes
      BY <3>1
    <3> QED BY <3>2 DEF Writes
  <2> QED BY <2>1, <2>2 DEF KvInv, ControlOK, DiskTyped, TypeOK
<1> QED BY <1>1, KvInvariant, PTL

(* No sequence of write errors and power losses makes a namespace          *)
(* unusable: kv_recover accepts, or kv_prepare_storage formats, whatever   *)
(* they leave behind, save a first format on a storage that tears sectors. *)
THEOREM AlwaysRecoverable == Spec => []NeverBricked
<1>1. KvInv => NeverBricked
  <2> SUFFICES ASSUME KvInv, pc \in {"down", "recover"}, tears => ~NoSuperblock
               PROVE  Recoverable
    BY DEF NeverBricked
  <2>1. CASE NoSuperblock
    <3>1. Unformatted /\ call = NoCall /\ ~tears
      BY <2>1 DEF KvInv, DiskOK
    <3>2. CASE FormatPrepared
      <4>1. JnlValid(0) /\ ~JnlValid(1)
        BY <3>1, <3>2, FormatJournalFacts, KindFacts DEF FormatPrepared, JnlValid, Unformatted
      <4>2. Jnl = FormatJournal("prepared") /\ ~NoJournal
        BY <3>2, <4>1 DEF Jnl, JnlIndex, NoJournal, FormatPrepared
      <4>3. \A i \in 0..1 : disk[JnlCell(i)] # Torn
        <5>1. disk[JnlCell(0)] # Torn /\ disk[JnlCell(1)] # Torn
          BY <3>1, <3>2, FormatJournalFacts, KindFacts DEF FormatPrepared, Unformatted
        <5>2. \A i \in 0..1 : i = 0 \/ i = 1
          OBVIOUS
        <5> QED BY <5>1, <5>2
      <4> QED BY <2>1, <4>2, <4>3, FormatJournalFacts DEF Recoverable
    <3>3. CASE ~FormatPrepared
      <4>1. disk[JnlCell(0)] = Zero /\ disk[SbCell(0)] = Zero
        BY <3>1, <3>3 DEF Unformatted, FormatPrepared
      <4>2. /\ \A i \in 0..1 : disk[SbCell(i)] = Zero /\ disk[JnlCell(i)] = Zero
            /\ \A i \in Slots : disk[RecCell(i)] = Zero
        <5>1. \A i \in 0..1 : i = 0 \/ i = 1
          OBVIOUS
        <5> QED BY <3>1, <4>1, <5>1 DEF Unformatted
      <4>3. \A c \in Cells : disk[c] = Zero
        BY <4>2, CellCases
      <4> QED BY <2>1, <3>1, <4>3 DEF Recoverable, Opening
    <3> QED BY <3>2, <3>3
  <2>2. CASE ~NoSuperblock
    <3>1. DiskTyped /\ DiskOK /\ Formatted
      BY <2>2 DEF KvInv, DiskOK
    <3>2. CASE NoJournal
      <4>1. /\ Consistent(Logical, Current.count) /\ Used = InUse(Logical)
            /\ Logical = [i \in Slots |-> disk[RecCell(i)]]
        BY <2>2, <3>1, <3>2, CleanRegion
      <4>2. RecordsReadable
        BY <4>1, KindFacts DEF Consistent, RecordsReadable
      <4> QED BY <2>2, <3>2, <4>1, <4>2 DEF Recoverable, RecordsValid, Consistent
    <3>3. CASE ~NoJournal
      <4>1. PICK j \in 0..1 : JnlValid(j)
        BY <3>3 DEF NoJournal
      <4>2. Jnl \in JnlContents /\ Follows(Jnl)
        BY <3>1, <4>1, JournalView DEF Formatted
      <4>3. Jnl.gen \in Int /\ Current.gen \in Int
        BY <2>2, <3>1, <4>2, CurrentView, KindFacts
      <4> QED BY <2>2, <3>3, <4>2, <4>3 DEF Recoverable, Pending, Follows
    <3> QED BY <3>2, <3>3
  <2> QED BY <2>1, <2>2
<1> QED BY <1>1, KvInvariant, PTL

(* When kv_recover reports success, no record is damaged, their number is  *)
(* the recorded one, no key sits in two slots and no journal is left.      *)
THEOREM RecoveryIsClean == Spec => []RecoveredConsistent
<1>1. KvInv => RecoveredConsistent
  <2> SUFFICES ASSUME KvInv, pc = "locate"
               PROVE  /\ RecordsValid
                      /\ \A i, n \in Used : disk[RecCell(i)].key = disk[RecCell(n)].key => i = n
                      /\ NoJournal
    BY DEF RecoveredConsistent
  <2>1. DiskTyped /\ DiskOK /\ ~NoSuperblock /\ NoJournal
    BY CallFacts
  <2>2. /\ Consistent(Logical, Current.count) /\ Used = InUse(Logical)
        /\ Logical = [i \in Slots |-> disk[RecCell(i)]]
    BY <2>1, CleanRegion
  <2>3. RecordsReadable
    BY <2>2, KindFacts DEF Consistent, RecordsReadable
  <2>4. \A i \in Used : Logical[i] = disk[RecCell(i)]
    BY <2>2 DEF Used
  <2> QED BY <2>1, <2>2, <2>3, <2>4 DEF RecordsValid, Consistent
<1> QED BY <1>1, KvInvariant, PTL

-----------------------------------------------------------------------------
(* The store implements the atomic map.                                    *)

(* The map that a list of records stands for.                              *)
Holding(recs, k) == {i \in Slots : recs[i].kind = "rec" /\ recs[i].key = k}
MapOf(recs) ==
  [k \in Keys |-> IF Holding(recs, k) = {} THEN NoVal
                  ELSE recs[CHOOSE i \in Holding(recs, k) : TRUE].val]

(* The refinement mapping is the map of the logical records.               *)
LEMMA StoreIsMap == LogicalStore = MapOf(Logical)
<1> DEFINE hits(k) == {i \in Slots : LogicalRec(i).kind = "rec" /\ LogicalRec(i).key = k}
           first(S) == CHOOSE i \in S : TRUE
           pick(k) == first(Holding(Logical, k))
<1>1. \A i \in Slots : Logical[i] = LogicalRec(i)
  BY DEF Logical
<1>2. \A k : hits(k) = Holding(Logical, k)
  BY <1>1 DEF Holding
<1>3. LogicalStore = [k \in Keys |-> IF hits(k) = {} THEN NoVal
                                     ELSE LogicalRec(first(hits(k))).val]
  BY DEF LogicalStore
<1>4. LogicalStore = [k \in Keys |-> IF Holding(Logical, k) = {} THEN NoVal
                                     ELSE LogicalRec(pick(k)).val]
  <2> HIDE DEF hits, first
  <2> QED BY <1>2, <1>3
<1>5. ASSUME NEW k \in Keys, Holding(Logical, k) # {}
      PROVE  LogicalRec(pick(k)) = Logical[pick(k)]
  <2>1. pick(k) \in Holding(Logical, k)
    BY <1>5
  <2>2. pick(k) \in Slots
    BY <2>1 DEF Holding
  <2> HIDE DEF pick
  <2> QED BY <1>1, <2>2
<1>6. MapOf(Logical) = [k \in Keys |-> IF Holding(Logical, k) = {} THEN NoVal
                                       ELSE Logical[pick(k)].val]
  BY DEF MapOf
<1> HIDE DEF first
<1> QED BY <1>4, <1>5, <1>6

(* The same in the next state.                                             *)
LEMMA NextStoreIsMap == LogicalStore' = MapOf(Logical')
<1>1. (LogicalStore = MapOf(Logical))'
  BY StoreIsMap, PTL
<1> QED BY <1>1

(* With no key twice, the map has the value of the slot that holds a key.  *)
LEMMA MapFacts ==
  ASSUME NEW recs, NEW n, Consistent(recs, n)
  PROVE  /\ \A i \in InUse(recs) : /\ recs[i].key \in Keys /\ recs[i].val \in Vals
                                   /\ MapOf(recs)[recs[i].key] = recs[i].val
         /\ \A k \in Keys : (\A i \in InUse(recs) : recs[i].key # k) => MapOf(recs)[k] = NoVal
         /\ \A k \in Keys : MapOf(recs)[k] # NoVal => \E i \in InUse(recs) : recs[i].key = k
         /\ NoVal \notin Vals
<1>1. recs \in [Slots -> RecContents]
  BY DEF Consistent
<1>2. \A k : Holding(recs, k) = {i \in InUse(recs) : recs[i].key = k}
  BY DEF Holding, InUse
<1>3. ASSUME NEW i \in InUse(recs)
      PROVE  /\ recs[i].key \in Keys /\ recs[i].val \in Vals
             /\ MapOf(recs)[recs[i].key] = recs[i].val
  <2>1. recs[i].key \in Keys /\ recs[i].val \in Vals
    BY <1>1, KindFacts DEF InUse
  <2>2. Holding(recs, recs[i].key) = {i}
    BY <1>2 DEF Consistent
  <2>3. (CHOOSE h \in {i} : TRUE) = i
    OBVIOUS
  <2> QED BY <2>1, <2>2, <2>3 DEF MapOf
<1>4. ASSUME NEW k \in Keys, \A i \in InUse(recs) : recs[i].key # k
      PROVE  MapOf(recs)[k] = NoVal
  <2>1. Holding(recs, k) = {}
    BY <1>2, <1>4
  <2> QED BY <2>1 DEF MapOf
<1> QED BY <1>3, <1>4, KvAssumption

(* The map holds as many keys as there are records.                        *)
LEMMA MapSize ==
  ASSUME NEW recs, NEW n, Consistent(recs, n)
  PROVE  Cardinality({k \in Keys : MapOf(recs)[k] # NoVal}) = n
<1> DEFINE P == {k \in Keys : MapOf(recs)[k] # NoVal}
           f == [i \in InUse(recs) |-> recs[i].key]
<1>1. \A i \in InUse(recs) : recs[i].key \in P
  BY MapFacts
<1>2. \A k \in P : \E i \in InUse(recs) : recs[i].key = k
  BY MapFacts
<1> HIDE DEF P
<1>3. f \in [InUse(recs) -> P]
  BY <1>1
<1>4. f \in Injection(InUse(recs), P)
  BY <1>3 DEF Injection, IsInjective, Consistent
<1>5. f \in Surjection(InUse(recs), P)
  BY <1>2, <1>3 DEF Surjection
<1>6. ExistsBijection(InUse(recs), P)
  BY <1>4, <1>5 DEF ExistsBijection, Bijection
<1>7. IsFiniteSet(InUse(recs)) /\ Cardinality(InUse(recs)) = n
  BY CountFits DEF Consistent
<1> QED BY <1>6, <1>7, FS_Bijection DEF P

(* A transaction's change is the effect that kv.h promises of the call.    *)
LEMMA ChangeIsEffect ==
  ASSUME NEW n, Consistent(Logical, n), NEW v \in JnlContents, Makes(Logical, v),
         Consistent([Logical EXCEPT ![v.idx] = v.rec], v.count),
         call \in Calls, Logical' = [Logical EXCEPT ![v.idx] = v.rec]
  PROVE  /\ LogicalStore' = Atomic!Effect(call)
         /\ call.kind = "set" /\ LogicalStore[call.key] = NoVal =>
              Cardinality(Atomic!Present) < Records
         /\ call.kind = "del" => LogicalStore[call.key] # NoVal
<1> DEFINE old == Logical
           new == [Logical EXCEPT ![v.idx] = v.rec]
           k == call.key
<1>1. /\ old \in [Slots -> RecContents] /\ v.idx \in Slots /\ k \in Keys
      /\ call.kind = "set" => call.val \in Vals
  BY KindFacts DEF Consistent, Calls
<1>2. new[v.idx] = v.rec /\ \A i \in Slots : i # v.idx => new[i] = old[i]
  BY <1>1
<1>3. LogicalStore = MapOf(old) /\ LogicalStore' = MapOf(new)
  BY StoreIsMap, NextStoreIsMap
<1>4. DOMAIN MapOf(old) = Keys /\ DOMAIN MapOf(new) = Keys
  BY DEF MapOf
<1>5. Cardinality(Atomic!Present) = n
  BY <1>3, MapSize DEF Atomic!Present
<1>6. Consistent(old, n) /\ Consistent(new, v.count) /\ Makes(old, v)
  OBVIOUS
<1>7. MapOf(old) = [a \in Keys |-> MapOf(old)[a]] /\ MapOf(new) = [a \in Keys |-> MapOf(new)[a]]
  BY DEF MapOf
<1> HIDE DEF old, new
<1>8. ASSUME NEW a \in Keys, a # k
      PROVE  MapOf(new)[a] = MapOf(old)[a]
  <2>1. \A i \in Slots : i \in InUse(new) /\ new[i].key = a <=> i \in InUse(old) /\ old[i].key = a
    <3>1. new[v.idx].kind = "rec" => new[v.idx].key = k
      BY <1>2, <1>6, KindFacts DEF Makes, Record
    <3>2. old[v.idx].kind = "rec" => old[v.idx].key = k
      BY <1>6 DEF Makes
    <3> QED BY <1>2, <1>8, <3>1, <3>2 DEF InUse
  <2>2. CASE \E i \in InUse(old) : old[i].key = a
    <3>1. PICK i \in InUse(old) : old[i].key = a
      BY <2>2
    <3>2. i \in InUse(new) /\ new[i].key = a /\ i \in Slots
      BY <2>1, <3>1 DEF InUse
    <3>3. MapOf(old)[a] = old[i].val /\ MapOf(new)[a] = new[i].val
      BY <3>1, <3>2, <1>6, MapFacts
    <3>4. i # v.idx
      BY <1>8, <1>6, <3>1 DEF Makes, InUse
    <3> QED BY <3>2, <3>3, <3>4, <1>2
  <2>3. CASE ~ \E i \in InUse(old) : old[i].key = a
    <3>1. ~ \E i \in InUse(new) : new[i].key = a
      BY <2>1, <2>3 DEF InUse
    <3> QED BY <2>3, <3>1, <1>6, MapFacts
  <2> QED BY <2>2, <2>3
<1>9. CASE /\ call.kind = "set" /\ v.rec = Record(k, call.val)
           /\ IF old[v.idx].kind = "rec" THEN old[v.idx].key = k
                                         ELSE \A i \in InUse(old) : old[i].key # k
  <2>1. v.idx \in InUse(new) /\ new[v.idx].key = k /\ new[v.idx].val = call.val
    BY <1>1, <1>2, <1>9 DEF InUse, Record
  <2>2. MapOf(new)[k] = call.val
    BY <2>1, <1>6, MapFacts
  <2>3. MapOf(new) = [MapOf(old) EXCEPT ![k] = call.val]
    <3> DEFINE m == [MapOf(old) EXCEPT ![k] = call.val]
    <3>1. DOMAIN m = Keys /\ \A a \in Keys : m[a] = MapOf(new)[a]
      BY <1>1, <1>4, <1>8, <2>2
    <3>2. m = [a \in Keys |-> m[a]]
      BY <1>4, <3>1
    <3> HIDE DEF m
    <3>3. MapOf(new) = m
      BY <1>7, <3>1, <3>2
    <3> QED BY <3>3 DEF m
  <2>4. ASSUME MapOf(old)[k] = NoVal
        PROVE  n < Records
    <3>1. v.idx \notin InUse(old)
      <4> SUFFICES ASSUME v.idx \in InUse(old) PROVE FALSE
        OBVIOUS
      <4>1. old[v.idx].key = k
        BY <1>9 DEF InUse
      <4> QED BY <4>1, <2>4, <1>6, MapFacts
    <3>2. InUse(old) # Slots
      BY <3>1, <1>1
    <3>3. n \in 0..Records /\ n # Records
      BY <3>2, <1>6, CountFits DEF Consistent
    <3> QED BY <3>3, KindFacts
  <2> QED BY <1>3, <1>5, <1>9, <2>3, <2>4 DEF Atomic!Effect
<1>10. CASE /\ call.kind = "del" /\ v.rec = Zero
           /\ old[v.idx].kind = "rec" /\ old[v.idx].key = k
  <2>1. v.idx \in InUse(old)
    BY <1>1, <1>10 DEF InUse
  <2>2. MapOf(old)[k] # NoVal
    BY <1>10, <2>1, <1>6, MapFacts
  <2>3. \A i \in InUse(new) : new[i].key # k
    <3> SUFFICES ASSUME NEW i \in InUse(new) PROVE new[i].key # k
      OBVIOUS
    <3>1. i \in Slots /\ i # v.idx
      BY <1>2, <1>10, KindFacts DEF InUse
    <3>2. new[i] = old[i] /\ i \in InUse(old)
      BY <3>1, <1>2 DEF InUse
    <3> QED BY <3>1, <3>2, <2>1, <1>10, <1>6 DEF Consistent
  <2>4. MapOf(new)[k] = NoVal
    BY <1>1, <2>3, <1>6, MapFacts
  <2>5. MapOf(new) = [MapOf(old) EXCEPT ![k] = NoVal]
    <3> DEFINE m == [MapOf(old) EXCEPT ![k] = NoVal]
    <3>1. DOMAIN m = Keys /\ \A a \in Keys : m[a] = MapOf(new)[a]
      BY <1>1, <1>4, <1>8, <2>4
    <3>2. m = [a \in Keys |-> m[a]]
      BY <1>4, <3>1
    <3> HIDE DEF m
    <3>3. MapOf(new) = m
      BY <1>7, <3>1, <3>2
    <3> QED BY <3>3 DEF m
  <2> QED BY <1>3, <1>10, <2>2, <2>5 DEF Atomic!Effect
<1> QED BY <1>6, <1>9, <1>10 DEF Makes

(* A call whose effect is in place has nothing left to change.             *)
LEMMA AppliedIsEffect ==
  ASSUME NEW n, Consistent(Logical, n), Applied(Logical), call \in Calls
  PROVE  /\ Atomic!Effect(call) = LogicalStore /\ call.kind # "get"
<1> DEFINE k == call.key
           m == MapOf(Logical)
<1>1. k \in Keys /\ (call.kind = "set" => call.val \in Vals)
  BY DEF Calls
<1>2. LogicalStore = m
  BY StoreIsMap
<1>3. m = [a \in Keys |-> m[a]]
  BY DEF MapOf
<1>4. CASE call.kind = "set" /\ \E i \in Slots : Logical[i] = Record(k, call.val)
  <2>1. PICK i \in Slots : Logical[i] = Record(k, call.val)
    BY <1>4
  <2>2. i \in InUse(Logical) /\ Logical[i].key = k /\ Logical[i].val = call.val
    BY <2>1 DEF InUse, Record
  <2>3. m[k] = call.val
    BY <2>2, MapFacts
  <2> HIDE DEF m
  <2>4. [m EXCEPT ![k] = call.val] = m
    BY <1>1, <1>3, <2>3
  <2> QED BY <1>2, <1>4, <2>4 DEF Atomic!Effect
<1>5. CASE call.kind = "del" /\ \A i \in InUse(Logical) : Logical[i].key # k
  <2>1. m[k] = NoVal
    BY <1>1, <1>5, MapFacts
  <2> HIDE DEF m
  <2>2. [m EXCEPT ![k] = NoVal] = m
    BY <1>1, <1>3, <2>1
  <2> QED BY <1>2, <1>5, <2>2 DEF Atomic!Effect
<1> QED BY <1>4, <1>5 DEF Applied

(* The map counts its keys as the records are counted.                     *)
LEMMA SameCardinality == \A S : Atomic!Cardinality(S) = Cardinality(S)
BY DEF Atomic!Cardinality, Cardinality

(* The logical records of a region in order are consistent.                *)
LEMMA RegionConsistent ==
  ASSUME DiskOK
  PROVE  \E n : Consistent(Logical, n)
<1>1. CASE NoSuperblock
  BY <1>1, UnformattedLogical, EmptyConsistent DEF DiskOK
<1>2. CASE ~NoSuperblock
  BY <1>2 DEF DiskOK, Formatted
<1> QED BY <1>1, <1>2

(* The steps that leave the meaning of the region and the call alone.      *)
LEMMA StutterKeepsMap ==
  ASSUME Logical' = Logical, UNCHANGED <<call, ret>>
  PROVE  UNCHANGED Atomic!avars
BY StoreIsMap, NextStoreIsMap DEF Atomic!avars

(* A write cut off, or carried out, changes the map by the call's effect   *)
(* or not at all, and by nothing while no call runs.                       *)
LEMMA CutEffect ==
  ASSUME KvInv, pc = "write", Logical' = Logical \/ Change
  PROVE  \/ Logical' = Logical /\ LogicalStore' = LogicalStore
         \/ /\ call \in Calls /\ call # NoCall /\ LogicalStore' = Atomic!Effect(call)
            /\ call.kind = "set" /\ LogicalStore[call.key] = NoVal =>
                 Cardinality(Atomic!Present) < Records
            /\ call.kind = "del" => LogicalStore[call.key] # NoVal
<1>1. CASE Logical' = Logical
  BY <1>1, StoreIsMap, NextStoreIsMap
<1>2. CASE Change
  <2>1. PICK v \in JnlContents :
          /\ Makes(Logical, v) /\ then = "done"
          /\ Consistent([Logical EXCEPT ![v.idx] = v.rec], v.count)
          /\ Logical' = [Logical EXCEPT ![v.idx] = v.rec]
    BY <1>2 DEF Change
  <2>2. call \in Calls /\ call # NoCall
    BY <2>1 DEF KvInv, ControlOK
  <2>3. PICK n : Consistent(Logical, n)
    BY RegionConsistent DEF KvInv
  <2> QED BY <2>1, <2>2, <2>3, ChangeIsEffect
<1> QED BY <1>1, <1>2

(* A call that gives up without having changed the region.                 *)
LEMMA QuietFailure ==
  ASSUME disk' = disk, Return("io", NoVal)
  PROVE  [Atomic!AtomicNext]_(Atomic!avars)
<1>1. LogicalStore' = LogicalStore /\ Logical' = Logical
  BY SameDisk, StoreIsMap, NextStoreIsMap
<1>2. CASE Opening
  <2>1. UNCHANGED <<call, ret>>
    BY <1>2 DEF Return, Opening
  <2> QED BY <1>1, <2>1, StutterKeepsMap
<1>3. CASE ~Opening
  BY <1>1, <1>3 DEF Return, Opening, Atomic!AtomicNext, Atomic!CutOff, Atomic!Report
<1> QED BY <1>2, <1>3

(* What a lookup in a clean region tells of the map.                       *)
LEMMA LookupFacts ==
  ASSUME KvInv, pc = "locate"
  PROVE  /\ Matching(call.key) # {} =>
              /\ LogicalStore[call.key] = disk[RecCell(Found(call.key))].val
              /\ LogicalStore[call.key] # NoVal
         /\ Matching(call.key) = {} => LogicalStore[call.key] = NoVal
         /\ Free = {} => Cardinality(Atomic!Present) = Records
<1> DEFINE k == call.key
<1>1. DiskTyped /\ DiskOK /\ ~NoSuperblock /\ NoJournal /\ k \in Keys
  BY CallFacts
<1>2. /\ Consistent(Logical, Current.count) /\ Used = InUse(Logical)
      /\ Logical = [i \in Slots |-> disk[RecCell(i)]]
      /\ Matching(k) = {i \in InUse(Logical) : Logical[i].key = k}
  BY <1>1, CleanRegion
<1>3. LogicalStore = MapOf(Logical)
  BY StoreIsMap
<1>4. ASSUME Matching(k) # {}
      PROVE  LogicalStore[k] = disk[RecCell(Found(k))].val /\ LogicalStore[k] # NoVal
  <2>1. PICK i \in InUse(Logical) : i = Found(k) /\ Logical[i].key = k
    BY <1>2, <1>4, ChosenSlots
  <2>2. Logical[i] = disk[RecCell(i)]
    BY <1>2 DEF InUse
  <2>3. MapOf(Logical)[k] = Logical[i].val /\ Logical[i].val # NoVal
    BY <1>2, <2>1, MapFacts
  <2> QED BY <1>3, <2>1, <2>2, <2>3
<1>5. ASSUME Matching(k) = {}
      PROVE  LogicalStore[k] = NoVal
  <2>1. \A i \in InUse(Logical) : Logical[i].key # k
    BY <1>2, <1>5
  <2> QED BY <1>1, <1>2, <1>3, <2>1, MapFacts
<1>6. ASSUME Free = {}
      PROVE  Cardinality(Atomic!Present) = Records
  <2>1. InUse(Logical) = Slots
    BY <1>2, <1>6 DEF Free, InUse
  <2>2. Current.count = Records
    BY <1>2, <2>1, SlotFacts DEF Consistent
  <2> QED BY <1>2, <1>3, <2>2, MapSize DEF Atomic!Present
<1> QED BY <1>4, <1>5, <1>6

(* The region starts as an empty map.                                      *)
LEMMA AtomicStart == Init => Atomic!AtomicInit
<1> SUFFICES ASSUME Init PROVE Atomic!AtomicInit
  OBVIOUS
<1>1. KvInv /\ NoSuperblock
  BY KvInit, CellFacts, KindFacts DEF Init, NoSuperblock, SbValid
<1>2. Logical = [i \in Slots |-> Zero]
  BY <1>1, UnformattedLogical DEF KvInv, DiskOK
<1>3. \A k : Holding(Logical, k) = {}
  BY <1>2, KindFacts DEF Holding
<1>4. LogicalStore = [k \in Keys |-> NoVal]
  BY <1>3, StoreIsMap DEF MapOf
<1> QED BY <1>4 DEF Init, Atomic!AtomicInit

(* Every step is a step of the atomic map or leaves it alone.              *)
LEMMA AtomicStep ==
  ASSUME KvInv, [Next]_vars
  PROVE  [Atomic!AtomicNext]_(Atomic!avars)
<1> DEFINE Goal == [Atomic!AtomicNext]_(Atomic!avars)
<1>1. ASSUME disk' = disk, UNCHANGED <<call, ret>>
      PROVE  Goal
  BY <1>1, SameDisk, StutterKeepsMap
<1>2. CASE UNCHANGED vars
  BY <1>1, <1>2 DEF vars
<1>3. CASE Open \/ Close
  BY <1>1, <1>3 DEF Open, Close
<1>4. ASSUME NEW c \in Calls, BeginCall(c)
      PROVE  Goal
  <2>1. disk' = disk /\ call = NoCall /\ call' = c /\ ret' = ret
    BY <1>4 DEF BeginCall, KvInv, ControlOK
  <2>2. LogicalStore' = LogicalStore
    BY <2>1, SameDisk, StoreIsMap, NextStoreIsMap
  <2>3. c \in Atomic!Calls
    BY DEF Calls, Atomic!Calls
  <2>4. Atomic!Begin(c)
    BY <2>1, <2>2 DEF Atomic!Begin
  <2> QED BY <2>3, <2>4 DEF Atomic!AtomicNext
<1>5. CASE RecoverFormat \/ FormatVirgin \/ RecoverClean \/ RecoverClear \/ RecoverReplay
  BY <1>1, <1>5 DEF RecoverFormat, FormatVirgin, RecoverClean, RecoverClear, RecoverReplay,
                    Perform
<1>6. CASE SetKey
  <2>1. disk' = disk /\ UNCHANGED <<call, ret>>
    BY <1>6 DEF SetKey, SetIn, Perform
  <2> QED BY <1>1, <2>1
<1>7. CASE DelKey
  BY <1>1, <1>7 DEF DelKey, Perform
<1>8. CASE RecoverFails \/ LocateFails
  BY <1>8, QuietFailure DEF RecoverFails, LocateFails
<1>9. CASE GetKey
  <2>1. /\ pc = "locate" /\ call.kind = "get" /\ Matching(call.key) # {} /\ disk' = disk
        /\ Return("ok", disk[RecCell(Found(call.key))].val)
    BY <1>9 DEF GetKey
  <2>2. call # NoCall /\ LogicalStore' = LogicalStore
    BY <2>1, CallFacts, SameDisk, StoreIsMap, NextStoreIsMap
  <2>3. /\ LogicalStore[call.key] = disk[RecCell(Found(call.key))].val
        /\ LogicalStore[call.key] # NoVal
    BY <2>1, LookupFacts
  <2>4. Atomic!Effect(call) = LogicalStore
    BY <2>1 DEF Atomic!Effect
  <2>5. Atomic!ReturnOk
    BY <2>1, <2>2, <2>3, <2>4 DEF Return, Opening, Atomic!ReturnOk, Atomic!Report
  <2> QED BY <2>5 DEF Atomic!AtomicNext
<1>10. CASE KeyMissing
  <2>1. /\ pc = "locate" /\ call.kind \in {"get", "del"} /\ Matching(call.key) = {}
        /\ disk' = disk /\ Return("missing", NoVal)
    BY <1>10 DEF KeyMissing
  <2>2. call # NoCall /\ LogicalStore' = LogicalStore
    BY <2>1, CallFacts, SameDisk, StoreIsMap, NextStoreIsMap
  <2>3. LogicalStore[call.key] = NoVal
    BY <2>1, LookupFacts
  <2>4. Atomic!ReturnMissing
    BY <2>1, <2>2, <2>3 DEF Return, Opening, Atomic!ReturnMissing, Atomic!Report
  <2> QED BY <2>4 DEF Atomic!AtomicNext
<1>11. CASE StoreFull
  <2>1. /\ pc = "locate" /\ call.kind = "set" /\ Matching(call.key) = {} /\ Free = {}
        /\ disk' = disk /\ Return("full", NoVal)
    BY <1>11 DEF StoreFull
  <2>2. call # NoCall /\ LogicalStore' = LogicalStore
    BY <2>1, CallFacts, SameDisk, StoreIsMap, NextStoreIsMap
  <2>3. LogicalStore[call.key] = NoVal /\ Cardinality(Atomic!Present) = Records
    BY <2>1, LookupFacts
  <2>4. Atomic!ReturnFull
    BY <2>1, <2>2, <2>3, SameCardinality DEF Return, Opening, Atomic!ReturnFull, Atomic!Report
  <2> QED BY <2>4 DEF Atomic!AtomicNext
<1>12. CASE WriteDone
  <2>1. /\ pc = "write" /\ todo # <<>> /\ disk' = Stored(Head(todo))
        /\ UNCHANGED <<call, ret, tears>>
    BY <1>12 DEF WriteDone
  <2>2. disk' \in CutStates(Head(todo))
    BY <2>1, StoredIsCut
  <2>3. Logical' = Logical \/ Change
    BY <2>1, <2>2, CutKeeps DEF KvInv
  <2>4. CASE Logical' = Logical
    BY <2>1, <2>4, StutterKeepsMap
  <2>5. CASE /\ call # NoCall /\ LogicalStore' = Atomic!Effect(call)
             /\ call.kind = "set" /\ LogicalStore[call.key] = NoVal =>
                  Cardinality(Atomic!Present) < Records
             /\ call.kind = "del" => LogicalStore[call.key] # NoVal
    <3>1. Atomic!TakeEffect
      BY <2>1, <2>5, SameCardinality DEF Atomic!TakeEffect
    <3> QED BY <3>1 DEF Atomic!AtomicNext
  <2> QED BY <2>1, <2>3, <2>4, <2>5, CutEffect
<1>13. CASE WriteFails
  <2>1. /\ pc = "write" /\ todo # <<>> /\ disk' \in CutStates(Head(todo)) /\ tears' = tears
        /\ Return("io", NoVal)
    BY <1>13 DEF WriteFails
  <2>2. Logical' = Logical \/ Change
    BY <2>1, CutKeeps DEF KvInv
  <2>3. \/ Logical' = Logical /\ LogicalStore' = LogicalStore
        \/ call # NoCall /\ LogicalStore' = Atomic!Effect(call)
    BY <2>1, <2>2, CutEffect
  <2>4. CASE call = NoCall
    <3>1. UNCHANGED <<call, ret>>
      BY <2>1, <2>4 DEF Return, Opening
    <3> QED BY <2>3, <2>4, <3>1, StutterKeepsMap
  <2>5. CASE call # NoCall
    <3>1. Atomic!CutOff
      BY <2>1, <2>3, <2>5 DEF Return, Opening, Atomic!CutOff, Atomic!Report
    <3> QED BY <3>1 DEF Atomic!AtomicNext
  <2> QED BY <2>4, <2>5
<1>14. CASE WritesDone
  <2>1. pc = "write" /\ todo = <<>> /\ disk' = disk
    BY <1>14 DEF WritesDone
  <2>2. CASE then = "locate"
    BY <1>1, <1>14, <2>2 DEF WritesDone
  <2>3. CASE then # "locate" /\ call = NoCall
    <3>1. UNCHANGED <<call, ret>>
      BY <1>14, <2>3 DEF WritesDone, Return, Opening
    <3> QED BY <1>1, <2>1, <3>1
  <2>4. CASE then # "locate" /\ call # NoCall
    <3>1. then = "done" /\ call \in Calls /\ Return("ok", NoVal)
      BY <1>14, <2>1, <2>4 DEF WritesDone, KvInv, ControlOK
    <3>2. Applied(Logical)
      BY <2>1, <3>1, NothingLeft DEF KvInv
    <3>3. PICK n : Consistent(Logical, n)
      BY RegionConsistent DEF KvInv
    <3>4. Atomic!Effect(call) = LogicalStore /\ call.kind # "get"
      BY <3>1, <3>2, <3>3, AppliedIsEffect
    <3>5. LogicalStore' = LogicalStore
      BY <2>1, SameDisk, StoreIsMap, NextStoreIsMap
    <3>6. Atomic!ReturnOk
      BY <2>4, <3>1, <3>4, <3>5 DEF Return, Opening, Atomic!ReturnOk, Atomic!Report
    <3> QED BY <3>6 DEF Atomic!AtomicNext
  <2> QED BY <2>2, <2>3, <2>4
<1>15. CASE Crash
  <2>1. call' = NoCall /\ ret' = ret /\ tears' = tears
    BY <1>15 DEF Crash
  <2>2. \/ Logical' = Logical /\ LogicalStore' = LogicalStore
        \/ call # NoCall /\ LogicalStore' = Atomic!Effect(call)
    <3>1. CASE pc = "write" /\ todo # <<>>
      <4>1. disk' \in CutStates(Head(todo))
        BY <1>15, <3>1 DEF Crash
      <4>2. Logical' = Logical \/ Change
        BY <2>1, <3>1, <4>1, CutKeeps DEF KvInv
      <4> QED BY <3>1, <4>2, CutEffect
    <3>2. CASE ~(pc = "write" /\ todo # <<>>)
      <4>1. disk' = disk
        BY <1>15, <3>2 DEF Crash
      <4> QED BY <4>1, SameDisk, StoreIsMap, NextStoreIsMap
    <3> QED BY <3>1, <3>2
  <2>3. CASE call = NoCall
    BY <2>1, <2>2, <2>3, StutterKeepsMap
  <2>4. CASE call # NoCall
    <3>1. Atomic!CutOff
      BY <2>1, <2>2, <2>4 DEF Atomic!CutOff
    <3> QED BY <3>1 DEF Atomic!AtomicNext
  <2> QED BY <2>3, <2>4
<1>16. CASE FreeUnread
  <2>1. /\ pc = "locate" /\ call.kind = "set" /\ Matching(call.key) = {}
        /\ disk' = disk /\ Return("unread", NoVal)
    BY <1>16 DEF FreeUnread
  <2>2. call # NoCall /\ LogicalStore' = LogicalStore
    BY <2>1, CallFacts, SameDisk, StoreIsMap, NextStoreIsMap
  <2>3. LogicalStore[call.key] = NoVal
    BY <2>1, LookupFacts
  <2>4. Atomic!ReturnUnread
    BY <2>1, <2>2, <2>3 DEF Return, Opening, Atomic!ReturnUnread, Atomic!Report
  <2> QED BY <2>4 DEF Atomic!AtomicNext
<1> QED
  BY <1>2, <1>3, <1>4, <1>5, <1>6, <1>7, <1>8, <1>9, <1>10, <1>11, <1>12, <1>13, <1>14, <1>15,
     <1>16
  DEF Next

(* Every call is atomic and durable through write errors and power loss:   *)
(* the namespace implements the map that kv.h promises.                    *)
THEOREM StoreImplementsMap == Spec => IsAtomicMap
<1>1. KvInv /\ [Next]_vars => [Atomic!AtomicNext]_(Atomic!avars)
  BY AtomicStep
<1> QED BY <1>1, AtomicStart, KvInvariant, PTL DEF Spec, IsAtomicMap, Atomic!AtomicSpec
=============================================================================
