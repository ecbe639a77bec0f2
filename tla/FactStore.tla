------------------------------ MODULE FactStore ------------------------------
(***************************************************************************)
(* The data source of src/source/store.js: facts in a key value store,     *)
(* each under three keys, so that any selector finds what it selects in    *)
(* one range of keys.  A transaction runs inside one write of the store.   *)
(*                                                                         *)
(* Keys are kept as the tuples that toSearchKey joins into bytes: entities *)
(* and values are hashes of one length, attributes are CBOR, so that no    *)
(* component begins another one.  Commit c is named by its number: as an   *)
(* entity it is the reference of the commit, as a value its encoding.  The *)
(* changes of clients are taken as they come, so that they may be about    *)
(* commits, too.                                                           *)
(***************************************************************************)
EXTENDS Integers, Sequences, FiniteSets

CONSTANTS
  Entities, Attributes, Values,
  Any,           \* undefined, in a selector
  Null,          \* the value null
  Single,        \* the attributes that clients change by Upsert alone
  Atomic,        \* the store drops the edits of a write that throws (memory,
                 \* LMDB); IndexedDB keeps them
  MaxCommits, MaxEdits   \* bounds: transactions, and instructions of one

ASSUME StoreAssumption ==
  /\ Any \notin Entities \cup Values \cup Nat \cup {Null}
  /\ Any \notin Attributes \cup {"db/source"}
  /\ Single \subseteq Attributes \ {"db/source"} /\ Atomic \in BOOLEAN
  /\ MaxCommits \in Nat /\ MaxEdits \in Nat

VARIABLES
  stored,     \* the entries of the store, from key to datum
  editing,    \* the same as the write under way sees them
  writing,    \* a write is under way
  commits,    \* number of transactions begun
  edits,      \* instructions performed by the one under way
  erased,     \* commits whose record an instruction removed last (a history)
  erasing     \* the same as the write under way sees them

vars == <<stored, editing, writing, commits, edits, erased, erasing>>

Facts == Entities \X Attributes \X Values
CommitFact(c) == <<c, "db/source", c>>
AllFacts == Facts \cup {CommitFact(c) : c \in 1 .. MaxCommits}
Datum(f, c) == [fact |-> f, cause |-> c]

EAVT(f) == <<"EAVT", f[1], f[2], f[3]>>
AEVT(f) == <<"AEVT", f[2], f[1], f[3]>>
VAET(f) == <<"VAET", f[3], f[2], f[1]>>

Keys(f) == {EAVT(f), AEVT(f), VAET(f)}
AllKeys == UNION {Keys(f) : f \in AllFacts}

TypeOK ==
  /\ DOMAIN stored \subseteq AllKeys /\ DOMAIN editing \subseteq AllKeys
  /\ \A k \in DOMAIN stored : stored[k].fact \in AllFacts /\ stored[k].cause \in 1 .. commits
  /\ \A k \in DOMAIN editing : editing[k].fact \in AllFacts /\ editing[k].cause \in 1 .. commits
  /\ writing \in BOOLEAN /\ (~writing => editing = stored)
  /\ commits \in 0 .. MaxCommits /\ edits \in 0 .. MaxEdits
  /\ erased \subseteq 1 .. MaxCommits /\ erasing \subseteq 1 .. MaxCommits

Init ==
  /\ stored = <<>> /\ editing = <<>> /\ writing = FALSE /\ commits = 0 /\ edits = 0
  /\ erased = {} /\ erasing = {}

-----------------------------------------------------------------------------
(* A selector leaves out what it does not know.  deriveSearchPath chooses the
   index; the known components, up to the first one missing, are the prefix
   of the keys to read. *)
Selectors == [entity : Entities \cup {Any}, attribute : Attributes \cup {Any},
              value : Values \cup {Any}]

Path(s) ==
  IF s.entity # Any THEN <<"EAVT", s.entity, s.attribute, s.value>>
  ELSE IF s.value # Any THEN <<"VAET", s.value, s.attribute, Any>>
  ELSE IF s.attribute # Any THEN <<"AEVT", s.attribute, Any, Any>>
  ELSE <<"EAVT", Any, Any, Any>>

InRange(path, key) ==
  /\ key[1] = path[1]
  /\ \A i \in 2 .. 4 : (\A j \in 2 .. i : path[j] # Any) => key[i] = path[i]

(* Entity and value without the attribute: no index has that order, so that the
   range of the entity is filtered.  The comparison of the value is a loose one,
   by which null is not given. *)
IsCoarse(s) == s.entity # Any /\ s.attribute = Any /\ s.value \notin {Any, Null}

(* Deviation: the range is taken for the answer. *)
IterateRange(entries, s) ==
  {entries[k] : k \in {k \in DOMAIN entries : InRange(Path(s), k)}}

Iterate(entries, s) ==
  {entries[k] : k \in {k \in DOMAIN entries :
     InRange(Path(s), k) /\ (IsCoarse(s) => k[4] = s.value)}}

-----------------------------------------------------------------------------
Put(entries, f, c) ==
  [k \in DOMAIN entries \cup Keys(f) |-> IF k \in Keys(f) THEN Datum(f, c) ELSE entries[k]]

(* Deviation: a retraction forgets the index by value. *)
DeleteTwo(entries, F) ==
  LET gone == UNION {{EAVT(f), AEVT(f)} : f \in F}
  IN  [k \in DOMAIN entries \ gone |-> entries[k]]

Delete(entries, F) ==
  LET gone == UNION {Keys(f) : f \in F}
  IN  [k \in DOMAIN entries \ gone |-> entries[k]]

(* What an upsert retracts: everything the write sees of the entity's attribute. *)
Slot(entries, f) ==
  {d.fact : d \in Iterate(entries, [entity |-> f[1], attribute |-> f[2], value |-> Any])}

(* Deviation: a commit is recorded when its instructions are done. *)
BeginUnrecorded ==
  /\ ~writing /\ commits < MaxCommits
  /\ writing' = TRUE /\ commits' = commits + 1 /\ edits' = 0
  /\ UNCHANGED <<stored, editing, erased, erasing>>

(* transact: the write begins by recording the commit as a fact of its own. *)
Begin ==
  /\ ~writing /\ commits < MaxCommits
  /\ writing' = TRUE /\ commits' = commits + 1 /\ edits' = 0
  /\ editing' = Put(stored, CommitFact(commits + 1), commits + 1)
  /\ UNCHANGED <<stored, erased, erasing>>

(* Which commits lose and regain their records. *)
Erase(f) == erasing \cup {c \in 1 .. MaxCommits : f = CommitFact(c)}
Restore(f) == erasing \ {c \in 1 .. MaxCommits : f = CommitFact(c)}
Displace(f) ==
  (erasing \cup {c \in 1 .. MaxCommits : f[1] = c /\ f[2] = "db/source"})
    \ {c \in 1 .. MaxCommits : f = CommitFact(c)}

(* One instruction: the write's view becomes `entries`.  An Import is as many
   assertions as its object has facts.  A transaction can be about commits that
   are begun, but not about its own: their references are hashes of what they
   hold. *)
Edit(f, entries, missing) ==
  /\ writing /\ edits < MaxEdits
  /\ {f[1], f[3]} \cap commits .. MaxCommits = {}
  /\ edits' = edits + 1
  /\ editing' = entries /\ erasing' = missing
  /\ UNCHANGED <<stored, writing, commits, erased>>

Assert(f) == f[2] \notin Single /\ Edit(f, Put(editing, f, commits), Restore(f))

Retract(f) == Edit(f, Delete(editing, {f}), Erase(f))

(* Deviation: the upsert reads what was stored when the write began. *)
UpsertStale(f) ==
  Edit(f, Put(Delete(editing, Slot(stored, f)), f, commits), Displace(f))

(* Deviation: the new fact is put first, and retracted with the others. *)
UpsertSwapped(f) ==
  LET entries == Put(editing, f, commits)
  IN  Edit(f, Delete(entries, Slot(entries, f)), Displace(f))

Upsert(f) ==
  Edit(f, Put(Delete(editing, Slot(editing, f)), f, commits), Displace(f))

Commit ==
  /\ writing
  /\ writing' = FALSE /\ stored' = editing /\ erased' = erasing
  /\ UNCHANGED <<editing, commits, edits, erasing>>

(* An instruction throws, as the import of an unsupported value does. *)
Throw ==
  /\ writing
  /\ writing' = FALSE
  /\ IF Atomic THEN UNCHANGED <<stored, erased>> ELSE stored' = editing /\ erased' = erasing
  /\ editing' = stored' /\ erasing' = erased'
  /\ UNCHANGED <<commits, edits>>

Next ==
  \/ Begin \/ Commit \/ Throw
  \/ \E f \in Facts : Assert(f) \/ Retract(f) \/ Upsert(f)

Spec == Init /\ [][Next]_vars

-----------------------------------------------------------------------------
(* The data of an index. *)
Data(entries, index) == {entries[k] : k \in {k \in DOMAIN entries : k[1] = index}}

Selected(s, d) ==
  /\ s.entity \in {Any, d.fact[1]}
  /\ s.attribute \in {Any, d.fact[2]}
  /\ s.value \in {Any, d.fact[3]}

Matching(entries, s) == {d \in Data(entries, "EAVT") : Selected(s, d)}

(* The scan for a null of an entity, whatever the attribute, is not filtered,
   though the code says of such scans that it will filter out the datums that do
   not match the value. *)
Unfiltered(s) == s.entity # Any /\ s.attribute = Any /\ s.value = Null

(* Whatever a selector leaves out, the scan finds the facts it selects, no
   others, and each with its cause, in the store as well as within a write,
   whichever of the three indexes is read; but a scan for an entity and null
   finds all facts of the entity. *)
ScansSelect ==
  \A entries \in {stored, editing}, s \in Selectors :
    Iterate(entries, s) =
      Matching(entries, IF Unfiltered(s) THEN [s EXCEPT !.value = Any] ELSE s)

(* The three indexes hold the same data, each datum under the keys of its fact,
   also when a transaction that threw has left a part of itself behind. *)
Agree(entries) ==
  \A k \in DOMAIN entries :
    LET d == entries[k] IN
    /\ k \in Keys(d.fact)
    /\ \A other \in Keys(d.fact) : other \in DOMAIN entries /\ entries[other] = d

IndexesAgree == Agree(stored) /\ Agree(editing)

(* An attribute that is only ever upserted has at most one value per entity. *)
SingleValued ==
  \A entries \in {stored, editing} : \A c, d \in Data(entries, "EAVT") :
    c.fact[2] \in Single /\ c.fact[1] = d.fact[1] /\ c.fact[2] = d.fact[2] => c = d

(* Every fact that is stored names a commit that is stored as well, unless the
   instructions of a later transaction have removed its record: a transaction
   that throws in the middle loses none. *)
CausesRecorded ==
  \A d \in Data(stored, "AEVT") :
    d.cause \in erased \/ EAVT(CommitFact(d.cause)) \in DOMAIN stored

(* The store implements a set of facts that transactions change one at a time,
   all or nothing if the underlying store is atomic. *)
Abstract == INSTANCE FactSet WITH
  facts <- Data(stored, "EAVT"), draft <- Data(editing, "EAVT")

ImplementsFactSet == Abstract!SetSpec
=============================================================================
