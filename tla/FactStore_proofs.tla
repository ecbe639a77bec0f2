--------------------------- MODULE FactStore_proofs ---------------------------
(***************************************************************************)
(* Proofs about FactStore: for any entities, attributes and values the     *)
(* three indexes hold the same data, and with that every scan answers its  *)
(* selector and the store implements a set of facts.  Attributes that are  *)
(* only upserted keep one value, and every cause names a commit that is    *)
(* stored or has been erased by what clients changed.                      *)
(* Those about Codec are at the end: a replica that performs what it reads *)
(* off the log comes to the same facts as the one that transacted.         *)
(***************************************************************************)
EXTENDS Codec, FiniteSetTheorems, WellFoundedInduction, TLAPS

(* The inductive invariant: what is stored are triples, each under its three
   keys, in the store and in the write's view of it. *)
Triple(f) == f = <<f[1], f[2], f[3]>>
Triples(entries) == \A k \in DOMAIN entries : Triple(entries[k].fact)
Sound(entries) == Agree(entries) /\ Triples(entries)
StoreInv == Sound(stored) /\ Sound(editing)

LEMMA FactsAreTriples ==
  /\ \A f \in Facts : Triple(f)
  /\ \A c : Triple(CommitFact(c))
BY DEF Facts, CommitFact, Triple

(* Keys of different facts are different, and so are keys of different indexes. *)
LEMMA KeysDiffer ==
  ASSUME NEW f, NEW g, Triple(f), Triple(g), f # g
  PROVE  Keys(f) \cap Keys(g) = {}
<1>1. f[1] # g[1] \/ f[2] # g[2] \/ f[3] # g[3]
  BY DEF Triple
<1>2. EAVT(f) \notin Keys(g)
  BY <1>1 DEF Keys, EAVT, AEVT, VAET
<1>3. AEVT(f) \notin Keys(g)
  BY <1>1 DEF Keys, EAVT, AEVT, VAET
<1>4. VAET(f) \notin Keys(g)
  BY <1>1 DEF Keys, EAVT, AEVT, VAET
<1> QED BY <1>2, <1>3, <1>4 DEF Keys

LEMMA KeyOfIndex ==
  ASSUME NEW f, NEW k \in Keys(f)
  PROVE  /\ k[1] = "EAVT" => k = EAVT(f)
         /\ k[1] = "AEVT" => k = AEVT(f)
         /\ k[1] = "VAET" => k = VAET(f)
BY DEF Keys, EAVT, AEVT, VAET

(* The data of the first index are those of any of them. *)
LEMMA DataOf ==
  ASSUME NEW entries, Sound(entries), NEW d
  PROVE  d \in Data(entries, "EAVT") <=>
           /\ EAVT(d.fact) \in DOMAIN entries
           /\ entries[EAVT(d.fact)] = d
<1>1. ASSUME d \in Data(entries, "EAVT")
      PROVE  EAVT(d.fact) \in DOMAIN entries /\ entries[EAVT(d.fact)] = d
  <2>1. PICK k \in DOMAIN entries : k[1] = "EAVT" /\ entries[k] = d
    BY <1>1 DEF Data
  <2>2. k \in Keys(d.fact)
    BY <2>1 DEF Sound, Agree
  <2>3. k = EAVT(d.fact)
    BY <2>1, <2>2, KeyOfIndex
  <2> QED BY <2>1, <2>3
<1>2. EAVT(d.fact)[1] = "EAVT"
  BY DEF EAVT
<1> QED BY <1>1, <1>2 DEF Data

-----------------------------------------------------------------------------
(* The range of keys that a path stands for. *)
LEMMA RangeOf ==
  ASSUME NEW a, NEW b, NEW c, NEW d, NEW key
  PROVE  InRange(<<a, b, c, d>>, key) <=>
           /\ key[1] = a
           /\ b # Any => key[2] = b
           /\ b # Any /\ c # Any => key[3] = c
           /\ b # Any /\ c # Any /\ d # Any => key[4] = d
<1> DEFINE path == <<a, b, c, d>>
<1>1. path[1] = a /\ path[2] = b /\ path[3] = c /\ path[4] = d
  OBVIOUS
<1> HIDE DEF path
<1>3. (\A j \in 2 .. 2 : path[j] # Any) <=> b # Any
  BY <1>1
<1>4. (\A j \in 2 .. 3 : path[j] # Any) <=> b # Any /\ c # Any
  <2>1. 2 .. 3 = {2, 3}
    OBVIOUS
  <2> QED BY <1>1, <2>1
<1>5. (\A j \in 2 .. 4 : path[j] # Any) <=> b # Any /\ c # Any /\ d # Any
  <2>1. 2 .. 4 = {2, 3, 4}
    OBVIOUS
  <2> QED BY <1>1, <2>1
<1>6. 2 .. 4 = {2, 3, 4}
  OBVIOUS
<1>7. InRange(path, key) <=>
        /\ key[1] = a
        /\ (\A j \in 2 .. 2 : path[j] # Any) => key[2] = b
        /\ (\A j \in 2 .. 3 : path[j] # Any) => key[3] = c
        /\ (\A j \in 2 .. 4 : path[j] # Any) => key[4] = d
  BY <1>1, <1>6, Zenon DEF InRange
<1>8. InRange(path, key) <=>
           /\ key[1] = a
           /\ b # Any => key[2] = b
           /\ b # Any /\ c # Any => key[3] = c
           /\ b # Any /\ c # Any /\ d # Any => key[4] = d
  BY <1>3, <1>4, <1>5, <1>7
<1> QED BY <1>8 DEF path

(* In a sound store the scan of a selector yields the data that it selects. *)
LEMMA ScanSelects ==
  ASSUME NEW entries, Sound(entries), NEW s \in Selectors, ~Unfiltered(s)
  PROVE  Iterate(entries, s) = {d \in Data(entries, "EAVT") : Selected(s, d)}
<1> DEFINE e == s.entity  a == s.attribute  v == s.value
           In(k) == InRange(Path(s), k) /\ (IsCoarse(s) => k[4] = s.value)
<1>1. ASSUME NEW k \in DOMAIN entries
      PROVE  LET f == entries[k].fact
             IN  /\ Triple(f) /\ k \in Keys(f)
                 /\ \A other \in Keys(f) : other \in DOMAIN entries /\ entries[other] = entries[k]
  BY DEF Sound, Agree, Triples
<1>2. ASSUME NEW f, Triple(f)
      PROVE  /\ \A k \in Keys(f) : In(k) =>
                  (e \in {Any, f[1]} /\ a \in {Any, f[2]} /\ v \in {Any, f[3]})
             /\ (e \in {Any, f[1]} /\ a \in {Any, f[2]} /\ v \in {Any, f[3]})
                  => \E k \in Keys(f) : In(k)
  <2>1. CASE e # Any
    <3>1. Path(s) = <<"EAVT", e, a, v>>
      BY <2>1 DEF Path
    <3>2. \A k : In(k) <=> /\ k[1] = "EAVT" /\ k[2] = e
                           /\ a # Any => k[3] = a
                           /\ v # Any => k[4] = v
      BY <2>1, <3>1, RangeOf DEF IsCoarse, Unfiltered
    <3> HIDE DEF In
    <3>3. \A k \in Keys(f) : k[1] = "EAVT" => k = EAVT(f)
      BY KeyOfIndex
    <3>4. EAVT(f) \in Keys(f) /\ EAVT(f)[1] = "EAVT" /\ EAVT(f)[2] = f[1]
            /\ EAVT(f)[3] = f[2] /\ EAVT(f)[4] = f[3]
      BY DEF Keys, EAVT
    <3> QED BY <2>1, <3>2, <3>3, <3>4
  <2>2. CASE e = Any /\ v # Any
    <3>1. Path(s) = <<"VAET", v, a, Any>>
      BY <2>2 DEF Path
    <3>2. \A k : In(k) <=> /\ k[1] = "VAET" /\ k[2] = v
                           /\ a # Any => k[3] = a
      BY <2>2, <3>1, RangeOf DEF IsCoarse
    <3> HIDE DEF In
    <3>3. \A k \in Keys(f) : k[1] = "VAET" => k = VAET(f)
      BY KeyOfIndex
    <3>4. VAET(f) \in Keys(f) /\ VAET(f)[1] = "VAET" /\ VAET(f)[2] = f[3] /\ VAET(f)[3] = f[2]
      BY DEF Keys, VAET
    <3> QED BY <2>2, <3>2, <3>3, <3>4
  <2>3. CASE e = Any /\ v = Any /\ a # Any
    <3>1. Path(s) = <<"AEVT", a, Any, Any>>
      BY <2>3 DEF Path
    <3>2. \A k : In(k) <=> k[1] = "AEVT" /\ k[2] = a
      BY <2>3, <3>1, RangeOf DEF IsCoarse
    <3> HIDE DEF In
    <3>3. \A k \in Keys(f) : k[1] = "AEVT" => k = AEVT(f)
      BY KeyOfIndex
    <3>4. AEVT(f) \in Keys(f) /\ AEVT(f)[1] = "AEVT" /\ AEVT(f)[2] = f[2]
      BY DEF Keys, AEVT
    <3> QED BY <2>3, <3>2, <3>3, <3>4
  <2>4. CASE e = Any /\ v = Any /\ a = Any
    <3>1. Path(s) = <<"EAVT", Any, Any, Any>>
      BY <2>4 DEF Path
    <3>2. \A k : In(k) <=> k[1] = "EAVT"
      BY <2>4, <3>1, RangeOf DEF IsCoarse
    <3> HIDE DEF In
    <3>3. EAVT(f) \in Keys(f) /\ EAVT(f)[1] = "EAVT"
      BY DEF Keys, EAVT
    <3> QED BY <2>4, <3>2, <3>3
  <2> QED BY <2>1, <2>2, <2>3, <2>4
<1>3. Iterate(entries, s) = {entries[k] : k \in {k \in DOMAIN entries : In(k)}}
  BY DEF Iterate
<1>4. \A d : Selected(s, d) <=>
        (e \in {Any, d.fact[1]} /\ a \in {Any, d.fact[2]} /\ v \in {Any, d.fact[3]})
  BY DEF Selected
<1> HIDE DEF In, e, a, v
<1>5. ASSUME NEW d \in Iterate(entries, s)
      PROVE  d \in Data(entries, "EAVT") /\ Selected(s, d)
  <2>1. PICK k \in DOMAIN entries : In(k) /\ entries[k] = d
    BY <1>3
  <2>2. EAVT(d.fact) \in DOMAIN entries /\ entries[EAVT(d.fact)] = d
    BY <1>1, <2>1 DEF Keys
  <2>3. d \in Data(entries, "EAVT")
    BY <2>2, DataOf
  <2>4. Triple(d.fact) /\ k \in Keys(d.fact)
    BY <1>1, <2>1
  <2>5. e \in {Any, d.fact[1]} /\ a \in {Any, d.fact[2]} /\ v \in {Any, d.fact[3]}
    BY <1>2, <2>1, <2>4
  <2> QED BY <1>4, <2>3, <2>5
<1>6. ASSUME NEW d \in Data(entries, "EAVT"), Selected(s, d)
      PROVE  d \in Iterate(entries, s)
  <2>1. EAVT(d.fact) \in DOMAIN entries /\ entries[EAVT(d.fact)] = d
    BY DataOf
  <2>2. Triple(d.fact) /\ \A k \in Keys(d.fact) : k \in DOMAIN entries /\ entries[k] = d
    BY <1>1, <2>1
  <2>3. PICK k \in Keys(d.fact) : In(k)
    BY <1>2, <1>4, <1>6, <2>2
  <2> QED BY <1>3, <2>2, <2>3
<1> QED BY <1>5, <1>6

(* The scan for an entity and null reads the range of the entity. *)
LEMMA ScanUnfiltered ==
  ASSUME NEW entries, NEW s \in Selectors, Unfiltered(s)
  PROVE  LET wide == [s EXCEPT !.value = Any]
         IN  /\ wide \in Selectors /\ ~Unfiltered(wide)
             /\ Iterate(entries, s) = Iterate(entries, wide)
<1> DEFINE wide == [s EXCEPT !.value = Any]
<1>1. /\ wide \in Selectors /\ wide.entity = s.entity /\ wide.attribute = s.attribute
      /\ wide.value = Any
  BY DEF Selectors
<1>2. s.entity # Any /\ s.attribute = Any /\ s.value = Null /\ Any # Null
  BY StoreAssumption DEF Unfiltered
<1> HIDE DEF wide
<1>3. ~Unfiltered(wide) /\ ~IsCoarse(wide) /\ ~IsCoarse(s)
  BY <1>1, <1>2 DEF Unfiltered, IsCoarse
<1>4. /\ Path(s) = <<"EAVT", s.entity, Any, Null>>
      /\ Path(wide) = <<"EAVT", s.entity, Any, Any>>
  BY <1>1, <1>2 DEF Path
<1>5. \A k : InRange(Path(s), k) <=> InRange(Path(wide), k)
  BY <1>4, RangeOf
<1>6. Iterate(entries, s) = Iterate(entries, wide)
  BY <1>3, <1>5 DEF Iterate
<1> QED
  BY <1>1, <1>3, <1>6 DEF wide

-----------------------------------------------------------------------------
(* What the two edits of a store do to it and to its data. *)
LEMMA PutSound ==
  ASSUME NEW entries, Sound(entries), NEW f, Triple(f), NEW c
  PROVE  /\ Sound(Put(entries, f, c))
         /\ Data(Put(entries, f, c), "EAVT")
              = {d \in Data(entries, "EAVT") : d.fact # f} \cup {Datum(f, c)}
<1> DEFINE new == Put(entries, f, c)
<1>1. /\ DOMAIN new = DOMAIN entries \cup Keys(f)
      /\ \A k \in Keys(f) : new[k] = Datum(f, c)
      /\ \A k \in DOMAIN entries \ Keys(f) : new[k] = entries[k]
  BY DEF Put
<1> HIDE DEF new
<1>2. Datum(f, c).fact = f
  BY DEF Datum
<1>3. ASSUME NEW k \in DOMAIN entries \ Keys(f)
      PROVE  /\ Triple(entries[k].fact) /\ k \in Keys(entries[k].fact)
             /\ \A other \in Keys(entries[k].fact) :
                  other \in DOMAIN entries \ Keys(f) /\ entries[other] = entries[k]
  <2>1. /\ Triple(entries[k].fact) /\ k \in Keys(entries[k].fact)
        /\ \A other \in Keys(entries[k].fact) :
             other \in DOMAIN entries /\ entries[other] = entries[k]
    BY DEF Sound, Agree, Triples
  <2>2. entries[k].fact # f
    BY <2>1
  <2>3. Keys(f) \cap Keys(entries[k].fact) = {}
    BY <2>1, <2>2, KeysDiffer
  <2> QED BY <2>1, <2>3
<1>4. Sound(new)
  <2>1. Triples(new)
    BY <1>1, <1>2, <1>3 DEF Triples
  <2>2. Agree(new)
    <3> SUFFICES ASSUME NEW k \in DOMAIN new
                 PROVE  /\ k \in Keys(new[k].fact)
                        /\ \A other \in Keys(new[k].fact) :
                             other \in DOMAIN new /\ new[other] = new[k]
      BY DEF Agree
    <3>1. CASE k \in Keys(f)
      BY <1>1, <1>2, <3>1
    <3>2. CASE k \notin Keys(f)
      BY <1>1, <1>3, <3>2
    <3> QED BY <3>1, <3>2
  <2> QED BY <2>1, <2>2 DEF Sound
<1>5. ASSUME NEW d
      PROVE  d \in Data(new, "EAVT") <=>
               (d \in Data(entries, "EAVT") /\ d.fact # f) \/ d = Datum(f, c)
  <2>1. d \in Data(new, "EAVT") <=> EAVT(d.fact) \in DOMAIN new /\ new[EAVT(d.fact)] = d
    BY <1>4, DataOf
  <2>2. d \in Data(entries, "EAVT") <=>
          EAVT(d.fact) \in DOMAIN entries /\ entries[EAVT(d.fact)] = d
    BY DataOf
  <2>3. CASE d.fact = f
    BY <1>1, <1>2, <2>1, <2>3 DEF Keys
  <2>4. CASE d.fact # f
    <3>1. ASSUME EAVT(d.fact) \in DOMAIN new, new[EAVT(d.fact)] = d
          PROVE  EAVT(d.fact) \in DOMAIN entries \ Keys(f)
      BY <1>1, <1>2, <2>4, <3>1
    <3>2. ASSUME EAVT(d.fact) \in DOMAIN entries, entries[EAVT(d.fact)] = d
          PROVE  EAVT(d.fact) \notin Keys(f)
      <4>1. Triple(d.fact)
        BY <3>2 DEF Sound, Triples
      <4>2. Keys(f) \cap Keys(d.fact) = {}
        BY <2>4, <4>1, KeysDiffer
      <4> QED BY <4>2 DEF Keys
    <3> QED BY <1>1, <1>2, <2>1, <2>2, <2>4, <3>1, <3>2
  <2> QED BY <2>3, <2>4
<1>6. Data(new, "EAVT") = {d \in Data(entries, "EAVT") : d.fact # f} \cup {Datum(f, c)}
  BY <1>5
<1> QED BY <1>4, <1>6 DEF new

LEMMA DeleteSound ==
  ASSUME NEW entries, Sound(entries), NEW F, \A f \in F : Triple(f)
  PROVE  /\ Sound(Delete(entries, F))
         /\ Data(Delete(entries, F), "EAVT") = {d \in Data(entries, "EAVT") : d.fact \notin F}
<1> DEFINE gone == UNION {Keys(f) : f \in F}
           new == Delete(entries, F)
<1>1. /\ DOMAIN new = DOMAIN entries \ gone
      /\ \A k \in DOMAIN entries \ gone : new[k] = entries[k]
  BY DEF Delete
<1>2. ASSUME NEW f, Triple(f), NEW k \in Keys(f)
      PROVE  k \in gone <=> f \in F
  BY <1>2, KeysDiffer
<1> HIDE DEF gone, new
<1>3. ASSUME NEW k \in DOMAIN entries
      PROVE  /\ Triple(entries[k].fact) /\ k \in Keys(entries[k].fact)
             /\ \A other \in Keys(entries[k].fact) :
                  other \in DOMAIN entries /\ entries[other] = entries[k]
  BY DEF Sound, Agree, Triples
<1>4. Sound(new)
  <2>1. Triples(new)
    BY <1>1, <1>3 DEF Triples
  <2>2. Agree(new)
    <3> SUFFICES ASSUME NEW k \in DOMAIN new
                 PROVE  /\ k \in Keys(new[k].fact)
                        /\ \A other \in Keys(new[k].fact) :
                             other \in DOMAIN new /\ new[other] = new[k]
      BY DEF Agree
    <3>1. k \in DOMAIN entries /\ k \notin gone /\ new[k] = entries[k]
      BY <1>1
    <3>2. entries[k].fact \notin F
      BY <1>2, <1>3, <3>1
    <3>3. \A other \in Keys(entries[k].fact) : other \notin gone
      BY <1>2, <1>3, <3>1, <3>2
    <3> QED BY <1>1, <1>3, <3>1, <3>3
  <2> QED BY <2>1, <2>2 DEF Sound
<1>5. ASSUME NEW d
      PROVE  d \in Data(new, "EAVT") <=> d \in Data(entries, "EAVT") /\ d.fact \notin F
  <2>1. d \in Data(new, "EAVT") <=> EAVT(d.fact) \in DOMAIN new /\ new[EAVT(d.fact)] = d
    BY <1>4, DataOf
  <2>2. d \in Data(entries, "EAVT") <=>
          EAVT(d.fact) \in DOMAIN entries /\ entries[EAVT(d.fact)] = d
    BY DataOf
  <2>3. ASSUME EAVT(d.fact) \in DOMAIN entries, entries[EAVT(d.fact)] = d
        PROVE  EAVT(d.fact) \in gone <=> d.fact \in F
    <3>1. Triple(d.fact)
      BY <1>3, <2>3
    <3>2. EAVT(d.fact) \in Keys(d.fact)
      BY DEF Keys
    <3> QED BY <1>2, <3>1, <3>2
  <2> QED BY <1>1, <2>1, <2>2, <2>3
<1>6. Data(new, "EAVT") = {d \in Data(entries, "EAVT") : d.fact \notin F}
  BY <1>5
<1> QED BY <1>4, <1>6 DEF new

-----------------------------------------------------------------------------
(* The slot of an upsert: the facts of its entity and attribute. *)
LEMMA SlotHolds ==
  ASSUME NEW entries, Sound(entries), NEW f \in Facts
  PROVE  /\ Slot(entries, f) = {d.fact : d \in {d \in Data(entries, "EAVT") :
                                    d.fact[1] = f[1] /\ d.fact[2] = f[2]}}
         /\ \A g \in Slot(entries, f) : Triple(g)
<1> DEFINE s == [entity |-> f[1], attribute |-> f[2], value |-> Any]
<1>1. s \in Selectors /\ f[1] # Any /\ f[2] # Any /\ ~Unfiltered(s)
  BY StoreAssumption DEF Selectors, Facts, Unfiltered
<1>2. Iterate(entries, s) = {d \in Data(entries, "EAVT") : Selected(s, d)}
  BY <1>1, ScanSelects
<1>3. \A d : Selected(s, d) <=> d.fact[1] = f[1] /\ d.fact[2] = f[2]
  BY <1>1 DEF Selected
<1>4. Slot(entries, f) = {d.fact : d \in Iterate(entries, s)}
  BY DEF Slot
<1> HIDE DEF s
<1>5. Iterate(entries, s) = {d \in Data(entries, "EAVT") : d.fact[1] = f[1] /\ d.fact[2] = f[2]}
  BY <1>2, <1>3
<1>6. \A d \in Data(entries, "EAVT") : Triple(d.fact)
  BY DEF Data, Sound, Triples
<1> QED BY <1>4, <1>5, <1>6

LEMMA UpsertSound ==
  ASSUME NEW entries, Sound(entries), NEW f \in Facts, NEW c
  PROVE  LET new == Put(Delete(entries, Slot(entries, f)), f, c)
         IN  /\ Sound(new)
             /\ Data(new, "EAVT") = Abstract!Replaced(Data(entries, "EAVT"), f, c)
<1> DEFINE old == Data(entries, "EAVT")
           rest == Delete(entries, Slot(entries, f))
           new == Put(rest, f, c)
<1>1. Triple(f)
  BY FactsAreTriples
<1>2. Sound(rest) /\ Data(rest, "EAVT") = {d \in old : d.fact \notin Slot(entries, f)}
  BY SlotHolds, DeleteSound
<1>3. Sound(new) /\ Data(new, "EAVT") = {d \in Data(rest, "EAVT") : d.fact # f} \cup {Datum(f, c)}
  BY <1>1, <1>2, PutSound
<1>4. \A d \in old : d.fact \notin Slot(entries, f) <=> ~(d.fact[1] = f[1] /\ d.fact[2] = f[2])
  BY SlotHolds
<1>5. Data(rest, "EAVT") = {d \in old : ~Abstract!SameSlot(d.fact, f)}
  BY <1>2, <1>4 DEF Abstract!SameSlot
<1>6. Data(new, "EAVT") = Abstract!Replaced(old, f, c)
  BY <1>3, <1>5 DEF Abstract!Replaced, Abstract!With, Datum
<1> QED BY <1>3, <1>6

-----------------------------------------------------------------------------
LEMMA InitInv == Init => StoreInv
<1> SUFFICES ASSUME Init PROVE StoreInv
  OBVIOUS
<1>1. DOMAIN stored = {} /\ DOMAIN editing = {}
  BY DEF Init
<1> QED BY <1>1 DEF StoreInv, Sound, Agree, Triples

LEMMA StepInv == StoreInv /\ [Next]_vars => StoreInv'
<1> SUFFICES ASSUME StoreInv, [Next]_vars PROVE StoreInv'
  OBVIOUS
<1>1. Sound(stored) /\ Sound(editing)
  BY DEF StoreInv
<1>2. ASSUME Sound(stored'), Sound(editing') PROVE StoreInv'
  BY <1>2 DEF StoreInv, Sound, Agree, Triples
<1>3. CASE Begin
  <2>1. Triple(CommitFact(commits + 1))
    BY FactsAreTriples
  <2> QED BY <1>1, <1>2, <1>3, <2>1, PutSound DEF Begin
<1>4. CASE Commit
  BY <1>1, <1>2, <1>4 DEF Commit
<1>5. CASE Throw
  BY <1>1, <1>2, <1>5 DEF Throw
<1>6. ASSUME NEW f \in Facts, Assert(f) PROVE StoreInv'
  <2>1. Triple(f)
    BY FactsAreTriples
  <2> QED BY <1>1, <1>2, <1>6, <2>1, PutSound DEF Assert, Edit
<1>7. ASSUME NEW f \in Facts, Retract(f) PROVE StoreInv'
  <2>1. \A g \in {f} : Triple(g)
    BY FactsAreTriples
  <2>2. Sound(Delete(editing, {f}))
    BY <1>1, <2>1, DeleteSound
  <2> QED BY <1>1, <1>2, <1>7, <2>2 DEF Retract, Edit
<1>8. ASSUME NEW f \in Facts, Upsert(f) PROVE StoreInv'
  <2>1. Sound(Put(Delete(editing, Slot(editing, f)), f, commits))
    BY <1>1, UpsertSound
  <2> QED BY <1>1, <1>2, <1>8, <2>1 DEF Upsert, Edit
<1>9. CASE UNCHANGED vars
  BY <1>1, <1>2, <1>9 DEF vars
<1> QED BY <1>3, <1>4, <1>5, <1>6, <1>7, <1>8, <1>9 DEF Next

(* The indexes never disagree, whatever is asserted, retracted and upserted in
   whichever transactions, and wherever one of them throws. *)
THEOREM IndexesInStep == Spec => []IndexesAgree
<1>1. StoreInv => IndexesAgree
  BY DEF StoreInv, Sound, IndexesAgree
<1> QED BY <1>1, InitInv, StepInv, PTL DEF Spec

(* So any scan, of the store or within a write, yields exactly the facts that
   its selector selects; a scan for a null of an entity yields the entity's. *)
THEOREM ScansAnswer == Spec => []ScansSelect
<1>1. StoreInv => ScansSelect
  <2> SUFFICES ASSUME NEW entries, Sound(entries), NEW s \in Selectors
               PROVE  Iterate(entries, s) =
                        Matching(entries, IF Unfiltered(s) THEN [s EXCEPT !.value = Any] ELSE s)
    BY DEF StoreInv, ScansSelect
  <2>1. CASE Unfiltered(s)
    <3> DEFINE wide == [s EXCEPT !.value = Any]
    <3>1. wide \in Selectors /\ ~Unfiltered(wide) /\ Iterate(entries, s) = Iterate(entries, wide)
      BY <2>1, ScanUnfiltered
    <3> HIDE DEF wide
    <3>2. Iterate(entries, wide) = Matching(entries, wide)
      BY <3>1, ScanSelects DEF Matching
    <3> QED
      BY <2>1, <3>1, <3>2 DEF wide
  <2>2. CASE ~Unfiltered(s)
    BY <2>2, ScanSelects DEF Matching
  <2> QED
    BY <2>1, <2>2
<1> QED BY <1>1, InitInv, StepInv, PTL DEF Spec

-----------------------------------------------------------------------------
(* The store implements a set of facts. *)
LEMMA SetInitial == Init => Abstract!SetInit
<1> SUFFICES ASSUME Init PROVE Abstract!SetInit
  OBVIOUS
<1>1. DOMAIN stored = {} /\ DOMAIN editing = {}
  BY DEF Init
<1>2. Data(stored, "EAVT") = {} /\ Data(editing, "EAVT") = {}
  BY <1>1 DEF Data
<1> QED BY <1>2 DEF Init, Abstract!SetInit

(* What the steps do to the data, in the terms of the abstract specification. *)
LEMMA SetStep ==
  ASSUME StoreInv, [Next]_vars
  PROVE  [Abstract!BeginSet \/ Abstract!EditSet \/ Abstract!CommitSet
            \/ Abstract!AbortSet]_(Abstract!setVars)
<1>1. Sound(stored) /\ Sound(editing)
  BY DEF StoreInv
<1>2. stored' = stored => Data(stored, "EAVT")' = Data(stored, "EAVT")
  BY DEF Data
<1>3. CASE Begin
  <2>1. Triple(CommitFact(commits + 1))
    BY FactsAreTriples
  <2>2. Data(editing, "EAVT")' = Data(Put(stored, CommitFact(commits + 1), commits + 1), "EAVT")
    BY <1>3 DEF Begin, Data
  <2>3. Data(editing, "EAVT")'
          = Abstract!With(Data(stored, "EAVT"), CommitFact(commits + 1), commits + 1)
    BY <1>1, <2>1, <2>2, PutSound DEF Abstract!With, Datum
  <2>4. Abstract!BeginSet
    BY <1>2, <1>3, <2>3 DEF Begin, Abstract!BeginSet
  <2> QED BY <2>4
<1>4. CASE Commit
  <2>1. Data(stored, "EAVT")' = Data(editing, "EAVT") /\ Data(editing, "EAVT")' = Data(editing, "EAVT")
    BY <1>4 DEF Commit, Data
  <2>2. Abstract!CommitSet
    BY <1>4, <2>1 DEF Commit, Abstract!CommitSet
  <2> QED BY <2>2
<1>5. CASE Throw
  <2>1. /\ Data(stored, "EAVT")' = IF Atomic THEN Data(stored, "EAVT") ELSE Data(editing, "EAVT")
        /\ Data(editing, "EAVT")' = Data(stored, "EAVT")'
    BY <1>5 DEF Throw, Data
  <2>2. Abstract!AbortSet
    BY <1>5, <2>1 DEF Throw, Abstract!AbortSet
  <2> QED BY <2>2
<1>6. ASSUME NEW f \in Facts, NEW entries, NEW missing, Edit(f, entries, missing),
             \/ Data(entries, "EAVT") = Abstract!With(Data(editing, "EAVT"), f, commits)
             \/ Data(entries, "EAVT") = Abstract!Without(Data(editing, "EAVT"), f)
             \/ Data(entries, "EAVT") = Abstract!Replaced(Data(editing, "EAVT"), f, commits)
      PROVE  Abstract!EditSet
  <2>1. Data(editing, "EAVT")' = Data(entries, "EAVT") /\ UNCHANGED Data(stored, "EAVT")
    BY <1>2, <1>6 DEF Edit, Data
  <2> QED BY <1>6, <2>1 DEF Edit, Abstract!EditSet
<1>7. ASSUME NEW f \in Facts, Assert(f) PROVE Abstract!EditSet
  <2>1. Triple(f)
    BY FactsAreTriples
  <2>2. Data(Put(editing, f, commits), "EAVT") = Abstract!With(Data(editing, "EAVT"), f, commits)
    BY <1>1, <2>1, PutSound DEF Abstract!With, Datum
  <2> QED BY <1>6, <1>7, <2>2 DEF Assert
<1>8. ASSUME NEW f \in Facts, Retract(f) PROVE Abstract!EditSet
  <2>1. \A g \in {f} : Triple(g)
    BY FactsAreTriples
  <2>2. Data(Delete(editing, {f}), "EAVT") = {d \in Data(editing, "EAVT") : d.fact \notin {f}}
    BY <1>1, <2>1, DeleteSound
  <2>3. Data(Delete(editing, {f}), "EAVT") = Abstract!Without(Data(editing, "EAVT"), f)
    BY <2>2 DEF Abstract!Without
  <2> QED BY <1>6, <1>8, <2>3 DEF Retract
<1>9. ASSUME NEW f \in Facts, Upsert(f) PROVE Abstract!EditSet
  <2>1. Data(Put(Delete(editing, Slot(editing, f)), f, commits), "EAVT")
          = Abstract!Replaced(Data(editing, "EAVT"), f, commits)
    BY <1>1, UpsertSound
  <2> QED BY <1>6, <1>9, <2>1 DEF Upsert
<1>10. CASE UNCHANGED vars
  <2>1. UNCHANGED <<Data(stored, "EAVT"), Data(editing, "EAVT"), writing, commits>>
    BY <1>10 DEF vars, Data
  <2> QED BY <2>1 DEF Abstract!setVars
<1> QED BY <1>3, <1>4, <1>5, <1>7, <1>8, <1>9, <1>10 DEF Next

(* Three indexes, and the scans that upserts make of them, amount to one set
   of facts, whether or not the store undoes a transaction that throws. *)
THEOREM SetRefinement == Spec => ImplementsFactSet
<1>1. Spec => []StoreInv
  BY InitInv, StepInv, PTL DEF Spec
<1>2. StoreInv /\ [Next]_vars =>
        [Abstract!BeginSet \/ Abstract!EditSet \/ Abstract!CommitSet
           \/ Abstract!AbortSet]_(Abstract!setVars)
  BY SetStep
<1> QED BY <1>1, <1>2, SetInitial, PTL DEF Spec, ImplementsFactSet, Abstract!SetSpec

-----------------------------------------------------------------------------
(* Attributes that are only upserted. *)
OneEach(D) == \A c, d \in D :
  c.fact[2] \in Single /\ c.fact[1] = d.fact[1] /\ c.fact[2] = d.fact[2] => c = d

LEMMA OneEachWith ==
  ASSUME NEW D, OneEach(D), NEW f, f[2] \notin Single, NEW c
  PROVE  OneEach(Abstract!With(D, f, c))
BY DEF OneEach, Abstract!With

LEMMA OneEachReplaced ==
  ASSUME NEW D, OneEach(D), NEW f, NEW c
  PROVE  OneEach(Abstract!Replaced(D, f, c))
BY DEF OneEach, Abstract!With, Abstract!Replaced, Abstract!SameSlot

LEMMA OneEachStep ==
  ASSUME StoreInv, SingleValued, [Next]_vars
  PROVE  SingleValued'
<1> DEFINE one(entries) == OneEach(Data(entries, "EAVT"))
<1>1. Sound(stored) /\ Sound(editing)
  BY DEF StoreInv
<1>2. one(stored) /\ one(editing)
  BY DEF SingleValued, OneEach
<1>3. ASSUME one(stored'), one(editing') PROVE SingleValued'
  BY <1>3 DEF SingleValued, OneEach
<1> HIDE DEF one
<1>4. CASE Begin
  <2> DEFINE f == CommitFact(commits + 1)
             new == Put(stored, f, commits + 1)
  <2>1. Triple(f) /\ f[2] \notin Single
    BY FactsAreTriples, StoreAssumption DEF CommitFact
  <2>2. Data(new, "EAVT") = Abstract!With(Data(stored, "EAVT"), f, commits + 1)
    BY <1>1, <2>1, PutSound DEF Abstract!With, Datum
  <2>3. one(new)
    BY <1>2, <2>1, <2>2, OneEachWith DEF one
  <2> QED BY <1>2, <1>3, <1>4, <2>3 DEF Begin
<1>5. CASE Commit
  BY <1>2, <1>3, <1>5 DEF Commit
<1>6. CASE Throw
  BY <1>2, <1>3, <1>6 DEF Throw
<1>7. ASSUME NEW f \in Facts, Assert(f) PROVE SingleValued'
  <2>1. Triple(f) /\ f[2] \notin Single
    BY <1>7, FactsAreTriples DEF Assert
  <2>2. Data(Put(editing, f, commits), "EAVT") = Abstract!With(Data(editing, "EAVT"), f, commits)
    BY <1>1, <2>1, PutSound DEF Abstract!With, Datum
  <2>3. one(Put(editing, f, commits))
    BY <1>2, <2>1, <2>2, OneEachWith DEF one
  <2> QED BY <1>2, <1>3, <1>7, <2>3 DEF Assert, Edit
<1>8. ASSUME NEW f \in Facts, Retract(f) PROVE SingleValued'
  <2>1. \A g \in {f} : Triple(g)
    BY FactsAreTriples
  <2>2. Data(Delete(editing, {f}), "EAVT") \subseteq Data(editing, "EAVT")
    BY <1>1, <2>1, DeleteSound
  <2>3. one(Delete(editing, {f}))
    BY <1>2, <2>2 DEF one, OneEach
  <2> QED BY <1>2, <1>3, <1>8, <2>3 DEF Retract, Edit
<1>9. ASSUME NEW f \in Facts, Upsert(f) PROVE SingleValued'
  <2>1. Data(Put(Delete(editing, Slot(editing, f)), f, commits), "EAVT")
          = Abstract!Replaced(Data(editing, "EAVT"), f, commits)
    BY <1>1, UpsertSound
  <2>2. one(Put(Delete(editing, Slot(editing, f)), f, commits))
    BY <1>2, <2>1, OneEachReplaced DEF one
  <2> QED BY <1>2, <1>3, <1>9, <2>2 DEF Upsert, Edit
<1>10. CASE UNCHANGED vars
  BY <1>2, <1>3, <1>10 DEF vars
<1> QED BY <1>4, <1>5, <1>6, <1>7, <1>8, <1>9, <1>10 DEF Next

(* An attribute that clients only upsert never gets a second value. *)
THEOREM OneValue == Spec => []SingleValued
<1>1. Init => SingleValued
  <2>1. Init => Data(stored, "EAVT") = {} /\ Data(editing, "EAVT") = {}
    BY DEF Init, Data
  <2> QED BY <2>1 DEF SingleValued
<1>2. StoreInv /\ SingleValued /\ [Next]_vars => SingleValued'
  BY OneEachStep
<1> QED BY <1>1, <1>2, InitInv, StepInv, PTL DEF Spec

-----------------------------------------------------------------------------
(* Types: entries are data of the facts there are, and their causes are commits
   that have begun. *)
Entered(entries, n) ==
  /\ DOMAIN entries \subseteq AllKeys
  /\ \A k \in DOMAIN entries : entries[k].fact \in AllFacts /\ entries[k].cause \in 1 .. n

LEMMA PutEnters ==
  ASSUME NEW n \in Nat, NEW entries, Entered(entries, n), NEW f \in AllFacts, NEW c \in 1 .. n
  PROVE  Entered(Put(entries, f, c), n)
<1> DEFINE new == Put(entries, f, c)
<1>1. /\ DOMAIN new = DOMAIN entries \cup Keys(f)
      /\ \A k \in DOMAIN new : new[k] = IF k \in Keys(f) THEN Datum(f, c) ELSE entries[k]
  BY DEF Put
<1>2. Keys(f) \subseteq AllKeys
  BY DEF AllKeys
<1>3. Datum(f, c).fact = f /\ Datum(f, c).cause = c
  BY DEF Datum
<1> HIDE DEF new
<1> QED BY <1>1, <1>2, <1>3 DEF Entered, new

LEMMA DeleteEnters ==
  ASSUME NEW n, NEW entries, Entered(entries, n), NEW F
  PROVE  Entered(Delete(entries, F), n)
BY DEF Entered, Delete

(* A write has begun some transaction, whose number its edits may name. *)
Begun == writing => commits >= 1

LEMMA TypeStep == TypeOK /\ Begun /\ [Next]_vars => TypeOK'
<1> SUFFICES ASSUME TypeOK, Begun, [Next]_vars PROVE TypeOK'
  OBVIOUS
<1>1. /\ Entered(stored, commits) /\ Entered(editing, commits)
      /\ writing \in BOOLEAN /\ (~writing => editing = stored)
      /\ commits \in 0 .. MaxCommits /\ edits \in 0 .. MaxEdits
      /\ erased \subseteq 1 .. MaxCommits /\ erasing \subseteq 1 .. MaxCommits
  BY DEF TypeOK, Entered
<1>2. ASSUME Entered(stored', commits'), Entered(editing', commits'),
             writing' \in BOOLEAN, ~writing' => editing' = stored',
             commits' \in 0 .. MaxCommits, edits' \in 0 .. MaxEdits,
             erased' \subseteq 1 .. MaxCommits, erasing' \subseteq 1 .. MaxCommits
      PROVE  TypeOK'
  BY <1>2 DEF TypeOK, Entered, AllKeys, AllFacts, CommitFact, Keys, EAVT, AEVT, VAET, Facts
<1>3. MaxCommits \in Nat /\ MaxEdits \in Nat
  BY StoreAssumption
<1>4. CASE Begin
  <2> DEFINE c == commits + 1
  <2>1. c \in 1 .. MaxCommits /\ c \in 1 .. c /\ c \in Nat
    BY <1>1, <1>3, <1>4 DEF Begin
  <2>2. CommitFact(c) \in AllFacts
    BY <2>1 DEF AllFacts
  <2>3. \A b : b \in 1 .. commits => b \in 1 .. c
    BY <1>1
  <2>4. Entered(stored, c)
    BY <1>1, <2>3 DEF Entered
  <2> HIDE DEF c
  <2>5. Entered(Put(stored, CommitFact(c), c), c)
    BY <2>1, <2>2, <2>4, PutEnters
  <2>6. stored' = stored /\ editing' = Put(stored, CommitFact(c), c) /\ commits' = c
        /\ writing' = TRUE /\ edits' = 0 /\ erased' = erased /\ erasing' = erasing
    BY <1>4 DEF Begin, c
  <2>7. commits' \in 0 .. MaxCommits /\ edits' \in 0 .. MaxEdits
    BY <1>3, <2>1, <2>6
  <2> QED BY <1>1, <1>2, <2>4, <2>5, <2>6, <2>7
<1>5. CASE Commit
  BY <1>1, <1>2, <1>5 DEF Commit
<1>6. CASE Throw
  BY <1>1, <1>2, <1>6 DEF Throw
<1>7. ASSUME NEW f \in Facts, NEW entries, NEW missing, Edit(f, entries, missing),
             Entered(entries, commits), missing \subseteq 1 .. MaxCommits
      PROVE  TypeOK'
  <2>1. /\ stored' = stored /\ editing' = entries /\ commits' = commits /\ writing' = TRUE
        /\ edits' \in 0 .. MaxEdits /\ erased' = erased /\ erasing' = missing
    BY <1>1, <1>3, <1>7 DEF Edit
  <2> QED BY <1>1, <1>2, <1>7, <2>1
<1>8. ASSUME NEW f \in Facts, NEW entries, Entered(entries, commits),
             writing
      PROVE  Entered(Put(entries, f, commits), commits)
  <2>1. commits \in Nat /\ commits \in 1 .. commits /\ f \in AllFacts
    BY <1>1, <1>3, <1>8 DEF AllFacts, Begun
  <2> QED BY <1>8, <2>1, PutEnters
<1>13. ASSUME NEW f
       PROVE  /\ Erase(f) \subseteq 1 .. MaxCommits /\ Restore(f) \subseteq 1 .. MaxCommits
              /\ Displace(f) \subseteq 1 .. MaxCommits
  BY <1>1 DEF Erase, Restore, Displace
<1>9. ASSUME NEW f \in Facts, Assert(f) PROVE TypeOK'
  <2>1. Edit(f, Put(editing, f, commits), Restore(f)) /\ writing
    BY <1>9 DEF Assert, Edit
  <2> QED BY <1>1, <1>7, <1>8, <1>13, <2>1
<1>10. ASSUME NEW f \in Facts, Retract(f) PROVE TypeOK'
  BY <1>1, <1>7, <1>10, <1>13, DeleteEnters DEF Retract
<1>11. ASSUME NEW f \in Facts, Upsert(f) PROVE TypeOK'
  <2> DEFINE rest == Delete(editing, Slot(editing, f))
  <2>1. Edit(f, Put(rest, f, commits), Displace(f)) /\ writing
    BY <1>11 DEF Upsert, Edit
  <2>2. Entered(rest, commits)
    BY <1>1, DeleteEnters
  <2> HIDE DEF rest
  <2> QED BY <1>7, <1>8, <1>13, <2>1, <2>2
<1>12. CASE UNCHANGED vars
  BY <1>1, <1>2, <1>12 DEF vars
<1> QED BY <1>4, <1>5, <1>6, <1>9, <1>10, <1>11, <1>12 DEF Next

LEMMA TypeInit == Init => TypeOK /\ Begun
<1>1. Init => DOMAIN stored = {} /\ DOMAIN editing = {}
  BY DEF Init
<1>2. Init => commits \in 0 .. MaxCommits /\ edits \in 0 .. MaxEdits
  BY StoreAssumption DEF Init
<1> QED BY <1>1, <1>2 DEF Init, TypeOK, Begun

LEMMA BegunStep == TypeOK /\ Begun /\ [Next]_vars => Begun'
<1> SUFFICES ASSUME TypeOK, Begun, [Next]_vars PROVE Begun'
  OBVIOUS
<1>1. CASE Begin
  <2>1. commits \in Nat
    BY StoreAssumption DEF TypeOK
  <2> QED BY <1>1, <2>1 DEF Begin, Begun
<1>2. CASE Commit \/ Throw
  BY <1>2 DEF Begun, Commit, Throw
<1>3. ASSUME NEW f, NEW entries, NEW missing, Edit(f, entries, missing) PROVE Begun'
  BY <1>3 DEF Begun, Edit
<1>4. CASE UNCHANGED vars
  BY <1>4 DEF Begun, vars
<1> QED BY <1>1, <1>2, <1>3, <1>4 DEF Next, Assert, Retract, Upsert

(* The entries of the store and of a write, the one that threw included, are
   data of facts that clients or commits stated. *)
THEOREM TypeCorrect == Spec => []TypeOK
BY TypeInit, TypeStep, BegunStep, PTL DEF Spec

-----------------------------------------------------------------------------
(* Causes: whatever is stored names a commit that is recorded, or one that has
   been erased, in the write's view too; and the write under way has recorded
   the commit its edits will name.  No edit takes that record away, as none is
   about the commit it is part of. *)
IsRecorded(entries, c) == EAVT(CommitFact(c)) \in DOMAIN entries
Recorded(entries, missing) ==
  \A k \in DOMAIN entries :
    entries[k].cause \in missing \/ IsRecorded(entries, entries[k].cause)
CauseInv ==
  /\ TypeOK /\ Begun
  /\ Recorded(stored, erased) /\ Recorded(editing, erasing)
  /\ IF writing THEN IsRecorded(editing, commits) ELSE erasing = erased

LEMMA PutRecords ==
  ASSUME NEW entries, NEW missing, Recorded(entries, missing), NEW f, NEW c,
         IsRecorded(entries, c) \/ f = CommitFact(c)
  PROVE  /\ \A rest : (missing \subseteq rest \cup {b \in missing : f = CommitFact(b)})
                     => Recorded(Put(entries, f, c), rest)
         /\ IsRecorded(Put(entries, f, c), c)
         /\ \A b : IsRecorded(entries, b) => IsRecorded(Put(entries, f, c), b)
<1> DEFINE new == Put(entries, f, c)
<1>1. /\ DOMAIN new = DOMAIN entries \cup Keys(f)
      /\ \A k \in DOMAIN new : new[k] = IF k \in Keys(f) THEN Datum(f, c) ELSE entries[k]
  BY DEF Put
<1> HIDE DEF new
<1>2. \A b : IsRecorded(entries, b) => IsRecorded(new, b)
  BY <1>1 DEF IsRecorded
<1>3. \A b : f = CommitFact(b) => IsRecorded(new, b)
  BY <1>1 DEF IsRecorded, Keys
<1>4. IsRecorded(new, c)
  BY <1>2, <1>3
<1>5. ASSUME NEW rest, missing \subseteq rest \cup {b \in missing : f = CommitFact(b)},
             NEW k \in DOMAIN new
      PROVE  new[k].cause \in rest \/ IsRecorded(new, new[k].cause)
  <2>1. CASE k \in Keys(f)
    BY <1>1, <1>4, <2>1 DEF Datum
  <2>2. CASE k \notin Keys(f)
    <3>1. k \in DOMAIN entries /\ new[k] = entries[k]
      BY <1>1, <1>5, <2>2
    <3>2. entries[k].cause \in missing \/ IsRecorded(entries, entries[k].cause)
      BY <3>1 DEF Recorded
    <3>3. entries[k].cause \in missing =>
            entries[k].cause \in rest \/ f = CommitFact(entries[k].cause)
      BY <1>5
    <3> QED BY <1>2, <1>3, <3>1, <3>2, <3>3
  <2> QED BY <2>1, <2>2
<1>6. \A rest : (missing \subseteq rest \cup {b \in missing : f = CommitFact(b)})
               => Recorded(new, rest)
  BY <1>5 DEF Recorded
<1> QED BY <1>2, <1>4, <1>6 DEF new

LEMMA DeleteRecords ==
  ASSUME NEW entries, NEW missing, Recorded(entries, missing),
         NEW F, \A f \in F : Triple(f), NEW lost,
         \A k \in DOMAIN entries : CommitFact(entries[k].cause) \in F => entries[k].cause \in lost
  PROVE  /\ Recorded(Delete(entries, F), missing \cup lost)
         /\ \A b : IsRecorded(entries, b) /\ CommitFact(b) \notin F
                  => IsRecorded(Delete(entries, F), b)
<1> DEFINE gone == UNION {Keys(f) : f \in F}
           new == Delete(entries, F)
<1>1. /\ DOMAIN new = DOMAIN entries \ gone
      /\ \A k \in DOMAIN new : new[k] = entries[k]
  BY DEF Delete
<1>2. ASSUME NEW b, CommitFact(b) \notin F PROVE EAVT(CommitFact(b)) \notin gone
  <2>1. Triple(CommitFact(b))
    BY FactsAreTriples
  <2>2. ASSUME NEW f \in F PROVE EAVT(CommitFact(b)) \notin Keys(f)
    <3>1. Triple(f) /\ f # CommitFact(b)
      BY <1>2, <2>2
    <3>2. EAVT(CommitFact(b)) \in Keys(CommitFact(b))
      BY DEF Keys
    <3> QED BY <2>1, <3>1, <3>2, KeysDiffer
  <2> QED BY <2>2
<1> HIDE DEF gone, new
<1>3. \A b : IsRecorded(entries, b) /\ CommitFact(b) \notin F => IsRecorded(new, b)
  BY <1>1, <1>2 DEF IsRecorded
<1>4. Recorded(new, missing \cup lost)
  BY <1>1, <1>3 DEF Recorded
<1> QED BY <1>3, <1>4 DEF new

LEMMA CauseStep ==
  ASSUME StoreInv, CauseInv, [Next]_vars
  PROVE  CauseInv'
<1>1. /\ Sound(stored) /\ Sound(editing)
      /\ Recorded(stored, erased) /\ Recorded(editing, erasing)
      /\ TypeOK /\ Begun
  BY DEF StoreInv, CauseInv
<1>2. ASSUME Recorded(stored', erased'), Recorded(editing', erasing'),
             writing' => IsRecorded(editing', commits'), ~writing' => erasing' = erased'
      PROVE  CauseInv'
  <2>1. TypeOK' /\ Begun'
    BY <1>1, TypeStep, BegunStep
  <2> QED BY <1>2, <2>1 DEF CauseInv, Recorded, IsRecorded
<1>3. CASE Begin
  <2> DEFINE new == Put(stored, CommitFact(commits + 1), commits + 1)
  <2>1. erasing = erased
    BY <1>3 DEF CauseInv, TypeOK, Begin
  <2>2. Recorded(new, erasing) /\ IsRecorded(new, commits + 1)
    BY <1>1, <2>1, PutRecords
  <2>3. /\ stored' = stored /\ erased' = erased /\ editing' = new /\ erasing' = erasing
        /\ commits' = commits + 1 /\ writing' = TRUE
    BY <1>3 DEF Begin
  <2> HIDE DEF new
  <2> QED BY <1>1, <1>2, <2>2, <2>3
<1>4. CASE Commit
  BY <1>1, <1>2, <1>4 DEF Commit
<1>5. CASE Throw
  BY <1>1, <1>2, <1>5 DEF Throw
<1>6. ASSUME NEW f \in Facts, NEW entries, NEW missing, Edit(f, entries, missing),
             Recorded(entries, missing), IsRecorded(entries, commits)
      PROVE  CauseInv'
  BY <1>1, <1>2, <1>6 DEF Edit
<1>7. ASSUME NEW f \in Facts, NEW entries, NEW missing, Edit(f, entries, missing)
      PROVE  /\ IsRecorded(editing, commits) /\ commits \in 1 .. MaxCommits
             /\ f[1] # commits /\ Triple(f)
             /\ \A k \in DOMAIN editing : editing[k].cause \in 1 .. MaxCommits
  <2>1. writing /\ {f[1], f[3]} \cap commits .. MaxCommits = {}
    BY <1>7 DEF Edit
  <2>2. commits \in 1 .. MaxCommits
    BY <1>1, <2>1, StoreAssumption DEF TypeOK, Begun
  <2>3. commits \in commits .. MaxCommits
    BY <2>2, StoreAssumption
  <2>4. \A k \in DOMAIN editing : editing[k].cause \in 1 .. MaxCommits
    BY <1>1, <2>2, StoreAssumption DEF TypeOK
  <2> QED BY <2>1, <2>2, <2>3, <2>4, FactsAreTriples DEF CauseInv
<1>8. ASSUME NEW f \in Facts, Assert(f) PROVE CauseInv'
  <2>1. Edit(f, Put(editing, f, commits), Restore(f))
    BY <1>8 DEF Assert
  <2>2. IsRecorded(editing, commits) /\ erasing \subseteq 1 .. MaxCommits
    BY <1>1, <1>7, <2>1 DEF TypeOK
  <2>3. erasing \subseteq Restore(f) \cup {b \in erasing : f = CommitFact(b)}
    BY <2>2 DEF Restore
  <2>4. /\ \A rest : (erasing \subseteq rest \cup {b \in erasing : f = CommitFact(b)})
                    => Recorded(Put(editing, f, commits), rest)
        /\ IsRecorded(Put(editing, f, commits), commits)
    <3> HIDE DEF Recorded, IsRecorded
    <3>1. Recorded(editing, erasing) /\ IsRecorded(editing, commits)
      BY <1>1, <2>2
    <3> QED BY <3>1, PutRecords
  <2>5. Recorded(Put(editing, f, commits), Restore(f))
    BY <2>3, <2>4
  <2> QED BY <1>6, <2>1, <2>4, <2>5
<1>9. ASSUME NEW f \in Facts, Retract(f) PROVE CauseInv'
  <2> DEFINE lost == {c \in 1 .. MaxCommits : f = CommitFact(c)}
  <2>1. Edit(f, Delete(editing, {f}), Erase(f)) /\ Erase(f) = erasing \cup lost
    BY <1>9 DEF Retract, Erase
  <2>2. /\ IsRecorded(editing, commits) /\ f[1] # commits /\ Triple(f)
        /\ \A k \in DOMAIN editing : editing[k].cause \in 1 .. MaxCommits
    BY <1>7, <2>1
  <2>3. CommitFact(commits) \notin {f}
    BY <2>2 DEF CommitFact
  <2>4. \A k \in DOMAIN editing : CommitFact(editing[k].cause) \in {f} => editing[k].cause \in lost
    BY <2>2
  <2> HIDE DEF lost
  <2>5. \A g \in {f} : Triple(g)
    BY <2>2
  <2>6. /\ Recorded(Delete(editing, {f}), erasing \cup lost)
        /\ \A b : IsRecorded(editing, b) /\ CommitFact(b) \notin {f}
                 => IsRecorded(Delete(editing, {f}), b)
    BY <1>1, <2>4, <2>5, DeleteRecords
  <2>7. Recorded(Delete(editing, {f}), Erase(f)) /\ IsRecorded(Delete(editing, {f}), commits)
    BY <2>1, <2>2, <2>3, <2>6
  <2> QED BY <1>6, <2>1, <2>7
<1>10. ASSUME NEW f \in Facts, Upsert(f) PROVE CauseInv'
  <2> DEFINE rest == Delete(editing, Slot(editing, f))
             lost == {c \in 1 .. MaxCommits : f[1] = c /\ f[2] = "db/source"}
  <2>1. Edit(f, Put(rest, f, commits), Displace(f))
    BY <1>10 DEF Upsert
  <2>2. /\ IsRecorded(editing, commits) /\ f[1] # commits /\ Triple(f)
        /\ \A k \in DOMAIN editing : editing[k].cause \in 1 .. MaxCommits
    BY <1>7, <2>1
  <2>3. \A g \in Slot(editing, f) : Triple(g) /\ g[1] = f[1] /\ g[2] = f[2]
    BY <1>1, SlotHolds
  <2>4. \A b : CommitFact(b)[1] = b /\ CommitFact(b)[2] = "db/source"
    BY DEF CommitFact
  <2>5. CommitFact(commits) \notin Slot(editing, f)
    BY <2>2, <2>3, <2>4
  <2>6. \A k \in DOMAIN editing :
          CommitFact(editing[k].cause) \in Slot(editing, f) => editing[k].cause \in lost
    BY <2>2, <2>3, <2>4
  <2>7. Displace(f) = (erasing \cup lost) \ {c \in 1 .. MaxCommits : f = CommitFact(c)}
    BY DEF Displace
  <2>8. erasing \cup lost \subseteq 1 .. MaxCommits
    BY <1>1 DEF TypeOK
  <2> HIDE DEF lost
  <2>9. Recorded(rest, erasing \cup lost) /\ IsRecorded(rest, commits)
    BY <1>1, <2>2, <2>3, <2>5, <2>6, DeleteRecords
  <2>10. erasing \cup lost \subseteq Displace(f) \cup {b \in erasing \cup lost : f = CommitFact(b)}
    BY <2>7, <2>8
  <2> HIDE DEF rest
  <2>11. /\ Recorded(Put(rest, f, commits), Displace(f))
         /\ IsRecorded(Put(rest, f, commits), commits)
    BY <2>9, <2>10, PutRecords
  <2> QED BY <1>6, <2>1, <2>11
<1>11. CASE UNCHANGED vars
  BY <1>1, <1>2, <1>11 DEF vars, CauseInv
<1> QED BY <1>3, <1>4, <1>5, <1>8, <1>9, <1>10, <1>11 DEF Next

(* Whatever clients change, records of commits included, and wherever one of
   their transactions throws, a fact whose cause is not recorded is one whose
   cause they have erased. *)
THEOREM CausesKept == Spec => []CausesRecorded
<1>1. Init => CauseInv
  <2>1. Init => /\ DOMAIN stored = {} /\ DOMAIN editing = {}
                /\ writing = FALSE /\ erasing = erased
    BY DEF Init
  <2> QED BY <2>1, TypeInit DEF CauseInv, Recorded
<1>2. StoreInv /\ CauseInv /\ [Next]_vars => CauseInv'
  BY CauseStep
<1>3. CauseInv => CausesRecorded
  BY DEF CauseInv, CausesRecorded, Recorded, IsRecorded, Data
<1> QED BY <1>1, <1>2, <1>3, InitInv, StepInv, PTL DEF Spec

-----------------------------------------------------------------------------
(* Induction, by way of the least number that is not in a set. *)
LEMMA UpTo ==
  ASSUME NEW L \in Nat, NEW S, 0 \in S, \A n \in 1 .. L : n - 1 \in S => n \in S
  PROVE  L \in S
<1> DEFINE less == OpToRel(<, Nat)
           bad == (0 .. L) \ S
<1> SUFFICES ASSUME L \notin S PROVE FALSE
  OBVIOUS
<1>1. IsWellFoundedOn(less, Nat)
  BY NatLessThanWellFounded
<1>2. \A x, y \in Nat : y < x => <<y, x>> \in less
  BY Zenon DEF OpToRel
<1> HIDE DEF less
<1>3. PICK m \in bad : \A y \in bad : ~ (<<y, m>> \in less)
  <2>1. bad \subseteq Nat /\ bad # {}
    OBVIOUS
  <2> HIDE DEF bad
  <2> QED
    BY <1>1, <2>1, WFMin
<1>4. m \in 1 .. L /\ m - 1 \in 0 .. L /\ m - 1 \in Nat /\ m \in Nat /\ m - 1 < m
  OBVIOUS
<1>5. m - 1 \notin bad
  BY <1>2, <1>3, <1>4
<1> QED
  BY <1>4, <1>5

(* Each of the lists of results that the codec and a transaction go through is
   what its definition says: there is such a list, one longer than another. *)
LEMMA EncodeSteps ==
  ASSUME NEW t, Len(t) \in Nat
  PROVE  \E patch : /\ patch[0] = <<>> /\ patch[Len(t)] = EncodeTransaction(t)
                   /\ \A n \in 1 .. Len(t) : patch[n] = Mark(patch[n - 1], t[n])
<1> DEFINE next(x, n) == Mark(x, t[n])
           Is(g, m) == g = [n \in 0 .. m |-> IF n = 0 THEN <<>> ELSE next(g[n - 1], n)]
           S == {m \in 0 .. Len(t) : \E g : Is(g, m)}
<1>1. EncodeTransaction(t) = (CHOOSE g : Is(g, Len(t)))[Len(t)]
  BY DEF EncodeTransaction
<1> HIDE DEF next
<1>2. 0 \in S
  <2>1. Is([n \in 0 .. 0 |-> <<>>], 0)
    OBVIOUS
  <2> HIDE DEF Is
  <2> QED
    BY <2>1
<1>3. ASSUME NEW m \in 1 .. Len(t), m - 1 \in S PROVE m \in S
  <2>1. PICK g : Is(g, m - 1)
    BY <1>3
  <2> DEFINE h == [n \in 0 .. m |-> IF n = 0 THEN <<>> ELSE next(g[n - 1], n)]
  <2>2. \A n \in 0 .. m - 1 : h[n] = g[n]
    BY <2>1
  <2>3. \A n \in 0 .. m : n # 0 => n - 1 \in 0 .. m - 1
    OBVIOUS
  <2>4. Is(h, m)
    BY <2>2, <2>3
  <2> HIDE DEF Is, h
  <2> QED
    BY <2>4
<1>4. Len(t) \in S
  <2> HIDE DEF S
  <2> QED
    BY <1>2, <1>3, UpTo
<1> DEFINE all == CHOOSE g : Is(g, Len(t))
<1>5. Is(all, Len(t))
  BY <1>4
<1> HIDE DEF all
<1>6. all[0] = <<>> /\ \A n \in 1 .. Len(t) : all[n] = next(all[n - 1], n)
  BY <1>5
<1> QED
  BY <1>1, <1>6 DEF next, all

ReadsOff(read, patch, order) ==
  /\ read[0] = <<>> /\ read[Len(order)] = ReadOff(patch, order)
  /\ \A n \in 1 .. Len(order) : read[n] = read[n - 1] \o SlotOf(patch, order[n][1], order[n][2])

LEMMA ReadSteps ==
  ASSUME NEW patch, NEW order, Len(order) \in Nat
  PROVE  \E read : ReadsOff(read, patch, order)
<1> DEFINE next(x, n) == x \o SlotOf(patch, order[n][1], order[n][2])
           Is(g, m) == g = [n \in 0 .. m |-> IF n = 0 THEN <<>> ELSE next(g[n - 1], n)]
           S == {m \in 0 .. Len(order) : \E g : Is(g, m)}
<1>1. ReadOff(patch, order) = (CHOOSE g : Is(g, Len(order)))[Len(order)]
  BY DEF ReadOff
<1> HIDE DEF next
<1>2. 0 \in S
  <2>1. Is([n \in 0 .. 0 |-> <<>>], 0)
    OBVIOUS
  <2> HIDE DEF Is
  <2> QED
    BY <2>1
<1>3. ASSUME NEW m \in 1 .. Len(order), m - 1 \in S PROVE m \in S
  <2>1. PICK g : Is(g, m - 1)
    BY <1>3
  <2> DEFINE h == [n \in 0 .. m |-> IF n = 0 THEN <<>> ELSE next(g[n - 1], n)]
  <2>2. \A n \in 0 .. m - 1 : h[n] = g[n]
    BY <2>1
  <2>3. \A n \in 0 .. m : n # 0 => n - 1 \in 0 .. m - 1
    OBVIOUS
  <2>4. Is(h, m)
    BY <2>2, <2>3
  <2> HIDE DEF Is, h
  <2> QED
    BY <2>4
<1>4. Len(order) \in S
  <2> HIDE DEF S
  <2> QED
    BY <1>2, <1>3, UpTo
<1> DEFINE all == CHOOSE g : Is(g, Len(order))
<1>5. Is(all, Len(order))
  BY <1>4
<1> HIDE DEF all
<1>6. all[0] = <<>> /\ \A n \in 1 .. Len(order) : all[n] = next(all[n - 1], n)
  BY <1>5
<1> QED
  BY <1>1, <1>6 DEF next, all, ReadsOff

Performs(seen, entries, t, c) ==
  /\ seen[0] = entries /\ seen[Len(t)] = Perform(entries, t, c)
  /\ \A n \in 1 .. Len(t) : seen[n] = Instruct(seen[n - 1], t[n], c)

LEMMA PerformSteps ==
  ASSUME NEW entries, NEW t, NEW c, Len(t) \in Nat
  PROVE  \E seen : Performs(seen, entries, t, c)
<1> DEFINE next(x, n) == Instruct(x, t[n], c)
           Is(g, m) == g = [n \in 0 .. m |-> IF n = 0 THEN entries ELSE next(g[n - 1], n)]
           S == {m \in 0 .. Len(t) : \E g : Is(g, m)}
<1>1. Perform(entries, t, c) = (CHOOSE g : Is(g, Len(t)))[Len(t)]
  BY DEF Perform
<1> HIDE DEF next
<1>2. 0 \in S
  <2>1. Is([n \in 0 .. 0 |-> entries], 0)
    OBVIOUS
  <2> HIDE DEF Is
  <2> QED
    BY <2>1
<1>3. ASSUME NEW m \in 1 .. Len(t), m - 1 \in S PROVE m \in S
  <2>1. PICK g : Is(g, m - 1)
    BY <1>3
  <2> DEFINE h == [n \in 0 .. m |-> IF n = 0 THEN entries ELSE next(g[n - 1], n)]
  <2>2. \A n \in 0 .. m - 1 : h[n] = g[n]
    BY <2>1
  <2>3. \A n \in 0 .. m : n # 0 => n - 1 \in 0 .. m - 1
    OBVIOUS
  <2>4. Is(h, m)
    BY <2>2, <2>3
  <2> HIDE DEF Is, h
  <2> QED
    BY <2>4
<1>4. Len(t) \in S
  <2> HIDE DEF S
  <2> QED
    BY <1>2, <1>3, UpTo
<1> DEFINE all == CHOOSE g : Is(g, Len(t))
<1>5. Is(all, Len(t))
  BY <1>4
<1> HIDE DEF all
<1>6. all[0] = entries /\ \A n \in 1 .. Len(t) : all[n] = next(all[n - 1], n)
  BY <1>5
<1> QED
  BY <1>1, <1>6 DEF next, all, Performs

KeepTruthy(list, i) == IF i.fact[3] \in Falsy THEN list ELSE Append(list, i)

LEMMA TruthySteps ==
  ASSUME NEW t, Len(t) \in Nat
  PROVE  \E truthy : /\ truthy[0] = <<>> /\ truthy[Len(t)] = Truthy(t)
                    /\ \A n \in 1 .. Len(t) : truthy[n] = KeepTruthy(truthy[n - 1], t[n])
<1> DEFINE next(x, n) == KeepTruthy(x, t[n])
           Is(g, m) == g = [n \in 0 .. m |-> IF n = 0 THEN <<>> ELSE next(g[n - 1], n)]
           S == {m \in 0 .. Len(t) : \E g : Is(g, m)}
<1>1. Truthy(t) = (CHOOSE g : Is(g, Len(t)))[Len(t)]
  BY DEF Truthy, KeepTruthy
<1> HIDE DEF next
<1>2. 0 \in S
  <2>1. Is([n \in 0 .. 0 |-> <<>>], 0)
    OBVIOUS
  <2> HIDE DEF Is
  <2> QED
    BY <2>1
<1>3. ASSUME NEW m \in 1 .. Len(t), m - 1 \in S PROVE m \in S
  <2>1. PICK g : Is(g, m - 1)
    BY <1>3
  <2> DEFINE h == [n \in 0 .. m |-> IF n = 0 THEN <<>> ELSE next(g[n - 1], n)]
  <2>2. \A n \in 0 .. m - 1 : h[n] = g[n]
    BY <2>1
  <2>3. \A n \in 0 .. m : n # 0 => n - 1 \in 0 .. m - 1
    OBVIOUS
  <2>4. Is(h, m)
    BY <2>2, <2>3
  <2> HIDE DEF Is, h
  <2> QED
    BY <2>4
<1>4. Len(t) \in S
  <2> HIDE DEF S
  <2> QED
    BY <1>2, <1>3, UpTo
<1> DEFINE all == CHOOSE g : Is(g, Len(t))
<1>5. Is(all, Len(t))
  BY <1>4
<1> HIDE DEF all
<1>6. all[0] = <<>> /\ \A n \in 1 .. Len(t) : all[n] = next(all[n - 1], n)
  BY <1>5
<1> QED
  BY <1>1, <1>6 DEF next, all

(* What a transaction makes of a fact is what the last instruction makes of it
   that touches the fact: an upsert touches all facts of its slot. *)
Clear == {i \in Instructions : i.fact[3] \notin Falsy}
Touches(i, f) == i.fact[1] = f[1] /\ i.fact[2] = f[2] /\ (i.fact = f \/ i.kind = "Upsert")
Leaves(i, f) == i.fact = f /\ i.kind # "Retract"

Outcome(t, m, old, c, d) ==
  \/ d \in old /\ \A n \in 1 .. m : ~Touches(t[n], d.fact)
  \/ \E n \in 1 .. m : /\ Touches(t[n], d.fact) /\ \A k \in n + 1 .. m : ~Touches(t[k], d.fact)
                       /\ Leaves(t[n], d.fact) /\ d = Datum(d.fact, c)

IsFunction(entries) == entries = [k \in DOMAIN entries |-> entries[k]]

LEMMA InstructTouches ==
  ASSUME NEW entries, Sound(entries), NEW i \in Clear, NEW c
  PROVE  /\ Sound(Instruct(entries, i, c)) /\ IsFunction(Instruct(entries, i, c))
         /\ \A d : d \in Data(Instruct(entries, i, c), "EAVT") <=>
              IF Touches(i, d.fact) THEN Leaves(i, d.fact) /\ d = Datum(d.fact, c)
              ELSE d \in Data(entries, "EAVT")
<1> DEFINE f == i.fact
           old == Data(entries, "EAVT")
           new == Instruct(entries, i, c)
<1>1. f \in Facts /\ Triple(f) /\ i.kind \in Kinds
  BY FactsAreTriples DEF Clear, Instructions
<1>2. \A d : d = Datum(f, c) <=> d = Datum(d.fact, c) /\ d.fact = f
  BY DEF Datum
<1>3. CASE i.kind = "Assert"
  <2>1. new = Put(entries, f, c)
    BY <1>3 DEF Instruct
  <2>2. Sound(new) /\ Data(new, "EAVT") = {d \in old : d.fact # f} \cup {Datum(f, c)}
    BY <1>1, <2>1, PutSound
  <2>3. IsFunction(new)
    BY <2>1 DEF Put, IsFunction
  <2>4. \A d : (Touches(i, d.fact) <=> d.fact = f) /\ (Leaves(i, d.fact) <=> d.fact = f)
    BY <1>3 DEF Touches, Leaves
  <2> QED
    BY <1>2, <2>2, <2>3, <2>4
<1>4. CASE i.kind = "Retract"
  <2>1. new = Delete(entries, {f})
    BY <1>4 DEF Instruct
  <2>2. Sound(new) /\ Data(new, "EAVT") = {d \in old : d.fact \notin {f}}
    BY <1>1, <2>1, DeleteSound
  <2>3. IsFunction(new)
    BY <2>1 DEF Delete, IsFunction
  <2>4. \A d : (Touches(i, d.fact) <=> d.fact = f) /\ ~Leaves(i, d.fact)
    BY <1>4 DEF Touches, Leaves
  <2> QED
    BY <2>2, <2>3, <2>4
<1>5. CASE i.kind = "Upsert"
  <2>1. new = Put(Delete(entries, Slot(entries, f)), f, c)
    BY <1>5 DEF Instruct
  <2>2. Sound(new) /\ Data(new, "EAVT") = Abstract!Replaced(old, f, c)
    BY <1>1, <2>1, UpsertSound
  <2>3. IsFunction(new)
    BY <2>1 DEF Put, IsFunction
  <2>4. \A d : (Touches(i, d.fact) <=> d.fact[1] = f[1] /\ d.fact[2] = f[2])
               /\ (Leaves(i, d.fact) <=> d.fact = f)
    BY <1>5 DEF Touches, Leaves
  <2>5. \A d : d \in Data(new, "EAVT") <=>
                 d = Datum(f, c) \/ (d \in old /\ ~(d.fact[1] = f[1] /\ d.fact[2] = f[2]))
    BY <2>2 DEF Abstract!Replaced, Abstract!With, Abstract!SameSlot, Datum
  <2> QED
    BY <1>2, <2>2, <2>3, <2>4, <2>5
<1> QED
  BY <1>1, <1>3, <1>4, <1>5 DEF Kinds

LEMMA PerformTouches ==
  ASSUME NEW entries, Sound(entries), IsFunction(entries), NEW t \in Seq(Clear), NEW c
  PROVE  /\ Sound(Perform(entries, t, c)) /\ IsFunction(Perform(entries, t, c))
         /\ \A d : d \in Data(Perform(entries, t, c), "EAVT") <=>
                     Outcome(t, Len(t), Data(entries, "EAVT"), c, d)
<1> DEFINE old == Data(entries, "EAVT")
<1>1. Len(t) \in Nat /\ \A n \in 1 .. Len(t) : t[n] \in Clear
  OBVIOUS
<1>0. PICK seen : Performs(seen, entries, t, c)
  BY <1>1, PerformSteps
<1>2. /\ seen[0] = entries /\ seen[Len(t)] = Perform(entries, t, c)
      /\ \A n \in 1 .. Len(t) : seen[n] = Instruct(seen[n - 1], t[n], c)
  BY <1>0 DEF Performs
<1> DEFINE good(n) == /\ Sound(seen[n]) /\ IsFunction(seen[n])
                      /\ \A d : d \in Data(seen[n], "EAVT") <=> Outcome(t, n, old, c, d)
           S == {n \in 0 .. Len(t) : good(n)}
<1>3. 0 \in S
  <2>1. \A d : Outcome(t, 0, old, c, d) <=> d \in old
    BY DEF Outcome
  <2> QED
    BY <1>1, <1>2, <2>1
<1>4. ASSUME NEW n \in 1 .. Len(t), n - 1 \in S PROVE n \in S
  <2>1. good(n - 1)
    BY <1>4
  <2>2. seen[n] = Instruct(seen[n - 1], t[n], c) /\ t[n] \in Clear
    BY <1>1, <1>2
  <2>3. /\ Sound(seen[n]) /\ IsFunction(seen[n])
        /\ \A d : d \in Data(seen[n], "EAVT") <=>
             IF Touches(t[n], d.fact) THEN Leaves(t[n], d.fact) /\ d = Datum(d.fact, c)
             ELSE d \in Data(seen[n - 1], "EAVT")
    BY <2>1, <2>2, InstructTouches
  <2>4. ASSUME NEW d
        PROVE  Outcome(t, n, old, c, d) <=>
                 IF Touches(t[n], d.fact) THEN Leaves(t[n], d.fact) /\ d = Datum(d.fact, c)
                 ELSE Outcome(t, n - 1, old, c, d)
    <3>1. \A k : k \in 1 .. n <=> k \in 1 .. n - 1 \/ k = n
      OBVIOUS
    <3>2. \A m \in 1 .. n - 1 : \A k : k \in m + 1 .. n <=> k \in m + 1 .. n - 1 \/ k = n
      OBVIOUS
    <3>3. n + 1 .. n = {}
      OBVIOUS
    <3> QED
      BY <3>1, <3>2, <3>3 DEF Outcome
  <2> QED
    BY <2>1, <2>3, <2>4
<1>5. Len(t) \in S
  <2> HIDE DEF S
  <2> QED
    BY <1>1, <1>3, <1>4, UpTo
<1> QED
  BY <1>2, <1>5

(* Entries are determined by their data. *)
LEMMA SameData ==
  ASSUME NEW a, NEW b, Sound(a), Sound(b), IsFunction(a), IsFunction(b),
         Data(a, "EAVT") = Data(b, "EAVT")
  PROVE  a = b
<1>1. ASSUME NEW x, NEW y, Sound(x), Sound(y), Data(x, "EAVT") = Data(y, "EAVT"), NEW k \in DOMAIN x
      PROVE  k \in DOMAIN y /\ y[k] = x[k]
  <2> DEFINE d == x[k]
  <2>1. k \in Keys(d.fact) /\ EAVT(d.fact) \in DOMAIN x /\ x[EAVT(d.fact)] = d
    BY <1>1 DEF Sound, Agree, Keys
  <2>2. d \in Data(y, "EAVT")
    BY <1>1, <2>1, DataOf
  <2>3. EAVT(d.fact) \in DOMAIN y /\ y[EAVT(d.fact)] = d
    BY <1>1, <2>2, DataOf
  <2> QED
    BY <1>1, <2>1, <2>3 DEF Sound, Agree
<1>2. DOMAIN a = DOMAIN b /\ \A k \in DOMAIN a : a[k] = b[k]
  BY <1>1
<1> QED
  BY <1>2 DEF IsFunction

LEMMA LastOf ==
  ASSUME NEW L \in Nat, NEW T, T # {}, T \subseteq 1 .. L
  PROVE  \E m \in T : \A k \in m + 1 .. L : k \notin T
<1> DEFINE S == {n \in 0 .. L : T \cap (1 .. n) # {} =>
                                \E m \in T : m <= n /\ \A k \in m + 1 .. n : k \notin T}
<1>1. 0 \in S
  <2>1. 1 .. 0 = {}
    OBVIOUS
  <2> QED
    BY <2>1
<1>2. ASSUME NEW n \in 1 .. L, n - 1 \in S PROVE n \in S
  <2>1. CASE n \in T
    BY <2>1
  <2>2. CASE n \notin T
    <3>1. \A k : k \in 1 .. n <=> k \in 1 .. n - 1 \/ k = n
      OBVIOUS
    <3> QED
      BY <1>2, <2>2, <3>1
  <2> QED
    BY <2>1, <2>2
<1>3. L \in S
  <2> HIDE DEF S
  <2> QED
    BY <1>1, <1>2, UpTo
<1> QED
  BY <1>3

(* The instructions of a list. *)
Among(i, list) == \E n \in 1 .. Len(list) : list[n] = i

(* Two lists of the same instructions, in both of which no two of them are mixed
   up by a patch, do the same: an instruction that comes last in one and not in
   the other would be kept apart from the other both ways round. *)
LEMMA SameOutcome ==
  ASSUME NEW u \in Seq(Clear), NEW v \in Seq(Clear), Loggable(u), Loggable(v),
         NEW old, NEW c, NEW d,
         \A i : Among(i, u) <=> Among(i, v),
         Outcome(u, Len(u), old, c, d)
  PROVE  Outcome(v, Len(v), old, c, d)
<1> DEFINE f == d.fact
<1>1. /\ Len(u) \in Nat /\ DOMAIN u = 1 .. Len(u) /\ \A n \in 1 .. Len(u) : u[n] \in Clear
      /\ Len(v) \in Nat /\ DOMAIN v = 1 .. Len(v) /\ \A n \in 1 .. Len(v) : v[n] \in Clear
  OBVIOUS
<1>2. CASE d \in old /\ \A n \in 1 .. Len(u) : ~Touches(u[n], f)
  <2>1. ASSUME NEW m \in 1 .. Len(v) PROVE \E n \in 1 .. Len(u) : u[n] = v[m]
    BY DEF Among
  <2>2. \A m \in 1 .. Len(v) : ~Touches(v[m], f)
    BY <1>2, <2>1
  <2> QED
    BY <1>2, <2>2 DEF Outcome
<1>3. ASSUME NEW n \in 1 .. Len(u), Touches(u[n], f), \A k \in n + 1 .. Len(u) : ~Touches(u[k], f),
             Leaves(u[n], f), d = Datum(f, c)
      PROVE  Outcome(v, Len(v), old, c, d)
  <2> DEFINE T == {m \in 1 .. Len(v) : Touches(v[m], f)}
  <2>1. PICK first \in 1 .. Len(v) : v[first] = u[n]
    BY DEF Among
  <2>2. PICK m \in T : \A k \in m + 1 .. Len(v) : ~Touches(v[k], f)
    <3>1. T # {} /\ T \subseteq 1 .. Len(v)
      BY <1>3, <2>1
    <3> HIDE DEF T
    <3>2. PICK m \in T : \A k \in m + 1 .. Len(v) : k \notin T
      BY <1>1, <3>1, LastOf
    <3> QED
      BY <3>2 DEF T
  <2>3. PICK n2 \in 1 .. Len(u) : u[n2] = v[m]
    BY DEF Among
  <2>4. v[m] = u[n]
    <3> SUFFICES ASSUME v[m] # u[n] PROVE FALSE
      OBVIOUS
    <3>1. n2 < n
      BY <1>3, <2>2, <2>3
    <3>2. first < m
      BY <1>3, <2>1, <2>2
    <3>3. KeptApart(v[m], u[n])
      BY <1>1, <2>3, <3>1 DEF Loggable
    <3>4. KeptApart(u[n], v[m])
      BY <1>1, <2>1, <2>2, <3>2 DEF Loggable
    <3>5. Touches(u[n], f) /\ Touches(v[m], f)
      BY <1>3, <2>2
    <3>6. /\ v[m].fact[1] = u[n].fact[1] /\ v[m].fact[2] = u[n].fact[2]
          /\ v[m].fact = u[n].fact \/ v[m].kind = "Upsert" \/ u[n].kind = "Upsert"
      BY <3>5 DEF Touches
    <3>7. {v[m].kind, u[n].kind} = {"Assert", "Retract"}
      BY <3>3, <3>4, <3>6 DEF KeptApart
    <3>8. v[m].kind # "Upsert" /\ u[n].kind # "Upsert" /\ v[m].kind # u[n].kind
      <4>1. v[m].kind \in {"Assert", "Retract"} /\ u[n].kind \in {"Assert", "Retract"}
        BY <3>7
      <4>2. "Assert" \in {v[m].kind, u[n].kind} /\ "Retract" \in {v[m].kind, u[n].kind}
        BY <3>7
      <4> QED
        BY <4>1, <4>2
    <3> QED
      BY <3>3, <3>4, <3>6, <3>8 DEF KeptApart
  <2> QED
    BY <1>3, <2>2, <2>4 DEF Outcome
<1> QED
  BY <1>2, <1>3 DEF Outcome

-----------------------------------------------------------------------------
(* A patch has the value of every instruction in its place, because
   instructions that share one are equal. *)
LEMMA PatchHolds ==
  ASSUME NEW t \in Seq(Instructions), Loggable(t)
  PROVE  /\ DOMAIN EncodeTransaction(t) = {Place(t[n]) : n \in 1 .. Len(t)}
         /\ \A n \in 1 .. Len(t) : EncodeTransaction(t)[Place(t[n])] = t[n].fact[3]
<1>1. Len(t) \in Nat /\ DOMAIN t = 1 .. Len(t) /\ \A n \in 1 .. Len(t) : t[n] \in Instructions
  OBVIOUS
<1>2. PICK patch : /\ patch[0] = <<>> /\ patch[Len(t)] = EncodeTransaction(t)
                   /\ \A n \in 1 .. Len(t) : patch[n] = Mark(patch[n - 1], t[n])
  BY <1>1, EncodeSteps
<1> DEFINE good(m) == /\ DOMAIN patch[m] = {Place(t[n]) : n \in 1 .. m}
                      /\ \A n \in 1 .. m : patch[m][Place(t[n])] = t[n].fact[3]
           S == {m \in 0 .. Len(t) : good(m)}
<1>3. 0 \in S
  <2>1. DOMAIN patch[0] = {} /\ 1 .. 0 = {}
    BY <1>2
  <2> QED
    BY <1>1, <2>1
<1>4. ASSUME NEW m \in 1 .. Len(t), m - 1 \in S PROVE m \in S
  <2>1. good(m - 1) /\ patch[m] = Mark(patch[m - 1], t[m])
    BY <1>2, <1>4
  <2>2. /\ DOMAIN patch[m] = DOMAIN patch[m - 1] \cup {Place(t[m])}
        /\ \A p \in DOMAIN patch[m] :
             patch[m][p] = IF p = Place(t[m]) THEN t[m].fact[3] ELSE patch[m - 1][p]
    BY <2>1 DEF Mark
  <2>3. \A n : n \in 1 .. m <=> n \in 1 .. m - 1 \/ n = m
    OBVIOUS
  <2>4. ASSUME NEW n \in 1 .. m - 1, Place(t[n]) = Place(t[m])
        PROVE  t[n] = t[m]
    <3>1. KeptApart(t[n], t[m])
      BY <1>1 DEF Loggable
    <3>2. t[n].fact[1] = t[m].fact[1] /\ t[n].fact[2] = t[m].fact[2] /\ t[n].kind = t[m].kind
      BY <2>4 DEF Place
    <3>3. ASSUME {t[n].kind, t[m].kind} = {"Assert", "Retract"} PROVE FALSE
      <4>1. "Assert" \in {t[n].kind, t[m].kind} /\ "Retract" \in {t[n].kind, t[m].kind}
        BY <3>3
      <4> QED
        BY <3>2, <4>1
    <3> QED
      BY <3>1, <3>2, <3>3 DEF KeptApart
  <2>5. DOMAIN patch[m] = {Place(t[n]) : n \in 1 .. m}
    BY <2>1, <2>2, <2>3
  <2>6. ASSUME NEW n \in 1 .. m PROVE patch[m][Place(t[n])] = t[n].fact[3]
    <3>1. Place(t[n]) \in DOMAIN patch[m]
      BY <2>5
    <3>2. CASE Place(t[n]) = Place(t[m])
      BY <2>2, <2>3, <2>4, <3>1, <3>2
    <3>3. CASE Place(t[n]) # Place(t[m])
      BY <2>1, <2>2, <2>3, <3>1, <3>3
    <3> QED
      BY <3>2, <3>3
  <2> QED
    BY <2>5, <2>6
<1>5. Len(t) \in S
  <2> HIDE DEF S
  <2> QED
    BY <1>1, <1>3, <1>4, UpTo
<1> QED
  BY <1>2, <1>5

(* The instructions that can be read off a patch, those of one slot, and what
   SlotOf makes of them. *)
Held(patch, i) ==
  /\ i \in Clear
  /\ Place(i) \in DOMAIN patch /\ patch[Place(i)] = i.fact[3]

IsPatch(patch) ==
  \A p \in DOMAIN patch : p \in Entities \X Attributes \X Kinds /\ patch[p] \in Values

(* One list after another. *)
LEMMA Join ==
  ASSUME NEW x \in Seq(Clear), NEW y \in Seq(Clear), Loggable(x), Loggable(y),
         \A i, j : Among(i, x) /\ Among(j, y) => KeptApart(i, j)
  PROVE  /\ x \o y \in Seq(Clear) /\ Loggable(x \o y)
         /\ \A i : Among(i, x \o y) <=> Among(i, x) \/ Among(i, y)
<1> DEFINE s == x \o y
<1>1. /\ Len(x) \in Nat /\ DOMAIN x = 1 .. Len(x) /\ Len(y) \in Nat /\ DOMAIN y = 1 .. Len(y)
      /\ s \in Seq(Clear) /\ Len(s) = Len(x) + Len(y) /\ DOMAIN s = 1 .. Len(s)
      /\ \A n \in 1 .. Len(x) : s[n] = x[n]
      /\ \A n \in Len(x) + 1 .. Len(s) : s[n] = y[n - Len(x)]
  OBVIOUS
<1> HIDE DEF s
<1>2. /\ \A n \in 1 .. Len(s) :
            n \in 1 .. Len(x) \/ (n \in Len(x) + 1 .. Len(s) /\ n - Len(x) \in 1 .. Len(y))
      /\ \A n \in 1 .. Len(x) : n \in 1 .. Len(s)
      /\ \A n \in 1 .. Len(y) : n + Len(x) \in Len(x) + 1 .. Len(s) /\ (n + Len(x)) - Len(x) = n
                                /\ n + Len(x) \in 1 .. Len(s)
  BY <1>1
<1>3. \A i : Among(i, s) <=> Among(i, x) \/ Among(i, y)
  <2>1. ASSUME NEW i, Among(i, s) PROVE Among(i, x) \/ Among(i, y)
    BY <1>1, <1>2, <2>1 DEF Among
  <2>2. ASSUME NEW i, Among(i, x) PROVE Among(i, s)
    BY <1>1, <1>2, <2>2 DEF Among
  <2>3. ASSUME NEW i, Among(i, y) PROVE Among(i, s)
    <3>1. PICK n \in 1 .. Len(y) : y[n] = i
      BY <2>3 DEF Among
    <3>2. n + Len(x) \in 1 .. Len(s) /\ s[n + Len(x)] = y[n]
      BY <1>1, <1>2
    <3> QED
      BY <3>1, <3>2 DEF Among
  <2> QED
    BY <2>1, <2>2, <2>3
<1>4. ASSUME NEW n \in 1 .. Len(s), NEW m \in 1 .. Len(s), n < m
      PROVE  KeptApart(s[n], s[m])
  <2>1. CASE m \in 1 .. Len(x)
    <3>1. n \in 1 .. Len(x)
      BY <1>1, <1>4, <2>1
    <3> QED
      BY <1>1, <1>4, <2>1, <3>1 DEF Loggable
  <2>2. CASE n \in Len(x) + 1 .. Len(s)
    <3>1. n - Len(x) \in 1 .. Len(y) /\ m - Len(x) \in 1 .. Len(y) /\ n - Len(x) < m - Len(x)
          /\ m \in Len(x) + 1 .. Len(s)
      BY <1>1, <1>4, <2>2
    <3> QED
      BY <1>1, <2>2, <3>1 DEF Loggable
  <2>3. CASE n \in 1 .. Len(x) /\ m \in Len(x) + 1 .. Len(s)
    <3>1. s[n] = x[n] /\ s[m] = y[m - Len(x)] /\ m - Len(x) \in 1 .. Len(y)
      BY <1>1, <1>2, <2>3
    <3>2. Among(s[n], x) /\ Among(s[m], y)
      BY <1>1, <2>3, <3>1 DEF Among
    <3> QED
      BY <3>2
  <2> QED
    BY <1>1, <1>2, <1>4, <2>1, <2>2, <2>3
<1> QED
  BY <1>1, <1>3, <1>4 DEF Loggable, s

LEMMA OneInstruction ==
  ASSUME NEW i \in Clear
  PROVE  <<i>> \in Seq(Clear) /\ Loggable(<<i>>) /\ \A j : Among(j, <<i>>) <=> j = i
<1>1. <<i>> \in Seq(Clear) /\ Len(<<i>>) = 1 /\ DOMAIN <<i>> = 1 .. 1 /\ <<i>>[1] = i
  OBVIOUS
<1>2. \A n, m \in 1 .. 1 : ~(n < m)
  OBVIOUS
<1> QED
  BY <1>1, <1>2 DEF Loggable, Among

LEMMA NoInstruction ==
  <<>> \in Seq(Clear) /\ Loggable(<<>>) /\ \A j : ~Among(j, <<>>)
<1>1. <<>> \in Seq(Clear) /\ Len(<<>>) = 0 /\ DOMAIN <<>> = {} /\ 1 .. 0 = {}
  OBVIOUS
<1> QED
  BY <1>1 DEF Loggable, Among

LEMMA SlotReads ==
  ASSUME NEW patch, IsPatch(patch), NEW e \in Entities, NEW a \in Attributes
  PROVE  LET s == SlotOf(patch, e, a)
         IN  /\ s \in Seq(Clear) /\ Loggable(s)
             /\ \A i : Among(i, s) <=> Held(patch, i) /\ i.fact[1] = e /\ i.fact[2] = a
<1> DEFINE instr(kind) == [kind |-> kind, fact |-> <<e, a, patch[<<e, a, kind>>]>>]
           there(kind) == <<e, a, kind>> \in DOMAIN patch /\ patch[<<e, a, kind>>] \notin Falsy
           read(kind) == IF there(kind) THEN <<instr(kind)>> ELSE <<>>
           s == SlotOf(patch, e, a)
           first == read("Assert") \o read("Retract")
<1>1. s = first \o read("Upsert")
  BY DEF SlotOf
<1>2. ASSUME NEW kind \in Kinds, there(kind)
      PROVE  Held(patch, instr(kind)) /\ instr(kind).fact[1] = e /\ instr(kind).fact[2] = a
  BY <1>2 DEF Held, Clear, Instructions, Facts, Place, IsPatch
<1>3. ASSUME NEW i, Held(patch, i), i.fact[1] = e, i.fact[2] = a
      PROVE  i.kind \in Kinds /\ there(i.kind) /\ i = instr(i.kind)
  BY <1>3 DEF Held, Clear, Instructions, Facts, Place
<1>4. \A kind \in Kinds : instr(kind).kind = kind
  OBVIOUS
<1> HIDE DEF instr, there
<1>5. "Assert" \in Kinds /\ "Retract" \in Kinds /\ "Upsert" \in Kinds
      /\ \A kind \in Kinds : kind = "Assert" \/ kind = "Retract" \/ kind = "Upsert"
  BY DEF Kinds
<1>6. ASSUME NEW kind \in Kinds
      PROVE  /\ read(kind) \in Seq(Clear) /\ Loggable(read(kind))
             /\ \A i : Among(i, read(kind)) <=> there(kind) /\ i = instr(kind)
  <2>1. CASE there(kind)
    <3>1. instr(kind) \in Clear
      BY <1>2, <2>1 DEF Held
    <3> QED
      BY <2>1, <3>1, OneInstruction
  <2>2. CASE ~there(kind)
    BY <2>2, NoInstruction
  <2> QED
    BY <2>1, <2>2
<1> HIDE DEF read
<1>7. /\ first \in Seq(Clear) /\ Loggable(first)
      /\ \A i : Among(i, first) <=> Among(i, read("Assert")) \/ Among(i, read("Retract"))
  <2>1. \A i, j : Among(i, read("Assert")) /\ Among(j, read("Retract")) => KeptApart(i, j)
    BY <1>4, <1>5, <1>6 DEF KeptApart
  <2> QED
    BY <1>5, <1>6, <2>1, Join
<1> HIDE DEF first
<1>8. /\ s \in Seq(Clear) /\ Loggable(s)
      /\ \A i : Among(i, s) <=> Among(i, first) \/ Among(i, read("Upsert"))
  <2>1. \A i, j : Among(i, first) /\ Among(j, read("Upsert")) => KeptApart(i, j)
    BY <1>4, <1>5, <1>6, <1>7 DEF KeptApart
  <2> QED
    BY <1>1, <1>5, <1>6, <1>7, <2>1, Join
<1> HIDE DEF s
<1>9. ASSUME NEW i, Among(i, s) PROVE Held(patch, i) /\ i.fact[1] = e /\ i.fact[2] = a
  BY <1>2, <1>5, <1>6, <1>7, <1>8, <1>9
<1>10. ASSUME NEW i, Held(patch, i), i.fact[1] = e, i.fact[2] = a PROVE Among(i, s)
  BY <1>3, <1>5, <1>6, <1>7, <1>8, <1>10
<1> QED
  BY <1>8, <1>9, <1>10 DEF s

(* Whatever the order of the slots, what is read off a patch is every
   instruction that it holds, and no two of them are mixed up by a patch. *)
IsOrder(order, patch) ==
  /\ \A n \in 1 .. Len(order) : order[n] \in {<<p[1], p[2]>> : p \in DOMAIN patch}
  /\ \A n, m \in 1 .. Len(order) : n # m => order[n] # order[m]
  /\ \A p \in DOMAIN patch : \E n \in 1 .. Len(order) : order[n] = <<p[1], p[2]>>

LEMMA ReadsHeld ==
  ASSUME NEW patch, IsPatch(patch), NEW order, Len(order) \in Nat, IsOrder(order, patch)
  PROVE  /\ ReadOff(patch, order) \in Seq(Clear) /\ Loggable(ReadOff(patch, order))
         /\ \A i : Among(i, ReadOff(patch, order)) <=> Held(patch, i)
<1>0. PICK read : ReadsOff(read, patch, order)
  BY ReadSteps
<1>1. /\ read[0] = <<>> /\ read[Len(order)] = ReadOff(patch, order)
      /\ \A n \in 1 .. Len(order) : read[n] = read[n - 1] \o SlotOf(patch, order[n][1], order[n][2])
  BY <1>0 DEF ReadsOff
<1> DEFINE In(i, n) == order[n][1] = i.fact[1] /\ order[n][2] = i.fact[2]
           good(m) == /\ read[m] \in Seq(Clear) /\ Loggable(read[m])
                      /\ \A i : Among(i, read[m]) <=> Held(patch, i) /\ \E n \in 1 .. m : In(i, n)
           S == {m \in 0 .. Len(order) : good(m)}
<1>2. \A n \in 1 .. Len(order) : order[n] = <<order[n][1], order[n][2]>>
                                 /\ order[n][1] \in Entities /\ order[n][2] \in Attributes
  BY DEF IsPatch, IsOrder
<1>3. 0 \in S
  <2>1. ~ \E n \in 1 .. 0 : TRUE
    OBVIOUS
  <2>2. good(0)
    BY <1>1, <2>1, NoInstruction
  <2> HIDE DEF good
  <2> QED
    BY <2>2
<1>4. ASSUME NEW m \in 1 .. Len(order), m - 1 \in S PROVE m \in S
  <2> DEFINE slot == SlotOf(patch, order[m][1], order[m][2])
  <2>1. good(m - 1) /\ read[m] = read[m - 1] \o slot
    BY <1>1, <1>4
  <2>2. /\ slot \in Seq(Clear) /\ Loggable(slot)
        /\ \A i : Among(i, slot) <=> Held(patch, i) /\ In(i, m)
    <3>1. /\ slot \in Seq(Clear) /\ Loggable(slot)
          /\ \A i : Among(i, slot) <=>
                      Held(patch, i) /\ i.fact[1] = order[m][1] /\ i.fact[2] = order[m][2]
      BY <1>2, SlotReads
    <3> HIDE DEF slot
    <3> QED
      BY <3>1
  <2> HIDE DEF slot
  <2>3. ASSUME NEW i, NEW j, Among(i, read[m - 1]), Among(j, slot) PROVE KeptApart(i, j)
    <3>1. PICK n \in 1 .. m - 1 : In(i, n)
      BY <2>1, <2>3
    <3>2. In(j, m)
      BY <2>2, <2>3
    <3>3. n \in 1 .. Len(order) /\ n # m
      OBVIOUS
    <3>4. order[n] # order[m]
      BY <3>3 DEF IsOrder
    <3>5. <<i.fact[1], i.fact[2]>> = order[n] /\ <<j.fact[1], j.fact[2]>> = order[m]
      BY <1>2, <3>1, <3>2, <3>3
    <3> QED
      BY <3>4, <3>5 DEF KeptApart
  <2>4. /\ read[m] \in Seq(Clear) /\ Loggable(read[m])
        /\ \A i : Among(i, read[m]) <=> Among(i, read[m - 1]) \/ Among(i, slot)
    BY <2>1, <2>2, <2>3, Join
  <2>5. \A n : n \in 1 .. m <=> n \in 1 .. m - 1 \/ n = m
    OBVIOUS
  <2>6. \A i : Among(i, read[m]) <=> Held(patch, i) /\ \E n \in 1 .. m : In(i, n)
    <3> HIDE DEF In
    <3> QED
      BY <2>1, <2>2, <2>4, <2>5
  <2> QED
    BY <2>4, <2>6
<1>5. good(Len(order))
  <2>1. Len(order) \in S
    <3> HIDE DEF S
    <3> QED
      BY <1>3, <1>4, UpTo
  <2> QED
    BY <2>1
<1>6. \A i : Held(patch, i) => \E n \in 1 .. Len(order) : In(i, n)
  <2> TAKE i
  <2> HAVE Held(patch, i)
  <2>1. PICK n \in 1 .. Len(order) : order[n] = <<Place(i)[1], Place(i)[2]>>
    BY DEF Held, IsOrder
  <2> QED
    BY <2>1 DEF Place
<1> HIDE DEF In
<1> QED
  BY <1>1, <1>5, <1>6

(* Truthy keeps the instructions that have a truthy value. *)
LEMMA TruthyKeeps ==
  ASSUME NEW t \in Seq(Instructions), Loggable(t)
  PROVE  /\ Truthy(t) \in Seq(Clear) /\ Loggable(Truthy(t))
         /\ \A i : Among(i, Truthy(t)) <=> Among(i, t) /\ i.fact[3] \notin Falsy
<1>1. Len(t) \in Nat /\ DOMAIN t = 1 .. Len(t) /\ \A n \in 1 .. Len(t) : t[n] \in Instructions
  OBVIOUS
<1>2. PICK truthy : /\ truthy[0] = <<>> /\ truthy[Len(t)] = Truthy(t)
                    /\ \A n \in 1 .. Len(t) : truthy[n] = KeepTruthy(truthy[n - 1], t[n])
  BY <1>1, TruthySteps
<1> DEFINE kept(i, m) == i.fact[3] \notin Falsy /\ \E n \in 1 .. m : t[n] = i
           good(m) == /\ truthy[m] \in Seq(Clear) /\ Loggable(truthy[m])
                      /\ \A i : Among(i, truthy[m]) <=> kept(i, m)
           S == {m \in 0 .. Len(t) : good(m)}
<1>3. 0 \in S
  <2>1. ~ \E n \in 1 .. 0 : TRUE
    OBVIOUS
  <2>2. good(0)
    BY <1>2, <2>1, NoInstruction
  <2> HIDE DEF good
  <2> QED
    BY <1>1, <2>2
<1>4. ASSUME NEW m \in 1 .. Len(t), m - 1 \in S PROVE m \in S
  <2>1. good(m - 1) /\ truthy[m] = KeepTruthy(truthy[m - 1], t[m]) /\ t[m] \in Instructions
    BY <1>1, <1>2, <1>4
  <2>2. \A n : n \in 1 .. m <=> n \in 1 .. m - 1 \/ n = m
    OBVIOUS
  <2>3. \A i : kept(i, m) <=> kept(i, m - 1) \/ (i.fact[3] \notin Falsy /\ i = t[m])
    BY <2>2
  <2>4. CASE t[m].fact[3] \in Falsy
    <3>1. truthy[m] = truthy[m - 1] /\ \A i : kept(i, m) <=> kept(i, m - 1)
      BY <2>1, <2>3, <2>4 DEF KeepTruthy
    <3>2. good(m)
      <4> HIDE DEF kept
      <4> QED
        BY <2>1, <3>1
    <3> HIDE DEF good
    <3> QED
      BY <1>1, <3>2
  <2>5. CASE t[m].fact[3] \notin Falsy
    <3>1. t[m] \in Clear
      BY <2>1, <2>5 DEF Instructions, Clear, Facts
    <3> DEFINE last == <<t[m]>>
    <3>2. truthy[m] = truthy[m - 1] \o last
      <4>1. truthy[m] = Append(truthy[m - 1], t[m]) /\ truthy[m - 1] \in Seq(Clear)
        BY <2>1, <2>5 DEF KeepTruthy
      <4>2. \A list \in Seq(Clear), i \in Clear : Append(list, i) = list \o <<i>>
        <5> HIDE DEF good, last, S, kept
        <5> QED
          OBVIOUS
      <4> QED
        BY <3>1, <4>1, <4>2
    <3>0. last \in Seq(Clear) /\ Loggable(last) /\ \A j : Among(j, last) <=> j = t[m]
      BY <3>1, OneInstruction
    <3> HIDE DEF last
    <3>3. ASSUME NEW i, NEW j, Among(i, truthy[m - 1]), Among(j, last) PROVE KeptApart(i, j)
      <4>1. j = t[m]
        BY <3>0, <3>3
      <4>2. PICK n \in 1 .. m - 1 : t[n] = i
        BY <2>1, <3>3
      <4> QED
        BY <1>1, <4>1, <4>2 DEF Loggable
    <3>4. /\ truthy[m] \in Seq(Clear) /\ Loggable(truthy[m])
          /\ \A i : Among(i, truthy[m]) <=> Among(i, truthy[m - 1]) \/ Among(i, last)
      BY <2>1, <3>0, <3>2, <3>3, Join
    <3>5. \A i : Among(i, truthy[m]) <=> kept(i, m)
      <4> HIDE DEF kept
      <4> QED
        BY <2>1, <2>3, <2>5, <3>0, <3>4
    <3>6. good(m)
      BY <3>4, <3>5
    <3> HIDE DEF good
    <3> QED
      BY <1>1, <3>6
  <2> QED
    BY <2>4, <2>5
<1>5. good(Len(t))
  <2>1. Len(t) \in S
    <3> HIDE DEF S
    <3> QED
      BY <1>1, <1>3, <1>4, UpTo
  <2> QED
    BY <2>1
<1> QED
  BY <1>2, <1>5 DEF Among

(* An order in which CBOR may have the slots has each of them once. *)
LEMMA OrdersAreComplete ==
  ASSUME NEW t \in Seq(Instructions), Loggable(t), NEW patch, patch = EncodeTransaction(t),
         NEW order \in Lists!SetToSeqs({<<p[1], p[2]>> : p \in DOMAIN patch})
  PROVE  Len(order) \in Nat /\ IsOrder(order, patch)
<1> DEFINE slots == {<<p[1], p[2]>> : p \in DOMAIN patch}
           slot == [n \in 1 .. Len(t) |-> <<t[n].fact[1], t[n].fact[2]>>]
<1>1. Len(t) \in Nat
  OBVIOUS
<1>2. slots = {slot[n] : n \in 1 .. Len(t)}
  <2>1. DOMAIN patch = {Place(t[n]) : n \in 1 .. Len(t)}
    BY PatchHolds
  <2>2. slots = {<<Place(t[n])[1], Place(t[n])[2]>> : n \in 1 .. Len(t)}
    BY <2>1
  <2>3. \A n \in 1 .. Len(t) : slot[n] = <<Place(t[n])[1], Place(t[n])[2]>>
    BY DEF Place
  <2> HIDE DEF slots, slot
  <2> QED
    BY <2>2, <2>3
<1>3. IsFiniteSet(slots)
  <2>1. IsFiniteSet(1 .. Len(t))
    BY <1>1, FS_Interval
  <2> HIDE DEF slots
  <2>2. slot \in Surjection(1 .. Len(t), slots)
    BY <1>2 DEF Surjection
  <2> QED
    BY <2>1, <2>2, FS_Surjection
<1> DEFINE D == 1 .. Cardinality(slots)
<1>4. Cardinality(slots) \in Nat
  BY <1>3, FS_CardinalityType
<1>5. order \in [D -> slots] /\ \A n, m \in D : n # m => order[n] # order[m]
  <2>1. order \in Lists!SetToSeqs(slots)
    OBVIOUS
  <2> HIDE DEF slots
  <2>2. Lists!Cardinality(slots) = Cardinality(slots)
    BY DEF Lists!Cardinality, Cardinality
  <2> QED
    BY <2>1, <2>2 DEF Lists!SetToSeqs
<1> HIDE DEF slots
<1>6. Len(order) = Cardinality(slots)
  BY <1>4, <1>5
<1>7. order \in Injection(D, slots)
  BY <1>5 DEF Injection, IsInjective
<1>8. Cardinality(D) = Cardinality(slots)
  BY <1>4, FS_Interval
<1>9. order \in Surjection(D, slots)
  BY <1>3, <1>7, <1>8, FS_Injection
<1>10. \A x \in slots : \E n \in D : order[n] = x
  BY <1>9 DEF Surjection
<1>11. \A p \in DOMAIN patch : <<p[1], p[2]>> \in slots
  BY DEF slots
<1>12. \A n \in D : order[n] \in slots
  BY <1>5
<1> QED
  BY <1>4, <1>5, <1>6, <1>10, <1>11, <1>12 DEF IsOrder, slots

(* What comes back from the codec is the instructions with a truthy value. *)
LEMMA CodecKeeps ==
  ASSUME NEW t \in Seq(Instructions), Loggable(t),
         NEW logged \in DecodeTransaction(EncodeTransaction(t))
  PROVE  /\ logged \in Seq(Clear) /\ Loggable(logged)
         /\ \A i : Among(i, logged) <=> Among(i, t) /\ i.fact[3] \notin Falsy
<1> DEFINE patch == EncodeTransaction(t)
<1>1. PICK order \in Lists!SetToSeqs({<<p[1], p[2]>> : p \in DOMAIN patch}) :
        logged = ReadOff(patch, order)
  BY DEF DecodeTransaction
<1>2. \A n \in 1 .. Len(t) : t[n] \in Instructions
  OBVIOUS
<1>3. DOMAIN patch = {Place(t[n]) : n \in 1 .. Len(t)}
      /\ \A n \in 1 .. Len(t) : patch[Place(t[n])] = t[n].fact[3]
  BY PatchHolds
<1>4. Len(order) \in Nat /\ IsOrder(order, patch)
  BY OrdersAreComplete
<1> HIDE DEF patch
<1>5. IsPatch(patch)
  <2> SUFFICES ASSUME NEW p \in DOMAIN patch
               PROVE  p \in Entities \X Attributes \X Kinds /\ patch[p] \in Values
    BY DEF IsPatch
  <2>1. PICK n \in 1 .. Len(t) : p = Place(t[n])
    BY <1>3
  <2> QED
    BY <1>2, <1>3, <2>1 DEF Place, Instructions, Facts
<1>6. /\ logged \in Seq(Clear) /\ Loggable(logged)
      /\ \A i : Among(i, logged) <=> Held(patch, i)
  BY <1>1, <1>4, <1>5, ReadsHeld
<1>7. ASSUME NEW i, Among(i, t), i.fact[3] \notin Falsy PROVE Held(patch, i)
  <2>1. PICK n \in 1 .. Len(t) : t[n] = i
    BY <1>7 DEF Among
  <2>2. i \in Clear
    BY <1>2, <1>7, <2>1 DEF Instructions, Clear, Facts
  <2> QED
    BY <1>3, <2>1, <2>2 DEF Held
<1>8. ASSUME NEW i, Held(patch, i) PROVE Among(i, t) /\ i.fact[3] \notin Falsy
  <2>1. PICK n \in 1 .. Len(t) : Place(i) = Place(t[n])
    BY <1>3, <1>8 DEF Held
  <2>2. i.fact[3] = t[n].fact[3]
    BY <1>3, <1>8, <2>1 DEF Held
  <2>3. i.fact[1] = t[n].fact[1] /\ i.fact[2] = t[n].fact[2] /\ i.kind = t[n].kind
    BY <2>1 DEF Place
  <2>4. i \in Clear /\ t[n] \in Instructions
    BY <1>2, <1>8 DEF Held
  <2>5. i = t[n]
    <3>1. i = [kind |-> i.kind, fact |-> <<i.fact[1], i.fact[2], i.fact[3]>>]
      BY <2>4 DEF Clear, Instructions, Facts
    <3>2. t[n] = [kind |-> t[n].kind, fact |-> <<t[n].fact[1], t[n].fact[2], t[n].fact[3]>>]
      BY <2>4 DEF Instructions, Facts
    <3> QED
      BY <2>2, <2>3, <3>1, <3>2
  <2>6. i.fact[3] \notin Falsy
    BY <2>4 DEF Clear
  <2>7. Among(i, t)
    BY <2>1, <2>5 DEF Among
  <2> QED
    BY <2>6, <2>7
<1> QED
  BY <1>6, <1>7, <1>8

(* Two lists of the same instructions leave the same entries. *)
LEMMA SamePerformed ==
  ASSUME NEW entries, Sound(entries), IsFunction(entries), NEW c,
         NEW u \in Seq(Clear), NEW v \in Seq(Clear), Loggable(u), Loggable(v),
         \A i : Among(i, u) <=> Among(i, v)
  PROVE  Perform(entries, u, c) = Perform(entries, v, c)
<1> DEFINE old == Data(entries, "EAVT")
<1>1. \A d : Outcome(u, Len(u), old, c, d) <=> Outcome(v, Len(v), old, c, d)
  BY SameOutcome
<1>2. /\ Sound(Perform(entries, u, c)) /\ IsFunction(Perform(entries, u, c))
      /\ \A d : d \in Data(Perform(entries, u, c), "EAVT") <=> Outcome(u, Len(u), old, c, d)
  BY PerformTouches
<1>3. /\ Sound(Perform(entries, v, c)) /\ IsFunction(Perform(entries, v, c))
      /\ \A d : d \in Data(Perform(entries, v, c), "EAVT") <=> Outcome(v, Len(v), old, c, d)
  BY PerformTouches
<1>4. Data(Perform(entries, u, c), "EAVT") = Data(Perform(entries, v, c), "EAVT")
  BY <1>1, <1>2, <1>3
<1> QED
  BY <1>2, <1>3, <1>4, SameData

(* Entries are functions, which the operations make anew. *)
Functional == IsFunction(stored) /\ IsFunction(editing)

LEMMA FunctionalStep == Functional /\ [Next]_vars => Functional'
<1> SUFFICES ASSUME Functional, [Next]_vars PROVE Functional'
  OBVIOUS
<1>1. \A entries, f, c : IsFunction(Put(entries, f, c))
  BY DEF IsFunction, Put
<1>2. \A entries, F : IsFunction(Delete(entries, F))
  BY DEF IsFunction, Delete
<1>3. CASE Begin
  BY <1>1, <1>3 DEF Begin, Functional, IsFunction
<1>4. CASE Commit
  BY <1>4 DEF Commit, Functional, IsFunction
<1>5. CASE Throw
  BY <1>5 DEF Throw, Functional, IsFunction
<1>6. ASSUME NEW f \in Facts, Assert(f) PROVE Functional'
  BY <1>1, <1>6 DEF Assert, Edit, Functional, IsFunction
<1>7. ASSUME NEW f \in Facts, Retract(f) PROVE Functional'
  BY <1>2, <1>7 DEF Retract, Edit, Functional, IsFunction
<1>8. ASSUME NEW f \in Facts, Upsert(f) PROVE Functional'
  BY <1>1, <1>8 DEF Upsert, Edit, Functional, IsFunction
<1>9. CASE UNCHANGED vars
  BY <1>9 DEF vars, Functional, IsFunction
<1> QED
  BY <1>3, <1>4, <1>5, <1>6, <1>7, <1>8, <1>9 DEF Next

(* A replica that performs what it reads off the log comes to the same facts as
   the one that transacted: for every transaction of which no two instructions
   meet in a place of its patch, of any length, in every order in which the
   codec may have the slots on the way to the server and into the log, and from
   every state the store can be in. *)
THEOREM ReplicasInStep == Spec => []ReplicasAgree
<1>1. Init => Functional
  BY DEF Init, Functional, IsFunction
<1>2. StoreInv /\ Functional => ReplicasAgree
  <2> SUFFICES ASSUME StoreInv, Functional, NEW t \in Transactions, Loggable(t),
                      NEW logged \in Logged(t)
               PROVE  Perform(stored, logged, commits + 1) = Perform(stored, Truthy(t), commits + 1)
    BY DEF ReplicasAgree
  <2>1. t \in Seq(Instructions)
    BY CodecAssumption DEF Transactions
  <2>2. PICK pushed \in DecodeTransaction(EncodeTransaction(t)) :
          logged \in DecodeTransaction(EncodeTransaction(pushed))
    BY DEF Logged
  <2>3. /\ pushed \in Seq(Clear) /\ Loggable(pushed)
        /\ \A i : Among(i, pushed) <=> Among(i, t) /\ i.fact[3] \notin Falsy
    BY <2>1, <2>2, CodecKeeps
  <2>4. pushed \in Seq(Instructions)
    <3>1. Clear \subseteq Instructions
      BY DEF Clear, Facts, Instructions
    <3> QED
      BY <2>3, <3>1
  <2>5. /\ logged \in Seq(Clear) /\ Loggable(logged)
        /\ \A i : Among(i, logged) <=> Among(i, pushed) /\ i.fact[3] \notin Falsy
    BY <2>2, <2>3, <2>4, CodecKeeps
  <2>6. /\ Truthy(t) \in Seq(Clear) /\ Loggable(Truthy(t))
        /\ \A i : Among(i, Truthy(t)) <=> Among(i, t) /\ i.fact[3] \notin Falsy
    BY <2>1, TruthyKeeps
  <2>7. \A i : Among(i, logged) <=> Among(i, Truthy(t))
    BY <2>3, <2>5, <2>6
  <2>8. Sound(stored) /\ IsFunction(stored)
    BY DEF StoreInv, Functional
  <2> QED
    BY <2>5, <2>6, <2>7, <2>8, SamePerformed
<1> QED
  BY <1>1, <1>2, InitInv, StepInv, FunctionalStep, PTL DEF Spec
=============================================================================
