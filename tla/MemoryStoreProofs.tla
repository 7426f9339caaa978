-------------------------- MODULE MemoryStoreProofs --------------------------
(***************************************************************************)
(* Conversation memory for any sessions, users and limits, and searches.   *)
(*                                                                         *)
(* What is stored after an erasure depends on what was under way when it   *)
(* happened, so the invariant follows every item on its way: a call, a     *)
(* lesson being extracted, an embedding asked for.  Items are numbered as  *)
(* a session says them; "cleared" separates those said before the erasure. *)
(* A message said before it and sent without its registration ahead of it  *)
(* is refused, because the erasure took the session's row (Refused); any   *)
(* other was overtaken by the erasure.                                     *)
(*                                                                         *)
(* Searches: that a better match comes first is what reranking does to any *)
(* two rows (RerankedKeeps, HybridGrows), given that a vector's id names   *)
(* one row; that counts are answers needs that an id is used once, and     *)
(* that nobody was answered before asking (IdsUsed, SearchKept).           *)
(***************************************************************************)
EXTENDS MemoryStore, Recall, FiniteSetTheorems, SequenceTheorems, TLAPS

(* The bounds of the model are numbers.                                    *)
Bounds == Limit \in Nat /\ MaxSaid \in Nat

Ops == {"register", "recent", "append", "lessons"}
CallRecords == [op : Ops, item : Items]
Spoken == {"user", "assistant", "tool"}
Pairs == [id : Ids, of : Items]
RowRecords == [id : Ids, msg : Items]
Files == [sessions : SUBSET Sessions, rows : SUBSET RowRecords, vectors : SUBSET Pairs,
          next : [Tables -> Nat]]

(* A message or lesson somebody said; 0 is the place of a session itself.  *)
Said(m, upTo) == m \in Items /\ m.n \in 1..upTo[m.session]

(* A table's numbers are used up in order, and a vector is that of its row.*)
Given(id, d) == id \in Ids /\ id[2] < d.next[id[1]]

FileOK(d) ==
  /\ d \in Files
  /\ \A r \in d.rows : Given(r.id, d) /\ Said(r.msg, spoken)
  /\ \A v \in d.vectors : Given(v.id, d) /\ Said(v.of, spoken)
  /\ \A r \in d.rows, v \in d.vectors : v.id = r.id => v.of = r.msg

RuntimeOK ==
  /\ owner \in [Sessions -> Users]
  /\ stage \in [Sessions -> {"new", "loading", "loaded", "turn", "ready"}]
  /\ spoken \in [Sessions -> 0..MaxSaid] /\ now \in Nat
  /\ cleared \in [Sessions -> Nat]
  /\ \A s \in Sessions : cleared[s] <= spoken[s]
  /\ \A s \in Sessions : stage[s] \in {"new", "loading"} => spoken[s] = 0
  /\ ctx \in [Sessions -> Seq(Items)]
  /\ \A s \in Sessions : \A i \in DOMAIN ctx[s] :
       Said(ctx[s][i], spoken) /\ OwnedBy(owner[s], ctx[s][i])
  /\ \A l \in extracting : Said(l, spoken)
  /\ lost \subseteq Items /\ overtaken \subseteq Items /\ restored \in BOOLEAN

IsAppend(c) == c.op = "append"
IsLessons(c) == c.op = "lessons"
IsRegister(c, s) == c.op = "register" /\ c.item.session = s

(* A session is registered once, before anything it says is sent.          *)
CallsOK ==
  /\ toStore \in Seq(CallRecords)
  /\ \A i \in DOMAIN toStore :
       /\ IsAppend(toStore[i]) \/ IsLessons(toStore[i]) => Said(toStore[i].item, spoken)
       /\ toStore[i].op = "register" => toStore[i] = Register(toStore[i].item.session)
  /\ \A i, j \in DOMAIN toStore :
       IsAppend(toStore[i]) /\ IsRegister(toStore[j], toStore[i].item.session) => j < i

EmbeddingOK ==
  /\ \A e \in embedding : e \in Pairs /\ Given(e.id, db) /\ Said(e.of, spoken)
  /\ \A r \in db.rows, e \in embedding : e.id = r.id => e.of = r.msg

FilesOK == /\ FileOK(db) /\ EmbeddingOK
           /\ dump # NoDump => FileOK(dump)
           /\ pendingDb # NoDump => FileOK(pendingDb)

(* Said before an erasure and not under way then.                          *)
Gone(m, upTo, except) == m.n <= upTo[m.session] /\ m \notin except

(* A vector, made or to come, has its row until an erasure overtakes it.   *)
HasRow(p) == (\E r \in db.rows : r.id = p.id) \/ p.of \in overtaken

Refused(i) ==
  /\ toStore[i].item.session \notin db.sessions
  /\ \A j \in 1..i : ~IsRegister(toStore[j], toStore[i].item.session)

TablesErased == /\ \A i \in Stored : ~Gone(i, cleared, overtaken)
                /\ \A p \in db.vectors : HasRow(p)
                /\ \A p \in embedding : HasRow(p) /\ ~Gone(p.of, cleared, overtaken)

QueueErased ==
  /\ \A l \in extracting : ~Gone(l, cleared, overtaken)
  /\ \A i \in DOMAIN toStore : Gone(toStore[i].item, cleared, overtaken) =>
       ~IsLessons(toStore[i]) /\ (IsAppend(toStore[i]) => Refused(i))

(* A registered session, or one about to be.                               *)
Known(s) == s \in db.sessions \/ \E i \in DOMAIN toStore : IsRegister(toStore[i], s)

Safe(m) == \/ \E r \in db.rows : r.msg = m
           \/ \E j \in DOMAIN toStore : IsAppend(toStore[j]) /\ toStore[j].item = m
           \/ m \in lost

Saved == \A s \in Sessions : Known(s) /\ cleared[s] = 0 =>
           \A i \in DOMAIN ctx[s] : ctx[s][i].session = s => Safe(ctx[s][i])

MemoryInv == /\ RuntimeOK /\ CallsOK /\ FilesOK
             /\ ~restored => TablesErased /\ QueueErased /\ Saved

-----------------------------------------------------------------------------
(* What was said stays said.                                               *)
Grown == \A s \in Sessions : /\ spoken[s] \in Nat /\ spoken'[s] \in Nat
                             /\ spoken'[s] >= spoken[s]

LEMMA SaidStays == ASSUME Grown PROVE \A m : Said(m, spoken) => Said(m, spoken')
<1> SUFFICES ASSUME NEW m, Said(m, spoken) PROVE Said(m, spoken')
  OBVIOUS
<1>1. m.session \in Sessions /\ m.n \in Nat
  BY DEF Said, Items
<1> QED  BY <1>1 DEF Said, Grown

LEMMA SilenceGrows ==
  ASSUME RuntimeOK, Bounds, UNCHANGED spoken PROVE Grown
  BY DEF RuntimeOK, Bounds, Grown

LEMMA FilesStay ==
  ASSUME FilesOK, Grown, UNCHANGED storeVars PROVE FilesOK'
<1>1. \A m : Said(m, spoken) => Said(m, spoken')
  BY SaidStays
<1>2. db' = db /\ embedding' = embedding /\ dump' = dump /\ pendingDb' = pendingDb
  BY DEF storeVars
<1>3. FileOK(db)'
  BY <1>1, <1>2 DEF FilesOK, FileOK
<1>4. EmbeddingOK'
  BY <1>1, <1>2 DEF FilesOK, EmbeddingOK
<1>5. dump' # NoDump => FileOK(dump)'
  BY <1>1, <1>2 DEF FilesOK, FileOK
<1>6. pendingDb' # NoDump => FileOK(pendingDb)'
  BY <1>1, <1>2 DEF FilesOK, FileOK
<1> QED  BY <1>3, <1>4, <1>5, <1>6 DEF FilesOK

LEMMA Queue ==
  ASSUME CallsOK
  PROVE  /\ Len(toStore) \in Nat /\ DOMAIN toStore = 1..Len(toStore)
         /\ \A i \in DOMAIN toStore : toStore[i] \in CallRecords
  BY DEF CallsOK

(* Serving the first call moves the others up.                             *)
LEMMA Served ==
  ASSUME CallsOK, toStore # <<>>, toStore' = Tail(toStore)
  PROVE  /\ toStore' \in Seq(CallRecords)
         /\ 1 \in DOMAIN toStore /\ Head(toStore) = toStore[1]
         /\ \A i \in DOMAIN toStore' :
              i \in Nat /\ i + 1 \in DOMAIN toStore /\ toStore'[i] = toStore[i + 1]
         /\ \A i \in DOMAIN toStore : i # 1 =>
              i - 1 \in DOMAIN toStore' /\ toStore'[i - 1] = toStore[i]
<1>1. toStore \in Seq(CallRecords)
  BY DEF CallsOK
<1>2. /\ toStore' \in Seq(CallRecords) /\ Len(toStore') = Len(toStore) - 1
      /\ \A i \in 1..Len(toStore') : toStore'[i] = toStore[i + 1]
  BY <1>1, HeadTailProperties
<1>3. Len(toStore) \in Nat /\ Len(toStore) # 0
  BY <1>1
<1>4. DOMAIN toStore = 1..Len(toStore) /\ DOMAIN toStore' = 1..(Len(toStore) - 1)
  BY <1>1, <1>2
<1> QED  BY <1>1, <1>2, <1>3, <1>4

(* Serving a call registers no session but its own.                        *)
Registering == \A s \in db'.sessions : s \in db.sessions \/ IsRegister(Head(toStore), s)

LEMMA ServedCalls ==
  ASSUME CallsOK, Grown, toStore # <<>>, toStore' = Tail(toStore) PROVE CallsOK'
<1>1. \A m : Said(m, spoken) => Said(m, spoken')
  BY SaidStays
<1>2. /\ toStore' \in Seq(CallRecords)
      /\ \A i \in DOMAIN toStore' :
           i \in Nat /\ i + 1 \in DOMAIN toStore /\ toStore'[i] = toStore[i + 1]
  BY Served
<1>3. ASSUME NEW i \in DOMAIN toStore'
      PROVE  /\ IsAppend(toStore'[i]) \/ IsLessons(toStore'[i]) => Said(toStore'[i].item, spoken')
             /\ toStore'[i].op = "register" =>
                  toStore'[i] = Register(toStore'[i].item.session)
  <2>1. i + 1 \in DOMAIN toStore /\ toStore'[i] = toStore[i + 1]
    BY <1>2
  <2>2. /\ IsAppend(toStore[i + 1]) \/ IsLessons(toStore[i + 1]) => Said(toStore[i + 1].item, spoken)
        /\ toStore[i + 1].op = "register" =>
             toStore[i + 1] = Register(toStore[i + 1].item.session)
    BY <2>1 DEF CallsOK
  <2>3. Said(toStore[i + 1].item, spoken) => Said(toStore'[i].item, spoken')
    BY <1>1, <2>1
  <2> QED  BY <2>1, <2>2, <2>3
<1>4. ASSUME NEW i \in DOMAIN toStore', NEW j \in DOMAIN toStore',
             IsAppend(toStore'[i]), IsRegister(toStore'[j], toStore'[i].item.session)
      PROVE  j < i
  <2>1. /\ i + 1 \in DOMAIN toStore /\ toStore'[i] = toStore[i + 1]
        /\ j + 1 \in DOMAIN toStore /\ toStore'[j] = toStore[j + 1]
        /\ i \in Nat /\ j \in Nat
    BY <1>2
  <2>2. j + 1 < i + 1
    BY <1>4, <2>1 DEF CallsOK
  <2> QED  BY <2>1, <2>2
<1> QED  BY <1>2, <1>3, <1>4 DEF CallsOK

LEMMA ServedQueue ==
  ASSUME CallsOK, QueueErased, toStore # <<>>, toStore' = Tail(toStore), Registering,
         UNCHANGED <<cleared, overtaken, extracting>>
  PROVE  QueueErased'
<1>1. /\ 1 \in DOMAIN toStore /\ Head(toStore) = toStore[1]
      /\ \A i \in DOMAIN toStore' :
           i \in Nat /\ i + 1 \in DOMAIN toStore /\ toStore'[i] = toStore[i + 1]
      /\ \A i \in DOMAIN toStore : i # 1 =>
           i - 1 \in DOMAIN toStore' /\ toStore'[i - 1] = toStore[i]
  BY Served
<1>2. DOMAIN toStore = 1..Len(toStore) /\ Len(toStore) \in Nat
  BY Queue
<1>3. cleared' = cleared /\ overtaken' = overtaken /\ extracting' = extracting
  OBVIOUS
<1>4. \A l \in extracting' : ~Gone(l, cleared', overtaken')
  BY <1>3 DEF QueueErased
<1>5. ASSUME NEW i \in DOMAIN toStore', IsLessons(toStore'[i]),
             Gone(toStore'[i].item, cleared', overtaken')
      PROVE  FALSE
  BY <1>1, <1>3, <1>5 DEF QueueErased
<1>6. ASSUME NEW i \in DOMAIN toStore', IsAppend(toStore'[i]),
             Gone(toStore'[i].item, cleared', overtaken')
      PROVE  Refused(i)'
  <2>1. i + 1 \in DOMAIN toStore /\ toStore'[i] = toStore[i + 1] /\ i \in Nat
    BY <1>1
  <2>2. Refused(i + 1)
    BY <1>3, <1>6, <2>1 DEF QueueErased
  <2> PICK s : s = toStore[i + 1].item.session
    OBVIOUS
  <2>3. s \notin db.sessions /\ \A j \in 1..(i + 1) : ~IsRegister(toStore[j], s)
    BY <2>2 DEF Refused
  <2>4. ~IsRegister(Head(toStore), s)
    BY <1>1, <2>1, <2>3
  <2>5. s \notin db'.sessions
    BY <2>3, <2>4 DEF Registering
  <2>6. ASSUME NEW j \in 1..i PROVE ~IsRegister(toStore'[j], s)
    <3>1. j + 1 \in 1..(i + 1) /\ j \in DOMAIN toStore'
      BY <1>1, <1>2, <2>1
    <3>2. toStore'[j] = toStore[j + 1]
      BY <1>1, <3>1
    <3> QED  BY <2>3, <3>1, <3>2
  <2>7. toStore'[i].item.session = s
    BY <2>1
  <2> QED  BY <2>5, <2>6, <2>7 DEF Refused
<1> QED  BY <1>4, <1>5, <1>6 DEF QueueErased

LEMMA ServedKnown ==
  ASSUME CallsOK, toStore # <<>>, toStore' = Tail(toStore), Registering
  PROVE  \A s : Known(s)' => Known(s)
<1>1. /\ 1 \in DOMAIN toStore /\ Head(toStore) = toStore[1]
      /\ \A i \in DOMAIN toStore' : i + 1 \in DOMAIN toStore /\ toStore'[i] = toStore[i + 1]
  BY Served
<1> QED  BY <1>1 DEF Known, Registering

LEMMA ServedSafe ==
  ASSUME CallsOK, toStore # <<>>, toStore' = Tail(toStore),
         db.rows \subseteq db'.rows, lost \subseteq lost', NEW m, Safe(m)
  PROVE  Safe(m)' \/ (IsAppend(Head(toStore)) /\ Head(toStore).item = m)
<1>1. /\ Head(toStore) = toStore[1]
      /\ \A i \in DOMAIN toStore : i # 1 =>
           i - 1 \in DOMAIN toStore' /\ toStore'[i - 1] = toStore[i]
  BY Served
<1>2. CASE \E r \in db.rows : r.msg = m
  BY <1>2 DEF Safe
<1>3. CASE m \in lost
  BY <1>3 DEF Safe
<1>4. ASSUME NEW j \in DOMAIN toStore, IsAppend(toStore[j]), toStore[j].item = m
      PROVE  Safe(m)' \/ (IsAppend(Head(toStore)) /\ Head(toStore).item = m)
  BY <1>1, <1>4 DEF Safe
<1> QED  BY <1>2, <1>3, <1>4 DEF Safe

(* What is said stays safe as long as the session is known.                *)
LEMMA SavedStays ==
  ASSUME Saved, UNCHANGED <<cleared, ctx>>, \A s : Known(s)' => Known(s),
         \A m : Safe(m) /\ Known(m.session)' => Safe(m)'
  PROVE  Saved'
<1> SUFFICES ASSUME NEW s \in Sessions, Known(s)', cleared[s] = 0,
                    NEW i \in DOMAIN ctx[s], ctx[s][i].session = s
             PROVE  Safe(ctx[s][i])'
  BY DEF Saved
<1>1. Safe(ctx[s][i])
  BY DEF Saved
<1>2. PICK m : m = ctx[s][i]
  OBVIOUS
<1>3. ctx'[s][i] = m
  BY <1>2
<1>4. Safe(m)'
  BY <1>1, <1>2
<1> QED  BY <1>3, <1>4 DEF Safe

LEMMA RuntimeStays ==
  ASSUME RuntimeOK,
         UNCHANGED <<owner, stage, ctx, spoken, now, extracting, historyVars>>
  PROVE  RuntimeOK'
  BY DEF RuntimeOK, historyVars, OwnedBy

-----------------------------------------------------------------------------
(* The store's handlers.                                                   *)
LEMMA DbFields == ASSUME FilesOK PROVE db \in Files
  BY DEF FilesOK, FileOK

LEMMA StoreSessionStep == ASSUME MemoryInv, Bounds, StoreSession PROVE MemoryInv'
<1>1. /\ RuntimeOK /\ CallsOK /\ FilesOK /\ Grown
      /\ ~restored => TablesErased /\ QueueErased /\ Saved
  BY SilenceGrows DEF MemoryInv, StoreSession
<1>2. /\ toStore # <<>> /\ toStore' = Tail(toStore)
      /\ Head(toStore).op = "register"
      /\ db' = [db EXCEPT !.sessions = @ \cup {Head(toStore).item.session}]
      /\ UNCHANGED <<owner, stage, ctx, spoken, now, extracting, embedding, dump, pendingDb,
                     historyVars>>
  BY DEF StoreSession
<1>3. Head(toStore).item.session \in Sessions
  BY <1>1, <1>2, Served, Queue DEF CallRecords, Items
<1>4. FilesOK'
  BY <1>1, <1>2, <1>3 DEF FilesOK, FileOK, EmbeddingOK, Files, Given
<1>5. /\ db'.rows = db.rows /\ db'.vectors = db.vectors
      /\ \A s \in db'.sessions : s \in db.sessions \/ IsRegister(Head(toStore), s)
      /\ ~IsAppend(Head(toStore))
  BY <1>1, <1>2, DbFields DEF IsRegister, IsAppend, Files
<1>6. UNCHANGED <<cleared, overtaken, lost, restored, ctx, extracting>>
  BY <1>2 DEF historyVars
<1>7. RuntimeOK' /\ CallsOK'
  BY <1>1, <1>2, RuntimeStays, ServedCalls
<1>8. ASSUME ~restored PROVE TablesErased' /\ QueueErased' /\ Saved'
  <2>1. TablesErased'
    BY <1>1, <1>2, <1>5, <1>6, <1>8 DEF TablesErased, Stored, HasRow
  <2>2. Registering
    BY <1>5 DEF Registering
  <2>3. QueueErased'
    BY <1>1, <1>2, <1>6, <1>8, <2>2, ServedQueue
  <2>4. \A m : Safe(m) => Safe(m)'
    BY <1>1, <1>2, <1>5, <1>6, ServedSafe
  <2>5. Saved'
    BY <1>1, <1>2, <1>6, <1>8, <2>2, <2>4, ServedKnown, SavedStays
  <2> QED  BY <2>1, <2>3, <2>5
<1> QED  BY <1>4, <1>6, <1>7, <1>8 DEF MemoryInv

(* A refused message's session is not known and never will be.             *)
LEMMA RefusedUnknown ==
  ASSUME CallsOK, toStore # <<>>, toStore' = Tail(toStore), IsAppend(Head(toStore)),
         NEW s, Head(toStore).item.session = s, s \notin db.sessions, db' = db
  PROVE  ~Known(s)'
<1>1. /\ 1 \in DOMAIN toStore /\ Head(toStore) = toStore[1]
      /\ \A i \in DOMAIN toStore' :
           i \in Nat /\ i + 1 \in DOMAIN toStore /\ toStore'[i] = toStore[i + 1]
  BY Served
<1>2. ASSUME NEW j \in DOMAIN toStore', IsRegister(toStore'[j], s) PROVE FALSE
  <2>1. j \in Nat /\ j + 1 \in DOMAIN toStore /\ IsRegister(toStore[j + 1], s)
    BY <1>1, <1>2
  <2>2. j + 1 < 1
    BY <1>1, <2>1 DEF CallsOK
  <2> QED  BY <2>1, <2>2
<1> QED  BY <1>2 DEF Known

(* The next number of a table is nobody's, and its numbers only grow.      *)
LEMMA NewId ==
  ASSUME FilesOK, NEW table \in Tables, NEW m, Said(m, spoken), WithRow(table, m),
         NEW id, id = <<table, db.next[table]>>
  PROVE  /\ db' \in Files /\ db'.sessions = db.sessions /\ db'.vectors = db.vectors
         /\ db'.rows = db.rows \cup {[id |-> id, msg |-> m]}
         /\ embedding' = embedding \cup {[id |-> id, of |-> m]}
         /\ [id |-> id, msg |-> m] \in RowRecords /\ [id |-> id, of |-> m] \in Pairs
         /\ Given(id, db') /\ ~Given(id, db)
         /\ \A other : Given(other, db) => Given(other, db')
<1>1. /\ db' = [db EXCEPT !.rows = @ \cup {[id |-> id, msg |-> m]}, !.next[table] = @ + 1]
      /\ embedding' = embedding \cup {[id |-> id, of |-> m]}
  BY DEF WithRow
<1>2. /\ db \in Files /\ db.next \in [Tables -> Nat] /\ db.next[table] \in Nat
  BY DbFields DEF Files
<1>3. id \in Ids /\ id[1] = table /\ id[2] = db.next[table]
  BY <1>2 DEF Ids, Tables
<1>4. m \in Items
  BY DEF Said
<1>5. [id |-> id, msg |-> m] \in RowRecords /\ [id |-> id, of |-> m] \in Pairs
  BY <1>3, <1>4 DEF RowRecords, Pairs
<1>6. PICK row : row = [id |-> id, msg |-> m]
  OBVIOUS
<1>7. PICK numbers : numbers = [db.next EXCEPT ![table] = @ + 1]
  OBVIOUS
<1>8. /\ numbers \in [Tables -> Nat] /\ numbers[table] = db.next[table] + 1
      /\ \A t \in Tables : db.next[t] \in Nat /\ numbers[t] \in Nat /\ db.next[t] <= numbers[t]
  BY <1>2, <1>7
<1>9. db' = [db EXCEPT !.rows = @ \cup {row}, !.next = numbers]
  BY <1>1, <1>2, <1>6, <1>7 DEF Files
<1>10. /\ db'.sessions = db.sessions /\ db'.vectors = db.vectors
       /\ db'.rows = db.rows \cup {row} /\ db'.next = numbers
  BY <1>2, <1>9 DEF Files
<1>11. db' \in Files
  <2>1. db.rows \cup {row} \in SUBSET RowRecords
    BY <1>2, <1>5, <1>6 DEF Files
  <2> QED  BY <1>2, <1>8, <1>9, <2>1 DEF Files
<1>12. Given(id, db') /\ ~Given(id, db)
  BY <1>2, <1>3, <1>8, <1>10 DEF Given
<1>13. ASSUME NEW other, Given(other, db) PROVE Given(other, db')
  <2>1. other \in Ids /\ other[1] \in Tables /\ other[2] \in Nat
    BY <1>13 DEF Given, Ids, Tables
  <2>2. PICK n \in Nat, k \in Nat, l \in Nat :
          n = other[2] /\ k = db.next[other[1]] /\ l = numbers[other[1]]
    BY <1>8, <2>1
  <2>3. n < k /\ k <= l
    BY <1>8, <1>13, <2>1, <2>2 DEF Given
  <2>4. n < l
    BY <2>3
  <2> QED  BY <1>10, <2>1, <2>2, <2>4 DEF Given
<1> QED  BY <1>1, <1>5, <1>6, <1>10, <1>11, <1>12, <1>13

(* A message or lesson becomes a row of its own, with no vector yet.       *)
LEMMA RowStored ==
  ASSUME MemoryInv, Bounds, NEW table \in Tables, NEW m, WithRow(table, m),
         toStore # <<>>, toStore' = Tail(toStore), m = Head(toStore).item,
         IsAppend(Head(toStore)) \/ IsLessons(Head(toStore)),
         ~restored => ~Gone(m, cleared, overtaken),
         UNCHANGED <<owner, stage, ctx, spoken, now, extracting, dump, pendingDb,
                     historyVars>>
  PROVE  MemoryInv'
<1>1. /\ RuntimeOK /\ CallsOK /\ FilesOK /\ Grown
      /\ ~restored => TablesErased /\ QueueErased /\ Saved
  BY SilenceGrows DEF MemoryInv
<1>2. UNCHANGED <<cleared, overtaken, lost, restored, ctx, extracting>>
  BY DEF historyVars
<1>3. RuntimeOK' /\ CallsOK'
  BY <1>1, RuntimeStays, ServedCalls
<1>4. Said(m, spoken)
  <2>1. 1 \in DOMAIN toStore /\ Head(toStore) = toStore[1]
    BY <1>1, Served
  <2> QED  BY <1>1, <2>1 DEF CallsOK
<1>5. PICK id : id = <<table, db.next[table]>>
  OBVIOUS
<1>6. PICK row, e : row = [id |-> id, msg |-> m] /\ e = [id |-> id, of |-> m]
  OBVIOUS
<1>7. /\ db' \in Files /\ db'.sessions = db.sessions /\ db'.vectors = db.vectors
      /\ db'.rows = db.rows \cup {row} /\ embedding' = embedding \cup {e}
      /\ row.id = id /\ row.msg = m /\ e \in Pairs /\ e.id = id /\ e.of = m
      /\ Given(id, db') /\ ~Given(id, db)
      /\ \A other : Given(other, db) => Given(other, db')
  BY <1>1, <1>4, <1>5, <1>6, NewId
<1>8. FileOK(db)'
  BY <1>1, <1>4, <1>7 DEF FilesOK, FileOK
<1>9. EmbeddingOK'
  BY <1>1, <1>4, <1>7 DEF FilesOK, FileOK, EmbeddingOK
<1>10. FilesOK'
  BY <1>1, <1>8, <1>9 DEF FilesOK, FileOK
<1>11. ASSUME ~restored PROVE TablesErased' /\ QueueErased' /\ Saved'
  <2>1. TablesErased'
    <3>1. \A i \in Stored' : i \in Stored \/ i = m
      BY <1>7 DEF Stored
    <3>2. \A i \in Stored' : ~Gone(i, cleared', overtaken')
      BY <1>1, <1>2, <1>11, <3>1 DEF TablesErased
    <3>3. \A p : HasRow(p) => HasRow(p)'
      BY <1>2, <1>7 DEF HasRow
    <3>4. HasRow(e)'
      BY <1>7 DEF HasRow
    <3> QED  BY <1>1, <1>2, <1>7, <1>11, <3>2, <3>3, <3>4 DEF TablesErased
  <2>2. Registering
    BY <1>7 DEF Registering
  <2>3. \A x : Safe(x) => Safe(x)'
    <3> SUFFICES ASSUME NEW x, Safe(x) PROVE Safe(x)'
      OBVIOUS
    <3>1. CASE x = m
      <4>1. \E r \in db'.rows : r.msg = m
        BY <1>7
      <4> QED  BY <3>1, <4>1 DEF Safe
    <3>2. CASE x # m
      BY <1>1, <1>2, <1>7, <3>2, ServedSafe
    <3> QED  BY <3>1, <3>2
  <2>4. QueueErased'
    BY <1>1, <1>2, <1>11, <2>2, ServedQueue
  <2>5. Saved'
    BY <1>1, <1>2, <1>11, <2>2, <2>3, ServedKnown, SavedStays
  <2> QED  BY <2>1, <2>4, <2>5
<1> QED  BY <1>2, <1>3, <1>10, <1>11 DEF MemoryInv

LEMMA AppendMessageStep == ASSUME MemoryInv, Bounds, AppendMessage PROVE MemoryInv'
<1>1. /\ RuntimeOK /\ CallsOK /\ FilesOK /\ Grown
      /\ ~restored => TablesErased /\ QueueErased /\ Saved
  BY SilenceGrows DEF MemoryInv, AppendMessage
<1>2. /\ toStore # <<>> /\ toStore' = Tail(toStore) /\ IsAppend(Head(toStore))
      /\ UNCHANGED <<owner, stage, ctx, spoken, now, extracting, dump, pendingDb,
                     historyVars>>
  BY DEF AppendMessage, IsAppend
<1>3. UNCHANGED <<cleared, overtaken, lost, restored, ctx, extracting>>
  BY <1>2 DEF historyVars
<1>4. RuntimeOK' /\ CallsOK'
  BY <1>1, <1>2, RuntimeStays, ServedCalls
<1>5. PICK m : m = Head(toStore).item
  OBVIOUS
<1>6. /\ Said(m, spoken) /\ m \in Items
      /\ ~restored /\ Gone(m, cleared, overtaken) => m.session \notin db.sessions
  <2>1. 1 \in DOMAIN toStore /\ Head(toStore) = toStore[1]
    BY <1>1, <1>2, Served
  <2> QED  BY <1>1, <1>2, <1>5, <2>1 DEF CallsOK, QueueErased, Refused, Said
<1>7. CASE m.session \in db.sessions
  <2>1. WithRow("messages", m)
    BY <1>5, <1>7 DEF AppendMessage
  <2>2. ~restored => ~Gone(m, cleared, overtaken)
    BY <1>6, <1>7
  <2> QED  BY <1>2, <1>5, <2>1, <2>2, RowStored DEF Tables
<1>8. CASE m.session \notin db.sessions
  <2>1. db' = db /\ embedding' = embedding
    BY <1>5, <1>8 DEF AppendMessage
  <2>2. FilesOK'
    BY <1>1, <1>2, <2>1, FilesStay DEF storeVars
  <2>3. ASSUME ~restored PROVE TablesErased' /\ QueueErased' /\ Saved'
    <3>1. TablesErased'
      BY <1>1, <1>3, <2>1, <2>3 DEF TablesErased, Stored, HasRow
    <3>2. Registering
      BY <2>1 DEF Registering
    <3>3. ~Known(m.session)'
      BY <1>1, <1>2, <1>5, <1>8, <2>1, RefusedUnknown DEF Known
    <3>4. \A x : Safe(x) /\ Known(x.session)' => Safe(x)'
      <4> SUFFICES ASSUME NEW x, Safe(x), Known(x.session)' PROVE Safe(x)'
        OBVIOUS
      <4>1. x # m
        BY <3>3
      <4> QED  BY <1>1, <1>2, <1>3, <1>5, <2>1, <4>1, ServedSafe
    <3>5. QueueErased'
      BY <1>1, <1>2, <1>3, <2>3, <3>2, ServedQueue
    <3>6. Saved'
      BY <1>1, <1>2, <1>3, <2>3, <3>2, <3>4, ServedKnown, SavedStays
    <3> QED  BY <3>1, <3>5, <3>6
  <2> QED  BY <1>3, <1>4, <2>2, <2>3 DEF MemoryInv
<1> QED  BY <1>7, <1>8

LEMMA StoreLessonsStep == ASSUME MemoryInv, Bounds, StoreLessons PROVE MemoryInv'
<1>1. /\ RuntimeOK /\ CallsOK /\ FilesOK /\ Grown
      /\ ~restored => TablesErased /\ QueueErased /\ Saved
  BY SilenceGrows DEF MemoryInv, StoreLessons
<1>2. /\ toStore # <<>> /\ toStore' = Tail(toStore) /\ IsLessons(Head(toStore))
      /\ UNCHANGED <<owner, stage, ctx, spoken, now, extracting, dump, pendingDb,
                     historyVars>>
  BY DEF StoreLessons, IsLessons
<1>3. UNCHANGED <<cleared, overtaken, lost, restored, ctx, extracting>>
  BY <1>2 DEF historyVars
<1>4. PICK l : l = Head(toStore).item
  OBVIOUS
<1>5. ~restored => ~Gone(l, cleared, overtaken)
  <2>1. 1 \in DOMAIN toStore /\ Head(toStore) = toStore[1]
    BY <1>1, <1>2, Served
  <2> QED  BY <1>1, <1>2, <1>4, <2>1 DEF QueueErased
<1>6. CASE WithRow("lessons", l)
  BY <1>2, <1>4, <1>5, <1>6, RowStored DEF Tables
<1>7. CASE UNCHANGED <<db, embedding>>
  <2>1. FilesOK'
    BY <1>1, <1>2, <1>7, FilesStay DEF storeVars
  <2>2. RuntimeOK' /\ CallsOK'
    BY <1>1, <1>2, RuntimeStays, ServedCalls
  <2>3. ASSUME ~restored PROVE TablesErased' /\ QueueErased' /\ Saved'
    <3>1. TablesErased'
      BY <1>1, <1>3, <1>7, <2>3 DEF TablesErased, Stored, HasRow
    <3>2. Registering /\ ~IsAppend(Head(toStore))
      BY <1>2, <1>7 DEF Registering, IsAppend, IsLessons
    <3>3. QueueErased'
      BY <1>1, <1>2, <1>3, <2>3, <3>2, ServedQueue
    <3>4. \A m : Safe(m) => Safe(m)'
      BY <1>1, <1>2, <1>3, <1>7, <3>2, ServedSafe
    <3>5. Saved'
      BY <1>1, <1>2, <1>3, <2>3, <3>2, <3>4, ServedKnown, SavedStays
    <3> QED  BY <3>1, <3>3, <3>5
  <2> QED  BY <1>3, <2>1, <2>2, <2>3 DEF MemoryInv
<1> QED  BY <1>4, <1>6, <1>7 DEF StoreLessons

(* A call that fails leaves the store alone.                               *)
LEMMA CallLostStep == ASSUME MemoryInv, Bounds, CallLost PROVE MemoryInv'
<1>1. /\ RuntimeOK /\ CallsOK /\ FilesOK /\ Grown
      /\ ~restored => TablesErased /\ QueueErased /\ Saved
  BY SilenceGrows DEF MemoryInv, CallLost
<1>2. /\ toStore # <<>> /\ toStore' = Tail(toStore)
      /\ lost' = lost \cup {Head(toStore).item}
      /\ UNCHANGED <<owner, ctx, spoken, now, extracting, storeVars, cleared, overtaken,
                     restored>>
  BY DEF CallLost
<1>3. Head(toStore) \in CallRecords
  BY <1>1, <1>2, Served, Queue
<1>4. lost' \subseteq Items
  BY <1>1, <1>2, <1>3 DEF RuntimeOK, CallRecords
<1>5. stage' = stage \/ \E s \in Sessions : stage[s] = "loading"
                                           /\ stage' = [stage EXCEPT ![s] = "loaded"]
  BY <1>3 DEF CallLost, At, CallRecords, Items
<1>6. RuntimeOK'
  BY <1>1, <1>2, <1>4, <1>5 DEF RuntimeOK, OwnedBy
<1>7. CallsOK' /\ FilesOK'
  BY <1>1, <1>2, ServedCalls, FilesStay
<1>8. ASSUME ~restored PROVE TablesErased' /\ QueueErased' /\ Saved'
  <2>1. db' = db /\ embedding' = embedding
    BY <1>2 DEF storeVars
  <2>2. TablesErased'
    BY <1>1, <1>2, <1>8, <2>1 DEF TablesErased, Stored, HasRow
  <2>3. Registering
    BY <2>1 DEF Registering
  <2>4. QueueErased'
    BY <1>1, <1>2, <1>8, <2>3, ServedQueue
  <2>5. \A m : Safe(m) => Safe(m)'
    <3> SUFFICES ASSUME NEW m, Safe(m) PROVE Safe(m)'
      OBVIOUS
    <3>1. CASE m = Head(toStore).item
      BY <1>2, <3>1 DEF Safe
    <3> QED  BY <1>1, <1>2, <2>1, <3>1, ServedSafe
  <2>6. Saved'
    BY <1>1, <1>2, <1>8, <2>3, <2>5, ServedKnown, SavedStays
  <2> QED  BY <2>2, <2>4, <2>6
<1> QED  BY <1>2, <1>6, <1>7, <1>8 DEF MemoryInv

(* What a session starts with is its user's, and none of it its own.       *)
LEMMA RecentAreOwn ==
  ASSUME FilesOK, Bounds, NEW u, NEW recent \in RecentRows(u)
  PROVE  /\ Messages(recent) \in Seq(Items)
         /\ \A i \in DOMAIN Messages(recent) :
              Said(Messages(recent)[i], spoken) /\ OwnedBy(u, Messages(recent)[i])
<1> DEFINE mine == {r \in Rows("messages") : OwnedBy(u, r.msg)}
<1>1. PICK n \in 0..Limit : recent \in [1..n -> mine]
  BY DEF RecentRows, SeqOf
<1>2. n \in Nat /\ DOMAIN Messages(recent) = 1..n
  BY <1>1 DEF Bounds, Messages
<1>3. \A i \in 1..n : Messages(recent)[i] = recent[i].msg /\ recent[i] \in mine
  BY <1>1 DEF Messages
<1>4. \A r \in mine : r.msg \in Items /\ Said(r.msg, spoken) /\ OwnedBy(u, r.msg)
  BY DEF FilesOK, FileOK, Said, Rows
<1> HIDE DEF mine
<1>5. Messages(recent) = [i \in 1..n |-> recent[i].msg]
  BY <1>1 DEF Messages
<1>6. Messages(recent) \in Seq(Items)
  BY <1>2, <1>3, <1>4, <1>5
<1> QED  BY <1>2, <1>3, <1>4, <1>6

LEMMA GetRecentStep == ASSUME MemoryInv, Bounds, GetRecentMessages PROVE MemoryInv'
<1>1. /\ RuntimeOK /\ CallsOK /\ FilesOK /\ Grown
      /\ ~restored => TablesErased /\ QueueErased /\ Saved
  BY SilenceGrows DEF MemoryInv, GetRecentMessages
<1>2. /\ toStore # <<>> /\ toStore' = Tail(toStore) /\ ~IsAppend(Head(toStore))
      /\ UNCHANGED <<owner, spoken, now, extracting, storeVars, historyVars>>
  BY DEF GetRecentMessages, IsAppend
<1>3. UNCHANGED <<db, embedding, cleared, overtaken, lost, restored>>
  BY <1>2 DEF storeVars, historyVars
<1>4. Head(toStore) \in CallRecords
  BY <1>1, <1>2, Served, Queue
<1>5. PICK s \in Sessions : s = Head(toStore).item.session
  BY <1>4 DEF CallRecords, Items
<1>6. \/ UNCHANGED <<ctx, stage>>
      \/ /\ stage[s] = "loading" /\ stage' = [stage EXCEPT ![s] = "loaded"]
         /\ \E recent \in RecentRows(owner[s]) : ctx' = [ctx EXCEPT ![s] = Messages(recent)]
  BY <1>5 DEF GetRecentMessages, At
<1>7. /\ ctx' \in [Sessions -> Seq(Items)]
      /\ \A t \in Sessions :
           \/ ctx'[t] = ctx[t]
           \/ /\ t = s /\ spoken[s] = 0
              /\ \A i \in DOMAIN ctx'[t] :
                   Said(ctx'[t][i], spoken) /\ OwnedBy(owner[t], ctx'[t][i])
  <2>1. CASE UNCHANGED <<ctx, stage>>
    BY <1>1, <2>1 DEF RuntimeOK
  <2>2. ASSUME stage[s] = "loading", NEW recent \in RecentRows(owner[s]),
               ctx' = [ctx EXCEPT ![s] = Messages(recent)]
        PROVE  <1>7!:
    <3>1. /\ Messages(recent) \in Seq(Items)
          /\ \A i \in DOMAIN Messages(recent) :
               Said(Messages(recent)[i], spoken) /\ OwnedBy(owner[s], Messages(recent)[i])
      BY <1>1, <2>2, RecentAreOwn
    <3>2. ctx \in [Sessions -> Seq(Items)] /\ spoken[s] = 0
      BY <1>1, <2>2 DEF RuntimeOK
    <3> QED  BY <2>2, <3>1, <3>2
  <2> QED  BY <1>6, <2>1, <2>2
<1>8. /\ stage' \in [Sessions -> {"new", "loading", "loaded", "turn", "ready"}]
      /\ \A t \in Sessions : stage'[t] \in {"new", "loading"} => spoken'[t] = 0
  BY <1>1, <1>2, <1>6 DEF RuntimeOK
<1>9. RuntimeOK'
  <2>1. \A t \in Sessions : \A i \in DOMAIN ctx'[t] :
          Said(ctx'[t][i], spoken') /\ OwnedBy(owner[t], ctx'[t][i])
    BY <1>1, <1>2, <1>7 DEF RuntimeOK
  <2>2. \A t \in Sessions : \A i \in DOMAIN ctx'[t] :
          owner'[ctx'[t][i].session] = owner'[t]
    BY <1>2, <2>1 DEF OwnedBy
  <2>3. /\ owner' \in [Sessions -> Users] /\ spoken' \in [Sessions -> 0..MaxSaid]
        /\ now' \in Nat /\ cleared' \in [Sessions -> Nat]
        /\ \A t \in Sessions : cleared'[t] <= spoken'[t]
        /\ \A l \in extracting' : Said(l, spoken')
        /\ lost' \subseteq Items /\ overtaken' \subseteq Items /\ restored' \in BOOLEAN
    BY <1>1, <1>2, <1>3 DEF RuntimeOK
  <2> QED  BY <1>7, <1>8, <2>1, <2>2, <2>3 DEF RuntimeOK, OwnedBy
<1>10. CallsOK' /\ FilesOK'
  BY <1>1, <1>2, ServedCalls, FilesStay
<1>11. ASSUME ~restored PROVE TablesErased' /\ QueueErased' /\ Saved'
  <2>1. TablesErased'
    BY <1>1, <1>3, <1>11 DEF TablesErased, Stored, HasRow
  <2>2. Registering
    BY <1>3 DEF Registering
  <2>3. QueueErased'
    BY <1>1, <1>2, <1>3, <1>11, <2>2, ServedQueue
  <2>4. \A m : Safe(m) => Safe(m)'
    BY <1>1, <1>2, <1>3, ServedSafe
  <2>5. \A t : Known(t)' => Known(t)
    BY <1>1, <1>2, <2>2, ServedKnown
  <2>6. ASSUME NEW t \in Sessions, Known(t)', cleared[t] = 0, NEW i \in DOMAIN ctx'[t],
               NEW m, m = ctx'[t][i], m.session = t
        PROVE  Safe(m)'
    <3>1. ctx'[t] = ctx[t]
      BY <1>7, <2>6 DEF Said
    <3>2. Safe(ctx[t][i])
      BY <1>1, <1>11, <2>5, <2>6, <3>1 DEF Saved
    <3>3. Safe(m)
      BY <2>6, <3>1, <3>2
    <3> QED  BY <2>4, <3>3
  <2>7. Saved'
    BY <1>3, <2>6 DEF Saved, Safe
  <2> QED  BY <2>1, <2>3, <2>7
<1> QED  BY <1>3, <1>9, <1>10, <1>11 DEF MemoryInv

-----------------------------------------------------------------------------
(* The runtime.  What a new call may be: the words just said, a lesson     *)
(* from them, or the registration of a session that has said nothing yet.  *)
NewCall(c) ==
  /\ c \in CallRecords
  /\ IsAppend(c) \/ IsLessons(c) => /\ Said(c.item, spoken')
                                    /\ ~restored => ~Gone(c.item, cleared, overtaken)
  /\ c.op = "register" => /\ c = Register(c.item.session)
                          /\ spoken'[c.item.session] = 0

Sending ==
  \E k \in Nat :
    /\ toStore' \in Seq(CallRecords) /\ Len(toStore') = Len(toStore) + k
    /\ \A i \in 1..Len(toStore) : toStore'[i] = toStore[i]
    /\ \A i \in (Len(toStore) + 1)..(Len(toStore) + k) : NewCall(toStore'[i])

(* What a session has in its context was there, or is being sent.          *)
Remembered ==
  \A s \in Sessions : \A i \in DOMAIN ctx'[s] :
    \/ i \in DOMAIN ctx[s] /\ ctx'[s][i] = ctx[s][i]
    \/ \E j \in DOMAIN toStore' : IsAppend(toStore'[j]) /\ toStore'[j].item = ctx'[s][i]

LEMMA SentCalls ==
  ASSUME CallsOK, Grown, Sending
  PROVE  /\ CallsOK'
         /\ \A i \in DOMAIN toStore : i \in DOMAIN toStore' /\ toStore'[i] = toStore[i]
         /\ \A i \in DOMAIN toStore' : i \in DOMAIN toStore \/ NewCall(toStore'[i])
<1>1. PICK k \in Nat :
        /\ toStore' \in Seq(CallRecords) /\ Len(toStore') = Len(toStore) + k
        /\ \A i \in 1..Len(toStore) : toStore'[i] = toStore[i]
        /\ \A i \in (Len(toStore) + 1)..(Len(toStore) + k) : NewCall(toStore'[i])
  BY DEF Sending
<1>2. /\ Len(toStore) \in Nat /\ DOMAIN toStore = 1..Len(toStore)
      /\ DOMAIN toStore' = 1..(Len(toStore) + k)
  BY <1>1, Queue
<1>3. /\ \A i \in DOMAIN toStore : i \in DOMAIN toStore' /\ toStore'[i] = toStore[i]
      /\ \A i \in DOMAIN toStore' :
           i \in DOMAIN toStore \/ (i > Len(toStore) /\ NewCall(toStore'[i]))
  BY <1>1, <1>2
<1>4. \A m : Said(m, spoken) => Said(m, spoken')
  BY SaidStays
<1>5. ASSUME NEW i \in DOMAIN toStore'
      PROVE  /\ IsAppend(toStore'[i]) \/ IsLessons(toStore'[i]) =>
                  Said(toStore'[i].item, spoken')
             /\ toStore'[i].op = "register" =>
                  toStore'[i] = Register(toStore'[i].item.session)
  BY <1>3, <1>4 DEF CallsOK, NewCall
<1>6. ASSUME NEW i \in DOMAIN toStore', NEW j \in DOMAIN toStore',
             IsAppend(toStore'[i]), IsRegister(toStore'[j], toStore'[i].item.session)
      PROVE  j < i
  <2>1. Said(toStore'[i].item, spoken')
    BY <1>5, <1>6
  <2>2. spoken'[toStore'[i].item.session] # 0
    BY <2>1 DEF Said, Grown, Items
  <2>3. j \in DOMAIN toStore
    BY <1>3, <1>6, <2>2 DEF NewCall, IsRegister
  <2>4. CASE i \in DOMAIN toStore
    BY <1>3, <1>6, <2>3, <2>4 DEF CallsOK
  <2>5. CASE i \notin DOMAIN toStore
    BY <1>2, <1>3, <2>3, <2>5
  <2> QED  BY <2>4, <2>5
<1>7. CallsOK'
  BY <1>1, <1>5, <1>6 DEF CallsOK
<1> QED  BY <1>3, <1>7

LEMMA SendStep ==
  ASSUME MemoryInv, Bounds, RuntimeOK', Grown, Sending, Remembered,
         UNCHANGED <<owner, storeVars, historyVars>>,
         \A l \in extracting' : l \in extracting \/ restored
                                \/ ~Gone(l, cleared, overtaken)
  PROVE  MemoryInv'
<1>1. /\ RuntimeOK /\ CallsOK /\ FilesOK
      /\ ~restored => TablesErased /\ QueueErased /\ Saved
  BY DEF MemoryInv
<1>2. UNCHANGED <<db, embedding, cleared, overtaken, lost, restored>>
  BY DEF storeVars, historyVars
<1>3. /\ CallsOK'
      /\ \A i \in DOMAIN toStore : i \in DOMAIN toStore' /\ toStore'[i] = toStore[i]
      /\ \A i \in DOMAIN toStore' : i \in DOMAIN toStore \/ NewCall(toStore'[i])
  BY <1>1, SentCalls
<1>4. FilesOK'
  BY <1>1, FilesStay
<1>5. ASSUME ~restored PROVE TablesErased' /\ QueueErased' /\ Saved'
  <2>1. TablesErased'
    BY <1>1, <1>2, <1>5 DEF TablesErased, Stored, HasRow
  <2>2. ASSUME NEW i \in DOMAIN toStore', Gone(toStore'[i].item, cleared', overtaken')
        PROVE  ~IsLessons(toStore'[i]) /\ (IsAppend(toStore'[i]) => Refused(i)')
    <3>1. CASE i \in DOMAIN toStore
      <4>1. ~IsLessons(toStore[i]) /\ (IsAppend(toStore[i]) => Refused(i))
        BY <1>1, <1>2, <1>3, <1>5, <2>2, <3>1 DEF QueueErased
      <4>2. 1..i \subseteq DOMAIN toStore
        BY <1>1, <3>1, Queue
      <4> QED  BY <1>2, <1>3, <3>1, <4>1, <4>2 DEF Refused
    <3>2. CASE NewCall(toStore'[i])
      BY <1>2, <1>5, <2>2, <3>2 DEF NewCall
    <3> QED  BY <1>3, <3>1, <3>2
  <2>3. QueueErased'
    BY <1>1, <1>2, <1>5, <2>2 DEF QueueErased
  <2>4. \A m : Safe(m) => Safe(m)'
    BY <1>2, <1>3 DEF Safe
  <2>5. ASSUME NEW t \in Sessions, Known(t)', cleared[t] = 0, NEW i \in DOMAIN ctx'[t],
               NEW m, m = ctx'[t][i], m.session = t
        PROVE  Safe(m)'
    <3>1. Said(m, spoken')
      BY <2>5 DEF RuntimeOK
    <3>2. spoken'[t] # 0
      BY <2>5, <3>1 DEF Said, Grown
    <3>3. Known(t)
      BY <1>2, <1>3, <2>5, <3>2 DEF Known, NewCall, IsRegister
    <3>4. CASE i \in DOMAIN ctx[t] /\ ctx'[t][i] = ctx[t][i]
      <4>1. Safe(ctx[t][i])
        BY <1>1, <1>5, <2>5, <3>3, <3>4 DEF Saved
      <4> QED  BY <2>4, <2>5, <3>4, <4>1
    <3>5. CASE \E j \in DOMAIN toStore' : IsAppend(toStore'[j]) /\ toStore'[j].item = m
      BY <3>5 DEF Safe
    <3> QED  BY <2>5, <3>4, <3>5 DEF Remembered
  <2>6. Saved'
    BY <1>2, <2>5 DEF Saved, Safe
  <2> QED  BY <2>1, <2>3, <2>6
<1> QED  BY <1>2, <1>3, <1>4, <1>5 DEF MemoryInv

(* A step that sends nothing and leaves the contexts.                      *)
LEMMA SilentStep ==
  ASSUME MemoryInv, Bounds, RuntimeOK', UNCHANGED <<owner, ctx, spoken, toStore>>,
         UNCHANGED <<storeVars, historyVars>>, extracting' \subseteq extracting
  PROVE  MemoryInv'
<1>1. Grown /\ Remembered
  BY SilenceGrows DEF MemoryInv, Remembered
<1>2. Sending
  <2>1. Len(toStore) \in Nat /\ toStore' \in Seq(CallRecords) /\ toStore' = toStore
    BY Queue DEF MemoryInv, CallsOK
  <2>2. 0 \in Nat /\ (Len(toStore) + 1)..(Len(toStore) + 0) = {}
    BY <2>1
  <2>3. Len(toStore') = Len(toStore) + 0
    BY <2>1
  <2> QED  BY <2>1, <2>2, <2>3 DEF Sending
<1> QED  BY <1>1, <1>2, SendStep

LEMMA FirstMessageStep ==
  ASSUME MemoryInv, Bounds, NEW s \in Sessions, FirstMessage(s) PROVE MemoryInv'
<1>1. RuntimeOK /\ CallsOK
  BY DEF MemoryInv
<1>2. /\ stage[s] = "new" /\ toStore' = toStore \o <<Register(s), Recent(s)>>
      /\ stage' = [stage EXCEPT ![s] = "loading"]
      /\ UNCHANGED <<owner, ctx, spoken, now, extracting, storeVars, historyVars>>
  BY DEF FirstMessage, At
<1>3. /\ Register(s) \in CallRecords /\ Recent(s) \in CallRecords
      /\ Register(s).op = "register" /\ Register(s).item.session = s
      /\ Recent(s).op = "recent"
  BY DEF Register, Recent, CallRecords, Ops, Items, Item, Bounds
<1>4. PICK more : more = <<Register(s), Recent(s)>>
  OBVIOUS
<1>5. /\ more \in Seq(CallRecords) /\ Len(more) = 2
      /\ more[1] = Register(s) /\ more[2] = Recent(s)
  BY <1>3, <1>4
<1>6. Len(toStore) \in Nat /\ toStore \in Seq(CallRecords)
  BY <1>1, Queue DEF CallsOK
<1>7. /\ toStore' \in Seq(CallRecords) /\ Len(toStore') = Len(toStore) + 2
      /\ \A i \in 1..Len(toStore) : toStore'[i] = toStore[i]
      /\ \A i \in (Len(toStore) + 1)..(Len(toStore) + 2) :
           toStore'[i] = more[i - Len(toStore)]
  BY <1>2, <1>4, <1>5, <1>6, ConcatProperties
<1>8. spoken'[s] = 0
  BY <1>1, <1>2 DEF RuntimeOK
<1>9. NewCall(Register(s)) /\ NewCall(Recent(s))
  BY <1>3, <1>8 DEF NewCall, IsAppend, IsLessons
<1>10. \A i \in (Len(toStore) + 1)..(Len(toStore) + 2) : NewCall(toStore'[i])
  <2> TAKE i \in (Len(toStore) + 1)..(Len(toStore) + 2)
  <2>1. i - Len(toStore) = 1 \/ i - Len(toStore) = 2
    BY <1>6
  <2> QED  BY <1>5, <1>7, <1>9, <2>1
<1>11. Sending
  BY <1>7, <1>10 DEF Sending
<1>12. RuntimeOK'
  BY <1>1, <1>2, <1>8 DEF RuntimeOK, OwnedBy, historyVars
<1>13. Grown /\ Remembered
  BY <1>1, <1>2, SilenceGrows DEF Remembered
<1> QED  BY <1>2, <1>11, <1>12, <1>13, SendStep

LEMMA WaitingSteps ==
  ASSUME MemoryInv, Bounds, NEW s \in Sessions, RecentTimesOut(s) \/ RunThrows(s)
  PROVE  MemoryInv'
<1>1. /\ stage' = [stage EXCEPT ![s] = "loaded"] \/ stage' = [stage EXCEPT ![s] = "ready"]
      /\ UNCHANGED <<owner, ctx, spoken, now, toStore, extracting, storeVars, historyVars>>
  BY DEF RecentTimesOut, RunThrows, At
<1>2. RuntimeOK'
  BY <1>1 DEF MemoryInv, RuntimeOK, OwnedBy, historyVars
<1> QED  BY <1>1, <1>2, SilentStep

LEMMA LessonsExtractedStep ==
  ASSUME MemoryInv, Bounds, NEW l \in extracting, LessonsExtracted(l) PROVE MemoryInv'
<1>1. /\ RuntimeOK /\ CallsOK
      /\ ~restored => ~Gone(l, cleared, overtaken)
  BY DEF MemoryInv, QueueErased
<1>2. /\ extracting' = extracting \ {l}
      /\ toStore' = toStore \/ toStore' = Append(toStore, Lessons(l))
      /\ UNCHANGED <<owner, stage, ctx, spoken, now, storeVars, historyVars>>
  BY DEF LessonsExtracted
<1>3. RuntimeOK'
  BY <1>1, <1>2 DEF RuntimeOK, OwnedBy, historyVars
<1>4. CASE toStore' = toStore
  BY <1>2, <1>3, <1>4, SilentStep
<1>5. CASE toStore' = Append(toStore, Lessons(l))
  <2>1. Grown /\ Remembered
    BY <1>1, <1>2, SilenceGrows DEF Remembered
  <2>2. Said(l, spoken) /\ l \in Items /\ Said(l, spoken')
    BY <1>1, <1>2 DEF RuntimeOK, Said
  <2>3. Lessons(l) \in CallRecords /\ Lessons(l).op = "lessons" /\ Lessons(l).item = l
    BY <2>2 DEF Lessons, CallRecords, Ops
  <2>4. NewCall(Lessons(l))
    BY <1>1, <2>2, <2>3 DEF NewCall
  <2>5. Len(toStore) \in Nat /\ toStore \in Seq(CallRecords)
    BY <1>1, Queue DEF CallsOK
  <2>6. /\ toStore' \in Seq(CallRecords) /\ Len(toStore') = Len(toStore) + 1
        /\ \A i \in 1..Len(toStore) : toStore'[i] = toStore[i]
        /\ toStore'[Len(toStore) + 1] = Lessons(l)
    BY <1>5, <2>3, <2>5, AppendProperties
  <2>7. \A i \in (Len(toStore) + 1)..(Len(toStore) + 1) : NewCall(toStore'[i])
    BY <2>4, <2>5, <2>6
  <2>8. Sending
    BY <2>6, <2>7 DEF Sending
  <2> QED  BY <1>2, <1>3, <2>1, <2>8, SendStep
<1> QED  BY <1>2, <1>4, <1>5

(* The words of a handler: as many items more in the context and among the *)
(* calls, numbered from where the session stood.                           *)
LEMMA SayEffect ==
  ASSUME MemoryInv, Bounds, NEW s \in Sessions, stage[s] \notin {"new", "loading"},
         NEW roles \in Seq(Spoken), Len(roles) > 0, Say(s, roles), UNCHANGED owner
  PROVE  /\ Grown /\ Sending /\ Remembered /\ now' \in Nat
         /\ spoken' \in [Sessions -> 0..MaxSaid] /\ spoken'[s] > spoken[s]
         /\ \A t \in Sessions : t # s => spoken'[t] = spoken[t]
         /\ ctx' \in [Sessions -> Seq(Items)]
         /\ \A t \in Sessions : \A i \in DOMAIN ctx'[t] :
              Said(ctx'[t][i], spoken') /\ owner[ctx'[t][i].session] = owner[t]
<1>0. PICK n : n = Len(roles)
  OBVIOUS
<1>1. /\ RuntimeOK /\ CallsOK /\ n \in Nat /\ n > 0 /\ DOMAIN roles = 1..n
      /\ \A i \in 1..n : roles[i] \in Spoken
  BY <1>0 DEF MemoryInv
<1>2. /\ spoken[s] \in Nat /\ spoken \in [Sessions -> 0..MaxSaid] /\ MaxSaid \in Nat
      /\ spoken[s] + n <= MaxSaid /\ now' \in Nat
      /\ spoken' = [spoken EXCEPT ![s] = @ + n]
  BY <1>0, <1>1 DEF RuntimeOK, Bounds, Say
<1>3. /\ spoken' \in [Sessions -> 0..MaxSaid] /\ spoken'[s] = spoken[s] + n
      /\ \A t \in Sessions : t # s => spoken'[t] = spoken[t]
      /\ Grown
  BY <1>1, <1>2 DEF Grown
<1>4. PICK said : said = [i \in 1..n |-> Item(s, spoken[s] + i, roles[i], now')]
  OBVIOUS
<1>5. PICK sent : sent = [i \in 1..n |-> Append_(said[i])]
  OBVIOUS
<1>6. ctx' = [ctx EXCEPT ![s] = @ \o said] /\ toStore' = toStore \o sent
  <2>1. /\ said = [i \in DOMAIN roles |-> Item(s, spoken[s] + i, roles[i], now')]
        /\ DOMAIN said = 1..n
    BY <1>1, <1>4
  <2> QED  BY <1>5, <2>1 DEF Say
<1>7. \A i \in 1..n : /\ said[i] \in Items /\ said[i].session = s
                      /\ said[i].n = spoken[s] + i
  BY <1>1, <1>2, <1>4 DEF Item, Items, Spoken
<1>8. \A i \in 1..n : /\ Said(said[i], spoken') /\ said[i].session = s
                      /\ ~Gone(said[i], cleared, overtaken)
  BY <1>1, <1>2, <1>3, <1>7 DEF Said, Gone, RuntimeOK
<1>9. /\ sent \in Seq(CallRecords) /\ Len(sent) = n /\ DOMAIN sent = 1..n
      /\ \A i \in 1..n : /\ IsAppend(sent[i]) /\ sent[i].item = said[i]
                         /\ NewCall(sent[i])
  <2>1. \A i \in 1..n : /\ sent[i].op = "append" /\ sent[i].item = said[i]
                        /\ sent[i] \in CallRecords
    BY <1>5, <1>7 DEF Append_, CallRecords, Ops
  <2>2. sent \in [1..n -> CallRecords]
    BY <1>5, <2>1
  <2>3. sent \in Seq(CallRecords) /\ Len(sent) = n /\ DOMAIN sent = 1..n
    BY <1>1, <2>2
  <2> QED  BY <1>8, <2>1, <2>3 DEF NewCall, IsAppend, IsLessons
<1>10. said \in Seq(Items) /\ Len(said) = n /\ DOMAIN said = 1..n
  <2>1. said \in [1..n -> Items]
    BY <1>4, <1>7
  <2> QED  BY <1>1, <2>1
<1>11. Len(toStore) \in Nat /\ toStore \in Seq(CallRecords)
  BY <1>1, Queue DEF CallsOK
<1>12. /\ toStore' \in Seq(CallRecords) /\ Len(toStore') = Len(toStore) + n
       /\ \A i \in 1..Len(toStore) : toStore'[i] = toStore[i]
       /\ \A i \in (Len(toStore) + 1)..(Len(toStore) + n) :
            i - Len(toStore) \in 1..n /\ toStore'[i] = sent[i - Len(toStore)]
  <2>1. /\ toStore' \in Seq(CallRecords) /\ Len(toStore') = Len(toStore) + n
        /\ \A i \in 1..(Len(toStore) + n) : toStore'[i] =
             IF i <= Len(toStore) THEN toStore[i] ELSE sent[i - Len(toStore)]
    BY <1>6, <1>9, <1>11, ConcatProperties
  <2>2. ASSUME NEW i \in (Len(toStore) + 1)..(Len(toStore) + n)
        PROVE  i - Len(toStore) \in 1..n /\ i \in 1..(Len(toStore) + n) /\ i > Len(toStore)
    BY <1>1, <1>11
  <2>3. \A i \in 1..Len(toStore) : i \in 1..(Len(toStore) + n) /\ i <= Len(toStore)
    BY <1>1, <1>11
  <2> QED  BY <1>1, <1>11, <2>1, <2>2, <2>3
<1>13. Sending
  BY <1>1, <1>9, <1>12 DEF Sending
<1>14. /\ ctx[s] \in Seq(Items) /\ ctx' \in [Sessions -> Seq(Items)]
       /\ ctx'[s] = ctx[s] \o said
       /\ \A t \in Sessions : t # s => ctx'[t] = ctx[t]
  <2>1. ctx \in [Sessions -> Seq(Items)] /\ ctx[s] \o said \in Seq(Items)
    BY <1>1, <1>10 DEF RuntimeOK
  <2> QED  BY <1>6, <2>1
<1>15. \A i \in DOMAIN ctx'[s] :
         \/ i \in DOMAIN ctx[s] /\ ctx'[s][i] = ctx[s][i]
         \/ \E j \in 1..n : ctx'[s][i] = said[j]
  <2>a. PICK had : had = ctx[s]
    OBVIOUS
  <2>b. PICK have : have = had \o said
    OBVIOUS
  <2>c. had \in Seq(Items) /\ ctx'[s] = have
    BY <1>14, <2>a, <2>b
  <2>0. /\ Len(had) \in Nat /\ DOMAIN had = 1..Len(had)
        /\ have \in Seq(Items) /\ Len(have) = Len(had) + n
        /\ \A i \in 1..(Len(had) + n) :
             have[i] = IF i <= Len(had) THEN had[i] ELSE said[i - Len(had)]
    <3>1. said \in Seq(Items) /\ had \in Seq(Items)
      BY <1>10, <2>c
    <3>2. /\ had \o said \in Seq(Items) /\ Len(had \o said) = Len(had) + Len(said)
          /\ \A i \in 1..(Len(had) + Len(said)) : (had \o said)[i] =
               IF i <= Len(had) THEN had[i] ELSE said[i - Len(had)]
      BY <3>1, ConcatProperties, Zenon
    <3>3. Len(had) \in Nat /\ DOMAIN had = 1..Len(had)
      BY <3>1
    <3>4. Len(said) = n
      BY <1>10
    <3> QED  BY <2>b, <3>2, <3>3, <3>4
  <2>1. /\ Len(ctx[s]) \in Nat /\ DOMAIN ctx[s] = 1..Len(ctx[s])
        /\ DOMAIN ctx'[s] = 1..(Len(ctx[s]) + n)
        /\ \A i \in 1..(Len(ctx[s]) + n) :
             ctx'[s][i] = IF i <= Len(ctx[s]) THEN ctx[s][i] ELSE said[i - Len(ctx[s])]
    BY <2>0, <2>a, <2>c
  <2> TAKE i \in DOMAIN ctx'[s]
  <2>2. CASE i <= Len(ctx[s])
    BY <2>1, <2>2
  <2>3. CASE i > Len(ctx[s])
    <3>1. i - Len(ctx[s]) \in 1..n /\ ctx'[s][i] = said[i - Len(ctx[s])]
      BY <1>1, <2>1, <2>3
    <3> QED  BY <3>1
  <2> QED  BY <2>1, <2>2, <2>3
<1>16. \A j \in 1..n : \E i \in DOMAIN toStore' :
         IsAppend(toStore'[i]) /\ toStore'[i].item = said[j]
  <2> TAKE j \in 1..n
  <2>1. PICK i : i = Len(toStore) + j
    OBVIOUS
  <2>2. i \in DOMAIN toStore' /\ toStore'[i] = sent[j]
    BY <1>1, <1>11, <1>12, <2>1
  <2> QED  BY <1>9, <2>2
<1>17. Remembered
  <2> SUFFICES ASSUME NEW t \in Sessions, NEW i \in DOMAIN ctx'[t]
               PROVE  \/ i \in DOMAIN ctx[t] /\ ctx'[t][i] = ctx[t][i]
                      \/ \E j \in DOMAIN toStore' :
                           IsAppend(toStore'[j]) /\ toStore'[j].item = ctx'[t][i]
    BY DEF Remembered
  <2>1. CASE t # s
    BY <1>14, <2>1
  <2>2. CASE t = s
    BY <1>15, <1>16, <2>2
  <2> QED  BY <2>1, <2>2
<1>18. ASSUME NEW t \in Sessions, NEW i \in DOMAIN ctx'[t]
       PROVE  Said(ctx'[t][i], spoken') /\ owner[ctx'[t][i].session] = owner[t]
  <2>1. CASE i \in DOMAIN ctx[t] /\ ctx'[t][i] = ctx[t][i]
    BY <1>1, <1>3, <2>1, SaidStays DEF RuntimeOK, OwnedBy
  <2>2. CASE t = s /\ \E j \in 1..n : ctx'[t][i] = said[j]
    BY <1>8, <2>2
  <2>3. CASE t # s
    BY <1>14, <2>1, <2>3
  <2>4. CASE t = s
    BY <1>15, <2>1, <2>2, <2>4
  <2> QED  BY <2>3, <2>4
<1>19. spoken'[s] > spoken[s]
  BY <1>1, <1>2, <1>3
<1>20. /\ Grown /\ Sending /\ Remembered /\ now' \in Nat
       /\ spoken' \in [Sessions -> 0..MaxSaid] /\ spoken'[s] > spoken[s]
       /\ \A t \in Sessions : t # s => spoken'[t] = spoken[t]
       /\ ctx' \in [Sessions -> Seq(Items)]
  BY <1>2, <1>3, <1>13, <1>14, <1>17, <1>19, Zenon
<1> QED  BY <1>18, <1>20, Zenon

LEMMA SayStep ==
  ASSUME MemoryInv, Bounds, NEW s \in Sessions,
         UserMessage(s) \/ ToolTurn(s) \/ FinalTurn(s)
  PROVE  MemoryInv'
<1>1. PICK roles \in Seq(Spoken) : Len(roles) > 0 /\ Say(s, roles)
  <2>1. /\ "user" \in Spoken /\ "assistant" \in Spoken /\ "tool" \in Spoken
    BY DEF Spoken
  <2>2. <<"user">> \in Seq(Spoken) /\ Len(<<"user">>) > 0
    BY <2>1
  <2>3. <<"assistant", "tool">> \in Seq(Spoken) /\ Len(<<"assistant", "tool">>) > 0
    BY <2>1
  <2>4. <<"assistant">> \in Seq(Spoken) /\ Len(<<"assistant">>) > 0
    BY <2>1
  <2>5. Say(s, <<"user">>) \/ Say(s, <<"assistant", "tool">>) \/ Say(s, <<"assistant">>)
    BY Zenon DEF UserMessage, ToolTurn, FinalTurn
  <2> QED  BY <2>2, <2>3, <2>4, <2>5, Zenon
<1>2. /\ stage[s] \notin {"new", "loading"} /\ UNCHANGED <<owner, storeVars, historyVars>>
      /\ \/ stage' = stage
         \/ stage' = [stage EXCEPT ![s] = "turn"]
         \/ stage' = [stage EXCEPT ![s] = "ready"]
  BY DEF UserMessage, ToolTurn, FinalTurn, At
<1>3. /\ Grown /\ Sending /\ Remembered /\ now' \in Nat
      /\ spoken' \in [Sessions -> 0..MaxSaid] /\ spoken'[s] > spoken[s]
      /\ \A t \in Sessions : t # s => spoken'[t] = spoken[t]
      /\ ctx' \in [Sessions -> Seq(Items)]
      /\ \A t \in Sessions : \A i \in DOMAIN ctx'[t] :
           Said(ctx'[t][i], spoken') /\ owner[ctx'[t][i].session] = owner[t]
  BY <1>1, <1>2, SayEffect
<1>4. RuntimeOK /\ MaxSaid \in Nat
  BY DEF MemoryInv, Bounds
<1>5. PICK lesson : lesson = Item(s, spoken'[s], "lesson", 0)
  OBVIOUS
<1>6. /\ lesson \in Items /\ lesson.session = s /\ lesson.n = spoken'[s]
      /\ spoken'[s] \in Nat /\ spoken[s] \in Nat
  BY <1>3, <1>4, <1>5 DEF Item, Items, RuntimeOK
<1>7. Said(lesson, spoken') /\ ~Gone(lesson, cleared, overtaken)
  BY <1>3, <1>4, <1>6 DEF Said, Gone, RuntimeOK
<1>8. extracting' \subseteq extracting \cup {lesson}
  BY <1>5 DEF UserMessage, ToolTurn, FinalTurn
<1>9. RuntimeOK'
  <2>1. \A l \in extracting' : Said(l, spoken')
    BY <1>3, <1>4, <1>7, <1>8, SaidStays DEF RuntimeOK
  <2>2. \A t \in Sessions : cleared'[t] <= spoken'[t]
    BY <1>2, <1>3, <1>4 DEF RuntimeOK, historyVars, Grown
  <2>3. /\ stage' \in [Sessions -> {"new", "loading", "loaded", "turn", "ready"}]
        /\ \A t \in Sessions : stage'[t] \in {"new", "loading"} => spoken'[t] = 0
    BY <1>2, <1>3, <1>4 DEF RuntimeOK
  <2>4. /\ owner' \in [Sessions -> Users] /\ cleared' \in [Sessions -> Nat]
        /\ lost' \subseteq Items /\ overtaken' \subseteq Items /\ restored' \in BOOLEAN
    BY <1>2, <1>4 DEF RuntimeOK, historyVars
  <2>5. \A t \in Sessions : \A i \in DOMAIN ctx'[t] :
          Said(ctx'[t][i], spoken') /\ owner'[ctx'[t][i].session] = owner'[t]
    BY <1>2, <1>3
  <2> QED  BY <1>3, <2>1, <2>2, <2>3, <2>4, <2>5 DEF RuntimeOK, OwnedBy
<1> QED  BY <1>2, <1>3, <1>7, <1>8, <1>9, SendStep

-----------------------------------------------------------------------------
(* Embeddings, dumps and restarts: the rows and the runtime stay.          *)
LEMMA RowsStay ==
  ASSUME MemoryInv, Bounds, UNCHANGED <<runtimeVars, historyVars>>,
         db'.rows = db.rows, db'.sessions = db.sessions, FilesOK',
         ~restored => TablesErased'
  PROVE  MemoryInv'
<1>1. /\ RuntimeOK /\ CallsOK /\ FilesOK /\ Grown
      /\ ~restored => TablesErased /\ QueueErased /\ Saved
  BY SilenceGrows DEF MemoryInv, runtimeVars
<1>2. /\ UNCHANGED <<owner, stage, ctx, spoken, now, extracting, toStore>>
      /\ UNCHANGED <<lost, cleared, overtaken, restored>>
  BY DEF runtimeVars, historyVars
<1>3. RuntimeOK'
  BY <1>1, <1>2, RuntimeStays DEF historyVars
<1>4. CallsOK'
  BY <1>1, <1>2 DEF CallsOK
<1>5. ASSUME ~restored PROVE QueueErased' /\ Saved'
  <2>1. QueueErased'
    BY <1>1, <1>2, <1>5 DEF QueueErased, Refused
  <2>2. \A s : Known(s)' => Known(s)
    BY <1>2 DEF Known
  <2>3. \A m : Safe(m) => Safe(m)'
    BY <1>2 DEF Safe
  <2> QED  BY <1>1, <1>2, <1>5, <2>1, <2>2, <2>3, SavedStays
<1> QED  BY <1>2, <1>3, <1>4, <1>5 DEF MemoryInv

LEMMA EmbeddedStep ==
  ASSUME MemoryInv, Bounds, NEW e \in embedding, Embedded(e) PROVE MemoryInv'
<1>1. /\ FilesOK /\ (~restored => TablesErased)
      /\ e \in Pairs /\ Given(e.id, db) /\ Said(e.of, spoken)
      /\ \A r \in db.rows : e.id = r.id => e.of = r.msg
  BY DEF MemoryInv, FilesOK, EmbeddingOK
<1>2. /\ embedding' = embedding \ {e}
      /\ UNCHANGED <<runtimeVars, dump, pendingDb, historyVars>>
      /\ \/ db' = [db EXCEPT !.vectors = {v \in @ : v.id # e.id} \cup {e}]
         \/ db' = db
  BY DEF Embedded
<1>3. spoken' = spoken /\ cleared' = cleared /\ overtaken' = overtaken
  BY <1>2 DEF runtimeVars, historyVars
<1>4. /\ db' \in Files /\ db'.rows = db.rows
      /\ db'.sessions = db.sessions /\ db'.next = db.next
      /\ \A v \in db'.vectors : v \in db.vectors \/ v = e
  <2>1. {v \in db.vectors : v.id # e.id} \cup {e} \in SUBSET Pairs
    BY <1>1, DbFields DEF Files
  <2> QED  BY <1>1, <1>2, <2>1, DbFields DEF Files
<1>5. FilesOK'
  <2>1. FileOK(db)'
    BY <1>1, <1>3, <1>4 DEF FilesOK, FileOK, Given
  <2>2. EmbeddingOK'
    BY <1>1, <1>2, <1>3, <1>4 DEF FilesOK, EmbeddingOK, Given
  <2> QED  BY <1>1, <1>2, <1>3, <2>1, <2>2 DEF FilesOK, FileOK
<1>6. ASSUME ~restored PROVE TablesErased'
  <2>1. \A i \in Stored' : i \in Stored \/ i = e.of
    BY <1>4 DEF Stored
  <2>2. \A p : HasRow(p) => HasRow(p)'
    BY <1>3, <1>4 DEF HasRow
  <2> QED  BY <1>1, <1>2, <1>3, <1>4, <1>6, <2>1, <2>2 DEF TablesErased
<1> QED  BY <1>2, <1>4, <1>5, <1>6, RowsStay

LEMMA DumpSteps ==
  ASSUME MemoryInv, Bounds, DumpState \/ RestoreState PROVE MemoryInv'
<1>1. /\ UNCHANGED <<runtimeVars, db, embedding, historyVars>>
      /\ dump' = db \/ dump' = dump
      /\ pendingDb' = pendingDb \/ (dump # NoDump /\ pendingDb' = dump)
  BY DEF DumpState, RestoreState
<1>2. UNCHANGED <<spoken, cleared, overtaken>>
  BY <1>1 DEF runtimeVars, historyVars
<1>3. FilesOK /\ (~restored => TablesErased)
  BY DEF MemoryInv
<1>4. FilesOK'
  BY <1>1, <1>2, <1>3 DEF FilesOK, FileOK, EmbeddingOK
<1>5. ~restored => TablesErased'
  BY <1>1, <1>2, <1>3 DEF TablesErased, Stored, HasRow
<1> QED  BY <1>1, <1>4, <1>5, RowsStay

LEMMA RestartStep == ASSUME MemoryInv, Bounds, Restart PROVE MemoryInv'
<1>1. /\ embedding' = {} /\ pendingDb' = NoDump
      /\ db' = IF pendingDb = NoDump THEN db ELSE pendingDb
      /\ restored' = (restored \/ pendingDb # NoDump)
      /\ UNCHANGED <<runtimeVars, dump, lost, cleared, overtaken>>
  BY DEF Restart
<1>2. FilesOK /\ RuntimeOK /\ CallsOK /\ (~restored => TablesErased)
  BY DEF MemoryInv
<1>3. UNCHANGED <<owner, stage, ctx, spoken, now, extracting, toStore>>
  BY <1>1 DEF runtimeVars
<1>4. FilesOK'
  BY <1>1, <1>2, <1>3 DEF FilesOK, FileOK, EmbeddingOK
<1>5. CASE pendingDb = NoDump
  <2>1. db' = db
    BY <1>1, <1>5
  <2>2. restored' = restored
    BY <1>1, <1>2, <1>5, Zenon DEF RuntimeOK
  <2>3. ~restored => TablesErased'
    BY <1>1, <1>2, <2>1 DEF TablesErased, Stored, HasRow
  <2>4. UNCHANGED historyVars
    BY <1>1, <2>2 DEF historyVars
  <2> QED  BY <1>1, <1>4, <2>1, <2>3, <2>4, RowsStay
<1>6. CASE pendingDb # NoDump
  <2>1. restored'
    BY <1>1, <1>6
  <2>2. RuntimeOK'
    <3>1. restored' \in BOOLEAN
      BY <2>1, Zenon
    <3> QED  BY <1>1, <1>2, <1>3, <3>1 DEF RuntimeOK, OwnedBy
  <2>3. CallsOK'
    BY <1>2, <1>3 DEF CallsOK
  <2> QED  BY <1>4, <2>1, <2>2, <2>3 DEF MemoryInv
<1> QED  BY <1>5, <1>6

-----------------------------------------------------------------------------
(* An erasure.  What was there of other users stays; what is on its way of *)
(* this one has been overtaken, or will be refused.                        *)
LEMMA DeleteUserDataStep ==
  ASSUME MemoryInv, Bounds, NEW u \in Users, DeleteUserData(u) PROVE MemoryInv'
<1>1. /\ RuntimeOK /\ CallsOK /\ FilesOK
      /\ ~restored => TablesErased /\ QueueErased /\ Saved
  BY DEF MemoryInv
<1>2. /\ UNCHANGED <<owner, stage, ctx, spoken, now, extracting, toStore>>
      /\ UNCHANGED <<embedding, dump, pendingDb, lost, restored>>
      /\ cleared' = [s \in Sessions |-> IF owner[s] = u THEN spoken[s] ELSE cleared[s]]
      /\ overtaken' = overtaken \cup {i \in UnderWay : OwnedBy(u, i)}
      /\ db' = WithoutUser(u)
  BY DEF DeleteUserData, runtimeVars
<1>3. /\ db' \in Files /\ db'.next = db.next
      /\ \A r : r \in db'.rows <=> r \in db.rows /\ owner[r.msg.session] # u
      /\ \A v : v \in db'.vectors <=>
           /\ v \in db.vectors
           /\ \A r \in db.rows : owner[r.msg.session] = u => v.id # r.id
      /\ \A s : s \in db'.sessions <=> s \in db.sessions /\ ~(s \in Sessions /\ owner[s] = u)
  <2>1. PICK ids : ids = {r.id : r \in {r \in db.rows : OwnedBy(u, r.msg)}}
    OBVIOUS
  <2>2. db' = [db EXCEPT !.vectors = {v \in @ : v.id \notin ids},
                         !.rows = {r \in @ : ~OwnedBy(u, r.msg)},
                         !.sessions = @ \ SessionsOf(u)]
    BY <1>2, <2>1 DEF WithoutUser
  <2>3. /\ db'.vectors = {v \in db.vectors : v.id \notin ids}
        /\ db'.sessions = db.sessions \ SessionsOf(u)
        /\ db'.rows = {r \in db.rows : ~OwnedBy(u, r.msg)}
        /\ db'.next = db.next
    BY <1>1, <2>2, DbFields DEF Files
  <2>4. /\ db'.vectors \in SUBSET Pairs
        /\ db'.sessions \in SUBSET Sessions /\ db'.rows \in SUBSET RowRecords
    BY <1>1, <2>3, DbFields DEF Files
  <2>5. db' \in Files
    BY <1>1, <2>2, <2>3, <2>4, DbFields DEF Files
  <2>6. \A v : v.id \in ids <=> \E r \in db.rows : owner[r.msg.session] = u /\ v.id = r.id
    BY <2>1 DEF OwnedBy
  <2> QED  BY <2>3, <2>5, <2>6 DEF SessionsOf, OwnedBy
<1>4. FilesOK'
  <2>1. FileOK(db)'
    BY <1>1, <1>2, <1>3 DEF FilesOK, FileOK, Given
  <2>2. EmbeddingOK'
    BY <1>1, <1>2, <1>3 DEF FilesOK, EmbeddingOK, Given
  <2> QED  BY <1>1, <1>2, <2>1, <2>2 DEF FilesOK, FileOK
<1>5. CallsOK'
  BY <1>1, <1>2 DEF CallsOK
<1>6. RuntimeOK'
  <2>1. UnderWay \subseteq Items
    <3>1. \A i \in DOMAIN toStore : toStore[i].item \in Items
      BY <1>1, Queue DEF CallRecords
    <3>2. extracting \subseteq Items
      BY <1>1 DEF RuntimeOK, Said
    <3>3. \A e \in embedding : e.of \in Items
      BY <1>1 DEF FilesOK, EmbeddingOK, Said
    <3> QED  BY <3>1, <3>2, <3>3 DEF UnderWay
  <2>2. overtaken' \subseteq Items
    BY <1>1, <1>2, <2>1 DEF RuntimeOK
  <2>3. /\ cleared' \in [Sessions -> Nat]
        /\ \A s \in Sessions : cleared'[s] <= spoken'[s]
    BY <1>1, <1>2 DEF RuntimeOK, Bounds
  <2> QED  BY <1>1, <1>2, <2>2, <2>3 DEF RuntimeOK, OwnedBy
<1>7. ASSUME ~restored PROVE TablesErased' /\ QueueErased' /\ Saved'
  <2>1. TablesErased /\ QueueErased /\ Saved
    BY <1>1, <1>7
  <2>2. \A s \in Sessions : /\ owner[s] = u => cleared'[s] = spoken[s]
                            /\ owner[s] # u => cleared'[s] = cleared[s]
    BY <1>2
  <2>3. \A i \in Items : owner[i.session] # u /\ ~Gone(i, cleared, overtaken) =>
          ~Gone(i, cleared', overtaken')
    BY <1>2, <2>2 DEF Gone, Items
  <2>4. \A i \in UnderWay : owner[i.session] = u => ~Gone(i, cleared', overtaken')
    BY <1>2 DEF Gone, OwnedBy
  <2>5. \A p \in embedding : p.of \in UnderWay /\ p.of \in Items
    BY <1>1 DEF UnderWay, FilesOK, EmbeddingOK, Said
  <2>6. \A p \in db.vectors : p.of \in Items
    BY <1>1 DEF FilesOK, FileOK, Said
  <2>7. ASSUME NEW p, HasRow(p),
               \A r \in db.rows : owner[r.msg.session] = u => p.id # r.id
        PROVE  HasRow(p)'
    BY <1>2, <1>3, <2>7 DEF HasRow
  <2>8. ASSUME NEW p \in db'.vectors PROVE HasRow(p)' /\ ~Gone(p.of, cleared', overtaken')
    <3>1. HasRow(p) /\ ~Gone(p.of, cleared, overtaken)
      BY <1>3, <2>1 DEF TablesErased, Stored
    <3>2. HasRow(p)'
      BY <1>3, <2>7, <3>1
    <3>3. CASE owner[p.of.session] # u
      <4>1. p.of \in Items
        BY <1>3, <2>6
      <4>2. ~Gone(p.of, cleared', overtaken')
        BY <2>3, <3>1, <3>3, <4>1
      <4> QED  BY <3>2, <4>2
    <3>4. CASE owner[p.of.session] = u
      <4>1. \A r \in db.rows : r.id = p.id => r.msg = p.of
        BY <1>1, <1>3 DEF FilesOK, FileOK
      <4>2. p.of \in overtaken
        BY <1>3, <3>1, <3>4, <4>1 DEF HasRow
      <4>3. p.of \in overtaken'
        BY <1>2, <4>2
      <4>4. ~Gone(p.of, cleared', overtaken')
        BY <4>3 DEF Gone
      <4> QED  BY <3>2, <4>4
    <3> QED  BY <3>2, <3>3, <3>4
  <2>9. ASSUME NEW p \in embedding PROVE HasRow(p)' /\ ~Gone(p.of, cleared', overtaken')
    <3>1. HasRow(p) /\ ~Gone(p.of, cleared, overtaken)
      BY <2>1 DEF TablesErased
    <3>2. ~Gone(p.of, cleared', overtaken')
      BY <2>3, <2>4, <2>5, <3>1
    <3>3. CASE owner[p.of.session] = u
      <4>1. p.of \in overtaken'
        BY <1>2, <2>5, <3>3 DEF OwnedBy
      <4> QED  BY <3>2, <4>1 DEF HasRow
    <3>4. CASE owner[p.of.session] # u
      <4>1. \A r \in db.rows : owner[r.msg.session] = u => p.id # r.id
        BY <1>1, <3>4 DEF FilesOK, EmbeddingOK
      <4> QED  BY <2>7, <3>1, <3>2, <4>1
    <3> QED  BY <3>3, <3>4
  <2>10. TablesErased'
    <3>1. \A r \in db'.rows : ~Gone(r.msg, cleared', overtaken')
      <4> TAKE r \in db'.rows
      <4>1. /\ owner[r.msg.session] # u /\ r.msg \in Items
            /\ ~Gone(r.msg, cleared, overtaken)
        BY <1>1, <1>3, <2>1 DEF TablesErased, Stored, FilesOK, FileOK, Said
      <4> QED  BY <2>3, <4>1
    <3>2. embedding' = embedding
      BY <1>2
    <3> QED  BY <2>8, <2>9, <3>1, <3>2 DEF TablesErased, Stored
  <2>11. \A l \in extracting' : ~Gone(l, cleared', overtaken')
    <3> SUFFICES ASSUME NEW l \in extracting PROVE ~Gone(l, cleared', overtaken')
      BY <1>2
    <3>1. l \in UnderWay /\ l \in Items /\ ~Gone(l, cleared, overtaken)
      BY <1>1, <2>1 DEF UnderWay, QueueErased, RuntimeOK, Said
    <3> QED  BY <2>3, <2>4, <3>1
  <2>12. ASSUME NEW i \in DOMAIN toStore, Gone(toStore[i].item, cleared', overtaken')
         PROVE  ~IsLessons(toStore[i]) /\ (IsAppend(toStore[i]) => Refused(i)')
    <3>1. PICK s \in Sessions : s = toStore[i].item.session
      BY <1>1, Queue DEF CallRecords, Items
    <3>2. toStore[i].item \in Items
      BY <1>1, Queue DEF CallRecords
    <3>3. CASE owner[s] # u
      <4>1. ~IsLessons(toStore[i]) /\ (IsAppend(toStore[i]) => Refused(i))
        BY <2>1, <2>3, <2>12, <3>1, <3>2, <3>3 DEF QueueErased
      <4> QED  BY <1>2, <1>3, <4>1 DEF Refused
    <3>4. CASE owner[s] = u
      <4>1. toStore[i].item \notin UnderWay
        BY <2>4, <2>12, <3>1, <3>4
      <4>2. /\ toStore[i].op # "lessons"
            /\ \A j \in 1..i : toStore[j] # Register(s)
        BY <3>1, <4>1 DEF UnderWay
      <4>3. \A j \in 1..i : ~IsRegister(toStore[j], s)
        <5> TAKE j \in 1..i
        <5>1. j \in DOMAIN toStore
          BY <1>1, Queue
        <5>2. toStore[j].op = "register" => toStore[j] = Register(toStore[j].item.session)
          BY <1>1, <5>1 DEF CallsOK
        <5> QED  BY <4>2, <5>2 DEF IsRegister
      <4>4. s \notin db'.sessions
        BY <1>3, <3>4
      <4> QED  BY <1>2, <3>1, <4>2, <4>3, <4>4 DEF Refused, IsLessons
    <3> QED  BY <3>3, <3>4
  <2>13. QueueErased'
    BY <1>2, <2>11, <2>12 DEF QueueErased
  <2>14. ASSUME NEW s \in Sessions, Known(s)', cleared'[s] = 0, NEW i \in DOMAIN ctx[s],
                NEW m, m = ctx[s][i], m.session = s
         PROVE  Safe(m)'
    <3>1. Said(m, spoken)
      BY <1>1, <2>14 DEF RuntimeOK
    <3>2. owner[s] # u
      BY <2>2, <2>14, <3>1 DEF Said
    <3>3. Known(s)
      BY <1>2, <1>3, <2>14 DEF Known
    <3>4. Safe(m)
      BY <2>1, <2>2, <2>14, <3>2, <3>3 DEF Saved
    <3> QED  BY <1>2, <1>3, <2>14, <3>2, <3>4 DEF Safe
  <2>15. Saved'
    BY <1>2, <2>14 DEF Saved, Safe
  <2> QED  BY <2>10, <2>13, <2>15
<1> QED  BY <1>2, <1>4, <1>5, <1>6, <1>7 DEF MemoryInv

-----------------------------------------------------------------------------
LEMMA MemoryInvInit == ASSUME Bounds, Init PROVE MemoryInv
<1>1. RuntimeOK
  <2>1. <<>> \in Seq(Items)
    OBVIOUS
  <2>2. /\ ctx \in [Sessions -> Seq(Items)] /\ spoken \in [Sessions -> 0..MaxSaid]
        /\ cleared \in [Sessions -> Nat]
        /\ stage \in [Sessions -> {"new", "loading", "loaded", "turn", "ready"}]
    BY <2>1 DEF Init, Bounds
  <2>3. \A s \in Sessions : spoken[s] = 0 /\ cleared[s] = 0
    BY DEF Init
  <2>4. \A s \in Sessions : ctx[s] = <<>>
    BY DEF Init
  <2>5. DOMAIN <<>> = {}
    OBVIOUS
  <2>6. \A s \in Sessions : DOMAIN ctx[s] = {}
    BY <2>4, <2>5
  <2>7. /\ owner \in [Sessions -> Users] /\ now \in Nat /\ restored \in BOOLEAN
        /\ extracting = {} /\ lost \subseteq Items /\ overtaken \subseteq Items
    BY DEF Init
  <2> QED  BY <2>2, <2>3, <2>6, <2>7 DEF RuntimeOK
<1>2. toStore = <<>> /\ DOMAIN toStore = {}
  BY DEF Init
<1>3. CallsOK
  BY <1>2 DEF CallsOK
<1>4. db = EmptyDb /\ embedding = {} /\ dump = NoDump /\ pendingDb = NoDump
  BY DEF Init
<1>5. db \in Files /\ db.rows = {} /\ db.vectors = {} /\ db.sessions = {}
  BY <1>4 DEF EmptyDb, Files, Tables
<1>6. FilesOK
  BY <1>4, <1>5 DEF FilesOK, FileOK, EmbeddingOK
<1>7. TablesErased /\ QueueErased /\ Saved
  BY <1>2, <1>4, <1>5 DEF Init, TablesErased, QueueErased, Saved, Stored, Known
<1> QED  BY <1>1, <1>3, <1>6, <1>7 DEF MemoryInv

LEMMA MemoryStutter ==
  ASSUME MemoryInv, Bounds, UNCHANGED memoryVars PROVE MemoryInv'
<1>1. UNCHANGED <<runtimeVars, historyVars, db, embedding, dump, pendingDb>>
  BY DEF memoryVars, storeVars
<1>2. UNCHANGED <<spoken, cleared, overtaken>>
  BY <1>1 DEF runtimeVars, historyVars
<1>3. FilesOK /\ (~restored => TablesErased)
  BY DEF MemoryInv
<1>4. FilesOK'
  BY <1>1, <1>2, <1>3 DEF FilesOK, FileOK, EmbeddingOK
<1>5. ~restored => TablesErased'
  BY <1>1, <1>2, <1>3 DEF TablesErased, Stored, HasRow
<1> QED  BY <1>1, <1>4, <1>5, RowsStay

LEMMA MemoryInvStep ==
  ASSUME MemoryInv, Bounds, [Next]_memoryVars PROVE MemoryInv'
<1>1. ASSUME NEW s \in Sessions,
             \/ FirstMessage(s) \/ RecentTimesOut(s) \/ UserMessage(s)
             \/ ToolTurn(s) \/ FinalTurn(s) \/ RunThrows(s)
      PROVE  MemoryInv'
  BY <1>1, FirstMessageStep, WaitingSteps, SayStep
<1>2. ASSUME NEW l \in extracting, LessonsExtracted(l) PROVE MemoryInv'
  BY <1>2, LessonsExtractedStep
<1>3. ASSUME StoreSession \/ AppendMessage \/ GetRecentMessages \/ StoreLessons
             \/ CallLost
      PROVE  MemoryInv'
  BY <1>3, StoreSessionStep, AppendMessageStep, GetRecentStep, StoreLessonsStep,
     CallLostStep
<1>4. ASSUME NEW e \in embedding, Embedded(e) PROVE MemoryInv'
  BY <1>4, EmbeddedStep
<1>5. ASSUME NEW u \in Users, DeleteUserData(u) PROVE MemoryInv'
  BY <1>5, DeleteUserDataStep
<1>6. ASSUME DumpState \/ RestoreState \/ Restart PROVE MemoryInv'
  BY <1>6, DumpSteps, RestartStep
<1>7. CASE UNCHANGED memoryVars
  BY <1>7, MemoryStutter
<1> QED  BY <1>1, <1>2, <1>3, <1>4, <1>5, <1>6, <1>7 DEF Next

(* Items on their way are accounted for at every moment, for any bounds.   *)
THEOREM MemoryInvariant == Bounds => (Spec => []MemoryInv)
<1> SUFFICES ASSUME Bounds PROVE Spec => []MemoryInv
  OBVIOUS
<1>1. Init => MemoryInv
  BY MemoryInvInit
<1>2. MemoryInv /\ [Next]_memoryVars => MemoryInv'
  BY MemoryInvStep
<1> QED  BY <1>1, <1>2, PTL DEF Spec

(* Every table, call and context has its type, in the file in use as in a  *)
(* dump and in one waiting to be put back.                                 *)
THEOREM MemoryTypeCorrect == Bounds => (Spec => []MemoryTypeOK)
<1> SUFFICES ASSUME Bounds PROVE Spec => []MemoryTypeOK
  OBVIOUS
<1>0. Spec => []MemoryInv
  BY MemoryInvariant
<1>1. MemoryInv => MemoryTypeOK
  <2> SUFFICES ASSUME MemoryInv PROVE MemoryTypeOK
    OBVIOUS
  <2>1. RuntimeOK /\ CallsOK /\ FilesOK
    BY DEF MemoryInv
  <2>2. cleared \in [Sessions -> 0..MaxSaid]
    <3>1. ASSUME NEW s \in Sessions PROVE cleared[s] \in 0..MaxSaid
      <4>1. /\ cleared[s] \in Nat /\ spoken[s] \in 0..MaxSaid /\ cleared[s] <= spoken[s]
        BY <2>1 DEF RuntimeOK
      <4> QED  BY <4>1 DEF Bounds
    <3> QED  BY <2>1, <3>1 DEF RuntimeOK
  <2>3. \A s \in Sessions : \A i \in DOMAIN ctx[s] : ctx[s][i] \in Items
    BY <2>1 DEF RuntimeOK, Said
  <2>4. extracting \subseteq Items
    BY <2>1 DEF RuntimeOK, Said
  <2>5. \A d : FileOK(d) => DbOK(d)
    BY DEF FileOK, DbOK, Said, Files, Given
  <2>6. \A d \in {db, dump, pendingDb} \ {NoDump} : DbOK(d)
    BY <2>1, <2>5 DEF FilesOK
  <2>7. \A e \in embedding : e.id \in Ids /\ e.of \in Items
    BY <2>1 DEF FilesOK, EmbeddingOK, Pairs
  <2>8. \A i \in DOMAIN toStore :
          toStore[i] \in [op : {"register", "recent", "append", "lessons"}, item : Items]
    BY <2>1, Queue DEF CallRecords, Ops
  <2> QED  BY <2>1, <2>2, <2>3, <2>4, <2>6, <2>7, <2>8 DEF MemoryTypeOK, RuntimeOK
<1> QED  BY <1>0, <1>1, PTL

(* memory.service.ts, agent-loop.ts: what a user had erased is gone, and   *)
(* no late vector of a message or a lesson becomes another row's; what was *)
(* said is stored, on its way or lost with its own call; and no session is *)
(* told what another user said.                                            *)
THEOREM MemoryAlwaysHolds == Bounds => (Spec => []MemoryHolds)
<1> SUFFICES ASSUME Bounds PROVE Spec => []MemoryHolds
  OBVIOUS
<1>0. Spec => []MemoryInv
  BY MemoryInvariant
<1>1. MemoryInv => MemoryHolds
  <2> SUFFICES ASSUME MemoryInv PROVE MemoryHolds
    OBVIOUS
  <2>1. ErasedIsGone
    BY DEF MemoryInv, TablesErased, Gone, ErasedIsGone
  <2>2. VectorsAreOwn
    BY DEF MemoryInv, FilesOK, FileOK, VectorsAreOwn
  <2>3. HistorySaved
    <3> SUFFICES ASSUME ~restored, NEW s \in db.sessions, cleared[s] = 0,
                        NEW i \in DOMAIN ctx[s], ctx[s][i].session = s
                 PROVE  Safe(ctx[s][i])
      BY Zenon DEF HistorySaved, Safe, IsAppend
    <3>1. s \in Sessions
      BY DbFields DEF MemoryInv, Files
    <3> QED  BY <3>1 DEF MemoryInv, Saved, Known
  <2>4. PriorIsOwn
    BY DEF MemoryInv, RuntimeOK, PriorIsOwn
  <2> QED  BY <2>1, <2>2, <2>3, <2>4 DEF MemoryHolds
<1> QED  BY <1>0, <1>1, PTL

-----------------------------------------------------------------------------
(***************************************************************************)
(* Searches.                                                               *)
(***************************************************************************)
(* A table's ids are used up in order, and belong to one row.              *)
Used(r) == r.id < next[r.table]
IdsUsed ==
  /\ IsFiniteSet(rows)
  /\ \A r \in rows \cup pending \cup vectors : Used(r)
  /\ \A r, s \in rows : Id(r) = Id(s) => r = s
  /\ \A v, w \in vectors : Id(v) = Id(w) => v = w
  /\ \A i \in 1..MaxRows : i >= next["lessons"] => count[i] = 0

(* What a search holds is of its table, and it holds nothing before it is  *)
(* asked, nor an answer before it is answered.                             *)
SearchKept(q) ==
  /\ \A r \in DOMAIN found[q] : Used(r) /\ r.table = search[q].table
  /\ \A r \in DOMAIN answer[q] : Used(r)
  /\ IsFiniteSet(DOMAIN found[q])
  /\ search[q].at = "idle" => DOMAIN found[q] = {}
  /\ search[q].at # "answered" => near[q] = {} /\ DOMAIN answer[q] = {}

RecallInv == /\ RecallTypeOK /\ IdsUsed /\ (\A q \in Searches : SearchKept(q))
             /\ BetterComesFirst /\ CountsAreAnswers

LEMMA RecallInvInit == RecallInit => RecallInv
<1> SUFFICES ASSUME RecallInit PROVE RecallInv
  OBVIOUS
<1> USE RecallAssumption DEF RecallInit, Nothing
<1>1. Idle \in [table : Tables, user : RowUsers, at : {"idle", "embedding", "answered"}]
      /\ Idle.at = "idle"
  <2>1. (CHOOSE u \in RowUsers : TRUE) \in RowUsers
    OBVIOUS
  <2> QED BY <2>1 DEF Idle, Tables
<1>2. DOMAIN [r \in {} |-> 0] = {} /\ IsFiniteSet({})
  BY FS_EmptySet
<1>3. RecallTypeOK
  <2>1. next \in [Tables -> 1..(MaxRows + 1)] /\ count \in [1..MaxRows -> Nat]
    OBVIOUS
  <2>2. search \in [Searches -> [table : Tables, user : RowUsers,
                                 at : {"idle", "embedding", "answered"}]]
    BY <1>1
  <2>3. \A q \in Searches : DOMAIN found[q] = {} /\ DOMAIN answer[q] = {}
    BY <1>2
  <2> QED BY <2>1, <2>2, <2>3 DEF RecallTypeOK
<1>4. IdsUsed
  BY <1>2 DEF IdsUsed
<1>5. \A q \in Searches : SearchKept(q)
  BY <1>1, <1>2 DEF SearchKept
<1>6. BetterComesFirst
  BY <1>1 DEF BetterComesFirst
<1>7. CountsAreAnswers
  BY DEF CountsAreAnswers
<1> QED BY <1>3, <1>4, <1>5, <1>6, <1>7 DEF RecallInv

(* Cutting a list keeps its places.                                        *)
LEMMA FirstKeeps ==
  ASSUME NEW list, NEW n
  PROVE  /\ DOMAIN First(list, n) = {r \in DOMAIN list : list[r] < n}
         /\ \A r \in DOMAIN First(list, n) : First(list, n)[r] = list[r]
  BY DEF First

LEMMA FirstHas ==
  ASSUME NEW list, NEW n, NEW r \in DOMAIN list, list[r] < n
  PROVE  r \in DOMAIN First(list, n) /\ First(list, n)[r] = list[r]
  BY DEF First

LEMMA FirstType ==
  ASSUME NEW list, NEW n \in Nat, \A r \in DOMAIN list : list[r] \in Nat
  PROVE  /\ DOMAIN First(list, n) \subseteq DOMAIN list
         /\ \A r \in DOMAIN First(list, n) : First(list, n)[r] \in 0..(n - 1)
<1>1. ASSUME NEW r \in DOMAIN First(list, n)
      PROVE  r \in DOMAIN list /\ First(list, n)[r] = list[r] /\ list[r] < n
  BY FirstKeeps
<1>2. \A k \in Nat : k < n => k \in 0..(n - 1)
  OBVIOUS
<1> QED BY <1>1, <1>2

LEMMA TextSearchType ==
  ASSUME RecallInv, NEW table \in Tables, NEW user \in RowUsers
  PROVE  /\ DOMAIN TextSearch(table, user) \subseteq RowsOf(table, user)
         /\ \A r \in DOMAIN TextSearch(table, user) :
              TextSearch(table, user)[r] \in 0..(FetchCap - 1)
<1> DEFINE S == RowsOf(table, user)
           better(r) == {s \in S : s.rank < r.rank \/ (s.rank = r.rank /\ s.id < r.id)}
           list == [r \in S |-> Cardinality(better(r))]
<1>1. IsFiniteSet(S)
  BY FS_Subset DEF RecallInv, IdsUsed, RowsOf
<1>2. \A r \in S : better(r) \in SUBSET S
  OBVIOUS
<1>3. \A r \in S : Cardinality(better(r)) \in Nat
  <2> HIDE DEF S, better
  <2> QED BY <1>1, <1>2, FS_Subset, FS_CardinalityType
<1>4. TextSearch(table, user) = First(list, FetchCap)
  BY DEF TextSearch
<1>5. \A r \in S : list[r] \in Nat
  BY <1>3
<1> HIDE DEF list, S
<1>6. DOMAIN list = S
  BY DEF list
<1>7. /\ DOMAIN First(list, FetchCap) \subseteq S
      /\ \A r \in DOMAIN First(list, FetchCap) : First(list, FetchCap)[r] \in 0..(FetchCap - 1)
  BY <1>5, <1>6, FirstType, RecallAssumption
<1> QED BY <1>4, <1>7 DEF S

LEMMA NewestType ==
  ASSUME RecallInv, NEW user \in RowUsers
  PROVE  /\ DOMAIN NewestLessons(user) \subseteq RowsOf("lessons", user)
         /\ \A r \in DOMAIN NewestLessons(user) : NewestLessons(user)[r] \in 0..(AnswerCap - 1)
<1> DEFINE S == RowsOf("lessons", user)
           newer(r) == {s \in S : s.id > r.id}
           list == [r \in S |-> Cardinality(newer(r))]
<1>1. IsFiniteSet(S)
  BY FS_Subset DEF RecallInv, IdsUsed, RowsOf
<1>2. \A r \in S : newer(r) \in SUBSET S
  OBVIOUS
<1>3. \A r \in S : Cardinality(newer(r)) \in Nat
  <2> HIDE DEF S, newer
  <2> QED BY <1>1, <1>2, FS_Subset, FS_CardinalityType
<1>4. NewestLessons(user) = First(list, AnswerCap)
  BY DEF NewestLessons
<1>5. \A r \in S : list[r] \in Nat
  BY <1>3
<1> HIDE DEF list, S
<1>6. DOMAIN list = S
  BY DEF list
<1>7. /\ DOMAIN First(list, AnswerCap) \subseteq S
      /\ \A r \in DOMAIN First(list, AnswerCap) : First(list, AnswerCap)[r] \in 0..(AnswerCap - 1)
  BY <1>5, <1>6, FirstType, RecallAssumption
<1> QED BY <1>4, <1>7 DEF S
-----------------------------------------------------------------------------
(* The largest and the smallest of a nonempty set of ranks.                *)
LEMMA SmallestSetOf ==
  ASSUME NEW S, IsFiniteSet(S), NEW T, T \subseteq SUBSET S, T # {}
  PROVE  \E x \in T : \A y \in T : ~(y \subseteq x /\ y # x)
<1>1. IsWellFoundedOn(StrictSubsetOrdering(S), SUBSET S)
  BY FS_StrictSubsetOrderingWellFounded, FS_FiniteSubsetsOfFinite
<1>2. \E x \in T : \A y \in T : ~ (<<y, x>> \in StrictSubsetOrdering(S))
  BY <1>1, WFMin
<1> QED BY <1>2 DEF StrictSubsetOrdering

Above(S, x) == {y \in S : y > x}

LEMMA LeastAbove ==
  ASSUME NEW S, IsFiniteSet(S), S # {}
  PROVE  \E x \in S : \A y \in S : ~(Above(S, y) \subseteq Above(S, x) /\ Above(S, y) # Above(S, x))
<1> DEFINE T == {Above(S, x) : x \in S}
<1>1. T \subseteq SUBSET S /\ T # {}
  BY DEF Above
<1>2. \E t \in T : \A y \in T : ~(y \subseteq t /\ y # t)
  <2> HIDE DEF T
  <2> QED BY <1>1, SmallestSetOf
<1> QED BY <1>2

LEMMA LargestRank ==
  ASSUME NEW S, S # {}, NEW n \in Nat, S \subseteq 0..n
  PROVE  \E x \in S : \A y \in S : x >= y
<1>1. IsFiniteSet(S)
  <2>1. n \in Int /\ 0 \in Int
    OBVIOUS
  <2>2. IsFiniteSet(0..n)
    BY <2>1, FS_Interval
  <2> QED BY <2>2, FS_Subset
<1>2. PICK x \in S : \A y \in S : ~(Above(S, y) \subseteq Above(S, x) /\ Above(S, y) # Above(S, x))
  BY <1>1, LeastAbove
<1>3. ASSUME NEW y \in S, y > x PROVE FALSE
  <2>1. y \in Above(S, x) /\ y \notin Above(S, y)
    BY <1>3 DEF Above
  <2>2. \A z \in S : z > y => z > x
    BY <1>3
  <2> QED BY <1>2, <2>1, <2>2 DEF Above
<1> QED BY <1>3

LEMMA RanksBounded ==
  ASSUME NEW S, S # {}, NEW n \in Nat, S \subseteq 0..n
  PROVE  Max(S) \in S /\ Min(S) \in S /\ \A x \in S : Min(S) <= x /\ x <= Max(S)
<1>1. \E x \in S : \A y \in S : x >= y
  BY LargestRank
<1>2. \E x \in S : \A y \in S : x <= y
  <2> DEFINE T == {n - x : x \in S}
  <2>1. T # {} /\ T \subseteq 0..n
    <3>1. \A x \in 0..n : n - x \in 0..n
      OBVIOUS
    <3> QED BY <3>1
  <2>2. PICK z \in T : \A y \in T : z >= y
    <3> HIDE DEF T
    <3> QED BY <2>1, LargestRank
  <2>3. PICK x \in S : z = n - x
    OBVIOUS
  <2>4. ASSUME NEW y \in S PROVE x <= y
    <3>1. n - y \in T
      OBVIOUS
    <3>2. z >= n - y
      BY <2>2, <3>1
    <3> QED BY <2>3, <3>2
  <2> QED BY <2>4
<1>3. Min(S) \in S /\ \A y \in S : Min(S) <= y
  BY <1>2 DEF Min
<1>4. Max(S) \in S /\ \A y \in S : Max(S) >= y
  BY <1>1 DEF Max
<1> QED BY <1>3, <1>4

LEMMA Scaled ==
  ASSUME NEW M \in Nat, NEW range \in Nat, range > 0,
         NEW x \in Int, NEW y \in Int, x <= y, NEW m \in Nat, NEW n \in Nat, m > n
  PROVE  3 * M * (range - x) + 7 * range * m > 3 * M * (range - y) + 7 * range * n
<1>1. M * (range - y) <= M * (range - x)
  <2>1. PICK d \in Nat : y = x + d
    <3>1. y - x \in Nat /\ y = x + (y - x)
      OBVIOUS
    <3> QED BY <3>1
  <2>2. M * (range - x) = M * (range - y) + M * d
    BY <2>1
  <2>3. M * d \in Nat
    BY <2>1
  <2> QED BY <2>2, <2>3
<1>2. range * m > range * n
  <2>1. PICK d \in Nat : m = n + d /\ d > 0
    <3>1. m - n \in Nat /\ m = n + (m - n) /\ m - n > 0
      OBVIOUS
    <3> QED BY <3>1
  <2>2. range * m = range * n + range * d
    BY <2>1
  <2>3. range * d > 0
    BY <2>1
  <2> QED BY <2>2, <2>3
<1>3. /\ 3 * M * (range - x) = 3 * (M * (range - x)) /\ 7 * range * m = 7 * (range * m)
      /\ 3 * M * (range - y) = 3 * (M * (range - y)) /\ 7 * range * n = 7 * (range * n)
  OBVIOUS
<1>4. /\ M * (range - x) \in Int /\ M * (range - y) \in Int
      /\ range * m \in Int /\ range * n \in Int
  OBVIOUS
<1>5. \A p, q, r, s \in Int : q <= p /\ r > s => 3 * p + 7 * r > 3 * q + 7 * s
  OBVIOUS
<1> QED BY <1>1, <1>2, <1>3, <1>4, <1>5

(* Better in words and nearer in meaning: the score is higher.             *)
LEMMA HybridGrows ==
  ASSUME NEW list, DOMAIN list \subseteq RowsOfTables,
         NEW a \in DOMAIN list, NEW b \in DOMAIN list, a.table = b.table,
         NEW scores \in SUBSET RowsOfTables, \A v, w \in scores : v.id = w.id => v = w,
         a \in scores, b \in scores, a.rank <= b.rank, a.near > b.near
  PROVE  Hybrid(list, scores, a) > Hybrid(list, scores, b)
<1>1. PICK ranks : ranks = RanksRead(list)
  OBVIOUS
<1>2. ranks # {} /\ ranks \subseteq 0..MaxRank
  BY <1>1, RecallAssumption DEF RanksRead, RankRead, RowsOfTables
<1>3. Max(ranks) \in 0..MaxRank /\ Min(ranks) \in 0..MaxRank /\ Min(ranks) <= Max(ranks)
  BY <1>2, RanksBounded, RecallAssumption
<1>4. PICK range \in Nat : range = RankRange(list) /\ range > 0
  <2>1. RankRange(list) \in Nat /\ RankRange(list) > 0
    BY <1>1, <1>3, RecallAssumption DEF RankRange
  <2> QED BY <2>1
<1>5. ASSUME NEW row \in scores PROVE NearnessRead(scores, row) = row.near
  <2>1. {v \in scores : v.id = row.id} = {row}
    OBVIOUS
  <2>2. NearnessRead(scores, row) = Max({row.near})
    <3>1. {v.near : v \in {row}} = {row.near} /\ {row} # {}
      OBVIOUS
    <3> QED BY <2>1, <3>1 DEF NearnessRead
  <2>3. row.near \in 0..MaxNear
    BY DEF RowsOfTables
  <2>4. Max({row.near}) \in {row.near}
    BY <2>3, RanksBounded, RecallAssumption
  <2> QED BY <2>2, <2>4
<1>6. /\ a.near \in Nat /\ b.near \in Nat /\ RankRead(a) \in Nat /\ RankRead(b) \in Nat
      /\ RankRead(a) <= RankRead(b)
  BY RecallAssumption DEF RankRead, RowsOfTables
<1>7. PICK x, y \in Int : /\ x = RankRead(a) - Min(ranks) /\ y = RankRead(b) - Min(ranks)
                          /\ x <= y
  <2>1. /\ RankRead(a) - Min(ranks) \in Int /\ RankRead(b) - Min(ranks) \in Int
        /\ RankRead(a) - Min(ranks) <= RankRead(b) - Min(ranks)
    BY <1>3, <1>6, RecallAssumption
  <2> QED BY <2>1
<1>8. /\ Hybrid(list, scores, a) = 3 * MaxNear * (range - x) + 7 * range * a.near
      /\ Hybrid(list, scores, b) = 3 * MaxNear * (range - y) + 7 * range * b.near
  BY <1>1, <1>4, <1>5, <1>7 DEF Hybrid
<1> QED BY <1>4, <1>6, <1>7, <1>8, Scaled, RecallAssumption

LEMMA HybridIsInt ==
  ASSUME NEW list, DOMAIN list \subseteq RowsOfTables, NEW a \in DOMAIN list,
         NEW scores \in SUBSET RowsOfTables
  PROVE  Hybrid(list, scores, a) \in Int
<1>1. PICK ranks : ranks = RanksRead(list)
  OBVIOUS
<1>2. ranks # {} /\ ranks \subseteq 0..MaxRank
  BY <1>1, RecallAssumption DEF RanksRead, RankRead, RowsOfTables
<1>3. Max(ranks) \in 0..MaxRank /\ Min(ranks) \in 0..MaxRank /\ Min(ranks) <= Max(ranks)
  BY <1>2, RanksBounded, RecallAssumption
<1>4. PICK range \in Nat : range = RankRange(list)
  BY <1>1, <1>3, RecallAssumption DEF RankRange
<1>5. PICK m \in Nat : m = NearnessRead(scores, a)
  <2>1. PICK own : own = {v \in scores : v.id = a.id}
    OBVIOUS
  <2>2. {v.near : v \in own} \subseteq 0..MaxNear
    BY <2>1 DEF RowsOfTables
  <2>3. own # {} => Max({v.near : v \in own}) \in 0..MaxNear
    <3>1. PICK S : S = {v.near : v \in own}
      OBVIOUS
    <3> QED BY <2>2, <3>1, RanksBounded, RecallAssumption
  <2>4. NearnessRead(scores, a) \in Nat
    BY <2>1, <2>3, RecallAssumption DEF NearnessRead
  <2> QED BY <2>4
<1>6. PICK x \in Int : x = range - (RankRead(a) - Min(ranks))
  BY <1>3, <1>4, RecallAssumption DEF RankRead, RowsOfTables
<1>7. Hybrid(list, scores, a) = 3 * MaxNear * x + 7 * range * m
  BY <1>1, <1>4, <1>5, <1>6 DEF Hybrid
<1>8. \A k, l, n, o \in Int : 3 * k * l + 7 * n * o \in Int
  OBVIOUS
<1> QED BY <1>7, <1>8, RecallAssumption

Ahead(D, score, place, r) ==
  {s \in D : \/ score[s] > score[r]
             \/ score[s] = score[r] /\ place[s] < place[r]}

LEMMA HigherIsAhead ==
  ASSUME NEW D, IsFiniteSet(D), NEW score \in [D -> Int], NEW place,
         \A r \in D : place[r] \in Int
  PROVE  /\ \A r \in D : Cardinality(Ahead(D, score, place, r)) \in Nat
         /\ \A a, b \in D : score[a] > score[b] =>
              Cardinality(Ahead(D, score, place, a)) < Cardinality(Ahead(D, score, place, b))
<1>1. \A r \in D : Ahead(D, score, place, r) \in SUBSET D
  BY DEF Ahead
<1>2. \A r \in D : /\ IsFiniteSet(Ahead(D, score, place, r))
                   /\ Cardinality(Ahead(D, score, place, r)) \in Nat
  BY <1>1, FS_Subset, FS_CardinalityType
<1>3. ASSUME NEW a \in D, NEW b \in D, score[a] > score[b]
      PROVE  Cardinality(Ahead(D, score, place, a)) < Cardinality(Ahead(D, score, place, b))
  <2>1. a \in Ahead(D, score, place, b) /\ a \notin Ahead(D, score, place, a)
    BY <1>3 DEF Ahead
  <2>2. Ahead(D, score, place, a) \in SUBSET Ahead(D, score, place, b)
    <3>1. \A s \in D : score[s] >= score[a] => score[s] > score[b]
      BY <1>3
    <3>2. \A s \in D : score[s] > score[a] \/ score[s] = score[a] => score[s] >= score[a]
      BY <1>3
    <3> QED BY <3>1, <3>2 DEF Ahead
  <2>3. /\ Cardinality(Ahead(D, score, place, a)) <= Cardinality(Ahead(D, score, place, b))
        /\ Cardinality(Ahead(D, score, place, a)) # Cardinality(Ahead(D, score, place, b))
    BY <1>2, <2>1, <2>2, FS_Subset
  <2> QED BY <1>2, <2>3
<1> QED BY <1>2, <1>3

LEMMA RerankedKeeps ==
  ASSUME NEW list, DOMAIN list \subseteq RowsOfTables, IsFiniteSet(DOMAIN list),
         \A r \in DOMAIN list : list[r] \in Int, NEW scores \in SUBSET RowsOfTables
  PROVE  /\ DOMAIN Reranked(list, scores) = DOMAIN list
         /\ \A r \in DOMAIN list : Reranked(list, scores)[r] \in Nat
         /\ \A a, b \in DOMAIN list :
              Hybrid(list, scores, a) > Hybrid(list, scores, b)
                => Reranked(list, scores)[a] < Reranked(list, scores)[b]
<1> DEFINE D == DOMAIN list
           score == [r \in D |-> Hybrid(list, scores, r)]
<1>1. score \in [D -> Int] /\ \A r \in D : score[r] = Hybrid(list, scores, r)
  BY HybridIsInt
<1>2. Reranked(list, scores) = [r \in D |-> Cardinality(Ahead(D, score, list, r))]
  BY DEF Reranked, Ahead
<1> HIDE DEF score, D
<1>3. /\ \A r \in D : Cardinality(Ahead(D, score, list, r)) \in Nat
      /\ \A a, b \in D : score[a] > score[b] =>
           Cardinality(Ahead(D, score, list, a)) < Cardinality(Ahead(D, score, list, b))
  BY <1>1, HigherIsAhead DEF D
<1>4. /\ DOMAIN Reranked(list, scores) = D
      /\ \A r \in D : Reranked(list, scores)[r] = Cardinality(Ahead(D, score, list, r))
  BY <1>2
<1> QED BY <1>1, <1>3, <1>4 DEF D

-----------------------------------------------------------------------------
(* What a search is given when it is answered.                             *)
Answerable(q, list) ==
  /\ q \in Searches /\ search[q].at # "answered"
  /\ DOMAIN list \subseteq RowsOfTables
  /\ \A r \in DOMAIN list : list[r] \in 0..(AnswerCap - 1) /\ Used(r)
  /\ Answer(q, list)
  /\ \E s \in [table : Tables, user : RowUsers, at : {"answered"}] :
       /\ search' = [search EXCEPT ![q] = s]
       /\ \A r \in DOMAIN found[q] : r.table = s.table
  /\ \E scores \in SUBSET RowsOfTables : near' = [near EXCEPT ![q] = scores]
  /\ UNCHANGED <<rows, next, pending, vectors, found>>

(* The count of a lesson goes up by one just when it is answered.          *)
LEMMA CountsKept ==
  ASSUME RecallInv, NEW q, NEW list, Answerable(q, list)
  PROVE  CountsAreAnswers'
<1> USE RecallAssumption
<1> SUFFICES ASSUME NEW r \in rows, r.table = "lessons"
             PROVE  count'[r.id] = Cardinality({p \in Searches : r \in DOMAIN answer'[p]})
  BY DEF CountsAreAnswers, Answerable
<1> DEFINE with == {p \in Searches : r \in DOMAIN answer[p]}
           with1 == {p \in Searches : r \in DOMAIN answer'[p]}
<1>1. count[r.id] = Cardinality(with) /\ IsFiniteSet(with)
  BY FS_Subset DEF RecallInv, CountsAreAnswers
<1>2. q \in Searches \ with /\ answer' = [answer EXCEPT ![q] = list] /\ count' = Counted(list)
  BY DEF RecallInv, SearchKept, Answerable, Answer
<1>3. \A p \in Searches : answer'[p] = IF p = q THEN list ELSE answer[p]
  BY <1>2 DEF RecallInv, RecallTypeOK
<1>4. r.id \in DOMAIN count /\ count[r.id] \in Nat
  BY DEF RecallInv, RecallTypeOK, RowsOfTables
<1>5. (\E s \in rows \cap DOMAIN list : Id(s) = <<"lessons", r.id>>) <=> r \in DOMAIN list
  BY DEF RecallInv, IdsUsed, Id
<1>6. CASE r \in DOMAIN list
  <2>1. with1 = with \cup {q}
    BY <1>2, <1>3, <1>6
  <2>2. Cardinality(with \cup {q}) = Cardinality(with) + 1
    <3> HIDE DEF with
    <3> QED BY <1>1, <1>2, FS_AddElement
  <2>3. count'[r.id] = count[r.id] + 1
    BY <1>2, <1>4, <1>5, <1>6 DEF Counted
  <2> QED BY <1>1, <2>1, <2>2, <2>3
<1>7. CASE r \notin DOMAIN list
  <2>1. with1 = with
    BY <1>2, <1>3, <1>7
  <2>2. count'[r.id] = count[r.id]
    BY <1>2, <1>4, <1>5, <1>7 DEF Counted
  <2> QED BY <1>1, <2>1, <2>2
<1> QED BY <1>6, <1>7

(* What may be found at an answered search's place: better ones first.     *)
BetterFirst(q) ==
  \A a, b \in DOMAIN found[q] :
    {a, b} \subseteq near[q] /\ a.rank <= b.rank /\ a.near > b.near
      /\ b \in DOMAIN answer[q]
    => a \in DOMAIN answer[q] /\ answer[q][a] < answer[q][b]

LEMMA AnswerKeeps ==
  ASSUME RecallInv, NEW q, NEW list, Answerable(q, list), BetterFirst(q)'
  PROVE  RecallInv'
<1> USE RecallAssumption
<1>0. q \in Searches /\ answer' = [answer EXCEPT ![q] = list] /\ count' = Counted(list)
      /\ UNCHANGED <<rows, next, pending, vectors, found>>
  BY DEF Answerable, Answer
<1>1. PICK s \in [table : Tables, user : RowUsers, at : {"answered"}] :
        /\ search' = [search EXCEPT ![q] = s]
        /\ \A r \in DOMAIN found[q] : r.table = s.table
  BY DEF Answerable
<1>2. PICK scores \in SUBSET RowsOfTables : near' = [near EXCEPT ![q] = scores]
  BY DEF Answerable
<1>3. \A p \in Searches : /\ answer'[p] = IF p = q THEN list ELSE answer[p]
                          /\ search'[p] = IF p = q THEN s ELSE search[p]
                          /\ near'[p] = IF p = q THEN scores ELSE near[p]
  BY <1>0, <1>1, <1>2 DEF RecallInv, RecallTypeOK
<1>4. count' \in [1..MaxRows -> Nat]
  BY <1>0 DEF RecallInv, RecallTypeOK, Counted
<1>5. RecallTypeOK'
  <2>1. DOMAIN answer' = Searches /\ near' \in [Searches -> SUBSET RowsOfTables]
    BY <1>0, <1>2 DEF RecallInv, RecallTypeOK
  <2>2. search' \in [Searches -> [table : Tables, user : RowUsers,
                                  at : {"idle", "embedding", "answered"}]]
    BY <1>0, <1>1 DEF RecallInv, RecallTypeOK
  <2>3. \A p \in Searches :
          /\ DOMAIN answer'[p] \subseteq RowsOfTables
          /\ \A r \in DOMAIN answer'[p] : answer'[p][r] \in 0..(AnswerCap - 1)
    BY <1>3 DEF RecallInv, RecallTypeOK, Answerable
  <2> QED BY <1>0, <1>4, <2>1, <2>2, <2>3 DEF RecallInv, RecallTypeOK
<1>6. IdsUsed'
  <2>1. ASSUME NEW i \in 1..MaxRows, i >= next["lessons"] PROVE count'[i] = 0
    <3>1. \A r \in rows : Id(r) # <<"lessons", i>>
      BY <2>1 DEF RecallInv, RecallTypeOK, IdsUsed, Used, Id, RowsOfTables, Tables
    <3>2. count[i] = 0 /\ i \in DOMAIN count
      BY <2>1 DEF RecallInv, RecallTypeOK, IdsUsed
    <3> QED BY <1>0, <3>1, <3>2 DEF Counted
  <2> QED BY <1>0, <2>1 DEF RecallInv, IdsUsed, Used
<1>7. \A p \in Searches : SearchKept(p)'
  <2> SUFFICES ASSUME NEW p \in Searches PROVE SearchKept(p)'
    OBVIOUS
  <2>1. CASE p = q
    <3>1. answer'[p] = list /\ search'[p] = s /\ s.at = "answered"
      BY <1>1, <1>3, <2>1
    <3> QED BY <1>0, <1>1, <2>1, <3>1 DEF RecallInv, SearchKept, Answerable, Used
  <2>2. CASE p # q
    BY <1>0, <1>3, <2>2 DEF RecallInv, SearchKept, Used
  <2> QED BY <2>1, <2>2
<1>8. BetterComesFirst'
  <2> SUFFICES ASSUME NEW p \in Searches, search'[p].at = "answered" PROVE BetterFirst(p)'
    BY DEF BetterComesFirst, BetterFirst
  <2>1. CASE p = q
    BY <2>1
  <2>2. CASE p # q
    <3>1. search[p].at = "answered"
      BY <1>3, <2>2
    <3>2. BetterFirst(p)
      BY <3>1 DEF RecallInv, BetterComesFirst, BetterFirst
    <3> QED BY <1>0, <1>3, <2>2, <3>2 DEF BetterFirst
  <2> QED BY <2>1, <2>2
<1>9. CountsAreAnswers'
  BY CountsKept
<1> QED BY <1>5, <1>6, <1>7, <1>8, <1>9 DEF RecallInv

LEMMA ListLessonsKeeps ==
  ASSUME RecallInv, NEW q \in Searches, NEW user \in RowUsers, ListLessons(q, user)
  PROVE  RecallInv'
<1> DEFINE list == NewestLessons(user)
           s == [table |-> "lessons", user |-> user, at |-> "answered"]
<1>1. /\ DOMAIN list \subseteq RowsOf("lessons", user)
      /\ \A r \in DOMAIN list : list[r] \in 0..(AnswerCap - 1)
  BY NewestType
<1>2. DOMAIN list \subseteq rows
  BY <1>1 DEF RowsOf
<1>3. DOMAIN found[q] = {} /\ near[q] = {}
  BY DEF RecallInv, SearchKept, ListLessons
<1>4. s \in [table : Tables, user : RowUsers, at : {"answered"}]
  BY DEF Tables
<1>5. near' = [near EXCEPT ![q] = {}]
  BY <1>3 DEF RecallInv, RecallTypeOK, ListLessons
<1>6. Answerable(q, list)
  <2> HIDE DEF s, list
  <2>1. search' = [search EXCEPT ![q] = s] /\ search[q].at = "idle" /\ Answer(q, list)
        /\ UNCHANGED <<rows, next, pending, vectors, found>>
    BY DEF ListLessons, s, list
  <2>2. \A r \in DOMAIN list : Used(r)
    BY <1>2 DEF RecallInv, IdsUsed
  <2>3. DOMAIN list \subseteq RowsOfTables
    BY <1>2 DEF RecallInv, RecallTypeOK
  <2>4. \E t \in [table : Tables, user : RowUsers, at : {"answered"}] :
          /\ search' = [search EXCEPT ![q] = t]
          /\ \A r \in DOMAIN found[q] : r.table = t.table
    BY <1>3, <1>4, <2>1
  <2>5. \E scores \in SUBSET RowsOfTables : near' = [near EXCEPT ![q] = scores]
    BY <1>5
  <2> QED BY <1>1, <2>1, <2>2, <2>3, <2>4, <2>5 DEF Answerable
<1>7. BetterFirst(q)'
  BY <1>3 DEF BetterFirst, ListLessons
<1> HIDE DEF list
<1> QED BY <1>6, <1>7, AnswerKeeps

(* An answer in one of the ways a search has that embedded its query.      *)
LEMMA FoundAnswerable ==
  ASSUME RecallInv, NEW q \in Searches, search[q].at = "embedding",
         NEW list, DOMAIN list = DOMAIN found[q], \A r \in DOMAIN list : list[r] \in Nat,
         search' = [search EXCEPT ![q].at = "answered"],
         NEW scores \in SUBSET RowsOfTables, near' = [near EXCEPT ![q] = scores],
         Answer(q, First(list, AnswerCap)), UNCHANGED <<rows, next, pending, vectors, found>>
  PROVE  Answerable(q, First(list, AnswerCap))
<1>1. /\ DOMAIN First(list, AnswerCap) \subseteq DOMAIN list
      /\ \A r \in DOMAIN First(list, AnswerCap) :
           First(list, AnswerCap)[r] \in 0..(AnswerCap - 1)
  BY FirstType, RecallAssumption
<1>2. \A r \in DOMAIN found[q] : r \in RowsOfTables /\ Used(r) /\ r.table = search[q].table
  BY DEF RecallInv, SearchKept, RecallTypeOK
<1>3. PICK s : s = [search[q] EXCEPT !.at = "answered"]
  OBVIOUS
<1>4. /\ s \in [table : Tables, user : RowUsers, at : {"answered"}]
      /\ s.table = search[q].table
      /\ search' = [search EXCEPT ![q] = s]
  BY <1>3 DEF RecallInv, RecallTypeOK
<1>5. \E t \in [table : Tables, user : RowUsers, at : {"answered"}] :
        /\ search' = [search EXCEPT ![q] = t]
        /\ \A r \in DOMAIN found[q] : r.table = t.table
  BY <1>2, <1>4
<1>6. \E v \in SUBSET RowsOfTables : near' = [near EXCEPT ![q] = v]
  OBVIOUS
<1> QED BY <1>1, <1>2, <1>5, <1>6 DEF Answerable

LEMMA FoundPlaces ==
  ASSUME RecallInv, NEW q \in Searches
  PROVE  \A r \in DOMAIN found[q] : found[q][r] \in Nat
  BY RecallAssumption DEF RecallInv, RecallTypeOK

LEMMA QueryNotEmbeddedKeeps ==
  ASSUME RecallInv, NEW q \in Searches, QueryNotEmbedded(q)
  PROVE  RecallInv'
<1>1. near[q] = {} /\ near' = [near EXCEPT ![q] = {}]
  BY DEF RecallInv, SearchKept, RecallTypeOK, QueryNotEmbedded
<1>2. Answerable(q, First(found[q], AnswerCap))
  BY <1>1, FoundPlaces, FoundAnswerable DEF QueryNotEmbedded
<1>3. BetterFirst(q)'
  BY <1>1 DEF BetterFirst, QueryNotEmbedded
<1> QED BY <1>2, <1>3, AnswerKeeps

LEMMA QueryEmbeddedKeeps ==
  ASSUME RecallInv, NEW q \in Searches, QueryEmbedded(q)
  PROVE  RecallInv'
<1>1. PICK scores : scores = VectorScores(search[q].table, search[q].user)
  OBVIOUS
<1>2. /\ scores \in SUBSET RowsOfTables
      /\ \A v, w \in scores : v.id = w.id => v = w
  BY <1>1 DEF VectorScores, RecallInv, RecallTypeOK, IdsUsed, Id
<1>3. /\ search[q].at = "embedding" /\ search' = [search EXCEPT ![q].at = "answered"]
      /\ near' = [near EXCEPT ![q] = scores]
      /\ Answer(q, IF scores = {} THEN First(found[q], AnswerCap)
                   ELSE First(Reranked(found[q], scores), AnswerCap))
      /\ UNCHANGED <<rows, next, pending, vectors, found>>
  BY <1>1 DEF QueryEmbedded
<1>4. near'[q] = scores /\ found' = found
  BY <1>3 DEF RecallInv, RecallTypeOK
<1>5. CASE scores = {}
  <2>1. Answerable(q, First(found[q], AnswerCap))
    BY <1>2, <1>3, <1>5, FoundPlaces, FoundAnswerable
  <2>2. BetterFirst(q)'
    BY <1>4, <1>5 DEF BetterFirst
  <2> QED BY <2>1, <2>2, AnswerKeeps
<1>6. CASE scores # {}
  <2>1. PICK list : list = Reranked(found[q], scores)
    OBVIOUS
  <2>2. /\ DOMAIN found[q] \subseteq RowsOfTables /\ IsFiniteSet(DOMAIN found[q])
        /\ \A r \in DOMAIN found[q] : found[q][r] \in Int /\ r.table = search[q].table
    BY FoundPlaces DEF RecallInv, RecallTypeOK, SearchKept
  <2>3. /\ DOMAIN list = DOMAIN found[q]
        /\ \A r \in DOMAIN list : list[r] \in Nat
        /\ \A a, b \in DOMAIN found[q] :
             Hybrid(found[q], scores, a) > Hybrid(found[q], scores, b) => list[a] < list[b]
    BY <1>2, <2>1, <2>2, RerankedKeeps
  <2>4. Answer(q, First(list, AnswerCap))
    BY <1>3, <1>6, <2>1
  <2>5. Answerable(q, First(list, AnswerCap))
    BY <1>2, <1>3, <2>3, <2>4, FoundAnswerable
  <2>6. answer'[q] = First(list, AnswerCap)
    BY <2>4 DEF Answer, RecallInv, RecallTypeOK
  <2>7. ASSUME NEW a \in DOMAIN found[q], NEW b \in DOMAIN found[q],
               a \in scores, b \in scores, a.rank <= b.rank, a.near > b.near,
               b \in DOMAIN First(list, AnswerCap)
        PROVE  /\ a \in DOMAIN First(list, AnswerCap)
               /\ First(list, AnswerCap)[a] < First(list, AnswerCap)[b]
    <3>1. Hybrid(found[q], scores, a) > Hybrid(found[q], scores, b)
      BY <1>2, <2>2, <2>7, HybridGrows
    <3>2. list[a] < list[b] /\ list[a] \in Nat /\ list[b] \in Nat
      BY <2>3, <3>1
    <3>3. list[b] < AnswerCap /\ First(list, AnswerCap)[b] = list[b]
      BY <2>7, FirstKeeps
    <3>4. a \in DOMAIN list /\ list[a] < AnswerCap
      BY <2>3, <3>2, <3>3, RecallAssumption
    <3>5. a \in DOMAIN First(list, AnswerCap) /\ First(list, AnswerCap)[a] = list[a]
      BY <3>4, FirstHas
    <3> QED BY <3>2, <3>3, <3>5
  <2>8. BetterFirst(q)'
    BY <1>4, <2>6, <2>7 DEF BetterFirst
  <2> QED BY <2>5, <2>8, AnswerKeeps
<1> QED BY <1>5, <1>6

LEMMA SearchKeeps ==
  ASSUME RecallInv, NEW q \in Searches, NEW table \in Tables, NEW user \in RowUsers,
         Search(q, table, user)
  PROVE  RecallInv'
<1>1. PICK list : list = TextSearch(table, user)
  OBVIOUS
<1>2. /\ DOMAIN list \subseteq RowsOf(table, user)
      /\ \A r \in DOMAIN list : list[r] \in 0..(FetchCap - 1)
  BY <1>1, TextSearchType
<1>3. \A r \in DOMAIN list : r \in rows /\ r.table = table /\ r \in RowsOfTables /\ Used(r)
  BY <1>2 DEF RowsOf, RecallInv, RecallTypeOK, IdsUsed
<1>4. IsFiniteSet(DOMAIN list)
  BY <1>3, FS_Subset DEF RecallInv, IdsUsed
<1>5. PICK s \in [table : Tables, user : RowUsers, at : {"embedding"}] :
        /\ s.table = table
        /\ search' = [search EXCEPT ![q] = s]
  BY DEF Search
<1>6. /\ search[q].at = "idle" /\ found' = [found EXCEPT ![q] = list]
      /\ UNCHANGED <<rows, next, pending, vectors, near, answer, count>>
  BY <1>1 DEF Search
<1>7. \A p \in Searches : /\ found'[p] = IF p = q THEN list ELSE found[p]
                          /\ search'[p] = IF p = q THEN s ELSE search[p]
  BY <1>5, <1>6 DEF RecallInv, RecallTypeOK
<1>8. RecallTypeOK'
  <2>1. /\ DOMAIN found' = Searches
        /\ search' \in [Searches -> [table : Tables, user : RowUsers,
                                     at : {"idle", "embedding", "answered"}]]
    BY <1>5, <1>6 DEF RecallInv, RecallTypeOK
  <2>2. \A p \in Searches :
          /\ DOMAIN found'[p] \subseteq RowsOfTables
          /\ \A r \in DOMAIN found'[p] : found'[p][r] \in 0..(FetchCap - 1)
    BY <1>2, <1>3, <1>7 DEF RecallInv, RecallTypeOK
  <2> QED BY <1>6, <2>1, <2>2 DEF RecallInv, RecallTypeOK
<1>9. IdsUsed'
  BY <1>6 DEF RecallInv, IdsUsed, Used
<1>10. \A p \in Searches : SearchKept(p)'
  <2> SUFFICES ASSUME NEW p \in Searches PROVE SearchKept(p)'
    OBVIOUS
  <2>1. CASE p = q
    <3>1. found'[p] = list /\ search'[p] = s /\ s.at = "embedding" /\ s.table = table
      BY <1>5, <1>7, <2>1
    <3>2. near[p] = {} /\ DOMAIN answer[p] = {}
      BY <1>6, <2>1 DEF RecallInv, SearchKept
    <3> QED BY <1>3, <1>4, <1>6, <3>1, <3>2 DEF SearchKept, Used
  <2>2. CASE p # q
    BY <1>6, <1>7, <2>2 DEF RecallInv, SearchKept, Used
  <2> QED BY <2>1, <2>2
<1>11. BetterComesFirst'
  BY <1>5, <1>6, <1>7 DEF RecallInv, BetterComesFirst
<1>12. CountsAreAnswers'
  BY <1>6 DEF RecallInv, CountsAreAnswers
<1> QED BY <1>8, <1>9, <1>10, <1>11, <1>12 DEF RecallInv

-----------------------------------------------------------------------------
(* What leaves the searches alone leaves the order of their answers.       *)
LEMMA OthersKeep ==
  ASSUME RecallInv, UNCHANGED <<search, found, near, answer>>, RecallTypeOK', IdsUsed',
         \A r \in RowsOfTables : Used(r) => Used(r)', CountsAreAnswers'
  PROVE  RecallInv'
<1>1. \A q \in Searches : SearchKept(q)'
  <2>1. \A q \in Searches : DOMAIN found[q] \subseteq RowsOfTables /\ DOMAIN answer[q] \subseteq RowsOfTables
    BY DEF RecallInv, RecallTypeOK
  <2> QED BY <2>1 DEF RecallInv, SearchKept
<1>2. BetterComesFirst'
  BY DEF RecallInv, BetterComesFirst
<1> QED BY <1>1, <1>2 DEF RecallInv

LEMMA StoreRowKeeps ==
  ASSUME RecallInv, NEW row \in RowsOfTables, StoreRow(row)
  PROVE  RecallInv'
<1> USE RecallAssumption
<1>1. CASE UNCHANGED <<rows, pending, next>>
  <2>1. UNCHANGED recallVars
    BY <1>1 DEF StoreRow, recallVars
  <2>2. RecallTypeOK' /\ IdsUsed' /\ CountsAreAnswers' /\ \A r \in RowsOfTables : Used(r) => Used(r)'
    BY <2>1 DEF recallVars, RecallInv, RecallTypeOK, IdsUsed, CountsAreAnswers, Used
  <2> QED BY <2>1, <2>2, OthersKeep DEF recallVars
<1>2. CASE /\ rows' = rows \cup {row} /\ pending' = pending \cup {row}
           /\ next' = [next EXCEPT ![row.table] = @ + 1]
  <2>1. /\ row.id = next[row.table] /\ row.table \in Tables /\ row.id \in 1..MaxRows
        /\ UNCHANGED <<vectors, search, found, near, answer, count>>
    BY DEF StoreRow, RowsOfTables
  <2>2. \A t \in Tables : next'[t] = IF t = row.table THEN next[t] + 1 ELSE next[t]
    BY <1>2, <2>1 DEF RecallInv, RecallTypeOK
  <2>3. \A t \in Tables : next[t] \in Nat /\ next'[t] >= next[t]
    <3>1. \A t \in Tables : next[t] \in Nat
      BY DEF RecallInv, RecallTypeOK
    <3>2. \A n \in Nat : n >= n /\ n + 1 >= n
      OBVIOUS
    <3> QED BY <2>2, <3>1, <3>2
  <2>4. next' \in [Tables -> 1..(MaxRows + 1)]
    BY <1>2, <2>1 DEF RecallInv, RecallTypeOK
  <2>5. RecallTypeOK'
    BY <1>2, <2>1, <2>4 DEF RecallInv, RecallTypeOK
  <2>6. ASSUME NEW r \in RowsOfTables, Used(r) PROVE Used(r)'
    <3>1. r.table \in Tables /\ r.id \in Nat
      BY DEF RowsOfTables
    <3>2. PICK m, n \in Nat : m = next[r.table] /\ n = next'[r.table] /\ n >= m
      <4>1. next[r.table] \in Nat /\ next'[r.table] >= next[r.table]
        BY <2>3, <3>1
      <4>2. next'[r.table] \in Nat
        BY <2>4, <3>1
      <4> QED BY <4>1, <4>2
    <3> QED BY <2>6, <3>1, <3>2 DEF Used
  <2>7. Used(row)'
    BY <2>1, <2>2, <2>3 DEF Used
  <2>8. row \notin rows /\ \A r \in rows : Id(r) # Id(row)
    BY <2>1, <2>3 DEF RecallInv, IdsUsed, Used, Id, RecallTypeOK, RowsOfTables
  <2>9. IdsUsed'
    <3>1. IsFiniteSet(rows')
      BY <1>2, FS_AddElement DEF RecallInv, IdsUsed
    <3>2. \A r \in rows' \cup pending' \cup vectors' : Used(r)'
      BY <1>2, <2>1, <2>6, <2>7 DEF RecallInv, IdsUsed, RecallTypeOK
    <3>3. \A r, s \in rows' : Id(r) = Id(s) => r = s
      BY <1>2, <2>8 DEF RecallInv, IdsUsed
    <3>4. \A i \in 1..MaxRows : i >= next'["lessons"] => count'[i] = 0
      <4>1. PICK m, n \in Nat : m = next["lessons"] /\ n = next'["lessons"] /\ n >= m
        <5>1. "lessons" \in Tables
          BY DEF Tables
        <5>2. next["lessons"] \in Nat /\ next'["lessons"] \in Nat
              /\ next'["lessons"] >= next["lessons"]
          BY <2>3, <2>4, <5>1
        <5> QED BY <5>2
      <4>2. \A i \in 1..MaxRows : i >= n => i >= m
        BY <4>1
      <4> QED BY <2>1, <4>1, <4>2 DEF RecallInv, IdsUsed
    <3> QED BY <2>1, <3>1, <3>2, <3>3, <3>4 DEF RecallInv, IdsUsed
  <2>10. CountsAreAnswers'
    <3> SUFFICES ASSUME NEW r \in rows', r.table = "lessons"
                 PROVE  count[r.id] = Cardinality({q \in Searches : r \in DOMAIN answer[q]})
      BY <2>1 DEF CountsAreAnswers
    <3>1. CASE r \in rows
      BY <3>1 DEF RecallInv, CountsAreAnswers
    <3>2. CASE r = row
      <4>1. count[r.id] = 0
        BY <2>1, <2>3, <3>2 DEF RecallInv, IdsUsed
      <4>2. \A q \in Searches : r \notin DOMAIN answer[q]
        BY <2>1, <2>3, <3>2 DEF RecallInv, SearchKept, Used
      <4>3. {q \in Searches : r \in DOMAIN answer[q]} = {}
        BY <4>2
      <4> QED BY <4>1, <4>3, FS_EmptySet
    <3> QED BY <1>2, <3>1, <3>2
  <2> QED BY <2>1, <2>5, <2>6, <2>9, <2>10, OthersKeep
<1> QED BY <1>1, <1>2 DEF StoreRow

LEMMA RowEmbeddedKeeps ==
  ASSUME RecallInv, NEW row \in pending, RowEmbedded(row)
  PROVE  RecallInv'
<1>1. /\ pending' \subseteq pending /\ row \in RowsOfTables /\ Used(row)
      /\ UNCHANGED <<rows, next, search, found, near, answer, count>>
  BY DEF RowEmbedded, RecallInv, RecallTypeOK, IdsUsed
<1>2. vectors' \subseteq vectors \cup {row}
  BY DEF RowEmbedded
<1>3. \A v, w \in vectors' : Id(v) = Id(w) => v = w
  BY DEF RowEmbedded, RecallInv, IdsUsed
<1>4. RecallTypeOK'
  BY <1>1, <1>2 DEF RecallInv, RecallTypeOK
<1>5. \A r \in RowsOfTables : Used(r) => Used(r)'
  BY <1>1 DEF Used
<1>6. IdsUsed'
  <2>1. \A r \in rows' \cup pending' \cup vectors' : Used(r)'
    BY <1>1, <1>2 DEF RecallInv, IdsUsed, Used
  <2> QED BY <1>1, <1>3, <2>1 DEF RecallInv, IdsUsed
<1>7. CountsAreAnswers'
  BY <1>1 DEF RecallInv, CountsAreAnswers
<1> QED BY <1>1, <1>4, <1>5, <1>6, <1>7, OthersKeep

LEMMA UserErasedKeeps ==
  ASSUME RecallInv, NEW user \in RowUsers, UserErased(user)
  PROVE  RecallInv'
<1> USE RecallAssumption
<1>1. PICK gone : gone = {r \in rows : r.user = user}
  OBVIOUS
<1>2. /\ rows' = rows \ gone
      /\ vectors' = {v \in vectors : \A r \in gone : Id(v) # Id(r)}
      /\ count' = [i \in DOMAIN count |->
                     IF \E r \in gone : Id(r) = <<"lessons", i>> THEN 0 ELSE count[i]]
      /\ UNCHANGED <<next, pending, search, found, near, answer>>
  BY <1>1 DEF UserErased
<1>3. RecallTypeOK'
  <2>1. rows' \subseteq RowsOfTables /\ vectors' \subseteq RowsOfTables
    BY <1>2 DEF RecallInv, RecallTypeOK
  <2>2. count' \in [1..MaxRows -> Nat]
    BY <1>2 DEF RecallInv, RecallTypeOK
  <2> QED BY <1>2, <2>1, <2>2 DEF RecallInv, RecallTypeOK
<1>4. \A r \in RowsOfTables : Used(r) => Used(r)'
  BY <1>2 DEF Used
<1>5. IdsUsed'
  <2>1. IsFiniteSet(rows')
    BY <1>2, FS_Subset DEF RecallInv, IdsUsed
  <2>2. \A r \in rows' \cup pending' \cup vectors' : Used(r)'
    BY <1>2 DEF RecallInv, IdsUsed, Used
  <2>3. \A i \in 1..MaxRows : i >= next'["lessons"] => count'[i] = 0
    BY <1>2 DEF RecallInv, IdsUsed, RecallTypeOK
  <2> QED BY <1>2, <2>1, <2>2, <2>3 DEF RecallInv, IdsUsed
<1>6. CountsAreAnswers'
  <2> SUFFICES ASSUME NEW r \in rows', r.table = "lessons"
               PROVE  count'[r.id] = Cardinality({q \in Searches : r \in DOMAIN answer[q]})
    BY <1>2 DEF CountsAreAnswers
  <2>1. r \in rows /\ r \notin gone /\ r.id \in DOMAIN count
    BY <1>2 DEF RecallInv, RecallTypeOK, RowsOfTables
  <2>2. \A s \in gone : Id(s) # <<"lessons", r.id>>
    BY <1>1, <2>1 DEF RecallInv, IdsUsed, Id
  <2>3. count'[r.id] = count[r.id]
    BY <1>2, <2>1, <2>2
  <2> QED BY <2>1, <2>3 DEF RecallInv, CountsAreAnswers
<1> QED BY <1>2, <1>3, <1>4, <1>5, <1>6, OthersKeep

LEMMA RecallInvNext == RecallInv /\ [RecallNext]_recallVars => RecallInv'
<1> SUFFICES ASSUME RecallInv, [RecallNext]_recallVars PROVE RecallInv'
  OBVIOUS
<1>1. CASE UNCHANGED recallVars
  <2>1. RecallTypeOK' /\ IdsUsed' /\ CountsAreAnswers' /\ \A r \in RowsOfTables : Used(r) => Used(r)'
    BY <1>1 DEF recallVars, RecallInv, RecallTypeOK, IdsUsed, CountsAreAnswers, Used
  <2> QED BY <1>1, <2>1, OthersKeep DEF recallVars
<1>2. CASE RecallNext
  BY <1>2, StoreRowKeeps, RowEmbeddedKeeps, UserErasedKeeps, ListLessonsKeeps, SearchKeeps,
     QueryNotEmbeddedKeeps, QueryEmbeddedKeeps DEF RecallNext
<1> QED BY <1>1, <1>2

(* RecallInv holds of every run of the searches: the types, who has which  *)
(* id, what a search holds, and the property itself.                       *)
THEOREM RecallInvariant == RecallSpec => []RecallInv
  BY RecallInvInit, RecallInvNext, PTL DEF RecallSpec

(* memory.service.ts: so a better match comes first and access_count       *)
(* counts the answers, whatever is stored, embedded or erased meanwhile.   *)
THEOREM SearchAlwaysHolds == RecallSpec => []SearchHolds
<1>1. RecallInv => SearchHolds
  BY DEF RecallInv, SearchHolds
<1> QED BY <1>1, RecallInvariant, PTL
=============================================================================
