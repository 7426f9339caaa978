---------------------------- MODULE MemoryStore ----------------------------
(***************************************************************************)
(* Conversation memory: the memory store's tables for sessions, messages,  *)
(* lessons and embeddings, and the agent runtime that reads them once per  *)
(* session and writes them by calls it does not wait for.  Calls arrive in *)
(* the order they were sent; any may fail.  Embeddings come back from a    *)
(* service whenever they like.  The store dumps, takes a dump back at its  *)
(* next start, and erases a user on request.                               *)
(***************************************************************************)
EXTENDS MemoryTables, SequencesExt

CONSTANTS Users,
          Limit,             \* rows a session starts with (30)
          MaxSaid,           \* bound: messages of one session
          MaxCalls,          \* bound: calls under way
          NoDump

VARIABLES
  stage,       \* where each session's run stands
  spoken,      \* how many of ctx.messages are the session's own
  now,         \* Date.now() of the runtime
  extracting,  \* lessons the LLM is extracting
  embedding,   \* embeddings asked for, lost with the process
  dump,        \* a backup
  pendingDb    \* memory.db.new

runtimeVars == <<owner, stage, ctx, spoken, now, toStore, extracting>>
storeVars == <<db, embedding, dump, pendingDb>>
historyVars == <<lost, cleared, overtaken, restored>>
memoryVars == <<runtimeVars, storeVars, historyVars>>

(* Messages and lessons are rows of tables of their own, and a vector has  *)
(* the table and number of its row: these two are an "id" here.            *)
EmptyDb == [sessions |-> {}, rows |-> {}, vectors |-> {},
            next |-> [messages |-> 1, lessons |-> 1]]

Init == /\ owner \in [Sessions -> Users]
        /\ stage = [s \in Sessions |-> "new"]
        /\ ctx = [s \in Sessions |-> <<>>]
        /\ spoken = [s \in Sessions |-> 0]
        /\ now = 1
        /\ toStore = <<>> /\ extracting = {}
        /\ db = EmptyDb /\ embedding = {}
        /\ dump = NoDump /\ pendingDb = NoDump
        /\ lost = {} /\ overtaken = {} /\ restored = FALSE
        /\ cleared = [s \in Sessions |-> 0]

At(s, where) == stage' = [stage EXCEPT ![s] = where]

(* A message or a lesson is known by its session and place in it.          *)
Item(s, n, role, at) == [session |-> s, n |-> n, role |-> role, at |-> at]
Register(s) == [op |-> "register", item |-> Item(s, 0, "session", 0)]
Recent(s)   == [op |-> "recent", item |-> Item(s, 0, "session", 0)]
Append_(m)  == [op |-> "append", item |-> m]
Lessons(l)  == [op |-> "lessons", item |-> l]

-----------------------------------------------------------------------------
(* The runtime.                                                            *)

(* The first message registers the session and asks for its user's past.   *)
FirstMessage(s) ==
  /\ stage[s] = "new" /\ Len(toStore) + 2 <= MaxCalls
  /\ toStore' = toStore \o <<Register(s), Recent(s)>>
  /\ At(s, "loading")
  /\ UNCHANGED <<owner, ctx, spoken, now, extracting, storeVars, historyVars>>

(* Two seconds without an answer: the session starts without a past.       *)
RecentTimesOut(s) ==
  /\ stage[s] = "loading"
  /\ At(s, "loaded")
  /\ UNCHANGED <<owner, ctx, spoken, now, toStore, extracting, storeVars, historyVars>>

(* Messages of one handler are stamped and sent in the same millisecond.   *)
Say(s, roles) ==
  /\ spoken[s] + Len(roles) <= MaxSaid /\ Len(toStore) + Len(roles) <= MaxCalls
  /\ now' \in {now, now + 1}
  /\ LET said == [i \in DOMAIN roles |-> Item(s, spoken[s] + i, roles[i], now')]
     IN /\ ctx' = [ctx EXCEPT ![s] = @ \o said]
        /\ toStore' = toStore \o [i \in DOMAIN said |-> Append_(said[i])]
  /\ spoken' = [spoken EXCEPT ![s] = @ + Len(roles)]

UserMessage(s) ==
  /\ stage[s] \in {"loaded", "ready"}
  /\ Say(s, <<"user">>)
  /\ At(s, "turn")
  /\ UNCHANGED <<owner, extracting, storeVars, historyVars>>

ToolTurn(s) ==
  /\ stage[s] = "turn"
  /\ Say(s, <<"assistant", "tool">>)
  /\ UNCHANGED <<owner, stage, extracting, storeVars, historyVars>>

(* The last turn; then lessons are extracted from the whole conversation.  *)
FinalTurn(s) ==
  /\ stage[s] = "turn"
  /\ Say(s, <<"assistant">>)
  /\ At(s, "ready")
  /\ extracting' = extracting \cup {Item(s, spoken'[s], "lesson", 0)}
  /\ UNCHANGED <<owner, storeVars, historyVars>>

RunThrows(s) ==
  /\ stage[s] = "turn"
  /\ At(s, "ready")
  /\ UNCHANGED <<owner, ctx, spoken, now, toStore, extracting, storeVars, historyVars>>

LessonsExtracted(l) ==
  /\ l \in extracting
  /\ extracting' = extracting \ {l}
  /\ \/ toStore' = toStore
     \/ Len(toStore) < MaxCalls /\ toStore' = Append(toStore, Lessons(l))
  /\ UNCHANGED <<owner, stage, ctx, spoken, now, storeVars, historyVars>>

-----------------------------------------------------------------------------
(* The store's handlers.                                                   *)
Rows(table) == {r \in db.rows : r.id[1] = table}

(* INSERT with AUTOINCREMENT, and the row's embedding is asked for.        *)
WithRow(table, m) ==
  LET id == <<table, db.next[table]>> IN
  /\ db' = [db EXCEPT !.rows = @ \cup {[id |-> id, msg |-> m]}, !.next[table] = @ + 1]
  /\ embedding' = embedding \cup {[id |-> id, of |-> m]}

(* ORDER BY created_at DESC LIMIT n, reversed.  The index that serves the  *)
(* query lists rows of one millisecond by ascending id.                    *)
Newer(a, b) == a.msg.at > b.msg.at \/ (a.msg.at = b.msg.at /\ a.id[2] < b.id[2])

RecentRows(u) ==
  LET mine == {r \in Rows("messages") : OwnedBy(u, r.msg)} IN
  {rows \in SeqOf(mine, Limit) :
     /\ \A i, j \in DOMAIN rows : i < j => Newer(rows[j], rows[i])
     /\ Len(rows) < Limit => mine \subseteq Range(rows)
     /\ \A r \in mine \ Range(rows), i \in DOMAIN rows : Newer(rows[i], r)}

Messages(rows) == [i \in DOMAIN rows |-> rows[i].msg]

(* The first call under way is served.  A message without its session's    *)
(* row violates the foreign key and is refused.                            *)
StoreSession ==
  /\ toStore # <<>> /\ Head(toStore).op = "register"
  /\ toStore' = Tail(toStore)
  /\ db' = [db EXCEPT !.sessions = @ \cup {Head(toStore).item.session}]
  /\ UNCHANGED <<owner, stage, ctx, spoken, now, extracting, embedding, dump,
                 pendingDb, historyVars>>

AppendMessage ==
  /\ toStore # <<>> /\ Head(toStore).op = "append"
  /\ toStore' = Tail(toStore)
  /\ IF Head(toStore).item.session \in db.sessions
     THEN WithRow("messages", Head(toStore).item)
     ELSE UNCHANGED <<db, embedding>>
  /\ UNCHANGED <<owner, stage, ctx, spoken, now, extracting, dump, pendingDb,
                 historyVars>>

GetRecentMessages ==
  /\ toStore # <<>> /\ Head(toStore).op = "recent"
  /\ toStore' = Tail(toStore)
  /\ LET s == Head(toStore).item.session IN
       IF stage[s] = "loading"
       THEN /\ \E rows \in RecentRows(owner[s]) : ctx' = [ctx EXCEPT ![s] = Messages(rows)]
            /\ At(s, "loaded")
       ELSE UNCHANGED <<ctx, stage>>
  /\ UNCHANGED <<owner, spoken, now, extracting, storeVars, historyVars>>

(* A lesson is new, or its text is that of one the user already has.       *)
StoreLessons ==
  /\ toStore # <<>> /\ Head(toStore).op = "lessons"
  /\ toStore' = Tail(toStore)
  /\ LET l == Head(toStore).item IN
       \/ WithRow("lessons", l)
       \/ /\ \E r \in Rows("lessons") : OwnedBy(owner[l.session], r.msg)
          /\ UNCHANGED <<db, embedding>>
  /\ UNCHANGED <<owner, stage, ctx, spoken, now, extracting, dump, pendingDb,
                 historyVars>>

(* The store is down or the call fails: written to stderr, not repeated.   *)
CallLost ==
  /\ toStore # <<>>
  /\ toStore' = Tail(toStore)
  /\ lost' = lost \cup {Head(toStore).item}
  /\ IF Head(toStore).op = "recent" /\ stage[Head(toStore).item.session] = "loading"
     THEN At(Head(toStore).item.session, "loaded")
     ELSE UNCHANGED stage
  /\ UNCHANGED <<owner, ctx, spoken, now, extracting, storeVars, cleared, overtaken,
                 restored>>

(* scheduleEmbed's continuation: an upsert, whether the row is still there *)
(* or not; or the service failed.                                          *)
Embedded(e) ==
  /\ e \in embedding
  /\ embedding' = embedding \ {e}
  /\ \/ db' = [db EXCEPT !.vectors = {v \in @ : v.id # e.id} \cup {e}]
     \/ db' = db
  /\ UNCHANGED <<runtimeVars, dump, pendingDb, historyVars>>

-----------------------------------------------------------------------------
SessionsOf(u) == {s \in Sessions : owner[s] = u}

(* Mutant: the lessons are deleted before their embeddings are looked for. *)
WithoutUserLate(u) ==
  LET ids == {r.id : r \in {r \in Rows("messages") : OwnedBy(u, r.msg)}} IN
  [db EXCEPT !.vectors = {v \in @ : v.id \notin ids},
             !.rows = {r \in @ : ~OwnedBy(u, r.msg)},
             !.sessions = @ \ SessionsOf(u)]

(* The vectors of both tables' rows, the lessons, and the sessions with    *)
(* their messages.                                                         *)
WithoutUser(u) ==
  LET ids == {r.id : r \in {r \in db.rows : OwnedBy(u, r.msg)}} IN
  [db EXCEPT !.vectors = {v \in @ : v.id \notin ids},
             !.rows = {r \in @ : ~OwnedBy(u, r.msg)},
             !.sessions = @ \ SessionsOf(u)]

(* What arrives after an erasure although it is older: lessons, vectors,   *)
(* and messages sent behind a registration that is itself under way.       *)
UnderWay ==
  {toStore[i].item : i \in {i \in DOMAIN toStore :
     \/ toStore[i].op = "lessons"
     \/ \E j \in 1..i : toStore[j] = Register(toStore[i].item.session)}}
  \cup extracting \cup {e.of : e \in embedding}

DeleteUserData(u) ==
  /\ db' = WithoutUser(u)
  /\ cleared' = [s \in Sessions |-> IF owner[s] = u THEN spoken[s] ELSE cleared[s]]
  /\ overtaken' = overtaken \cup {i \in UnderWay : OwnedBy(u, i)}
  /\ UNCHANGED <<runtimeVars, embedding, dump, pendingDb, lost, restored>>

DumpState ==
  /\ dump' = db
  /\ UNCHANGED <<runtimeVars, db, embedding, pendingDb, historyVars>>

RestoreState ==
  /\ dump # NoDump
  /\ pendingDb' = dump
  /\ UNCHANGED <<runtimeVars, db, embedding, dump, historyVars>>

(* A stop or a crash, and the start-up, which puts a restored dump in      *)
(* place before it opens the database.                                     *)
Restart ==
  /\ embedding' = {}
  /\ db' = IF pendingDb = NoDump THEN db ELSE pendingDb
  /\ restored' = (restored \/ pendingDb # NoDump)
  /\ pendingDb' = NoDump
  /\ UNCHANGED <<runtimeVars, dump, lost, cleared, overtaken>>

Next == \/ \E s \in Sessions : \/ FirstMessage(s) \/ RecentTimesOut(s)
                               \/ UserMessage(s) \/ ToolTurn(s)
                               \/ FinalTurn(s) \/ RunThrows(s)
        \/ \E l \in extracting : LessonsExtracted(l)
        \/ StoreSession \/ AppendMessage \/ GetRecentMessages \/ StoreLessons
        \/ CallLost
        \/ \E e \in embedding : Embedded(e)
        \/ \E u \in Users : DeleteUserData(u)
        \/ DumpState \/ RestoreState \/ Restart

Spec == Init /\ [][Next]_memoryVars

-----------------------------------------------------------------------------
Items == [session : Sessions, n : 0..MaxSaid, at : Nat,
          role : {"session", "user", "assistant", "tool", "lesson"}]

Ids == {"messages", "lessons"} \X Nat

DbOK(d) == /\ d.sessions \subseteq Sessions
           /\ \A r \in d.rows : r.id \in Ids /\ r.msg \in Items
           /\ \A v \in d.vectors : v.id \in Ids /\ v.of \in Items

MemoryTypeOK ==
  /\ owner \in [Sessions -> Users]
  /\ stage \in [Sessions -> {"new", "loading", "loaded", "turn", "ready"}]
  /\ spoken \in [Sessions -> 0..MaxSaid] /\ cleared \in [Sessions -> 0..MaxSaid]
  /\ \A s \in Sessions : \A i \in DOMAIN ctx[s] : ctx[s][i] \in Items
  /\ \A i \in DOMAIN toStore :
       toStore[i] \in [op : {"register", "recent", "append", "lessons"}, item : Items]
  /\ extracting \subseteq Items /\ lost \subseteq Items /\ overtaken \subseteq Items
  /\ \A d \in {db, dump, pendingDb} \ {NoDump} : DbOK(d)
  /\ \A e \in embedding : e.id \in Ids /\ e.of \in Items
  /\ restored \in BOOLEAN
=============================================================================
