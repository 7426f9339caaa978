------------------------------- MODULE Recall -------------------------------
(***************************************************************************)
(* Searching the memory store: messages and lessons found by their words,  *)
(* ordered anew by the nearness of their embeddings.  The text search runs *)
(* before the query is embedded, the vectors are read after it; rows are   *)
(* added, embedded and erased meanwhile.  Both tables number their rows    *)
(* from one, and one table holds the vectors of both.  Lessons count how   *)
(* often they were answered.  There is one text searched for: a row is     *)
(* known by how well it matches, in words and in meaning.  A list of rows  *)
(* is known by its places: to each of its rows, how many come before it.   *)
(***************************************************************************)
EXTENDS Integers, FiniteSets, FiniteSetsExt

CONSTANTS RowUsers, Searches,   \* calls of searchMessages and getRelevantLessons
          MaxRank,              \* of words: a row's rank is from 0, the best
          MaxNear,              \* of meaning: a row's nearness is from 0
          AnswerCap,            \* rows an answer may have
          FetchCap,             \* rows the text search takes (4 * AnswerCap)
          MaxRows               \* bound: rows ever added to a table

ASSUME RecallAssumption ==
  /\ RowUsers # {} /\ IsFiniteSet(Searches)
  /\ MaxRank \in Nat /\ MaxNear \in Nat
  /\ AnswerCap \in Nat /\ FetchCap \in Nat /\ MaxRows \in Nat

VARIABLES
  rows,     \* the rows of both tables
  next,     \* each table's next id
  pending,  \* embeddings asked for
  vectors,  \* the embeddings table, by table and id
  search,   \* each search: its table and user, how far it is
  found,    \* what its text search gave
  near,     \* history: the vectors it was ordered by
  answer,   \* what it returned
  count     \* access_count of the lessons, by id

recallVars == <<rows, next, pending, vectors, search, found, near, answer, count>>

Tables == {"messages", "lessons"}
RowsOfTables == [table : Tables, id : 1..MaxRows, user : RowUsers,
                 rank : 0..MaxRank, near : 0..MaxNear]
Idle == [table |-> "messages", user |-> CHOOSE u \in RowUsers : TRUE, at |-> "idle"]
Nothing == [r \in {} |-> 0]

RecallInit == /\ rows = {} /\ next = [t \in Tables |-> 1]
              /\ pending = {} /\ vectors = {}
              /\ search = [q \in Searches |-> Idle]
              /\ found = [q \in Searches |-> Nothing]
              /\ near = [q \in Searches |-> {}]
              /\ answer = [q \in Searches |-> Nothing]
              /\ count = [i \in 1..MaxRows |-> 0]

Id(row) == <<row.table, row.id>>

-----------------------------------------------------------------------------
(* appendMessage, storeLessons: the row, and its embedding is asked for.   *)
(* A lesson whose text its user has is ignored.                            *)
StoreRow(row) ==
  /\ row.id = next[row.table]
  /\ IF row.table = "lessons" /\ \E r \in rows : [r EXCEPT !.id = row.id] = row
     THEN UNCHANGED <<rows, pending, next>>
     ELSE /\ rows' = rows \cup {row}
          /\ pending' = pending \cup {row}
          /\ next' = [next EXCEPT ![row.table] = @ + 1]
  /\ UNCHANGED <<vectors, search, found, near, answer, count>>

(* The upsert, or nothing when the service failed.                         *)
RowEmbedded(row) ==
  /\ pending' = pending \ {row}
  /\ \/ vectors' = {v \in vectors : Id(v) # Id(row)} \cup {row}
     \/ vectors' = vectors
  /\ UNCHANGED <<rows, next, search, found, near, answer, count>>

UserErased(user) ==
  /\ LET gone == {r \in rows : r.user = user} IN
     /\ rows' = rows \ gone
     /\ vectors' = {v \in vectors : \A r \in gone : Id(v) # Id(r)}
     /\ count' = [i \in DOMAIN count |->
                    IF \E r \in gone : Id(r) = <<"lessons", i>> THEN 0 ELSE count[i]]
  /\ UNCHANGED <<next, pending, search, found, near, answer>>

-----------------------------------------------------------------------------
First(list, n) == [r \in {s \in DOMAIN list : list[s] < n} |-> list[r]]

RowsOf(table, user) == {r \in rows : r.table = table /\ r.user = user}

(* ORDER BY rank LIMIT.                                                    *)
TextSearch(table, user) ==
  LET matching == RowsOf(table, user)
      better(r) == {s \in matching : s.rank < r.rank \/ (s.rank = r.rank /\ s.id < r.id)}
  IN  First([r \in matching |-> Cardinality(better(r))], FetchCap)

NewestLessons(user) ==
  LET lessons == RowsOf("lessons", user)
  IN  First([r \in lessons |-> Cardinality({s \in lessons : s.id > r.id})], AnswerCap)

(* Every lesson returned is counted, if it is still there.                 *)
Counted(list) ==
  [i \in DOMAIN count |->
     IF \E r \in rows \cap DOMAIN list : Id(r) = <<"lessons", i>>
     THEN count[i] + 1 ELSE count[i]]

Answer(q, list) ==
  /\ answer' = [answer EXCEPT ![q] = list]
  /\ count' = Counted(list)

(* A query of no words: the user's lessons, newest first; at once.         *)
ListLessons(q, user) ==
  /\ search[q].at = "idle"
  /\ search' = [search EXCEPT ![q] = [table |-> "lessons", user |-> user, at |-> "answered"]]
  /\ Answer(q, NewestLessons(user))
  /\ UNCHANGED <<rows, next, pending, vectors, found, near>>

(* The text search; what it found, the query is embedded.                  *)
Search(q, table, user) ==
  /\ search[q].at = "idle"
  /\ RowsOf(table, user) # {}
  /\ search' = [search EXCEPT ![q] = [table |-> table, user |-> user, at |-> "embedding"]]
  /\ found' = [found EXCEPT ![q] = TextSearch(table, user)]
  /\ UNCHANGED <<rows, next, pending, vectors, near, answer, count>>

(* No embedding of the query, or no client for it: the order of the text   *)
(* search.                                                                 *)
QueryNotEmbedded(q) ==
  /\ search[q].at = "embedding"
  /\ search' = [search EXCEPT ![q].at = "answered"]
  /\ Answer(q, First(found[q], AnswerCap))
  /\ UNCHANGED <<rows, next, pending, vectors, found, near>>

(* Mutant: the vectors of both tables. *)
VectorScoresOfBoth(table, user) ==
  {v \in vectors : \E r \in rows : r.id = v.id /\ r.user = user}

(* The vectors of the user's rows that are there, joined by their id.      *)
VectorScores(table, user) ==
  {v \in vectors : v.table = table /\ \E r \in rows : Id(r) = Id(v) /\ r.user = user}

(* What a row is ranked by: the query for lessons does not select rank.    *)
RankRead(row) == IF row.table = "lessons" THEN 0 ELSE row.rank

(* A row without a vector is the farthest.                                 *)
NearnessRead(scores, row) ==
  LET own == {v \in scores : v.id = row.id}
  IN  IF own = {} THEN 0 ELSE Max({v.near : v \in own})

(* 0.3 * words + 0.7 * meaning, in multiples; words are scaled to the      *)
(* range of those found.                                                   *)
RanksRead(list) == {RankRead(r) : r \in DOMAIN list}
RankRange(list) ==
  LET ranks == RanksRead(list)
  IN  IF Max(ranks) = Min(ranks) THEN 1 ELSE Max(ranks) - Min(ranks)
Hybrid(list, scores, row) ==
  3 * MaxNear * (RankRange(list) - (RankRead(row) - Min(RanksRead(list))))
    + 7 * RankRange(list) * NearnessRead(scores, row)

(* A stable sort by falling score.                                         *)
Reranked(list, scores) ==
  LET score == [r \in DOMAIN list |-> Hybrid(list, scores, r)]
      better(r) == {s \in DOMAIN list : \/ score[s] > score[r]
                                        \/ score[s] = score[r] /\ list[s] < list[r]}
  IN  [r \in DOMAIN list |-> Cardinality(better(r))]

(* The rows found before, ordered with the vectors there are now.          *)
QueryEmbedded(q) ==
  /\ search[q].at = "embedding"
  /\ search' = [search EXCEPT ![q].at = "answered"]
  /\ LET scores == VectorScores(search[q].table, search[q].user) IN
       /\ near' = [near EXCEPT ![q] = scores]
       /\ Answer(q, IF scores = {} THEN First(found[q], AnswerCap)
                    ELSE First(Reranked(found[q], scores), AnswerCap))
  /\ UNCHANGED <<rows, next, pending, vectors, found>>

RecallNext ==
  \/ \E row \in RowsOfTables : StoreRow(row)
  \/ \E row \in pending : RowEmbedded(row)
  \/ \E u \in RowUsers : UserErased(u)
  \/ \E q \in Searches : \/ \E u \in RowUsers : \/ ListLessons(q, u)
                                                \/ \E t \in Tables : Search(q, t, u)
                         \/ QueryNotEmbedded(q) \/ QueryEmbedded(q)

RecallSpec == RecallInit /\ [][RecallNext]_recallVars

-----------------------------------------------------------------------------
RecallTypeOK ==
  /\ rows \subseteq RowsOfTables /\ pending \subseteq RowsOfTables
  /\ vectors \subseteq RowsOfTables
  /\ next \in [Tables -> 1..(MaxRows + 1)]
  /\ search \in [Searches -> [table : Tables, user : RowUsers,
                              at : {"idle", "embedding", "answered"}]]
  /\ DOMAIN found = Searches /\ DOMAIN answer = Searches
  /\ near \in [Searches -> SUBSET RowsOfTables]
  /\ \A q \in Searches :
       /\ DOMAIN found[q] \subseteq RowsOfTables /\ DOMAIN answer[q] \subseteq RowsOfTables
       /\ \A r \in DOMAIN found[q] : found[q][r] \in 0..(FetchCap - 1)
       /\ \A r \in DOMAIN answer[q] : answer[q][r] \in 0..(AnswerCap - 1)
  /\ count \in [1..MaxRows -> Nat]

(* No row follows one that matches no better in words and is farther in    *)
(* meaning, nor is left out for it, when the vectors of both were there,   *)
(* whatever was stored, embedded or erased while the query was embedded.   *)
BetterComesFirst ==
  \A q \in Searches : search[q].at = "answered" =>
    \A a, b \in DOMAIN found[q] :
      {a, b} \subseteq near[q] /\ a.rank <= b.rank /\ a.near > b.near
        /\ b \in DOMAIN answer[q]
      => a \in DOMAIN answer[q] /\ answer[q][a] < answer[q][b]

(* A lesson's access_count is the number of answers it was in.             *)
CountsAreAnswers ==
  \A r \in rows : r.table = "lessons" =>
    count[r.id] = Cardinality({q \in Searches : r \in DOMAIN answer[q]})

(* memory.service.ts: a better match comes first, and a lesson's           *)
(* access_count counts the answers it was in.                              *)
SearchHolds == BetterComesFirst /\ CountsAreAnswers
=============================================================================
