----------------------------- MODULE EntityStore -----------------------------
(***************************************************************************)
(* One generated entity with a unique attribute (stores/entity_store.py):   *)
(* clients create, change and delete records while another one walks        *)
(* through the list page by page.  A statement of PostgreSQL is one step; a *)
(* creation takes two, because its NOW() is the time its transaction began. *)
(* Deletion only marks the row, so its unique value stays taken.  The       *)
(* column updated_at is left out: nothing reads it.                         *)
(***************************************************************************)
EXTENDS Naturals, SequencesExt, FiniteSets

CONSTANTS MaxRecords,  \* BOUND: records that are created
          Keys,        \* values of the unique attribute, which may also be "null"
          Limit,       \* the page size of the walk
          MaxTime      \* BOUND: the clock of the database

ASSUME StoreAssumption == MaxRecords \in Nat /\ {Limit, MaxTime} \subseteq Nat \ {0}

VARIABLES clock,
          inserting,   \* creations whose transaction has begun: when, with which key
          table,       \* the committed rows
          walk         \* the client that lists: where it is, what it has seen;
                       \* history: the records that were there all the time, and
                       \* whether one was deleted

storeVars == <<clock, inserting, table, walk>>

NoRow == [key |-> "none", created |-> 0, deleted |-> FALSE]
Started == [at |-> "page", offset |-> 0, seen |-> {}, there |-> {}, removed |-> FALSE]

\* The ids are random and never compared: the next one is the least unused.
Ids == 1..MaxRecords
Exists(id) == table[id] # NoRow
Used(id) == Exists(id) \/ inserting[id] # NoRow

FoundFault(id) == Exists(id)                  \* fault: WHERE id = :id, no more
Found(id) == Exists(id) /\ ~table[id].deleted
Live == {id \in Ids : Found(id)}

\* UNIQUE counts the rows that are marked as deleted, and no nulls.
Taken(key) == key # "null" /\ \E id \in Ids : Exists(id) /\ table[id].key = key

StoreInit ==
    /\ clock = 1 /\ inserting = [id \in Ids |-> NoRow] /\ table = [id \in Ids |-> NoRow]
    /\ walk = [Started EXCEPT !.at = "none"]

-----------------------------------------------------------------------------
(* The records                                                               *)

Tick == /\ clock < MaxTime /\ clock' = clock + 1 /\ UNCHANGED <<inserting, table, walk>>

\* create_record: BEGIN ...
BeginCreate(id, key) ==
    /\ ~Used(id) /\ \A j \in Ids : j < id => Used(j)
    /\ inserting' = [inserting EXCEPT ![id] = [key |-> key, created |-> clock, deleted |-> FALSE]]
    /\ UNCHANGED <<clock, table, walk>>

\* ... INSERT and COMMIT, or the integrity error that no handler catches.
Insert(id) ==
    /\ inserting[id] # NoRow
    /\ table' = IF Taken(inserting[id].key) THEN table ELSE [table EXCEPT ![id] = inserting[id]]
    /\ inserting' = [inserting EXCEPT ![id] = NoRow]
    /\ UNCHANGED <<clock, walk>>

\* update_record: the row, or nothing (404), or the integrity error.
UpdateRecord(id, key) ==
    /\ Found(id)
    /\ key = table[id].key \/ ~Taken(key)
    /\ table' = [table EXCEPT ![id].key = key]
    /\ UNCHANGED <<clock, inserting, walk>>

SoftDelete(id) ==
    /\ Found(id)
    /\ table' = [table EXCEPT ![id].deleted = TRUE]
    /\ walk' = [walk EXCEPT !.there = @ \ {id}, !.removed = TRUE]
    /\ UNCHANGED <<clock, inserting>>

-----------------------------------------------------------------------------
(* The list                                                                  *)

ListingsFault == SetToSeqs(Live)              \* fault: no ORDER BY

\* ORDER BY created_at DESC: equal times come in any order.
Listings == {s \in SetToSeqs(Live) : \A i, j \in DOMAIN s :
                 i < j => table[s[i]].created >= table[s[j]].created}

PageOf(s) == {s[i] : i \in {i \in DOMAIN s : walk.offset < i /\ i <= walk.offset + Limit}}

BeginWalk == /\ walk.at = "none"
             /\ walk' = [Started EXCEPT !.there = Live]
             /\ UNCHANGED <<clock, inserting, table>>

\* list_records: the page ...
ReadPage == /\ walk.at = "page"
            /\ \E s \in Listings :
                  walk' = [walk EXCEPT !.at = "total", !.seen = @ \cup PageOf(s)]
            /\ UNCHANGED <<clock, inserting, table>>

\* ... and then the total, by which the client decides whether to go on.
ReadTotal == /\ walk.at = "total"
             /\ walk' = IF walk.offset + Limit < Cardinality(Live)
                        THEN [walk EXCEPT !.at = "page", !.offset = @ + Limit]
                        ELSE [walk EXCEPT !.at = "done"]
             /\ UNCHANGED <<clock, inserting, table>>

StoreNext ==
    \/ Tick \/ BeginWalk \/ ReadPage \/ ReadTotal
    \/ \E id \in Ids : \/ Insert(id) \/ SoftDelete(id)
                       \/ \E key \in Keys \cup {"null"} : BeginCreate(id, key) \/ UpdateRecord(id, key)

StoreSpec == StoreInit /\ [][StoreNext]_storeVars

-----------------------------------------------------------------------------
(* What is checked                                                           *)

Rows == [key : Keys \cup {"null"}, created : 1..MaxTime, deleted : BOOLEAN] \cup {NoRow}

\* The values every variable may have.
StoreTypeOK ==
    /\ clock \in 1..MaxTime
    /\ inserting \in [Ids -> Rows] /\ table \in [Ids -> Rows]
    /\ walk \in [at : {"none", "page", "total", "done"}, offset : 0..MaxRecords,
                seen : SUBSET Ids, there : SUBSET Ids, removed : BOOLEAN]

Tied(i) == \E j \in Ids \ {i} : Exists(j) /\ table[j].created = table[i].created

\* A walk by offset sees every record that was there all the time, however
\* many are created or changed meanwhile: only a deletion, or another record of
\* the same instant, can make it skip one.
NoRecordSkipped ==
    walk.at = "done" => walk.removed \/ \A i \in walk.there \ walk.seen : Tied(i)

\* A deleted record is never changed again, whatever was on its way.
DeletedIsFinal == [][\A id \in Ids : table[id].deleted => table'[id] = table[id]]_storeVars

-----------------------------------------------------------------------------
(* The invariant that the proofs are by                                      *)

\* A creation that has begun has no row yet.
NotYetInserted == \A id \in Ids : inserting[id] # NoRow => ~Exists(id)

\* Where the walk goes on, and the records that are listed before record i.
Reached == IF walk.at = "total" THEN walk.offset + Limit ELSE walk.offset
Newer(i) == {j \in Live : table[j].created > table[i].created}

\* What the walk has not seen is still ahead of it: new records only push it
\* further down the list.
StillAhead ==
    /\ walk.there \subseteq Live
    /\ ~walk.removed => \A i \in walk.there \ walk.seen :
          Tied(i) \/ (walk.at \in {"page", "total"} /\ Cardinality(Newer(i)) >= Reached)

StoreIInv == StoreTypeOK /\ NotYetInserted /\ StillAhead
=============================================================================
