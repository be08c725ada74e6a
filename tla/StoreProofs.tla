------------------------------ MODULE StoreProofs ------------------------------
(***************************************************************************)
(* What holds of the dialplan in the store for any extensions, writers,    *)
(* readers, number of conditions and size of the pool, and of the          *)
(* provisioning of phones for any users, passwords and number of writes.   *)
(*                                                                         *)
(* Three groups of facts are inductive together for the dialplan. Writers: *)
(* who is past its header holds the lock of its row, and nobody holds      *)
(* another. Committed rows: each extension is whole, and while a row is    *)
(* locked its domain stays. Readers: of an extension nobody committed to   *)
(* since, what was read is what is there.                                  *)
(***************************************************************************)
EXTENDS Store, TLAPS

(***************************************************************************)
(* The invariant.                                                          *)
(***************************************************************************)
Places == {"new", "lookup", "begin", "header", "clear", "insert", "commit", "delete",
           "drop", "done"}
Codes  == {0, 200, 201, 204, 404, 409, 500}

DatabaseTypes ==
  /\ domain \in BOOLEAN
  /\ header \in [Ids -> Versions \cup {None}]
  /\ conds \in [Ids -> SUBSET AllRows]
  /\ acts \in [Ids -> SUBSET AllRows]
  /\ used \subseteq Ids

WriterTypes ==
  /\ lock \in [Ids -> Writers \cup {None}]
  /\ wpc \in [Writers -> Places]
  /\ op \in [Writers -> {"none", "create", "update", "delete", "drop"}]
  /\ target \in [Writers -> Ids \cup {None}]
  /\ status \in [Writers -> Codes]

ReaderTypes ==
  /\ rpc \in [Readers -> {"new", "load", "done"}]
  /\ todo \in [Readers -> SUBSET Ids]
  /\ seen \in [Readers -> [Ids -> Versions \cup {None}]]
  /\ rows \in [Readers -> [Ids -> SUBSET AllRows]]
  /\ loaded \in [Readers -> SUBSET AllRows]
  /\ full \in [Readers -> SUBSET AllRows]
  /\ touched \in [Readers -> SUBSET Ids]

\* Writers that have changed their extension and not yet committed.
Changing == {"clear", "insert", "commit"}

\* They hold the lock of its row, and that is all that is locked.
Locks ==
  /\ \A w \in Writers : wpc[w] # "new" => target[w] \in Ids
  /\ \A w \in Writers : wpc[w] \in Changing => lock[target[w]] = w
  /\ \A e \in Ids : \A w \in Writers :
       lock[e] = w => wpc[w] \in Changing /\ target[w] = e

\* An id is given out once, and a locked row keeps the domain it refers to.
IdsAndDomain ==
  \A e \in Ids :
    /\ header[e] # None => e \in used
    /\ lock[e] # None => e \in used /\ domain

\* What a reader knows. It starts with nothing, and stops with nothing left to
\* query; of an extension nobody committed to since it began, the header it saw
\* is the one there is, so are the conditions, once queried, and the actions it
\* looked for it found.
Reads(r) ==
  /\ rpc[r] = "new" => loaded[r] = {} /\ \A e \in Ids : seen[r][e] = None /\ rows[r][e] = {}
  /\ rpc[r] = "done" => todo[r] = {} /\ Unloaded(r) = {}
  /\ \A e \in Ids \ touched[r] :
       seen[r][e] # None =>
         /\ seen[r][e] = header[e]
         /\ e \notin todo[r] => rows[r][e] = Rows(header[e])
         /\ Rows(header[e]) \cap loaded[r] \subseteq full[r]
  /\ \A e \in Ids : rows[r][e] # {} => \E v \in Versions : rows[r][e] = Rows(v)

Types     == DatabaseTypes /\ WriterTypes /\ ReaderTypes
Committed == CommittedWhole /\ NoOrphans /\ IdsAndDomain
Inv       == Types /\ Locks /\ Committed /\ \A r \in Readers : Reads(r)

LEMMA TypesOK == Types <=> TypeOK
BY DEF Types, DatabaseTypes, WriterTypes, ReaderTypes, TypeOK, Places, Codes

\* None names nothing; the rows of a version are rows.
LEMMA Names ==
  /\ None \notin Writers /\ None \notin Ids /\ None \notin Versions
  /\ \A v \in Versions : Rows(v) \subseteq AllRows
BY NamesAssumption, InitialAssumption DEF Versions, AllRows

LEMMA InitInv == Init => Inv
<1> SUFFICES ASSUME Init PROVE Inv
  OBVIOUS
<1> USE Names
<1>1. DatabaseTypes
  BY InitialAssumption DEF Init, DatabaseTypes, Versions
<1>2. WriterTypes
  BY DEF Init, WriterTypes, Places, Codes
<1>3. ReaderTypes
  BY DEF Init, ReaderTypes
<1>4. Locks
  BY DEF Init, Locks, Changing
<1>5. Committed
  BY InitialAssumption DEF Init, Committed, CommittedWhole, NoOrphans, IdsAndDomain
<1>6. \A r \in Readers : Reads(r)
  BY DEF Init, Reads
<1>7. QED
  BY <1>1, <1>2, <1>3, <1>4, <1>5, <1>6 DEF Inv, Types

--------------------------------------------------------------------------------
(***************************************************************************)
(* Writers. A step moves one writer; what it does to its own variables and *)
(* what it does to the database are looked at separately.                  *)
(***************************************************************************)

\* A writer that moves without a lock to give or to get.
LEMMA MoveKeepsLocks ==
  ASSUME WriterTypes, Locks, NEW w \in Writers, NEW from \in Places, NEW to \in Places,
         Goto(w, from, to), from \in Changing <=> to \in Changing,
         lock' = lock, target' = target, from # "new"
  PROVE  Locks'
BY DEF WriterTypes, Locks, Goto

\* An answer gives back what was locked.
LEMMA FinishKeepsLocks ==
  ASSUME WriterTypes, Locks, NEW w \in Writers, NEW from \in Places, NEW code \in Codes,
         Finish(w, from, code), from # "new"
  PROVE  WriterTypes' /\ Locks'
<1> USE Names
<1>1. WriterTypes'
  BY DEF Finish, Goto, Release, WriterTypes, Places
<1>2. Locks'
  BY DEF Finish, Goto, Release, WriterTypes, Locks, Changing
<1>3. QED
  BY <1>1, <1>2

LEMMA WriterStep ==
  ASSUME Types, Locks, Committed, NEW w \in Writers, Write(w)
  PROVE  WriterTypes' /\ Locks'
<1> USE Names DEF Types
<1>1. CASE Lookup(w)
  <2>1. CASE domain
    <3>1. Goto(w, "lookup", "begin") /\ UNCHANGED <<lock, op, target, status>>
      BY <1>1, <2>1 DEF Lookup
    <3>2. QED
      BY <3>1, MoveKeepsLocks DEF WriterTypes, Goto, Places, Changing
  <2>2. CASE ~domain
    BY <1>1, <2>2, FinishKeepsLocks DEF Lookup, Places, Codes
  <2>3. QED
    BY <2>1, <2>2
<1>2. CASE Begin(w)
  <2>1. PICK to \in {"delete", "drop", "header"} : Goto(w, "begin", to)
    BY <1>2 DEF Begin
  <2>2. UNCHANGED <<lock, op, target, status>>
    BY <1>2 DEF Begin
  <2>3. QED
    BY <2>1, <2>2, MoveKeepsLocks DEF WriterTypes, Goto, Places, Changing
<1>3. CASE InsertHeader(w)
  <2>1. CASE Finish(w, "header", 409) \/ Finish(w, "header", 500)
    BY <2>1, FinishKeepsLocks DEF Places, Codes
  <2>2. CASE /\ \E e \in Ids \ used :
                  /\ Goto(w, "header", "insert")
                  /\ target' = [target EXCEPT ![w] = e]
                  /\ lock' = [lock EXCEPT ![e] = w]
             /\ UNCHANGED <<op, status>>
    <3>1. PICK e \in Ids \ used :
            /\ Goto(w, "header", "insert")
            /\ target' = [target EXCEPT ![w] = e]
            /\ lock' = [lock EXCEPT ![e] = w]
      BY <2>2
    <3>2. lock[e] = None /\ \A f \in Ids : lock[f] # w
      BY <3>1 DEF Committed, IdsAndDomain, Locks, Goto, Changing
    <3>3. WriterTypes'
      BY <2>2, <3>1 DEF WriterTypes, Goto, Places
    <3>4. Locks'
      BY <3>1, <3>2 DEF WriterTypes, Locks, Goto, Changing
    <3>5. QED
      BY <3>3, <3>4
  <2>3. QED
    BY <1>3, <2>1, <2>2 DEF InsertHeader, InsertReferring
<1>4. CASE UpdateHeader(w)
  <2>1. CASE header[target[w]] = None
    BY <1>4, <2>1, FinishKeepsLocks DEF UpdateHeader, Places, Codes
  <2>2. CASE header[target[w]] # None
    <3>1. /\ Goto(w, "header", "clear")
          /\ lock[target[w]] = None /\ lock' = [lock EXCEPT ![target[w]] = w]
          /\ UNCHANGED <<op, target, status>>
      BY <1>4, <2>2 DEF UpdateHeader
    <3>2. target[w] \in Ids /\ \A f \in Ids : lock[f] # w
      BY <3>1 DEF Locks, Goto, Changing
    <3>3. WriterTypes'
      BY <3>1, <3>2 DEF WriterTypes, Goto, Places
    <3>4. Locks'
      BY <3>1, <3>2 DEF WriterTypes, Locks, Goto, Changing
    <3>5. QED
      BY <3>3, <3>4
  <2>3. QED
    BY <2>1, <2>2
<1>5. CASE Clear(w) \/ InsertConditions(w)
  <2>1. PICK from \in Changing, to \in Changing : Goto(w, from, to)
    BY <1>5 DEF Clear, InsertConditions, Changing
  <2>2. UNCHANGED <<lock, op, target, status>>
    BY <1>5 DEF Clear, InsertConditions
  <2>3. QED
    BY <2>1, <2>2, MoveKeepsLocks DEF WriterTypes, Goto, Places, Changing
<1>6. CASE Commit(w)
  <2>1. PICK code \in {200, 201} : Finish(w, "commit", code)
    BY <1>6 DEF Commit, CommitRows
  <2>2. QED
    BY <2>1, FinishKeepsLocks DEF Places, Codes
<1>7. CASE Abort(w)
  BY <1>7, FinishKeepsLocks DEF Abort, Places, Codes
<1>8. CASE Delete(w)
  BY <1>8, FinishKeepsLocks DEF Delete, Places, Codes
<1>9. CASE Drop(w)
  <2>1. PICK code \in {204, 404} : Finish(w, "drop", code)
    BY <1>9 DEF Drop
  <2>2. QED
    BY <2>1, FinishKeepsLocks DEF Places, Codes
<1>10. QED
  BY <1>1, <1>2, <1>3, <1>4, <1>5, <1>6, <1>7, <1>8, <1>9 DEF Write

\* What a writer's step does to the database: nothing, or it gives out an id
\* and locks it, or it locks a row, or it changes what is committed.
LEMMA QuietKeepsCommitted ==
  ASSUME Committed, UNCHANGED database, \A e \in Ids : lock'[e] # None => lock[e] # None
  PROVE  Committed'
BY DEF database, Committed, CommittedWhole, NoOrphans, IdsAndDomain

LEMMA ReleaseUnlocks ==
  ASSUME NEW w \in Writers, Release(w)
  PROVE  \A e \in Ids : lock'[e] # None => lock[e] # None /\ lock[e] # w
BY DEF Release

LEMMA CommittedStep ==
  ASSUME Types, Locks, Committed, NEW w \in Writers, Write(w)
  PROVE  DatabaseTypes' /\ Committed'
<1> USE Names
<1>0. UNCHANGED database => DatabaseTypes'
  BY DEF Types, DatabaseTypes, database
<1>1. CASE Lookup(w) \/ Begin(w) \/ Clear(w) \/ InsertConditions(w) \/ Abort(w)
  <2>1. UNCHANGED database /\ (lock' = lock \/ Release(w))
    BY <1>1 DEF Lookup, Begin, Clear, InsertConditions, Abort, Finish
  <2>2. QED
    BY <1>0, <2>1, QuietKeepsCommitted, ReleaseUnlocks
<1>2. CASE InsertHeader(w)
  <2>1. CASE Finish(w, "header", 409) \/ Finish(w, "header", 500)
    <3>1. UNCHANGED database /\ Release(w)
      BY <1>2, <2>1
         DEF InsertHeader, InsertReferring, Finish, Goto, Types, WriterTypes
    <3>2. QED
      BY <1>0, <3>1, QuietKeepsCommitted, ReleaseUnlocks
  <2>2. CASE /\ domain
             /\ \E e \in Ids \ used : lock' = [lock EXCEPT ![e] = w] /\ used' = used \cup {e}
             /\ UNCHANGED <<domain, header, conds, acts>>
    BY <2>2
       DEF Types, DatabaseTypes, WriterTypes, Committed, CommittedWhole, NoOrphans,
                IdsAndDomain
  <2>3. QED
    BY <1>2, <2>1, <2>2 DEF InsertHeader, InsertReferring
<1>3. CASE UpdateHeader(w)
  <2>1. UNCHANGED database
    BY <1>3 DEF UpdateHeader
  <2>2. CASE header[target[w]] = None
    BY <1>0, <1>3, <2>1, <2>2, QuietKeepsCommitted, ReleaseUnlocks
       DEF UpdateHeader, Finish
  <2>3. CASE header[target[w]] # None
    <3>1. target[w] \in Ids /\ lock' = [lock EXCEPT ![target[w]] = w]
      BY <1>3, <2>3 DEF UpdateHeader, Goto, Locks
    <3>2. target[w] \in used /\ domain
      BY <2>3, <3>1 DEF Committed, NoOrphans, IdsAndDomain, Types, DatabaseTypes
    <3>3. QED
      BY <1>0, <2>1, <3>1, <3>2
         DEF database, Types, WriterTypes, Committed, CommittedWhole, NoOrphans,
             IdsAndDomain
  <2>4. QED
    BY <2>2, <2>3
<1>4. CASE Commit(w)
  <2>1. target[w] \in Ids /\ w \in Versions /\ lock[target[w]] = w
    BY <1>4 DEF Commit, CommitRows, Finish, Goto, Locks, Changing, Versions
  <2>2. /\ header' = [header EXCEPT ![target[w]] = w]
        /\ conds' = [conds EXCEPT ![target[w]] = Rows(w)]
        /\ acts' = [acts EXCEPT ![target[w]] = Rows(w)]
        /\ UNCHANGED <<domain, used>> /\ Release(w)
    BY <1>4 DEF Commit, CommitRows, Finish
  <2>3. DatabaseTypes'
    BY <2>1, <2>2 DEF Types, DatabaseTypes
  <2>4. target[w] \in used /\ domain
    BY <2>1 DEF Committed, IdsAndDomain
  <2>5. \A e \in Ids : lock'[e] # None => lock[e] # None
    BY <2>2, ReleaseUnlocks
  <2>6. CommittedWhole'
    BY <2>1, <2>2 DEF Types, DatabaseTypes, Committed, CommittedWhole
  <2>7. NoOrphans' /\ IdsAndDomain'
    BY <2>1, <2>2, <2>4, <2>5
       DEF Types, DatabaseTypes, Committed, NoOrphans, IdsAndDomain
  <2>8. QED
    BY <2>3, <2>6, <2>7 DEF Committed
<1>5. CASE Delete(w)
  <2>1. target[w] \in Ids /\ Release(w)
    BY <1>5 DEF Delete, Finish, Goto, Locks
  <2>2. CASE header[target[w]] = None
    <3>1. UNCHANGED database
      BY <1>5, <2>2 DEF Delete
    <3>2. QED
      BY <1>0, <2>1, <3>1, QuietKeepsCommitted, ReleaseUnlocks
  <2>3. CASE header[target[w]] # None
    <3>1. /\ header' = [header EXCEPT ![target[w]] = None]
          /\ conds' = [conds EXCEPT ![target[w]] = {}]
          /\ acts' = [acts EXCEPT ![target[w]] = {}]
          /\ UNCHANGED <<domain, used>>
      BY <1>5, <2>3 DEF Delete
    <3>2. DatabaseTypes'
      BY <2>1, <3>1 DEF Types, DatabaseTypes
    <3>3. \A e \in Ids : lock'[e] # None => lock[e] # None
      BY <2>1, ReleaseUnlocks
    <3>4. \A e \in Ids :
            /\ header'[e] = IF e = target[w] THEN None ELSE header[e]
            /\ conds'[e] = IF e = target[w] THEN {} ELSE conds[e]
            /\ acts'[e] = IF e = target[w] THEN {} ELSE acts[e]
      BY <3>1 DEF Types, DatabaseTypes
    <3>5. CommittedWhole'
      BY <3>4 DEF Committed, CommittedWhole
    <3>6. NoOrphans' /\ IdsAndDomain'
      BY <3>1, <3>3, <3>4 DEF Committed, NoOrphans, IdsAndDomain
    <3>7. QED
      BY <3>2, <3>5, <3>6 DEF Committed
  <2>4. QED
    BY <2>2, <2>3
<1>6. CASE Drop(w)
  <2>1. \A e \in Ids : lock'[e] = None
    BY <1>6, ReleaseUnlocks DEF Drop, Finish, Unlocked
  <2>2. /\ domain' = FALSE /\ used' = used
        /\ header' = [e \in Ids |-> None]
        /\ conds' = [e \in Ids |-> {}]
        /\ acts' = [e \in Ids |-> {}]
    BY <1>6 DEF Drop
  <2>3. QED
    BY <2>1, <2>2
       DEF Types, DatabaseTypes, Committed, CommittedWhole, NoOrphans, IdsAndDomain
<1>7. QED
  BY <1>1, <1>2, <1>3, <1>4, <1>5, <1>6 DEF Write

--------------------------------------------------------------------------------
(***************************************************************************)
(* Readers.                                                                *)
(***************************************************************************)

\* A change of some extensions is remembered against those who read meanwhile.
LEMMA TouchKeepsReads ==
  ASSUME Types, \A r \in Readers : Reads(r), NEW es \in SUBSET Ids, Touch(es),
         \A e \in Ids \ es : header'[e] = header[e], UNCHANGED readers
  PROVE  ReaderTypes' /\ \A r \in Readers : Reads(r)'
<1>1. ReaderTypes'
  BY DEF Touch, readers, Types, ReaderTypes
<1>2. ASSUME NEW r \in Readers PROVE Reads(r)'
  <2>1. touched'[r] = IF rpc[r] = "new" THEN {} ELSE touched[r] \cup es
    BY DEF Touch
  <2>2. QED
    BY <2>1 DEF Reads, readers, Unloaded
<1>3. QED
  BY <1>1, <1>2

LEMMA QuietKeepsReads ==
  ASSUME Types, \A r \in Readers : Reads(r), UNCHANGED <<header, readers, touched>>
  PROVE  ReaderTypes' /\ \A r \in Readers : Reads(r)'
<1>1. ReaderTypes'
  BY DEF readers, Types, ReaderTypes
<1>2. ASSUME NEW r \in Readers PROVE Reads(r)'
  BY DEF readers, Reads, Unloaded
<1>3. QED
  BY <1>1, <1>2

LEMMA WriterReads ==
  ASSUME Types, Locks, \A r \in Readers : Reads(r), NEW w \in Writers, Write(w)
  PROVE  ReaderTypes' /\ \A r \in Readers : Reads(r)'
<1>1. CASE UNCHANGED <<header, readers, touched>>
  BY <1>1, QuietKeepsReads
<1>2. CASE Commit(w)
  <2>1. target[w] \in Ids
    BY <1>2 DEF Commit, CommitRows, Finish, Goto, Locks
  <2>2. QED
    BY <1>2, <2>1, TouchKeepsReads DEF Commit, CommitRows, Types, DatabaseTypes
<1>3. CASE Delete(w)
  <2>1. target[w] \in Ids
    BY <1>3 DEF Delete, Finish, Goto, Locks
  <2>2. CASE header[target[w]] = None
    BY <1>1, <1>3, <2>2 DEF Delete, database
  <2>3. CASE header[target[w]] # None
    BY <1>3, <2>1, <2>3, TouchKeepsReads DEF Delete, Types, DatabaseTypes
  <2>4. QED
    BY <2>2, <2>3
<1>4. CASE Drop(w)
  <2> DEFINE es == {e \in Ids : header[e] # None}
  <2>1. \A e \in Ids \ es : header'[e] = header[e]
    BY <1>4 DEF Drop
  <2>2. Touch(es) /\ UNCHANGED readers /\ es \in SUBSET Ids
    BY <1>4 DEF Drop
  <2> HIDE DEF es
  <2>3. QED
    BY <2>1, <2>2, TouchKeepsReads
<1>5. QED
  BY <1>1, <1>2, <1>3, <1>4
     DEF Write, Lookup, Begin, InsertHeader, InsertReferring, UpdateHeader, Clear,
         InsertConditions, Abort, database

\* A step of one reader leaves the others, the writers and the database alone.
LEMMA ReaderStep ==
  ASSUME Inv, NEW r \in Readers,
         (\E scope \in SUBSET Ids : QueryHeaders(r, scope)) \/ Load(r)
  PROVE  /\ UNCHANGED <<database, writers, touched>>
         /\ ReaderTypes'
         /\ \A q \in Readers : Reads(q)'
<1> USE DEF Inv, Types
<1>1. ASSUME NEW scope \in SUBSET Ids, QueryHeaders(r, scope)
      PROVE  /\ UNCHANGED <<database, writers, touched>>
             /\ ReaderTypes'
             /\ \A q \in Readers : Reads(q)'
  <2> DEFINE found == {e \in scope : header[e] # None}
  <2>1. /\ rpc[r] = "new" /\ rpc' = [rpc EXCEPT ![r] = "load"]
        /\ seen' = [seen EXCEPT ![r] =
                      [e \in Ids |-> IF e \in found THEN header[e] ELSE None]]
        /\ todo' = [todo EXCEPT ![r] = found]
        /\ UNCHANGED <<database, writers, rows, loaded, full, touched>>
    BY <1>1 DEF QueryHeaders
  <2>2. ReaderTypes'
    BY <2>1 DEF ReaderTypes, DatabaseTypes
  <2>3. Reads(r)'
    BY <2>1 DEF ReaderTypes, Reads, database, Unloaded
  <2>4. ASSUME NEW q \in Readers, q # r PROVE Reads(q)'
    <3>1. UNCHANGED <<header, rpc[q], todo[q], seen[q], rows[q], loaded[q], full[q],
                      touched[q]>>
      BY <2>1, <2>4 DEF ReaderTypes, database
    <3>2. QED
      BY <3>1 DEF Reads, Unloaded
  <2>5. QED
    BY <2>1, <2>2, <2>3, <2>4
<1>2. ASSUME NEW e \in Ids, QueryConditions(r, e)
      PROVE  /\ UNCHANGED <<database, writers, touched>>
             /\ ReaderTypes'
             /\ \A q \in Readers : Reads(q)'
  <2>1. /\ rpc[r] = "load" /\ e \in todo[r]
        /\ todo' = [todo EXCEPT ![r] = @ \ {e}]
        /\ rows' = [rows EXCEPT ![r][e] = conds[e]]
        /\ UNCHANGED <<database, writers, rpc, seen, loaded, full, touched>>
    BY <1>2 DEF QueryConditions
  <2>2. ReaderTypes'
    BY <2>1 DEF ReaderTypes, DatabaseTypes
  <2>3. \A f \in Ids : rows'[r][f] = IF f = e THEN conds[e] ELSE rows[r][f]
    BY <2>1 DEF ReaderTypes
  <2>4. conds[e] = IF header[e] = None THEN {} ELSE Rows(header[e])
    BY DEF Committed, CommittedWhole
  <2>5. header[e] # None => header[e] \in Versions
    BY DEF DatabaseTypes
  <2>6. \A f \in Ids \ touched[r] : seen[r][f] # None /\ f \notin todo'[r] =>
                                 rows'[r][f] = Rows(header[f])
    BY <2>1, <2>3, <2>4 DEF Reads, ReaderTypes
  <2>7. \A f \in Ids : rows'[r][f] # {} => \E v \in Versions : rows'[r][f] = Rows(v)
    BY <2>3, <2>4, <2>5 DEF Reads
  <2>8. Reads(r)'
    BY <2>1, <2>6, <2>7 DEF Reads, database
  <2>9. ASSUME NEW q \in Readers, q # r PROVE Reads(q)'
    <3>1. UNCHANGED <<header, rpc[q], todo[q], seen[q], rows[q], loaded[q], full[q],
                      touched[q]>>
      BY <2>1, <2>9 DEF ReaderTypes, database
    <3>2. QED
      BY <3>1 DEF Reads, Unloaded
  <2>10. QED
    BY <2>1, <2>2, <2>8, <2>9
<1>3. ASSUME NEW c \in Unloaded(r), QueryActions(r, c)
      PROVE  /\ UNCHANGED <<database, writers, touched>>
             /\ ReaderTypes'
             /\ \A q \in Readers : Reads(q)'
  <2>1. /\ loaded' = [loaded EXCEPT ![r] = @ \cup {c}]
        /\ full' = IF \E e \in Ids : c \in acts[e]
                     THEN [full EXCEPT ![r] = @ \cup {c}] ELSE full
        /\ UNCHANGED <<database, writers, rpc, todo, seen, rows, touched>>
    BY <1>3 DEF QueryActions
  <2>2. c \in AllRows
    BY DEF Unloaded, ReaderTypes
  <2>3. ReaderTypes'
    BY <2>1, <2>2 DEF ReaderTypes
  <2>4. rpc[r] # "new" /\ rpc[r] # "done"
    BY DEF Unloaded, Reads
  <2>5. \A f \in Ids \ touched[r] : seen[r][f] # None =>
          /\ seen[r][f] = header[f]
          /\ Rows(header[f]) = acts[f]
          /\ Rows(header[f]) \cap loaded[r] \subseteq full[r]
    BY DEF Reads, Committed, CommittedWhole
  <2>6. \A f \in Ids \ touched[r] : seen[r][f] # None =>
          Rows(header[f]) \cap loaded'[r] \subseteq full'[r]
    BY <2>1, <2>5 DEF ReaderTypes
  <2>7. Reads(r)'
    BY <2>1, <2>4, <2>6 DEF Reads, database
  <2>8. ASSUME NEW q \in Readers, q # r PROVE Reads(q)'
    <3>1. UNCHANGED <<header, rpc[q], todo[q], seen[q], rows[q], loaded[q], full[q],
                      touched[q]>>
      BY <2>1, <2>8 DEF ReaderTypes, database
    <3>2. QED
      BY <3>1 DEF Reads, Unloaded
  <2>9. QED
    BY <2>1, <2>3, <2>7, <2>8
<1>4. ASSUME Respond(r)
      PROVE  /\ UNCHANGED <<database, writers, touched>>
             /\ ReaderTypes'
             /\ \A q \in Readers : Reads(q)'
  <2>1. /\ todo[r] = {} /\ Unloaded(r) = {}
        /\ rpc' = [rpc EXCEPT ![r] = "done"]
        /\ UNCHANGED <<database, writers, todo, seen, rows, loaded, full, touched>>
    BY <1>4 DEF Respond
  <2>2. ReaderTypes'
    BY <2>1 DEF ReaderTypes
  <2>3. ASSUME NEW q \in Readers PROVE Reads(q)'
    <3>1. UNCHANGED <<header, todo[q], seen[q], rows[q], loaded[q], full[q], touched[q]>>
      BY <2>1 DEF database
    <3>2. rpc'[q] = rpc[q] \/ (rpc'[q] = "done" /\ q = r)
      BY <2>1 DEF ReaderTypes
    <3>3. todo[r] = {} /\ Unloaded(r) = {}
      BY <2>1
    <3>4. Unloaded(q)' = Unloaded(q)
      BY <3>1 DEF Unloaded
    <3>5. QED
      BY <3>1, <3>2, <3>3, <3>4 DEF Reads
  <2>4. QED
    BY <2>1, <2>2, <2>3
<1>5. QED
  BY <1>1, <1>2, <1>3, <1>4 DEF Load

--------------------------------------------------------------------------------
LEMMA StartInv ==
  ASSUME Inv, NEW w \in Writers, NEW operation \in {"create", "update", "delete", "drop"},
         NEW e \in Ids, Start(w, operation, e)
  PROVE  Inv'
<1> USE DEF Inv, Types
<1>1. PICK to \in {"lookup", "begin"} : Goto(w, "new", to)
  BY DEF Start
<1>2. /\ op' = [op EXCEPT ![w] = operation] /\ target' = [target EXCEPT ![w] = e]
      /\ UNCHANGED <<database, lock, status, readers, touched>>
  BY DEF Start
<1>3. WriterTypes'
  BY <1>1, <1>2 DEF WriterTypes, Goto, Places
<1>4. Locks'
  BY <1>1, <1>2 DEF WriterTypes, Locks, Goto, Changing
<1>5. DatabaseTypes' /\ Committed'
  BY <1>2, QuietKeepsCommitted DEF DatabaseTypes, database
<1>6. ReaderTypes' /\ \A r \in Readers : Reads(r)'
  BY <1>2, QuietKeepsReads DEF database
<1>7. QED
  BY <1>3, <1>4, <1>5, <1>6

LEMMA NextInv == Inv /\ [Next]_vars => Inv'
<1> SUFFICES ASSUME Inv, [Next]_vars PROVE Inv'
  OBVIOUS
<1>1. ASSUME UNCHANGED <<database, writers, touched>>, ReaderTypes',
             \A r \in Readers : Reads(r)'
      PROVE  Inv'
  <2>1. DatabaseTypes' /\ WriterTypes' /\ Locks'
    BY <1>1 DEF Inv, Types, DatabaseTypes, WriterTypes, Locks, database, writers
  <2>2. Committed'
    BY <1>1, QuietKeepsCommitted DEF Inv, writers
  <2>3. QED
    BY <1>1, <2>1, <2>2 DEF Inv, Types
<1>2. ASSUME NEW w \in Writers, Write(w) PROVE Inv'
  BY <1>2, WriterStep, CommittedStep, WriterReads DEF Inv, Types
<1>3. ASSUME NEW r \in Readers, Load(r) PROVE Inv'
  BY <1>1, <1>3, ReaderStep
<1>4. CASE Arrive
  <2>1. ASSUME NEW r \in Readers, NEW scope \in SUBSET Ids, QueryHeaders(r, scope)
        PROVE  Inv'
    BY <1>1, <2>1, ReaderStep
  <2>2. \A e \in Ids : {e} \in SUBSET Ids
    OBVIOUS
  <2>3. QED
    BY <1>4, <2>1, <2>2, StartInv DEF Arrive
<1>5. CASE UNCHANGED vars
  <2>1. ReaderTypes' /\ \A r \in Readers : Reads(r)'
    BY <1>5, QuietKeepsReads DEF vars, database, Inv
  <2>2. QED
    BY <1>1, <1>5, <2>1 DEF vars
<1>6. QED
  BY <1>2, <1>3, <1>4, <1>5 DEF Next

LEMMA Invariance == Spec => []Inv
BY InitInv, NextInv, PTL DEF Spec

\* The tables, the locks and every request keep their types.
THEOREM Typing == Spec => []TypeOK
<1>1. Inv => TypeOK
  BY TypesOK DEF Inv
<1>2. QED
  BY <1>1, Invariance, PTL

\* What is committed of an extension is whole: the transactions of
\* CreateDialplanExtension and UpdateDialplanExtension.
THEOREM CommitsAreWhole == Spec => []CommittedWhole
<1>1. Inv => CommittedWhole
  BY DEF Inv, Committed
<1>2. QED
  BY <1>1, Invariance, PTL

\* No extension outlives its domain, although the domain is looked up before
\* the transaction that uses it (CreateDialplanExtension).
THEOREM NoneOrphaned == Spec => []NoOrphans
<1>1. Inv => NoOrphans
  BY DEF Inv, Committed
<1>2. QED
  BY <1>1, Invariance, PTL

\* A reader never mixes the conditions of two versions: ListDialplanExtensions
\* and loadConditions, which no transaction surrounds.
THEOREM ReadersSeeOneVersion == Spec => []ReadsOneVersion
<1>1. Inv => ReadsOneVersion
  BY DEF Inv, Reads, ReadsOneVersion
<1>2. QED
  BY <1>1, Invariance, PTL

\* A reader shows an extension nobody committed to meanwhile exactly as it is
\* (ListDialplanExtensions and loadConditions).
THEOREM QuietReads == Spec => []QuietReadWhole
<1>1. Inv => QuietReadWhole
  <2> SUFFICES ASSUME Inv, NEW r \in Readers, rpc[r] = "done",
                      NEW e \in Ids \ touched[r], seen[r][e] # None
               PROVE  /\ seen[r][e] = header[e]
                      /\ rows[r][e] = Rows(header[e])
                      /\ rows[r][e] \subseteq full[r]
    BY DEF QuietReadWhole
  <2>1. /\ todo[r] = {} /\ Unloaded(r) = {}
        /\ seen[r][e] = header[e]
        /\ e \notin todo[r] => rows[r][e] = Rows(header[e])
        /\ Rows(header[e]) \cap loaded[r] \subseteq full[r]
    BY DEF Inv, Reads
  <2>2. ASSUME NEW c \in rows[r][e], c \notin loaded[r] PROVE FALSE
    <3>1. c \in Unloaded(r)
      BY <2>2 DEF Unloaded
    <3>2. QED
      BY <2>1, <3>1
  <2>3. QED
    BY <2>1, <2>2
<1>2. QED
  BY <1>1, Invariance, PTL

--------------------------------------------------------------------------------
(***************************************************************************)
(* Provisioning. A device has no row but under the normal form of its MAC, *)
(* so that a request that nothing was written during meets one user and    *)
(* one password; whatever is written is added to those it may be served.   *)
(***************************************************************************)
Fetch ==
  [at: {"idle", "device", "password", "served", "not found", "failed"},
   row: PR!Row \cup {None}, config: (Users \X Passwords) \cup {None}]

PhoneTypes ==
  /\ device \in [PR!Spellings -> PR!Row \cup {None}]
  /\ password \in [Users -> Passwords \cup {None}]
  /\ fetch \in Fetch
  /\ quiet \in BOOLEAN

Normalised == device["dashed"] = None

\* The histories hold what is there now, and that alone if nothing was written.
Histories ==
  fetch.at # "idle" =>
    /\ PR!Bound(device) \subseteq bound /\ PR!Valid(password) \subseteq valid
    /\ quiet => bound = PR!Bound(device) /\ valid = PR!Valid(password)

\* Between its queries a request knows a user its device was bound to.
RowKnown ==
  fetch.at = "password" =>
    /\ fetch.row \in PR!Row /\ fetch.row.user \in bound
    /\ quiet => device["plain"] = fetch.row

PhoneInv == PhoneTypes /\ Normalised /\ Histories /\ RowKnown /\ PhoneServed

LEMMA PhoneInit == PR!Init => PhoneInv
<1> SUFFICES ASSUME PR!Init PROVE PhoneInv
  OBVIOUS
<1>1. fetch = [at |-> "idle", row |-> None, config |-> None]
  BY DEF PR!Init, PR!NoFetch
<1>2. PhoneTypes
  BY <1>1 DEF PR!Init, PhoneTypes, Fetch, PR!Spellings
<1>3. QED
  BY <1>1, <1>2
     DEF PR!Init, PhoneInv, PR!Spellings, Normalised, Histories, RowKnown,
         PhoneServed,
         PR!PhoneServed

\* A write that leaves rows of the right type, under the normal form.
LEMMA WrittenKeeps ==
  ASSUME PhoneInv, PR!Written, Normalised',
         device' \in [PR!Spellings -> PR!Row \cup {None}],
         password' \in [Users -> Passwords \cup {None}]
  PROVE  PhoneInv'
<1>1. /\ quiet' = FALSE /\ fetch' = fetch
      /\ bound' = bound \cup PR!Bound(device')
      /\ valid' = valid \cup PR!Valid(password')
  BY DEF PR!Written
<1>2. PhoneTypes'
  BY <1>1 DEF PhoneInv, PhoneTypes
<1>3. Histories'
  BY <1>1 DEF PhoneInv, Histories, PR!Bound, PR!Valid
<1>4. RowKnown' /\ PhoneServed'
  BY <1>1 DEF PhoneInv, RowKnown, PhoneServed, PR!PhoneServed
<1>5. QED
  BY <1>2, <1>3, <1>4 DEF PhoneInv

\* A step of the phone's request leaves the tables and the histories.
LEMMA FetchesKeeps ==
  ASSUME PhoneInv, NEW state \in Fetch, PR!Fetches(state), fetch.at # "idle", RowKnown',
         PhoneServed'
  PROVE  PhoneInv'
<1>1. fetch' = state /\ UNCHANGED <<device, password, quiet, bound, valid, writes>>
  BY DEF PR!Fetches
<1>2. Histories'
  BY <1>1 DEF PhoneInv, Histories, PR!Bound, PR!Valid
<1>3. QED
  BY <1>1, <1>2 DEF PhoneInv, PhoneTypes, Normalised

LEMMA PhoneNext == PhoneInv /\ [PR!Next]_PR!vars => PhoneInv'
<1> SUFFICES ASSUME PhoneInv, [PR!Next]_PR!vars PROVE PhoneInv'
  OBVIOUS
<1>0. /\ PhoneTypes /\ Normalised
      /\ \A mac : PR!NormalizeMAC(mac) = "plain"
      /\ PR!Spellings = {"plain", "dashed"}
  BY DEF PhoneInv, PR!NormalizeMAC, PR!Spellings
<1>1. ASSUME NEW mac \in PR!Spellings, NEW r \in PR!Row,
             PR!CreateDevice(mac, r) \/ PR!UpdateDevice(mac, r)
      PROVE  PhoneInv'
  <2>1. device' = [device EXCEPT !["plain"] = r] /\ password' = password /\ PR!Written
    BY <1>0, <1>1 DEF PR!CreateDevice, PR!UpdateDevice
  <2>2. QED
    BY <1>0, <2>1, WrittenKeeps DEF PhoneTypes, Normalised
<1>2. ASSUME NEW mac \in PR!Spellings, PR!DeleteDevice(mac)
      PROVE  PhoneInv'
  <2>1. device' = [device EXCEPT !["plain"] = None] /\ password' = password /\ PR!Written
    BY <1>0, <1>2 DEF PR!DeleteDevice
  <2>2. QED
    BY <1>0, <2>1, WrittenKeeps DEF PhoneTypes, Normalised
<1>3. ASSUME NEW u \in Users, NEW p \in Passwords \cup {None}, PR!WriteUser(u, p)
      PROVE  PhoneInv'
  BY <1>0, <1>3, WrittenKeeps DEF PR!WriteUser, PhoneTypes, Normalised
<1>4. CASE PR!Begin
  <2>1. fetch' = [at |-> "device", row |-> None, config |-> None]
    BY <1>4 DEF PR!Begin, PR!NoFetch
  <2>2. PhoneTypes' /\ Normalised'
    <3>1. fetch' \in Fetch
      BY <2>1 DEF Fetch
    <3>2. UNCHANGED <<device, password>> /\ quiet' = TRUE
      BY <1>4 DEF PR!Begin
    <3>3. QED
      BY <1>0, <3>1, <3>2 DEF PhoneTypes, Normalised
  <2>3. Histories'
    BY <1>4, <2>1 DEF PR!Begin, Histories, PR!Bound, PR!Valid
  <2>4. RowKnown' /\ PhoneServed'
    BY <2>1 DEF RowKnown, PhoneServed, PR!PhoneServed
  <2>5. QED
    BY <2>2, <2>3, <2>4 DEF PhoneInv
\* The row of a phone whose device is enabled is that of the user it is bound
\* to; without one nobody is bound.
<1>5. CASE PR!GetDevice
  <2> DEFINE d == device["plain"]
  <2>1. fetch.at = "device"
    BY <1>5 DEF PR!GetDevice
  <2>2. UNCHANGED <<device, password, quiet, bound, valid, writes>>
    BY <1>5 DEF PR!GetDevice, PR!Fetches
  <2>3. CASE d = None \/ ~d.enabled
    <3>1. PR!Fetches([at |-> "not found", row |-> None, config |-> None])
      BY <1>0, <1>5, <2>3 DEF PR!GetDevice, PR!Fetches, PR!NotFound, PR!NoFetch
    <3>2. PR!Bound(device) = {}
      BY <1>0, <2>3 DEF PR!Bound, Normalised
    <3>3. quiet => bound = {}
      BY <2>1, <3>2 DEF PhoneInv, Histories
    <3>4. fetch' = [at |-> "not found", row |-> None, config |-> None]
      BY <3>1 DEF PR!Fetches
    <3>5. RowKnown' /\ PhoneServed'
      BY <2>2, <3>3, <3>4 DEF RowKnown, PhoneServed, PR!PhoneServed
    <3>6. QED
      BY <2>1, <3>1, <3>5, FetchesKeeps DEF Fetch
  <2>4. CASE ~(d = None \/ ~d.enabled)
    <3>1. d \in PR!Row /\ d.user \in PR!Bound(device)
      BY <1>0, <2>4 DEF PhoneTypes, PR!Bound
    <3>2. PR!Fetches([at |-> "password", row |-> d, config |-> None])
      BY <1>0, <1>5, <2>4 DEF PR!GetDevice, PR!Fetches, PR!NoFetch
    <3>3. fetch' = [at |-> "password", row |-> d, config |-> None]
      BY <3>2 DEF PR!Fetches
    <3>4. d.user \in bound
      BY <2>1, <3>1 DEF PhoneInv, Histories
    <3>5. RowKnown' /\ PhoneServed'
      BY <2>2, <3>1, <3>3, <3>4 DEF RowKnown, PhoneServed, PR!PhoneServed
    <3>6. QED
      BY <2>1, <3>1, <3>2, <3>5, FetchesKeeps DEF Fetch
  <2>5. QED
    BY <2>3, <2>4
<1>6. CASE PR!GetPassword
  <2> DEFINE u == fetch.row.user
  <2>1. /\ fetch.at = "password" /\ fetch.row \in PR!Row /\ u \in bound
        /\ quiet => device["plain"] = fetch.row
    BY <1>6 DEF PR!GetPassword, PhoneInv, RowKnown
  <2>2. UNCHANGED <<device, password, quiet, bound, valid, writes>>
    BY <1>6 DEF PR!GetPassword, PR!Fetches
  <2>3. u \in Users
    BY <2>1 DEF PR!Row
  <2>4. CASE password[u] = None
    <3>1. PR!Fetches([at |-> "not found", row |-> None, config |-> None])
      BY <1>6, <2>4 DEF PR!GetPassword, PR!NotFound, PR!NoFetch
    <3>2. fetch' = [at |-> "not found", row |-> None, config |-> None]
      BY <3>1 DEF PR!Fetches
    <3>3. quiet => \A v \in bound : v = u
      BY <1>0, <2>1 DEF PhoneInv, Histories, PR!Bound, Normalised
    <3>4. quiet => \A p \in Passwords : <<u, p>> \notin valid
      BY <2>1, <2>4 DEF PhoneInv, Histories, PR!Valid
    <3>5. RowKnown' /\ PhoneServed'
      BY <2>2, <3>2, <3>3, <3>4 DEF RowKnown, PhoneServed, PR!PhoneServed
    <3>6. QED
      BY <2>1, <3>1, <3>5, FetchesKeeps DEF Fetch
  <2>5. CASE password[u] # None
    <3> DEFINE c == <<u, password[u]>>
    <3>1. password[u] \in Passwords
      BY <1>0, <2>3, <2>5 DEF PhoneTypes
    <3>2. c \in valid
      BY <2>1, <2>3, <2>5 DEF PhoneInv, Histories, PR!Valid
    <3>3. /\ PR!Fetches([fetch EXCEPT !.at = "served", !.config = c])
          /\ fetch' = [fetch EXCEPT !.at = "served", !.config = c]
      BY <1>6, <2>5 DEF PR!GetPassword, PR!Fetches
    <3>4. c \in Users \X Passwords /\ c[1] = u
      BY <2>3, <3>1
    <3> HIDE DEF c
    <3>5. /\ [fetch EXCEPT !.at = "served", !.config = c] \in Fetch
          /\ [fetch EXCEPT !.at = "served", !.config = c].at = "served"
          /\ [fetch EXCEPT !.at = "served", !.config = c].config = c
      BY <1>0, <3>4 DEF PhoneTypes, Fetch
    <3>6. RowKnown' /\ PhoneServed'
      BY <2>1, <2>2, <3>2, <3>3, <3>4, <3>5 DEF RowKnown, PhoneServed, PR!PhoneServed
    <3>7. QED
      BY <2>1, <3>3, <3>5, <3>6, FetchesKeeps
  <2>6. QED
    BY <2>4, <2>5
<1>7. CASE PR!QueryFails
  <2>1. /\ fetch.at # "idle"
        /\ PR!Fetches([at |-> "failed", row |-> None, config |-> None])
    BY <1>7 DEF PR!QueryFails, PR!NoFetch
  <2>2. RowKnown' /\ PhoneServed'
    BY <2>1 DEF PR!Fetches, RowKnown, PhoneServed, PR!PhoneServed
  <2>3. QED
    BY <2>1, <2>2, FetchesKeeps DEF Fetch
<1>8. CASE UNCHANGED PR!vars
  <2>1. UNCHANGED <<device, password, fetch, quiet, bound, valid>>
    BY <1>8 DEF PR!vars
  <2>2. PhoneTypes' /\ Normalised'
    BY <2>1 DEF PhoneInv, PhoneTypes, Normalised
  <2>3. PR!Bound(device)' = PR!Bound(device) /\ PR!Valid(password)' = PR!Valid(password)
    BY <2>1
  <2>4. Histories' /\ RowKnown'
    BY <2>1, <2>3 DEF PhoneInv, Histories, RowKnown
  <2>5. PhoneServed'
    BY <2>1 DEF PhoneInv, PhoneServed, PR!PhoneServed
  <2>6. QED
    BY <2>2, <2>4, <2>5 DEF PhoneInv
<1>9. QED
  BY <1>1, <1>2, <1>3, <1>4, <1>5, <1>6, <1>7, <1>8 DEF PR!Next

\* A phone is given the password, at some time during its request, of a user
\* its device was bound to during it: store/devices.go, api/provision.go, the
\* two queries with writes of devices and users between them.
THEOREM PhoneConfigured == PR!Spec => []PhoneServed
<1>1. PhoneInv => PhoneServed
  BY DEF PhoneInv
<1>2. QED
  BY <1>1, PhoneInit, PhoneNext, PTL DEF PR!Spec

--------------------------------------------------------------------------------
\* A behaviour of Store is one of the dialplan and one of the phone, so that
\* what is proved of either holds of what the run checks.
THEOREM Together ==
  StoreSpec => [](CommittedWhole /\ NoOrphans /\ ReadsOneVersion /\ QuietReadWhole
                    /\ PhoneServed)
<1>1. StoreInit => Init /\ PR!Init
  BY DEF StoreInit
<1>2. [StoreNext]_<<part, vars, phone>> => [Next]_vars /\ [PR!Next]_PR!vars
  BY DEF StoreNext, phone, PR!vars
<1>3. StoreSpec => Spec /\ PR!Spec
  BY <1>1, <1>2, PTL DEF StoreSpec, Spec, PR!Spec
<1>4. QED
  BY <1>3, CommitsAreWhole, NoneOrphaned, ReadersSeeOneVersion, QuietReads,
     PhoneConfigured, PTL
================================================================================
