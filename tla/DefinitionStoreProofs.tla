----------------------- MODULE DefinitionStoreProofs -----------------------
(***************************************************************************)
(* Theorems about the definitions table, for any number of clients and any *)
(* bound on the versions.  What needs the locks of SQLite says so.         *)
(***************************************************************************)
EXTENDS DefinitionStore, TLAPS

USE DefinitionStoreAssumption

(* A client that is in an operation carries a definition's body.             *)
BodyHeld == \A c \in Clients : pc[c] # "idle" => local[c].body \in Bodies

LEMMA RowFields ==
    ASSUME NEW r \in Row
    PROVE  /\ r.status \in {"none", "draft", "published"}
           /\ r.status # "none" => r.body \in Bodies
           /\ r = [status |-> r.status, body |-> r.body]
  BY DEF Row

LEMMA InitTypes == Init => TypeOK /\ BodyHeld
  BY DEF Init, TypeOK, BodyHeld, Row, NoRow, NoLocal, Steps, Versions

LEMMA ReturnTypes ==
    ASSUME TypeOK, BodyHeld, NEW c \in Clients, Return(c), rows' \in [Versions -> Row]
    PROVE  TypeOK' /\ BodyHeld'
  BY DEF Return, Goto, TypeOK, BodyHeld, NoLocal, Steps, Versions

LEMMA StepTypes == TypeOK /\ BodyHeld /\ [Next]_vars => TypeOK' /\ BodyHeld'
<1> SUFFICES ASSUME TypeOK, BodyHeld, [Next]_vars
             PROVE  TypeOK' /\ BodyHeld'
  OBVIOUS
<1>1. ASSUME NEW c \in Clients, NEW v \in Versions, NEW b \in Bodies,
             SaveCheck(c, v, b)
      PROVE  TypeOK' /\ BodyHeld'
  BY <1>1 DEF SaveCheck, Goto, TypeOK, BodyHeld, Steps
<1>2. ASSUME NEW c \in Clients, SaveWrite(c)
      PROVE  TypeOK' /\ BodyHeld'
  <2>1. local[c].version \in Versions /\ local[c].body \in Bodies
    BY <1>2 DEF SaveWrite, TypeOK, BodyHeld
  <2>2. rows' \in [Versions -> Row]
    BY <1>2, <2>1 DEF SaveWrite, TypeOK, Row
  <2> QED
    BY <1>2, <2>2, ReturnTypes DEF SaveWrite
<1>3. ASSUME NEW c \in Clients, PublishRead(c)
      PROVE  TypeOK' /\ BodyHeld'
  <2>1. PICK v \in Versions :
           /\ rows[v].status = "draft"
           /\ local' = [local EXCEPT ![c] = [version |-> v, body |-> rows[v].body]]
    BY <1>3 DEF PublishRead, IsNewest, Drafts
  <2>2. rows[v].body \in Bodies
    BY <2>1, RowFields DEF TypeOK
  <2> QED
    BY <1>3, <2>1, <2>2 DEF PublishRead, Goto, TypeOK, BodyHeld, Steps
<1>4. ASSUME NEW c \in Clients, NEW v \in Versions, RollbackRead(c, v)
      PROVE  TypeOK' /\ BodyHeld'
  <2>1. rows[v].body \in Bodies
    BY <1>4, RowFields DEF RollbackRead, Published, TypeOK
  <2> QED
    BY <1>4, <2>1 DEF RollbackRead, Goto, TypeOK, BodyHeld, Steps
<1>5. ASSUME NEW c \in Clients, PublishMax(c) \/ RollbackMax(c)
      PROVE  TypeOK' /\ BodyHeld'
  BY <1>5 DEF PublishMax, RollbackMax, ReadMax, Goto, TypeOK, BodyHeld, Steps
<1>6. ASSUME NEW c \in Clients, PublishCommit(c) \/ RollbackCommit(c)
      PROVE  TypeOK' /\ BodyHeld'
  <2>1. local[c].version \in Versions /\ local[c].body \in Bodies
    BY <1>6 DEF PublishCommit, RollbackCommit, TypeOK, BodyHeld
  <2>2. rows' \in [Versions -> Row]
    BY <1>6, <2>1 DEF PublishCommit, RollbackCommit, TypeOK, Row, NoRow
  <2> QED
    BY <1>6, <2>2, ReturnTypes DEF PublishCommit, RollbackCommit
<1>7. ASSUME NEW c \in Clients, Busy(c)
      PROVE  TypeOK' /\ BodyHeld'
  BY <1>7, ReturnTypes DEF Busy, TypeOK
<1>8. CASE UNCHANGED vars
  BY <1>8 DEF vars, TypeOK, BodyHeld
<1> QED
  BY <1>1, <1>2, <1>3, <1>4, <1>5, <1>6, <1>7, <1>8 DEF Next

(* The table and the local variables keep their types: a client never writes *)
(* a row without a body.                                                     *)
THEOREM TypeCorrect == Spec => []TypeOK
<1>1. Spec => [](TypeOK /\ BodyHeld)
  BY InitTypes, StepTypes, PTL DEF Spec
<1> QED
  BY <1>1, PTL

LEMMA TypesInvariant == Spec => [](TypeOK /\ BodyHeld)
  BY InitTypes, StepTypes, PTL DEF Spec
-----------------------------------------------------------------------------
(* What a step does to the table *)

LEMMA RowSteps ==
    ASSUME TypeOK, BodyHeld, Next
    PROVE  \/ rows' = rows
           \/ \E c \in Clients : SaveWrite(c) \/ PublishCommit(c) \/ RollbackCommit(c)
  BY DEF Next, SaveCheck, PublishRead, PublishMax, RollbackRead, RollbackMax,
         ReadMax, Busy
-----------------------------------------------------------------------------
(* What the locks of SQLite add: while a client is in a transaction nobody   *)
(* else writes, so what it has read still holds when it commits.             *)

(* The version about to be written is above every published one. *)
VersionIsNew ==
    \A c \in Clients : pc[c] \in {"publishMax", "rollbackMax"} =>
        \A v \in Published : v < local[c].version

(* The body about to be published is still the newest draft's. *)
DraftHeld ==
    \A c \in Clients : pc[c] \in {"publishRead", "publishMax"} =>
        \E v \in Versions : IsNewest(v, Drafts) /\ rows[v].body = local[c].body

(* The body about to be restored is still a published version's. *)
TargetHeld ==
    \A c \in Clients : pc[c] \in {"rollbackRead", "rollbackMax"} =>
        \E v \in Published : rows[v].body = local[c].body

ReadsHold == VersionIsNew /\ DraftHeld /\ TargetHeld

Write(c) == SaveWrite(c) \/ PublishCommit(c) \/ RollbackCommit(c)

(* A write leaves every published row as it is. *)
LEMMA WriteKeepsPublished ==
    ASSUME TypeOK, BodyHeld, VersionIsNew, NEW c \in Clients, Write(c),
           NEW v \in Published
    PROVE  rows'[v] = rows[v]
<1>1. v \in Versions /\ rows[v].status = "published" /\ v \in Int
  BY DEF Published, Versions
<1>2. CASE SaveWrite(c)
  BY <1>1, <1>2 DEF SaveWrite, TypeOK
<1>3. CASE PublishCommit(c)
  <2>1. v < local[c].version
    BY <1>3 DEF VersionIsNew, PublishCommit
  <2> QED
    BY <1>1, <1>3, <2>1 DEF PublishCommit, Drafts, TypeOK, Versions
<1>4. CASE RollbackCommit(c)
  <2>1. v < local[c].version
    BY <1>4 DEF VersionIsNew, RollbackCommit
  <2> QED
    BY <1>1, <1>4, <2>1 DEF RollbackCommit, TypeOK, Versions
<1> QED
  BY <1>2, <1>3, <1>4 DEF Write

(* After a write on SQLite no client is in a transaction. *)
LEMMA WriteEndsTransactions ==
    ASSUME Dialect = "sqlite", TypeOK, NEW c \in Clients, Write(c),
           NEW d \in Clients
    PROVE  pc'[d] \notin {"publishRead", "publishMax", "rollbackMax"}
  BY DEF Write, SaveWrite, PublishCommit, RollbackCommit, CanCommit,
         InTransaction, Return, Goto, TypeOK

LEMMA InitReads == Init => ReadsHold
  BY DEF Init, ReadsHold, VersionIsNew, DraftHeld, TargetHeld

LEMMA WriteReads ==
    ASSUME Dialect = "sqlite", TypeOK, BodyHeld, ReadsHold, NEW c \in Clients,
           Write(c)
    PROVE  ReadsHold'
<1>1. VersionIsNew' /\ DraftHeld'
  BY WriteEndsTransactions DEF VersionIsNew, DraftHeld
<1>2. ASSUME NEW d \in Clients, pc'[d] \in {"rollbackRead", "rollbackMax"}
      PROVE  \E v \in Published' : rows'[v].body = local'[d].body
  <2>1. pc[d] = pc'[d] /\ local'[d] = local[d]
    BY <1>2 DEF Write, SaveWrite, PublishCommit, RollbackCommit, Return, Goto,
                TypeOK
  <2>2. PICK v \in Published : rows[v].body = local[d].body
    BY <1>2, <2>1 DEF ReadsHold, TargetHeld
  <2>3. rows'[v] = rows[v]
    BY WriteKeepsPublished DEF ReadsHold
  <2>4. v \in Published'
    BY <2>3 DEF Published
  <2> QED
    BY <2>1, <2>2, <2>3, <2>4
<1> QED
  BY <1>1, <1>2 DEF ReadsHold, TargetHeld

LEMMA MaxReads ==
    ASSUME TypeOK, BodyHeld, ReadsHold, NEW c \in Clients,
           PublishMax(c) \/ RollbackMax(c)
    PROVE  ReadsHold'
<1>1. PICK n \in Versions :
         /\ IsNextVersion(n, local[c].version)
         /\ local' = [local EXCEPT ![c].version = n]
  BY DEF PublishMax, RollbackMax, ReadMax
<1>2. rows' = rows /\ Published' = Published /\ Drafts' = Drafts
  BY DEF PublishMax, RollbackMax, ReadMax, Published, Drafts
<1>3. \A d \in Clients : local'[d].body = local[d].body
  BY <1>1 DEF TypeOK
<1>4. \A d \in Clients \ {c} : pc'[d] = pc[d] /\ local'[d] = local[d]
  BY <1>1 DEF PublishMax, RollbackMax, ReadMax, Goto, TypeOK
<1>5. \/ pc[c] = "publishRead" /\ pc'[c] = "publishMax"
      \/ pc[c] = "rollbackRead" /\ pc'[c] = "rollbackMax"
  BY DEF PublishMax, RollbackMax, ReadMax, Goto, TypeOK
<1>6. VersionIsNew'
  <2>1. \A v \in Published : v < n
    BY <1>1 DEF IsNextVersion, IsNewest, Published, Versions
  <2>2. local'[c].version = n
    BY <1>1 DEF TypeOK
  <2> QED
    BY <1>2, <1>4, <2>1, <2>2 DEF VersionIsNew, ReadsHold
<1>7. DraftHeld'
  BY <1>2, <1>3, <1>4, <1>5 DEF DraftHeld, ReadsHold, IsNewest
<1>8. TargetHeld'
  BY <1>2, <1>3, <1>4, <1>5 DEF TargetHeld, ReadsHold
<1> QED
  BY <1>6, <1>7, <1>8 DEF ReadsHold

LEMMA StepReads ==
    ASSUME Dialect = "sqlite", TypeOK, BodyHeld, ReadsHold, [Next]_vars
    PROVE  ReadsHold'
<1>1. ASSUME NEW c \in Clients, NEW v \in Versions, NEW b \in Bodies,
             SaveCheck(c, v, b)
      PROVE  ReadsHold'
  <2>1. rows' = rows /\ pc'[c] = "saving"
        /\ \A d \in Clients \ {c} : pc'[d] = pc[d] /\ local'[d] = local[d]
    BY <1>1 DEF SaveCheck, Goto, TypeOK
  <2> QED
    BY <2>1 DEF ReadsHold, VersionIsNew, DraftHeld, TargetHeld, IsNewest,
                Published, Drafts
<1>2. ASSUME NEW c \in Clients, PublishRead(c)
      PROVE  ReadsHold'
  <2>1. PICK v \in Versions :
           /\ IsNewest(v, Drafts)
           /\ local' = [local EXCEPT ![c] = [version |-> v, body |-> rows[v].body]]
    BY <1>2 DEF PublishRead
  <2>2. rows' = rows /\ pc'[c] = "publishRead" /\ local'[c].body = rows[v].body
        /\ \A d \in Clients \ {c} : pc'[d] = pc[d] /\ local'[d] = local[d]
    BY <1>2, <2>1 DEF PublishRead, Goto, TypeOK
  <2> QED
    BY <2>1, <2>2 DEF ReadsHold, VersionIsNew, DraftHeld, TargetHeld, IsNewest,
                      Published, Drafts
<1>3. ASSUME NEW c \in Clients, NEW v \in Versions, RollbackRead(c, v)
      PROVE  ReadsHold'
  <2>1. rows' = rows /\ pc'[c] = "rollbackRead" /\ v \in Published
        /\ local'[c].body = rows[v].body
        /\ \A d \in Clients \ {c} : pc'[d] = pc[d] /\ local'[d] = local[d]
    BY <1>3 DEF RollbackRead, Goto, TypeOK
  <2> QED
    BY <2>1 DEF ReadsHold, VersionIsNew, DraftHeld, TargetHeld, IsNewest,
                Published, Drafts
<1>4. ASSUME NEW c \in Clients, Busy(c)
      PROVE  ReadsHold'
  <2>1. rows' = rows /\ pc'[c] = "idle"
        /\ \A d \in Clients \ {c} : pc'[d] = pc[d] /\ local'[d] = local[d]
    BY <1>4 DEF Busy, Return, Goto, TypeOK
  <2> QED
    BY <2>1 DEF ReadsHold, VersionIsNew, DraftHeld, TargetHeld, IsNewest,
                Published, Drafts
<1>5. CASE UNCHANGED vars
  BY <1>5 DEF vars, ReadsHold, VersionIsNew, DraftHeld, TargetHeld, IsNewest,
              Published, Drafts
<1> QED
  BY <1>1, <1>2, <1>3, <1>4, <1>5, WriteReads, MaxReads DEF Next, Write

LEMMA ReadsInvariant ==
    ASSUME Dialect = "sqlite"
    PROVE  Spec => [](TypeOK /\ BodyHeld /\ ReadsHold)
<1>1. TypeOK /\ BodyHeld /\ ReadsHold /\ [Next]_vars => ReadsHold'
  BY StepReads
<1> QED
  BY <1>1, InitTypes, InitReads, StepTypes, PTL DEF Spec

(* On SQLite a published version is never changed, whatever is saved,        *)
(* published and rolled back concurrently (store.go, the upserts of          *)
(* SaveDraft, Publish and Rollback).                                         *)
THEOREM PublishedVersionsStay == Dialect = "sqlite" => (Spec => PublishedStay)
<1> SUFFICES ASSUME Dialect = "sqlite"
             PROVE  Spec => PublishedStay
  OBVIOUS
<1>1. TypeOK /\ BodyHeld /\ ReadsHold /\ [Next]_vars =>
          [\A v \in Published : rows'[v] = rows[v]]_rows
  BY RowSteps, WriteKeepsPublished DEF ReadsHold, vars, Write
<1> QED
  BY <1>1, ReadsInvariant, PTL DEF Spec, PublishedStay

(* On SQLite every publication and rollback that succeeds makes a version of *)
(* its own (store.go: the maximum is read, and one above it written, in one  *)
(* transaction).                                                             *)
THEOREM VersionsAreFresh == Dialect = "sqlite" => (Spec => FreshVersion)
<1> SUFFICES ASSUME Dialect = "sqlite"
             PROVE  Spec => FreshVersion
  OBVIOUS
<1> DEFINE Own ==
      \A c \in Clients : PublishCommit(c) \/ RollbackCommit(c) =>
         local[c].version \notin Published
<1>1. TypeOK /\ BodyHeld /\ ReadsHold /\ [Next]_vars => [Own]_vars
  <2> SUFFICES ASSUME ReadsHold, NEW c \in Clients,
                      PublishCommit(c) \/ RollbackCommit(c),
                      local[c].version \in Published
               PROVE  FALSE
    OBVIOUS
  <2>1. local[c].version < local[c].version /\ local[c].version \in Int
    BY DEF PublishCommit, RollbackCommit, ReadsHold, VersionIsNew, Published,
           Versions
  <2> QED
    BY <2>1
<1> QED
  BY <1>1, ReadsInvariant, PTL DEF Spec, FreshVersion

(* A publication writes the body of the newest draft there is. *)
LEMMA CommitTakesNewest ==
    ASSUME TypeOK, BodyHeld, ReadsHold, NEW c \in Clients, PublishCommit(c),
           NEW v \in Drafts, IsNewest(v, Drafts)
    PROVE  rows'[local[c].version].body = rows[v].body
<1>1. PICK w \in Versions : IsNewest(w, Drafts) /\ rows[w].body = local[c].body
  BY DEF PublishCommit, ReadsHold, DraftHeld
<1>2. v = w
  BY <1>1 DEF IsNewest, Drafts, Versions
<1>3. rows'[local[c].version].body = local[c].body
  BY DEF PublishCommit, TypeOK
<1> QED
  BY <1>1, <1>2, <1>3

(* On SQLite the body a publication makes public is the newest draft's: no   *)
(* draft saved meanwhile is deleted unpublished.                             *)
THEOREM PublicationsTakeNewest ==
    Dialect = "sqlite" => (Spec => PublishTakesNewest)
<1> SUFFICES ASSUME Dialect = "sqlite"
             PROVE  Spec => PublishTakesNewest
  OBVIOUS
<1> DEFINE Takes ==
      \A c \in Clients :
         pc[c] = "publishMax" /\ rows' # rows /\ pc'[c] = "idle" =>
           \A v \in Drafts : IsNewest(v, Drafts) =>
             rows'[local[c].version].body = rows[v].body
<1>1. TypeOK /\ BodyHeld /\ ReadsHold /\ [Next]_vars => [Takes]_vars
  <2> SUFFICES ASSUME TypeOK, BodyHeld, ReadsHold, Next,
                      NEW c \in Clients, pc[c] = "publishMax",
                      rows' # rows, pc'[c] = "idle"
               PROVE  PublishCommit(c)
    BY CommitTakesNewest DEF vars
  <2>1. PICK d \in Clients : Write(d)
    BY RowSteps DEF Write
  <2>2. c = d
    BY <2>1 DEF Write, SaveWrite, PublishCommit, RollbackCommit, Return, Goto,
                TypeOK
  <2> QED
    BY <2>1, <2>2 DEF Write, SaveWrite, RollbackCommit
<1> QED
  BY <1>1, ReadsInvariant, PTL DEF Spec, PublishTakesNewest
-----------------------------------------------------------------------------
(* The table implements the version chain *)

LEMMA EntryParts ==
    ASSUME NEW S, NEW e \in Entries(S)
    PROVE  \E v \in S : e = [version |-> v, body |-> rows[v].body]
  BY DEF Entries

LEMMA PublishedEntries ==
    ASSUME TypeOK, BodyHeld, ReadsHold, NEW c \in Clients,
           PublishCommit(c) \/ RollbackCommit(c)
    PROVE  LET e == [version |-> local[c].version, body |-> local[c].body]
           IN  e \in Chain!Entry /\ Chain!Extend(e)
<1> DEFINE n == local[c].version
           e == [version |-> n, body |-> local[c].body]
<1>1. n \in Versions /\ local[c].body \in Bodies
  BY DEF PublishCommit, RollbackCommit, TypeOK, BodyHeld
<1>2. \A v \in Published : v < n
  BY DEF PublishCommit, RollbackCommit, ReadsHold, VersionIsNew
<1>3. rows'[n] = [status |-> "published", body |-> local[c].body]
  BY <1>1 DEF PublishCommit, RollbackCommit, TypeOK
<1>4. \A v \in Published : rows'[v] = rows[v]
  BY WriteKeepsPublished DEF ReadsHold, Write
<1>5. Published' = Published \cup {n}
  <2>1. \A v \in Versions \ {n} : rows'[v].status = "published" => v \in Published
    BY <1>1 DEF PublishCommit, RollbackCommit, TypeOK, Published, NoRow
  <2> QED
    BY <1>1, <1>3, <1>4, <2>1 DEF Published
<1>6. Entries(Published)' = Entries(Published) \cup {e}
  BY <1>3, <1>4, <1>5 DEF Entries
<1>7. \A p \in Entries(Published) : p.version < e.version
  BY <1>2, EntryParts
<1> HIDE DEF e, n
<1>8. e.version \in Versions
  BY <1>1 DEF e
<1> QED
  BY <1>1, <1>6, <1>7 DEF Chain!Entry, Chain!Extend, e, n

LEMMA SaveMaps ==
    ASSUME TypeOK, BodyHeld, NEW c \in Clients, SaveWrite(c)
    PROVE  rows' = rows \/ \E f \in Chain!Entry : Chain!Save(f)
<1> DEFINE n == local[c].version
           e == [version |-> n, body |-> local[c].body]
<1>1. n \in Versions /\ local[c].body \in Bodies
  BY DEF SaveWrite, TypeOK, BodyHeld
<1> SUFFICES ASSUME rows[n].status # "published"
             PROVE  \E f \in Chain!Entry : Chain!Save(f)
  BY DEF SaveWrite
<1>2. rows' = [rows EXCEPT ![n] = [status |-> "draft", body |-> local[c].body]]
  BY DEF SaveWrite
<1>3. rows'[n] = [status |-> "draft", body |-> local[c].body]
      /\ \A v \in Versions \ {n} : rows'[v] = rows[v]
  BY <1>1, <1>2 DEF TypeOK
<1>4. Drafts' = Drafts \cup {n} /\ Published' = Published /\ n \notin Published
  BY <1>1, <1>3 DEF Drafts, Published
<1>5. \A v \in Published : rows'[v] = rows[v]
  BY <1>3, <1>4 DEF Published
<1>6. Entries(Published)' = Entries(Published)
  BY <1>4, <1>5 DEF Entries
<1>7. Entries(Drafts)' = {d \in Entries(Drafts) : d.version # n} \cup {e}
  <2>1. \A v \in Drafts \ {n} : rows'[v] = rows[v]
    BY <1>3 DEF Drafts
  <2> QED
    BY <1>3, <1>4, <2>1 DEF Entries
<1>8. \A p \in Entries(Published) : p.version # e.version
  BY <1>4, EntryParts
<1>9. e \in Chain!Entry /\ e.version = n
  BY <1>1 DEF Chain!Entry
<1> QED
  BY <1>6, <1>7, <1>8, <1>9 DEF Chain!Save

LEMMA PublishMaps ==
    ASSUME TypeOK, BodyHeld, ReadsHold, NEW c \in Clients, PublishCommit(c)
    PROVE  \E f \in Chain!Entry : Chain!Publish(f)
<1> DEFINE e == [version |-> local[c].version, body |-> local[c].body]
<1>1. e \in Chain!Entry /\ Chain!Extend(e)
  BY PublishedEntries
<1>2. PICK w \in Versions : IsNewest(w, Drafts) /\ rows[w].body = local[c].body
  BY DEF PublishCommit, ReadsHold, DraftHeld
<1>3. [version |-> w, body |-> rows[w].body] \in Chain!Newest(Entries(Drafts))
  BY <1>2, EntryParts DEF Chain!Newest, Entries, IsNewest
<1>4. Drafts' = {}
  BY DEF PublishCommit, Drafts, TypeOK, NoRow
<1>5. Entries(Drafts)' = {}
  BY <1>4 DEF Entries
<1> QED
  BY <1>1, <1>2, <1>3, <1>5 DEF Chain!Publish

LEMMA RollbackMaps ==
    ASSUME TypeOK, BodyHeld, ReadsHold, NEW c \in Clients, RollbackCommit(c)
    PROVE  \E f \in Chain!Entry : Chain!Rollback(f)
<1> DEFINE n == local[c].version
           e == [version |-> n, body |-> local[c].body]
<1>1. e \in Chain!Entry /\ Chain!Extend(e)
  BY PublishedEntries
<1>2. PICK w \in Published : rows[w].body = local[c].body
  BY DEF RollbackCommit, ReadsHold, TargetHeld
<1>3. [version |-> w, body |-> rows[w].body] \in Entries(Published)
  BY <1>2 DEF Entries
<1>4. n \in Versions
  BY DEF RollbackCommit, TypeOK
<1>5. rows'[n].status = "published"
      /\ \A v \in Versions \ {n} : rows'[v] = rows[v]
  BY <1>4 DEF RollbackCommit, TypeOK
<1>6. Drafts' = Drafts \ {n}
  BY <1>4, <1>5 DEF Drafts
<1>7. Entries(Drafts)' = {d \in Entries(Drafts) : d.version # n}
  <2>1. \A v \in Drafts \ {n} : rows'[v] = rows[v]
    BY <1>5 DEF Drafts
  <2> QED
    BY <1>6, <2>1 DEF Entries
<1> QED
  BY <1>1, <1>2, <1>3, <1>7 DEF Chain!Rollback

(* On SQLite the table implements the version chain: a save drafts a version *)
(* that is not published, a publication extends the chain with the newest    *)
(* draft and leaves none, a rollback extends it with an old body.            *)
THEOREM StoreImplementsChain == Dialect = "sqlite" => (Spec => ImplementsChain)
<1> SUFFICES ASSUME Dialect = "sqlite"
             PROVE  Spec => ImplementsChain
  OBVIOUS
<1>1. Init => Chain!Init
  BY DEF Init, Chain!Init, Entries, Published, Drafts, NoRow
<1>2. TypeOK /\ BodyHeld /\ ReadsHold /\ [Next]_vars => [Chain!Next]_Chain!vars
  <2> SUFFICES ASSUME TypeOK, BodyHeld, ReadsHold, [Next]_vars
               PROVE  [Chain!Next]_Chain!vars
    OBVIOUS
  <2>1. CASE rows' = rows
    BY <2>1 DEF Chain!vars, Entries, Published, Drafts
  <2>2. ASSUME NEW c \in Clients, Write(c)
        PROVE  rows' = rows \/ Chain!Next
    BY <2>2, SaveMaps, PublishMaps, RollbackMaps DEF Write, Chain!Next
  <2> QED
    BY <2>1, <2>2, RowSteps DEF vars, Write
<1> QED
  BY <1>1, <1>2, ReadsInvariant, PTL DEF Spec, ImplementsChain, Chain!Spec
=============================================================================
