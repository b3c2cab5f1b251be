-------------------------- MODULE DefinitionStore --------------------------
(***************************************************************************)
(* The definitions table of dynamic-report/internal/catalog/store.go and   *)
(* the three operations that write it, called by concurrent HTTP handlers. *)
(* Every SQL statement that is not in a transaction is one action; a       *)
(* transaction is its reads, one action each, and its writes with the      *)
(* commit, one action: the writes are hidden, or lock the rows, until it.  *)
(*                                                                         *)
(* The rows of different report ids never meet, so the module is about one *)
(* report.  A payload is its version, which is the row's, and its body.    *)
(*                                                                         *)
(* Dialect "sqlite": a transaction holds its read lock from its first read *)
(* to its end, and a write cannot commit while another transaction holds   *)
(* one: it fails with SQLITE_BUSY (no busy timeout is set).  Dialect       *)
(* "postgres": db.Begin gives READ COMMITTED, every statement sees what is *)
(* committed when it runs, and a write commits.                            *)
(***************************************************************************)
EXTENDS Integers

CONSTANTS
    Clients,      \* the goroutines that call the store
    Bodies,       \* the contents a definition can have
    Dialect,      \* "sqlite" or "postgres"
    MaxVersion,   \* bound on the version numbers
    NoBody        \* the body of a version that has no row

ASSUME DefinitionStoreAssumption ==
    /\ Dialect \in {"sqlite", "postgres"}
    /\ MaxVersion \in Nat
    /\ NoBody \notin Bodies

VARIABLES
    rows,         \* rows[v]: the row (id, v) of the table
    pc,           \* pc[c]: the operation client c is in, and how far
    local         \* local[c]: the version and body in its local variables

vars == <<rows, pc, local>>

Versions == 0..MaxVersion
Row == [status : {"none"}, body : {NoBody}]
         \cup [status : {"draft", "published"}, body : Bodies]
NoRow == [status |-> "none", body |-> NoBody]
NoLocal == [version |-> 0, body |-> NoBody]
Steps == {"idle", "saving", "publishRead", "publishMax", "rollbackRead",
          "rollbackMax"}

TypeOK ==
    /\ rows \in [Versions -> Row]
    /\ pc \in [Clients -> Steps]
    /\ local \in [Clients -> [version : Versions, body : Bodies \cup {NoBody}]]

Init ==
    /\ rows = [v \in Versions |-> NoRow]
    /\ pc = [c \in Clients |-> "idle"]
    /\ local = [c \in Clients |-> NoLocal]

Drafts == {v \in Versions : rows[v].status = "draft"}
Published == {v \in Versions : rows[v].status = "published"}
IsNewest(v, S) == v \in S /\ \A w \in S : w <= v

(* Fault: Publish reads the draft before its transaction begins. *)
InTransactionAfterRead(c) == pc[c] \in {"publishMax", "rollbackMax"}

(* Fault: Rollback reads the newest version before its transaction begins. *)
InTransactionToPublish(c) == pc[c] \in {"publishRead", "publishMax"}

(* The clients inside a transaction. *)
InTransaction(c) == pc[c] \in {"publishRead", "publishMax", "rollbackMax"}

CanCommit(c) ==
    Dialect = "postgres" \/ \A d \in Clients \ {c} : ~InTransaction(d)

Goto(c, step) == pc' = [pc EXCEPT ![c] = step]

Return(c) ==
    /\ Goto(c, "idle")
    /\ local' = [local EXCEPT ![c] = NoLocal]
-----------------------------------------------------------------------------
(* Fault: the payload is checked and not kept. *)
SaveCheckOnly(c, v, b) ==
    /\ pc[c] = "idle"
    /\ \A d \in Drafts : d <= v
    /\ local' = [local EXCEPT ![c] = [version |-> v, body |-> NoBody]]
    /\ Goto(c, "saving")
    /\ UNCHANGED rows

(* SaveDraft: the version check is a statement of its own.  A base version   *)
(* below the newest draft's returns ErrDraftConflict and changes nothing.    *)
SaveCheck(c, v, b) ==
    /\ pc[c] = "idle"
    /\ \A d \in Drafts : d <= v
    /\ local' = [local EXCEPT ![c] = [version |-> v, body |-> b]]
    /\ Goto(c, "saving")
    /\ UNCHANGED rows

(* Fault: the upsert has no WHERE definitions.status = 'draft'. *)
SaveOverAnything(c) ==
    /\ pc[c] = "saving"
    /\ CanCommit(c)
    /\ rows' = [rows EXCEPT ![local[c].version] = [status |-> "draft",
                                                  body |-> local[c].body]]
    /\ Return(c)

(* The upsert leaves a published row alone and SaveDraft returns an error. *)
SaveWrite(c) ==
    LET v == local[c].version
    IN /\ pc[c] = "saving"
       /\ CanCommit(c)
       /\ rows' = IF rows[v].status = "published" THEN rows
                  ELSE [rows EXCEPT ![v] = [status |-> "draft",
                                            body |-> local[c].body]]
       /\ Return(c)

(* Publish reads the newest draft; without one it returns an error. *)
PublishRead(c) ==
    /\ pc[c] = "idle"
    /\ \E v \in Versions :
         /\ IsNewest(v, Drafts)
         /\ local' = [local EXCEPT ![c] = [version |-> v, body |-> rows[v].body]]
    /\ Goto(c, "publishRead")
    /\ UNCHANGED rows

(* Fault: the new version is counted from the version it copies. *)
IsVersionAfter(n, base) == n = base + 1

(* COALESCE(MAX(version), base) + 1, for Publish and for Rollback. *)
IsNextVersion(n, base) ==
    IF Published = {} THEN n = base + 1 ELSE IsNewest(n - 1, Published)

ReadMax(c, from, to) ==
    /\ pc[c] = from
    /\ \E n \in Versions :
         /\ IsNextVersion(n, local[c].version)
         /\ local' = [local EXCEPT ![c].version = n]
    /\ Goto(c, to)
    /\ UNCHANGED rows

PublishMax(c) == ReadMax(c, "publishRead", "publishMax")

(* The upsert of the new version, the deletion of every draft, the commit. *)
PublishCommit(c) ==
    /\ pc[c] = "publishMax"
    /\ CanCommit(c)
    /\ rows' = [v \in Versions |->
                  IF v = local[c].version
                  THEN [status |-> "published", body |-> local[c].body]
                  ELSE IF v \in Drafts THEN NoRow ELSE rows[v]]
    /\ Return(c)

(* Rollback reads the target version before its transaction begins. *)
RollbackRead(c, v) ==
    /\ pc[c] = "idle"
    /\ v \in Published
    /\ local' = [local EXCEPT ![c] = [version |-> v, body |-> rows[v].body]]
    /\ Goto(c, "rollbackRead")
    /\ UNCHANGED rows

RollbackMax(c) == ReadMax(c, "rollbackRead", "rollbackMax")

RollbackCommit(c) ==
    /\ pc[c] = "rollbackMax"
    /\ CanCommit(c)
    /\ rows' = [rows EXCEPT ![local[c].version] =
                  [status |-> "published", body |-> local[c].body]]
    /\ Return(c)

(* A statement that writes returns SQLITE_BUSY; a transaction rolls back. *)
Busy(c) ==
    /\ pc[c] \in {"saving", "publishMax", "rollbackMax"}
    /\ ~CanCommit(c)
    /\ Return(c)
    /\ UNCHANGED rows

Next ==
    \E c \in Clients :
        \/ \E v \in Versions, b \in Bodies : SaveCheck(c, v, b)
        \/ SaveWrite(c)
        \/ PublishRead(c) \/ PublishMax(c) \/ PublishCommit(c)
        \/ \E v \in Versions : RollbackRead(c, v)
        \/ RollbackMax(c) \/ RollbackCommit(c)
        \/ Busy(c)

Spec == Init /\ [][Next]_vars
-----------------------------------------------------------------------------
(* Properties *)

(* A published version is never changed, whatever is saved, published and    *)
(* rolled back concurrently: "old versions stay and can be rolled back to".  *)
PublishedStay == [][\A v \in Published : rows'[v] = rows[v]]_rows

(* Every publication and every rollback that succeeds gets a version number  *)
(* of its own: no two that run at the same time compute the same one, where  *)
(* the second would take the place of the first, or, with an equal body,     *)
(* report a version that it did not make.                                    *)
FreshVersion ==
    [][\A c \in Clients : PublishCommit(c) \/ RollbackCommit(c) =>
         local[c].version \notin Published]_vars

(* The body that a publication makes public is that of the newest draft at   *)
(* the moment the drafts disappear: no draft saved meanwhile is lost.        *)
PublishTakesNewest ==
    [][\A c \in Clients :
         pc[c] = "publishMax" /\ rows' # rows /\ pc'[c] = "idle" =>
           \A v \in Drafts : IsNewest(v, Drafts) =>
             rows'[local[c].version].body = rows[v].body]_vars

Entries(S) == {[version |-> v, body |-> rows[v].body] : v \in S}

Chain ==
    INSTANCE VersionChain WITH
        published <- Entries(Published),
        drafts <- Entries(Drafts)

(* The table implements the version chain.                                   *)
ImplementsChain == Chain!Spec
=============================================================================
