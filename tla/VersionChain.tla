---------------------------- MODULE VersionChain ----------------------------
(***************************************************************************)
(* What the definition store promises about one report: its published      *)
(* versions form a chain that only grows at its newest end, a publication  *)
(* takes the newest draft and leaves no draft behind, a rollback publishes *)
(* an old body again.  DefinitionStore implements it on SQLite.            *)
(***************************************************************************)
EXTENDS Naturals

CONSTANTS
    Versions,       \* the version numbers, natural numbers
    Bodies          \* the contents a definition can have

VARIABLES
    published,      \* the published versions: [version, body]
    drafts          \* the drafts: [version, body]

vars == <<published, drafts>>

Entry == [version : Versions, body : Bodies]

TypeOK == published \subseteq Entry /\ drafts \subseteq Entry

Init == published = {} /\ drafts = {}

Newest(entries) ==
    {e \in entries : \A f \in entries : f.version <= e.version}

(* A version that is not published is drafted, replacing its older draft. *)
Save(e) ==
    /\ \A p \in published : p.version # e.version
    /\ drafts' = {d \in drafts : d.version # e.version} \cup {e}
    /\ UNCHANGED published

Extend(e) ==
    /\ \A p \in published : p.version < e.version
    /\ published' = published \cup {e}

Publish(e) ==
    /\ \E d \in Newest(drafts) : d.body = e.body
    /\ Extend(e)
    /\ drafts' = {}

(* The new version may be one that was being drafted. *)
Rollback(e) ==
    /\ \E p \in published : p.body = e.body
    /\ Extend(e)
    /\ drafts' = {d \in drafts : d.version # e.version}

Next == \E e \in Entry : Save(e) \/ Publish(e) \/ Rollback(e)

Spec == Init /\ [][Next]_vars
=============================================================================
