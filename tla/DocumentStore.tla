------------------------------ MODULE DocumentStore ------------------------------
(***************************************************************************)
(* The document modality (verisim-document): a Tantivy index beside a map  *)
(* of the original documents.  index and delete change the index under the *)
(* writer's lock and the map under its own: two steps.  A search sees what *)
(* the last commit made visible.                                           *)
(*                                                                         *)
(* The id field is indexed as text, so Tantivy stores its tokens; the term *)
(* that is to delete an earlier copy is the whole id and finds it only     *)
(* when the id is a single token (external: Tantivy's default tokenizer).  *)
(***************************************************************************)
EXTENDS Naturals, FiniteSets

CONSTANTS DocIds,        \* document ids
          SingleToken,   \* the ids the tokenizer leaves whole
          DocCallers,    \* concurrent callers
          MaxDocOps      \* bound on the calls

VARIABLES written,       \* copies in the index writer: [id, rev]
          visible,       \* copies the reader sees since the last reload
          documents,     \* id -> revision, the map of originals
          docCalls,      \* caller -> call whose map update is outstanding
          docOps,        \* number of calls; also the revision of the next document
          raced          \* history: ids two calls worked on at once

docVars == <<written, visible, documents, docCalls, docOps, raced>>

DocIdle == [op |-> "idle", id |-> "none", rev |-> 0]

DocInit ==
    /\ written = {} /\ visible = {} /\ documents = [d \in {} |-> 0]
    /\ docCalls = [c \in DocCallers |-> DocIdle] /\ docOps = 0 /\ raced = {}

Copies(id) == {w \in written : w.id = id}

(* delete_term: the copies the term of the id finds.                       *)
Deletable(id) == IF id \in SingleToken THEN Copies(id) ELSE {}

Races(c, id) == \E d \in DocCallers \ {c} : docCalls[d].id = id

WriterStep(c, op, id) ==
    /\ docCalls[c] = DocIdle
    /\ docOps < MaxDocOps
    /\ docOps' = docOps + 1
    /\ written' = (written \ Deletable(id)) \cup (IF op = "index" THEN {[id |-> id, rev |-> docOps]} ELSE {})
    /\ docCalls' = [docCalls EXCEPT ![c] = [op |-> op, id |-> id, rev |-> docOps]]
    /\ raced' = IF Races(c, id) THEN raced \cup {id} ELSE raced
    /\ UNCHANGED <<visible, documents>>

MapStep(c) ==
    LET k == docCalls[c]
    IN  /\ k # DocIdle
        /\ documents' = IF k.op = "index"
                        THEN [d \in DOMAIN documents \cup {k.id} |-> IF d = k.id THEN k.rev ELSE documents[d]]
                        ELSE [d \in DOMAIN documents \ {k.id} |-> documents[d]]
        /\ docCalls' = [docCalls EXCEPT ![c] = DocIdle]
        /\ UNCHANGED <<written, visible, docOps, raced>>

(* commit, then reload of the reader.                                      *)
CommitDocs ==
    /\ visible' = written
    /\ UNCHANGED <<written, documents, docCalls, docOps, raced>>

DocNext ==
    \/ \E c \in DocCallers, op \in {"index", "delete"}, id \in DocIds : WriterStep(c, op, id)
    \/ \E c \in DocCallers : MapStep(c)
    \/ CommitDocs

-----------------------------------------------------------------------------

AllCommitted == visible = written /\ \A c \in DocCallers : docCalls[c] = DocIdle

Whole(id) == id \in SingleToken /\ id \notin raced

(* Once everything is committed, a search finds exactly the document get   *)
(* returns, for ids that are one token and whose calls did not overlap.    *)
(* A hexad's id is a UUID, five tokens: of hexads only the next property   *)
(* holds.                                                                  *)
SearchAgreesWithGet ==
    AllCommitted => \A id \in DocIds : Whole(id) =>
        {w.rev : w \in Copies(id)} = (IF id \in DOMAIN documents THEN {documents[id]} ELSE {})

(* Whatever the ids, the index finds every document the map holds, in its  *)
(* present revision, unless two calls for it raced.                        *)
NothingUnsearchable ==
    AllCommitted => \A id \in DOMAIN documents : id \notin raced => [id |-> id, rev |-> documents[id]] \in visible

(* For every id, a search finds neither a deleted document nor an earlier  *)
(* revision of one.  Not so for ids of several tokens: the term never      *)
(* matches, and every copy stays in the index.                             *)
OldCopiesGone ==
    AllCommitted => \A w \in visible : w.id \notin raced => w.id \in DOMAIN documents /\ documents[w.id] = w.rev
=============================================================================
