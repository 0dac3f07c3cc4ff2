------------------------------ MODULE DocStore ------------------------------
(***************************************************************************)
(* The document store behind the DocStoreConnector port, as the reference  *)
(* connector implements it (connectors/reference/docstore.py): a map from  *)
(* document ids to documents.  put and move are awaited by their callers;  *)
(* a call may fail before it has an effect, or after it.                   *)
(***************************************************************************)
EXTENDS Naturals, FiniteSets

CONSTANTS
    Matters     \* matters documents are filed under

VARIABLE docs   \* a sequence-like function: document id -> document

\* The folder of a document nobody has routed yet.
Unfiled == "unfiled"

DocStoreInit == docs = <<>>

\* How a call of the port may end.
Outcomes == {"ok", "fails", "lost"}

\* put: the document gets the next free id (uuid4 in the code).
Put(doc, outcome) ==
    docs' = IF outcome = "fails" THEN docs
            ELSE [i \in DOMAIN docs \cup {Cardinality(DOMAIN docs) + 1} |->
                    IF i \in DOMAIN docs THEN docs[i] ELSE doc]

NewId == Cardinality(DOMAIN docs) + 1

\* move: the document keeps its id and content and changes its place and its
\* access list (the reference connector ignores the list).  places and shared
\* are history: the folders the document was moved to, and the recipients on
\* whose behalf.
Move(id, folder, recipients, acl) ==
    docs' = [docs EXCEPT ![id].folder = folder, ![id].places = @ \cup {folder},
                         ![id].shared = @ \cup recipients, ![id].acl = acl]
=============================================================================
