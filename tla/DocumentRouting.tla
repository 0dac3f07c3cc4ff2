-------------------------- MODULE DocumentRouting --------------------------
(***************************************************************************)
(* RoutingService.route (workflows/document_routing/service.py).  The call *)
(* gives up the event loop only in DocStoreConnector.move; the move takes  *)
(* effect in one step and the decision is saved in a later one, when its   *)
(* answer arrives.  A decision is keyed by document, checksum, recipient   *)
(* and intent version; documents do not change their content, so the key   *)
(* is the document and the recipients.                                     *)
(***************************************************************************)
EXTENDS DocStore, RoutingRules

CONSTANTS
    Routes,         \* calls of document.route
    Recipients,     \* external recipients
    Principals,     \* the principals a matter allows, its attorney included
    ClassPolicy,    \* per class: the principals its policy allows; {} = no policy
    FieldChoices,   \* extraction fields a call may come with
    Threshold       \* RoutingConfig.classification_threshold, percent

VARIABLES
    decisions,  \* RoutingDecisionStore: key -> [outcome, folder]
    route       \* per call: where it is, and its outcome

routeVars == <<decisions, route>>

NewRoute == [pc |-> "idle", key |-> <<>>, folder |-> "", acl |-> {}, outcome |-> ""]

Save(key, outcome, folder) ==
    decisions' = [k \in DOMAIN decisions \cup {key} |->
                    IF k = key THEN [outcome |-> outcome, folder |-> folder] ELSE decisions[k]]

Answer(r, outcome) ==
    route' = [route EXCEPT ![r] = [NewRoute EXCEPT !.pc = "done", !.outcome = outcome]]

\* A decision taken without an await: saved and returned.
Decide(r, key, outcome, folder) == Save(key, outcome, folder) /\ Answer(r, outcome)

\* route(): look-up, classification, destination, gate, then the early
\* returns in the order of the code; otherwise the move is awaited.
Route(r, id, to, fields, forceReview, dryRun) ==
    /\ route[r].pc = "idle"
    /\ LET doc  == docs[id]
           key  == <<id, to>>
           c    == Classify([classification |-> doc.classification, hints |-> {}], fields, <<>>, Threshold)
           dest == Destination(c, DocumentClasses, forceReview, Threshold)
       IN  \/ /\ key \in DOMAIN decisions
              /\ Answer(r, "duplicate")
              /\ UNCHANGED decisions
           \/ /\ key \notin DOMAIN decisions
              /\ PrivilegeGate(doc.privileged, to, to # {}) = "fail"
              /\ Decide(r, key, "blocked", dest.folder)
           \/ /\ key \notin DOMAIN decisions
              /\ PrivilegeGate(doc.privileged, to, to # {}) = "pass"
              /\ \/ dest.kind = "review_queue" /\ Decide(r, key, "queued", "")
                 \/ dest.kind = "folder" /\ dryRun /\ Decide(r, key, "dry_run", dest.folder)
                 \/ /\ dest.kind = "folder" /\ ~dryRun
                    /\ route' = [route EXCEPT ![r] =
                                   [@ EXCEPT !.pc = "move", !.key = key, !.folder = dest.folder,
                                             !.acl = BuildAcl(Principals, ClassPolicy[c.class])]]
                    /\ UNCHANGED decisions
    /\ UNCHANGED docs

\* The store carries out the move; the call still awaits its answer.
MoveDone(r) ==
    /\ route[r].pc = "move"
    /\ Move(route[r].key[1], route[r].folder, route[r].key[2], route[r].acl)
    /\ route' = [route EXCEPT ![r].pc = "moved"]
    /\ UNCHANGED decisions

\* Mutant: a move that raised leaves no decision.
MoveAnsweredOnlyOk(r, lost) ==
    /\ route[r].pc = "moved"
    /\ IF lost THEN Answer(r, "blocked") /\ UNCHANGED decisions
       ELSE Decide(r, route[r].key, "moved", route[r].folder)
    /\ UNCHANGED docs

\* The answer of a move that was carried out arrives, or an error instead of it:
\* the outcome is then blocked.
MoveAnswered(r, lost) ==
    /\ route[r].pc = "moved"
    /\ Decide(r, route[r].key, IF lost THEN "blocked" ELSE "moved", route[r].folder)
    /\ UNCHANGED docs

\* The move raised and was not carried out.
MoveFails(r) ==
    /\ route[r].pc = "move"
    /\ Decide(r, route[r].key, "blocked", route[r].folder)
    /\ UNCHANGED docs

RouteInit ==
    /\ decisions = [k \in {} |-> {}]
    /\ route = [r \in Routes |-> NewRoute]

RouteNext ==
    \E r \in Routes :
      \/ \E id \in DOMAIN docs, to \in {{}} \cup {{x} : x \in Recipients},
            fields \in FieldChoices, forceReview, dryRun \in BOOLEAN :
           Route(r, id, to, fields, forceReview, dryRun)
      \/ MoveDone(r) \/ MoveFails(r)
      \/ \E lost \in BOOLEAN : MoveAnswered(r, lost)

-----------------------------------------------------------------------------
(* Properties *)

\* The hard block: a privileged document is never moved on behalf of an
\* external recipient, in whatever order calls for it overlap, and the access
\* list of a filed document names only principals of its matter.
PrivilegedNotShared ==
    \A id \in DOMAIN docs : /\ docs[id].privileged => docs[id].shared = {}
                            /\ docs[id].acl \subseteq Principals

\* Filing and decisions account for each other, however the routes of a document
\* overlap and their answers cross.  A decision that says moved names a folder
\* the document was really moved to (not always the one it is in now: of two
\* overlapping moves the one carried out first may be answered last).  And a
\* document that has left its first place has a decision that says moved or
\* blocked, never only a dry run or a review, unless the answer of a move that
\* was carried out is still awaited.
FilingRecorded ==
    /\ \A k \in DOMAIN decisions :
         decisions[k].outcome = "moved" => decisions[k].folder \in docs[k[1]].places
    /\ \A id \in DOMAIN docs :
         docs[id].folder # Unfiled =>
           \/ \E k \in DOMAIN decisions : k[1] = id /\ decisions[k].outcome \in {"moved", "blocked"}
           \/ \E r \in Routes : route[r].pc = "moved" /\ route[r].key[1] = id
=============================================================================
