---------------------------- MODULE MCDocuments ----------------------------
(***************************************************************************)
(* Documents and deadlines on small instances.  The two share no state: in *)
(* every behaviour only one of them leaves its initial state.              *)
(***************************************************************************)
EXTENDS Documents, Deadlines, TLC

MCInit == DocumentsInit /\ Init

MCNext == \/ Init /\ DocumentsNext /\ UNCHANGED vars
          \/ DocumentsInit /\ Next /\ UNCHANGED documentsVars

MCSpec == MCInit /\ [][MCNext]_<<documentsVars, vars>>

-----------------------------------------------------------------------------
\* Two classes at the threshold, and one just below it.
MCFields == {<<[value |-> "form_filing", confidence |-> 80]>>,
             <<[value |-> "form_filing", confidence |-> 50], [value |-> "court_filing", confidence |-> 90]>>,
             <<[value |-> "court_filing", confidence |-> 79]>>}

\* One class whose policy names somebody who does not work on the matter.
MCPolicy == [c \in DocumentClasses |-> IF c = "form_filing" THEN {"attorney", "outsider"} ELSE {}]

\* The first reminder one tick before the due time, the next at it.
MCOffset == [r \in 1..NReminders |-> r - 2]

-----------------------------------------------------------------------------
\* What a call answers is read by no action.  Of a generation that is over the
\* properties ask whether it was answered rightly, which stays so once it is; of
\* a document whether it is filed and its access list within bounds; of a
\* decision whether it says moved, and where to, or blocked.
SeenDocuments ==
    <<[i \in DOMAIN docs |-> [docs[i] EXCEPT !.folder = (@ = Unfiled), !.acl = (@ \subseteq Principals)]],
      template, registered, versions, idem,
      [g \in Gens |-> IF gen[g].pc = "done" THEN <<Answered(gen[g])>> ELSE <<[gen[g] EXCEPT !.status = ""]>>],
      [k \in DOMAIN decisions |->
         LET d == decisions[k]
         IN  CASE d.outcome = "moved" -> <<d.folder>>
               [] d.outcome = "blocked" -> <<TRUE>>
               [] OTHER -> <<FALSE>>],
      [r \in Routes |-> [route[r] EXCEPT !.outcome = ""]]>>

Seen == <<SeenDocuments, vars>>

\* Routes read nothing of a document that depends on the bytes of its template:
\* they are explored on documents of its first version.
RoutedSimple == (\E b \in Bytes : registered \subseteq {<<1, b>>}) \/ \A r \in Routes : route[r].pc = "idle"

Symmetry == Permutations(Gens) \cup Permutations(Routes) \cup Permutations(Bytes)
=============================================================================
