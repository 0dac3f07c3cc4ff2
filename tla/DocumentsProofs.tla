-------------------------- MODULE DocumentsProofs ---------------------------
(***************************************************************************)
(* Proofs about Documents, for any matters, contexts, keys, principals,    *)
(* policies and numbers of calls, however generations and routes overlap   *)
(* and their calls of the store fail.                                      *)
(***************************************************************************)
EXTENDS Documents, FiniteSetTheorems, TLAPS

-----------------------------------------------------------------------------
(* The inductive invariant *)

DocFields == {"matter", "series", "version", "checksum", "privileged",
              "classification", "folder", "places", "shared", "acl"}
GenFields == {"pc", "matter", "context", "spec", "key", "sum", "privileged", "version", "status", "doc"}
RouteFields == {"pc", "key", "folder", "acl", "outcome"}

(* Ids are given out in order; calls and documents are records. *)
StoreShape ==
    /\ \E n \in Nat : DOMAIN docs = 1..n
    /\ \A i \in DOMAIN docs : DOMAIN docs[i] = DocFields

CallShape ==
    /\ DOMAIN gen = Gens
    /\ \A g \in Gens : DOMAIN gen[g] = GenFields
    /\ DOMAIN route = Routes
    /\ \A r \in Routes : DOMAIN route[r] = RouteFields

(* A version in the store, or on its way there, came from the ledger and   *)
(* belongs to one document or one call.                                    *)
Numbered ==
    /\ DOMAIN versions = Matters
    /\ \A m \in Matters : versions[m] \in Nat
    /\ \A i \in DOMAIN docs : docs[i].matter \in Matters /\ docs[i].version \in 1..versions[docs[i].matter]
    /\ \A g \in Gens : gen[g].pc \in {"qc", "put"} => gen[g].matter \in Matters
    /\ \A g \in Gens : gen[g].pc = "put" => gen[g].version \in 1..versions[gen[g].matter]
    /\ \A g \in Gens, i \in DOMAIN docs :
         gen[g].pc = "put" /\ docs[i].matter = gen[g].matter => docs[i].version # gen[g].version
    /\ \A g, h \in Gens :
         (g # h /\ gen[g].pc = "put" /\ gen[h].pc = "put" /\ gen[g].matter = gen[h].matter)
           => gen[g].version # gen[h].version
    /\ VersionsDistinct

(* A derived key says which context was filled into which version of the   *)
(* template; the bytes are among those registered as that version.         *)
KeyFits(key, sum) ==
    Len(key) = 3 => \E b : sum = <<b, key[3]>> /\ <<key[2], b>> \in registered

OwnKey(q) == Len(q.key) = 3 => q.spec = q.key[2] /\ q.context = q.key[3]

TemplateKnown == template.version # 0 => <<template.version, template.bytes>> \in registered

Faithful ==
    /\ TemplateKnown
    /\ \A g \in Gens : KeyFits(gen[g].key, gen[g].sum) /\ OwnKey(gen[g])
    /\ \A k \in DOMAIN idem : KeyFits(k, idem[k].checksum)
    /\ \A k \in DOMAIN idem : idem[k].doc \in DOMAIN docs /\ docs[idem[k].doc].checksum = idem[k].checksum
    /\ \A g \in Gens : gen[g].pc # "done" => gen[g].doc = NoDoc
    /\ \A g \in Gens : gen[g].doc # NoDoc => gen[g].doc \in DOMAIN docs
    /\ \A g \in Gens : Answered(gen[g])

(* A move under way has passed the gate and has a folder to go to, and one *)
(* that was carried out has been there.                                    *)
Cleared ==
    \A r \in Routes :
      route[r].pc \in {"move", "moved"} =>
        /\ route[r].key[1] \in DOMAIN docs
        /\ docs[route[r].key[1]].privileged => route[r].key[2] = {}
        /\ route[r].acl \subseteq Principals
        /\ route[r].folder # Unfiled
        /\ route[r].pc = "moved" => route[r].folder \in docs[route[r].key[1]].places

Guarded == PrivilegedNotShared /\ Cleared

Filed ==
    /\ FilingRecorded
    /\ \A k \in DOMAIN decisions : k[1] \in DOMAIN docs

IInv == StoreShape /\ CallShape /\ Numbered /\ Faithful /\ Guarded /\ Filed

-----------------------------------------------------------------------------
(* The store *)

(* The id of a new document is free and the next one. *)
LEMMA NewIdFree ==
  ASSUME StoreShape
  PROVE  /\ NewId \notin DOMAIN docs
         /\ NewId # NoDoc
         /\ \E n \in Nat : DOMAIN docs \cup {NewId} = 1..n
<1>1. PICK n \in Nat : DOMAIN docs = 1..n
  BY DEF StoreShape
<1>2. Cardinality(1..n) = n
  BY <1>1, FS_Interval
<1>3. NewId = n + 1
  BY <1>1, <1>2 DEF NewId
<1>4. QED
  BY <1>1, <1>3 DEF NoDoc

(* put adds the document or does nothing. *)
LEMMA PutEffect ==
  ASSUME StoreShape, NEW doc, DOMAIN doc = DocFields, NEW outcome \in Outcomes, outcome # "fails", Put(doc, outcome)
  PROVE  /\ DOMAIN docs' = DOMAIN docs \cup {NewId}
         /\ docs'[NewId] = doc
         /\ \A i \in DOMAIN docs : docs'[i] = docs[i]
         /\ NewId \notin DOMAIN docs
         /\ NewId # NoDoc
         /\ StoreShape'
<1>1. docs' = [i \in DOMAIN docs \cup {NewId} |-> IF i \in DOMAIN docs THEN docs[i] ELSE doc]
  BY DEF Put, NewId
<1>2. /\ NewId \notin DOMAIN docs
      /\ NewId # NoDoc
      /\ \E n \in Nat : DOMAIN docs \cup {NewId} = 1..n
  BY NewIdFree
<1>3. /\ DOMAIN docs' = DOMAIN docs \cup {NewId}
      /\ docs'[NewId] = doc
      /\ \A i \in DOMAIN docs : docs'[i] = docs[i]
  BY <1>1, <1>2
<1>4. StoreShape'
  BY <1>2, <1>3 DEF StoreShape
<1>5. QED
  BY <1>2, <1>3, <1>4

(* move changes the place of one document and nothing else. *)
LEMMA MoveEffect ==
  ASSUME StoreShape, NEW id \in DOMAIN docs, NEW folder, NEW to, NEW acl,
         Move(id, folder, to, acl)
  PROVE  /\ DOMAIN docs' = DOMAIN docs
         /\ \A i \in DOMAIN docs : i # id => docs'[i] = docs[i]
         /\ \A i \in DOMAIN docs : /\ docs'[i].matter = docs[i].matter
                                   /\ docs'[i].version = docs[i].version
                                   /\ docs'[i].checksum = docs[i].checksum
                                   /\ docs'[i].privileged = docs[i].privileged
         /\ \A i \in DOMAIN docs : docs[i].places \subseteq docs'[i].places
         /\ docs'[id].folder = folder
         /\ folder \in docs'[id].places
         /\ docs'[id].shared = docs[id].shared \cup to
         /\ docs'[id].acl = acl
         /\ StoreShape'
<1> DEFINE moved == [[[[docs[id] EXCEPT !.folder = folder] EXCEPT !.places = @ \cup {folder}]
                       EXCEPT !.shared = @ \cup to] EXCEPT !.acl = acl]
<1>1. DOMAIN docs[id] = DocFields
  BY DEF StoreShape
<1>2. docs' = [docs EXCEPT ![id] = moved]
  BY DEF Move
<1>3. /\ DOMAIN moved = DocFields
      /\ moved.folder = folder /\ moved.acl = acl /\ moved.shared = docs[id].shared \cup to
      /\ moved.places = docs[id].places \cup {folder}
      /\ moved.matter = docs[id].matter /\ moved.version = docs[id].version
      /\ moved.checksum = docs[id].checksum /\ moved.privileged = docs[id].privileged
  BY <1>1 DEF DocFields
<1> HIDE DEF moved
<1>4. DOMAIN docs' = DOMAIN docs /\ docs'[id] = moved /\ \A i \in DOMAIN docs : i # id => docs'[i] = docs[i]
  BY <1>2
<1>5. StoreShape'
  BY <1>3, <1>4 DEF StoreShape
<1>6. QED
  BY <1>3, <1>4, <1>5

-----------------------------------------------------------------------------
(* Steps of a generation *)

(* A call that leaves the store alone: what has to be known of its new     *)
(* record q.                                                               *)
GoodCall(q) ==
    /\ DOMAIN q = GenFields
    /\ KeyFits(q.key, q.sum)
    /\ OwnKey(q)
    /\ q.pc \in {"qc", "put"} => q.matter \in Matters
    /\ q.pc # "done" => q.doc = NoDoc
    /\ q.doc # NoDoc => q.doc \in DOMAIN docs
    /\ Answered(q)

LEMMA CallStep ==
  ASSUME IInv, NEW g \in Gens, NEW q, GoodCall(q), gen' = [gen EXCEPT ![g] = q],
         UNCHANGED <<docs, idem, decisions, route, template, registered>>
  PROVE  StoreShape' /\ CallShape' /\ Faithful' /\ Guarded' /\ Filed'
<1>1. gen'[g] = q /\ DOMAIN gen' = Gens /\ \A h \in Gens : h # g => gen'[h] = gen[h]
  BY DEF IInv, CallShape
<1>2. StoreShape'
  BY DEF IInv, StoreShape
<1>3. CallShape'
  BY <1>1 DEF IInv, CallShape, GoodCall
<1>4. Faithful'
  <2>1. \A h \in Gens : Answered(gen[h]) /\ KeyFits(gen[h].key, gen[h].sum) /\ OwnKey(gen[h])
    BY DEF IInv, Faithful
  <2>2. \A h \in Gens : Answered(gen'[h]) /\ KeyFits(gen'[h].key, gen'[h].sum) /\ OwnKey(gen'[h])
    BY <1>1, <2>1 DEF GoodCall
  <2>3. ASSUME NEW h \in Gens
        PROVE  Answered(gen[h])' /\ KeyFits(gen[h].key, gen[h].sum)' /\ OwnKey(gen[h])'
    <3>1. Answered(gen[h])'
      BY <2>2 DEF Answered, Overwritten
    <3>2. KeyFits(gen[h].key, gen[h].sum)'
      <4>1. KeyFits(gen'[h].key, gen'[h].sum) /\ registered' = registered
        BY <2>2
      <4>2. QED
        BY <4>1 DEF KeyFits
    <3>3. OwnKey(gen[h])'
      BY <2>2 DEF OwnKey
    <3>4. QED
      BY <3>1, <3>2, <3>3
  <2>4. TemplateKnown' /\ \A k \in DOMAIN idem : KeyFits(k, idem[k].checksum)'
    BY DEF IInv, Faithful, TemplateKnown, KeyFits
  <2>5. QED
    BY <1>1, <2>3, <2>4 DEF IInv, Faithful, GoodCall
<1>5. Guarded'
  BY DEF IInv, Guarded, PrivilegedNotShared, Cleared
<1>6. Filed'
  BY DEF IInv, Filed, FilingRecorded
<1>7. QED
  BY <1>2, <1>3, <1>4, <1>5, <1>6

(* A call that takes no version. *)
LEMMA NoVersionStep ==
  ASSUME IInv, NEW g \in Gens, NEW q, GoodCall(q), q.pc # "put",
         gen' = [gen EXCEPT ![g] = q], UNCHANGED <<docs, idem, decisions, route, versions, template, registered>>
  PROVE  IInv'
<1>1. gen'[g] = q /\ \A h \in Gens : h # g => gen'[h] = gen[h]
  BY DEF IInv, CallShape
<1>2. VersionsDistinct'
  BY DEF IInv, Numbered, VersionsDistinct
<1>3. Numbered'
  BY <1>1, <1>2 DEF IInv, Numbered, GoodCall
<1>4. QED
  BY <1>3, CallStep DEF IInv

LEMMA FailGood == GoodCall(Fail) /\ Fail.pc = "done"
  BY DEF GoodCall, Fail, NewGen, GenFields, KeyFits, OwnKey, Answered, NoDoc

(* Returning the document stored under the key of the call. *)
LEMMA ReturnGood ==
  ASSUME IInv, NEW q, KeyFits(q.key, q.sum), OwnKey(q), q.key \in DOMAIN idem, NEW status
  PROVE  LET r == Return(q, status, idem[q.key].doc) IN GoodCall(r) /\ r.pc = "done"
<1> DEFINE r == Return(q, status, idem[q.key].doc)
<1>1. /\ DOMAIN r = GenFields /\ r.pc = "done" /\ r.key = q.key /\ r.sum = q.sum
      /\ r.doc = idem[q.key].doc /\ r.context = q.context /\ r.spec = q.spec
  BY DEF Return, NewGen, GenFields
<1>2. /\ idem[q.key].doc \in DOMAIN docs
      /\ docs[idem[q.key].doc].checksum = idem[q.key].checksum
      /\ KeyFits(q.key, idem[q.key].checksum)
  BY DEF IInv, Faithful
<1> HIDE DEF r
<1>3. OwnKey(r) /\ KeyFits(r.key, r.sum)
  BY <1>1 DEF OwnKey
<1>4. Answered(r)
  <2> SUFFICES ASSUME Len(r.key) = 3
               PROVE  LET got == docs[r.doc].checksum
                      IN  /\ got[2] = r.context
                          /\ <<r.spec, got[1]>> \in registered
                          /\ Overwritten(r.spec) \/ got = r.sum
    BY DEF Answered
  <2>1. r.spec = r.key[2] /\ r.context = r.key[3]
    BY <1>3 DEF OwnKey
  <2>2. PICK a : docs[r.doc].checksum = <<a, r.context>> /\ <<r.spec, a>> \in registered
    BY <1>1, <1>2, <2>1 DEF KeyFits
  <2>3. PICK b : r.sum = <<b, r.context>> /\ <<r.spec, b>> \in registered
    BY <1>3, <2>1 DEF KeyFits
  <2>4. a = b \/ Overwritten(r.spec)
    BY <2>2, <2>3 DEF Overwritten
  <2>5. QED
    BY <2>2, <2>3, <2>4
<1>5. QED
  BY <1>1, <1>2, <1>3, <1>4 DEF GoodCall, r

LEMMA KeyOfContent ==
  ASSUME NEW override, NEW version, NEW bytes, NEW context, <<version, bytes>> \in registered
  PROVE  KeyFits(IdemKey(override, version, context), Content(bytes, context))
<1>1. CASE override = NoOverride
  <2>1. IdemKey(override, version, context) = <<TemplateName, version, context>>
    BY <1>1 DEF IdemKey
  <2>2. QED
    BY <2>1 DEF KeyFits, Content
<1>2. CASE override # NoOverride
  <2>1. IdemKey(override, version, context) = <<override>>
    BY <1>2 DEF IdemKey
  <2>2. Len(<<override>>) = 1
    OBVIOUS
  <2>3. QED
    BY <2>1, <2>2 DEF KeyFits
<1>3. QED
  BY <1>1, <1>2

LEMMA OwnKeyOfCall ==
  ASSUME NEW override, NEW version, NEW context, Len(IdemKey(override, version, context)) = 3
  PROVE  /\ IdemKey(override, version, context)[2] = version
         /\ IdemKey(override, version, context)[3] = context
<1>1. CASE override = NoOverride
  BY <1>1 DEF IdemKey
<1>2. CASE override # NoOverride
  <2>1. IdemKey(override, version, context) = <<override>>
    BY <1>2 DEF IdemKey
  <2>2. Len(<<override>>) = 1
    OBVIOUS
  <2>3. QED
    BY <2>1, <2>2
<1>3. QED
  BY <1>1, <1>2

LEMMA GenerateInv ==
  ASSUME IInv, NEW g \in Gens, NEW matter \in Matters, NEW context, NEW override,
         Generate(g, matter, context, override), UNCHANGED routeVars
  PROVE  IInv'
<1> DEFINE key == IdemKey(override, template.version, context)
           q == [gen[g] EXCEPT !.matter = matter, !.context = context, !.spec = template.version,
                               !.key = key, !.sum = Content(template.bytes, context),
                               !.privileged = template.privileged]
<1>1. UNCHANGED <<docs, idem, decisions, route, versions, template, registered>> /\ gen[g].pc = "idle"
  BY DEF Generate, routeVars
<1>2. DOMAIN gen[g] = GenFields
  BY DEF IInv, CallShape
<1>3. /\ DOMAIN q = GenFields /\ q.matter = matter /\ q.key = key
      /\ q.sum = Content(template.bytes, context) /\ q.doc = gen[g].doc
      /\ q.context = context /\ q.spec = template.version
  BY <1>2 DEF GenFields
<1>4. ASSUME template.version # 0 PROVE KeyFits(q.key, q.sum) /\ OwnKey(q)
  <2>1. <<template.version, template.bytes>> \in registered
    BY <1>4 DEF IInv, Faithful, TemplateKnown
  <2>2. KeyFits(q.key, q.sum)
    BY <1>3, <2>1, KeyOfContent
  <2>3. OwnKey(q)
    BY <1>3, OwnKeyOfCall DEF OwnKey
  <2>4. QED
    BY <2>2, <2>3
<1>5. PICK r : GoodCall(r) /\ r.pc # "put" /\ gen' = [gen EXCEPT ![g] = r]
  <2>1. CASE template.version = 0
    <3>1. gen' = [gen EXCEPT ![g] = Fail]
      BY <2>1 DEF Generate
    <3>2. QED
      BY <3>1, FailGood
  <2>2. CASE template.version # 0 /\ key \in DOMAIN idem
    <3>1. gen' = [gen EXCEPT ![g] = Return(q, "ready", idem[q.key].doc)]
      BY <1>3, <2>2 DEF Generate
    <3>2. QED
      BY <1>3, <1>4, <2>2, <3>1, ReturnGood
  <2>3. CASE template.version # 0 /\ key \notin DOMAIN idem
    <3> DEFINE w == [q EXCEPT !.pc = "qc"]
    <3>1. gen' = [gen EXCEPT ![g] = w]
      BY <2>3 DEF Generate
    <3>2. /\ DOMAIN w = GenFields /\ w.pc = "qc" /\ w.matter = matter /\ w.key = q.key
          /\ w.sum = q.sum /\ w.doc = gen[g].doc /\ w.spec = q.spec /\ w.context = q.context
      BY <1>3 DEF GenFields
    <3>3. w.doc = NoDoc
      BY <1>1, <3>2 DEF IInv, Faithful
    <3>4. GoodCall(w)
      BY <1>4, <2>3, <3>2, <3>3 DEF GoodCall, OwnKey, Answered
    <3>5. QED
      BY <3>1, <3>2, <3>4
  <2>4. QED
    BY <2>1, <2>2, <2>3
<1>6. QED
  BY <1>1, <1>5, NoVersionStep

LEMMA RenderFailsInv ==
  ASSUME IInv, NEW g \in Gens, NEW context, NEW override,
         RenderFails(g, context, override), UNCHANGED routeVars
  PROVE  IInv'
<1>1. UNCHANGED <<docs, idem, decisions, route, versions, template, registered>> /\ gen' = [gen EXCEPT ![g] = Fail]
  BY DEF RenderFails, routeVars
<1>2. QED
  BY <1>1, FailGood, NoVersionStep

LEMMA RegisterInv ==
  ASSUME IInv, NEW version, NEW bytes, NEW privileged, Register(version, bytes, privileged), UNCHANGED routeVars
  PROVE  IInv'
<1>1. UNCHANGED <<docs, idem, gen, versions, decisions, route>>
  BY DEF Register, routeVars
<1>2. StoreShape' /\ CallShape'
  BY <1>1 DEF IInv, StoreShape, CallShape
<1>3. Numbered'
  BY <1>1 DEF IInv, Numbered, VersionsDistinct
<1>4. Faithful'
  <2>1. registered \subseteq registered' /\ TemplateKnown'
    BY DEF Register, IInv, Faithful, TemplateKnown
  <2>2. \A h \in Gens : Answered(gen[h])'
    BY <1>1, <2>1 DEF IInv, Faithful, Answered, Overwritten
  <2>3. \A h \in Gens : KeyFits(gen[h].key, gen[h].sum)' /\ OwnKey(gen[h])'
    BY <1>1, <2>1 DEF IInv, Faithful, KeyFits, OwnKey
  <2>4. \A k \in DOMAIN idem : KeyFits(k, idem[k].checksum)'
    BY <1>1, <2>1 DEF IInv, Faithful, KeyFits
  <2>5. QED
    BY <1>1, <2>1, <2>2, <2>3, <2>4 DEF IInv, Faithful
<1>5. Guarded' /\ Filed'
  BY <1>1 DEF IInv, Guarded, PrivilegedNotShared, Cleared, Filed, FilingRecorded
<1>6. QED
  BY <1>2, <1>3, <1>4, <1>5 DEF IInv

(* The version taken is new to the matter: above every one given before.   *)
LEMMA VerifiedInv ==
  ASSUME IInv, NEW g \in Gens, NEW verdict, Verified(g, verdict), UNCHANGED routeVars
  PROVE  IInv'
<1> DEFINE q == [gen[g] EXCEPT !.status = Status(HasGaps(gen[g].context), verdict)]
           m == gen[g].matter
<1>1. /\ UNCHANGED <<docs, idem, decisions, route, template, registered>> /\ gen[g].pc = "qc"
      /\ DOMAIN gen[g] = GenFields /\ m \in Matters /\ gen[g].doc = NoDoc
      /\ KeyFits(gen[g].key, gen[g].sum) /\ OwnKey(gen[g])
  BY DEF Verified, routeVars, IInv, CallShape, Numbered, Faithful
<1>2. /\ DOMAIN q = GenFields /\ q.matter = m /\ q.key = gen[g].key
      /\ q.sum = gen[g].sum /\ q.doc = NoDoc /\ q.spec = gen[g].spec /\ q.context = gen[g].context
      /\ OwnKey(q)
  BY <1>1 DEF GenFields, OwnKey
<1>3. CASE q.key \in DOMAIN idem
  <2> DEFINE r == Return(q, q.status, idem[q.key].doc)
  <2>1. gen' = [gen EXCEPT ![g] = r] /\ UNCHANGED versions
    BY <1>3 DEF Verified
  <2>2. GoodCall(r) /\ r.pc = "done"
    BY <1>1, <1>2, <1>3, ReturnGood
  <2>3. QED
    BY <1>1, <2>1, <2>2, NoVersionStep
<1>4. CASE q.key \notin DOMAIN idem
  <2> DEFINE w == [q EXCEPT !.pc = "put", !.version = NextVersion(q.matter)]
  <2>1. gen' = [gen EXCEPT ![g] = w] /\ versions' = [versions EXCEPT ![q.matter] = NextVersion(q.matter)]
    BY <1>4 DEF Verified
  <2>2. /\ DOMAIN w = GenFields /\ w.pc = "put" /\ w.matter = m /\ w.version = versions[m] + 1
        /\ w.key = q.key /\ w.sum = q.sum /\ w.doc = NoDoc /\ w.spec = q.spec /\ w.context = q.context
    BY <1>2 DEF GenFields, NextVersion
  <2>3. GoodCall(w)
    BY <1>1, <1>2, <2>2 DEF GoodCall, OwnKey, Answered
  <2>4. gen'[g] = w /\ \A h \in Gens : h # g => gen'[h] = gen[h]
    BY <2>1 DEF IInv, CallShape
  <2>5. /\ DOMAIN versions' = Matters
        /\ versions'[m] = versions[m] + 1
        /\ \A k \in Matters : k # m => versions'[k] = versions[k]
        /\ \A k \in Matters : versions[k] \in Nat
    BY <1>1, <1>2, <2>1 DEF IInv, Numbered, NextVersion
  <2>6. \A k \in Matters : versions'[k] \in Nat /\ versions'[k] >= versions[k]
    BY <2>5
  <2>7. ASSUME NEW i \in DOMAIN docs
        PROVE  /\ docs[i].matter \in Matters /\ docs[i].version \in 1..versions'[docs[i].matter]
               /\ docs[i].matter = m => docs[i].version # versions[m] + 1
    <3>1. docs[i].matter \in Matters /\ docs[i].version \in 1..versions[docs[i].matter]
      BY DEF IInv, Numbered
    <3>2. QED
      BY <2>5, <2>6, <3>1
  <2>8. ASSUME NEW h \in Gens, h # g, gen[h].pc = "put"
        PROVE  /\ gen[h].matter \in Matters /\ gen[h].version \in 1..versions'[gen[h].matter]
               /\ gen[h].matter = m => gen[h].version # versions[m] + 1
    <3>1. gen[h].matter \in Matters /\ gen[h].version \in 1..versions[gen[h].matter]
      BY <2>8 DEF IInv, Numbered
    <3>2. QED
      BY <2>5, <2>6, <3>1
  <2>9. gen'[g].pc = "put" /\ gen'[g].matter = m /\ gen'[g].version = versions[m] + 1
    BY <2>2, <2>4
  <2>10. \A h \in Gens : h # g => gen'[h] = gen[h]
    BY <2>4
  <2> HIDE DEF w, q, m
  <2>11. Numbered'
    <3>1. \A h \in Gens : gen'[h].pc \in {"qc", "put"} => gen'[h].matter \in Matters
      BY <1>1, <2>9, <2>10 DEF IInv, Numbered
    <3>2. \A h \in Gens : gen'[h].pc = "put" => gen'[h].version \in 1..versions'[gen'[h].matter]
      BY <1>1, <2>9, <2>10, <2>5, <2>8
    <3>3. \A h \in Gens, i \in DOMAIN docs' :
            gen'[h].pc = "put" /\ docs'[i].matter = gen'[h].matter => docs'[i].version # gen'[h].version
      BY <1>1, <2>9, <2>10, <2>7 DEF IInv, Numbered
    <3>4. \A f, h \in Gens :
            (f # h /\ gen'[f].pc = "put" /\ gen'[h].pc = "put" /\ gen'[f].matter = gen'[h].matter)
              => gen'[f].version # gen'[h].version
      BY <2>9, <2>10, <2>8 DEF IInv, Numbered
    <3>5. VersionsDistinct'
      BY <1>1 DEF IInv, Numbered, VersionsDistinct
    <3>6. QED
      BY <1>1, <2>5, <2>6, <2>7, <3>1, <3>2, <3>3, <3>4, <3>5 DEF Numbered
  <2>12. QED
    BY <1>1, <2>1, <2>3, <2>11, CallStep DEF IInv
<1>5. QED
  BY <1>3, <1>4

(* A document that is added unfiled disturbs neither filing nor the gate. *)
LEMMA AddedUnfiled ==
  ASSUME IInv, NEW id, id \notin DOMAIN docs, DOMAIN docs' = DOMAIN docs \cup {id},
         \A i \in DOMAIN docs : docs'[i] = docs[i],
         docs'[id].shared = {}, docs'[id].acl = {}, docs'[id].folder = Unfiled,
         UNCHANGED routeVars
  PROVE  Guarded' /\ Filed'
<1>1. UNCHANGED <<decisions, route>>
  BY DEF routeVars
<1>2. PrivilegedNotShared'
  BY DEF IInv, Guarded, PrivilegedNotShared
<1>3. Cleared'
  BY <1>1 DEF IInv, Guarded, Cleared
<1>4. FilingRecorded'
  BY <1>1 DEF IInv, Filed, FilingRecorded
<1>5. QED
  BY <1>1, <1>2, <1>3, <1>4 DEF IInv, Guarded, Filed

LEMMA StoreInv ==
  ASSUME IInv, NEW g \in Gens, NEW outcome \in Outcomes, Store(g, outcome), UNCHANGED routeVars
  PROVE  IInv'
<1> DEFINE q == gen[g]
           doc == NewDoc(q)
<1>1. /\ q.pc = "put" /\ Put(doc, outcome) /\ UNCHANGED <<versions, decisions, route, template, registered>>
      /\ gen' = [gen EXCEPT ![g] = IF Recorded(q, outcome) THEN Return(q, q.status, NewId) ELSE Fail]
      /\ ~Recorded(q, outcome) => idem' = idem
      /\ Recorded(q, outcome) =>
           idem' = [k \in DOMAIN idem \cup {q.key} |->
                      IF k = q.key THEN [doc |-> NewId, checksum |-> q.sum] ELSE idem[k]]
  BY DEF Store, routeVars
<1>2. CASE outcome = "fails"
  <2>1. docs' = docs /\ ~Recorded(q, outcome)
    BY <1>1, <1>2 DEF Put, Recorded
  <2>2. gen' = [gen EXCEPT ![g] = Fail] /\ idem' = idem
    BY <1>1, <2>1
  <2>3. QED
    BY <1>1, <2>1, <2>2, FailGood, NoVersionStep
<1>3. CASE outcome # "fails"
  <2>1. /\ DOMAIN doc = DocFields /\ doc.matter = q.matter /\ doc.version = q.version
        /\ doc.checksum = q.sum /\ doc.folder = Unfiled /\ doc.shared = {} /\ doc.acl = {}
    BY DEF NewDoc, DocFields
  <2> HIDE DEF doc
  <2>2. /\ DOMAIN docs' = DOMAIN docs \cup {NewId}
        /\ docs'[NewId] = doc
        /\ \A i \in DOMAIN docs : docs'[i] = docs[i]
        /\ NewId \notin DOMAIN docs
        /\ NewId # NoDoc
        /\ StoreShape'
    BY <1>1, <1>3, <2>1, PutEffect DEF IInv
  <2> DEFINE w == IF Recorded(q, outcome) THEN Return(q, q.status, NewId) ELSE Fail
  <2>3. /\ DOMAIN w = GenFields /\ w.pc = "done"
        /\ w.doc # NoDoc => w.doc = NewId /\ w.sum = q.sum
        /\ KeyFits(w.key, w.sum) /\ OwnKey(w)
    <3>1. KeyFits(q.key, q.sum) /\ OwnKey(q)
      BY DEF IInv, Faithful
    <3>2. CASE Recorded(q, outcome)
      BY <3>1, <3>2 DEF Return, NewGen, GenFields, OwnKey
    <3>3. CASE ~Recorded(q, outcome)
      BY <3>3, FailGood DEF GoodCall, Fail, NewGen
    <3>4. QED
      BY <3>2, <3>3
  <2>4. gen' = [gen EXCEPT ![g] = w]
    BY <1>1
  <2> HIDE DEF w
  <2>5. DOMAIN gen' = Gens /\ gen'[g] = w /\ \A h \in Gens : h # g => gen'[h] = gen[h]
    BY <2>4 DEF IInv, CallShape
  <2>6. CallShape'
    BY <1>1, <2>3, <2>5 DEF IInv, CallShape
  <2>7. Numbered'
    <3>1. q.matter \in Matters /\ q.version \in 1..versions[q.matter]
      BY <1>1 DEF IInv, Numbered
    <3>2. \A i \in DOMAIN docs : docs[i].matter = q.matter => docs[i].version # q.version
      BY <1>1 DEF IInv, Numbered
    <3>3. VersionsDistinct'
      BY <2>1, <2>2, <3>2 DEF IInv, Numbered, VersionsDistinct
    <3>4. \A i \in DOMAIN docs' : docs'[i].matter \in Matters /\ docs'[i].version \in 1..versions[docs'[i].matter]
      BY <2>1, <2>2, <3>1 DEF IInv, Numbered
    <3>5. \A h \in Gens : gen'[h].pc = "put" => h # g /\ gen'[h] = gen[h]
      BY <2>3, <2>5
    <3>6. \A h \in Gens, i \in DOMAIN docs' :
            gen'[h].pc = "put" /\ docs'[i].matter = gen'[h].matter => docs'[i].version # gen'[h].version
      <4>1. \A h \in Gens : h # g /\ gen[h].pc = "put" /\ q.matter = gen[h].matter => q.version # gen[h].version
        BY <1>1 DEF IInv, Numbered
      <4>2. \A h \in Gens, i \in DOMAIN docs :
              gen[h].pc = "put" /\ docs[i].matter = gen[h].matter => docs[i].version # gen[h].version
        BY DEF IInv, Numbered
      <4>3. QED
        BY <2>1, <2>2, <3>5, <4>1, <4>2
    <3>7. \A h \in Gens : gen'[h].pc \in {"qc", "put"} => gen'[h].matter \in Matters
      BY <2>3, <2>5 DEF IInv, Numbered
    <3>8. \A h \in Gens : gen'[h].pc = "put" => gen'[h].version \in 1..versions[gen'[h].matter]
      BY <3>5 DEF IInv, Numbered
    <3>9. \A f, h \in Gens :
            (f # h /\ gen'[f].pc = "put" /\ gen'[h].pc = "put" /\ gen'[f].matter = gen'[h].matter)
              => gen'[f].version # gen'[h].version
      BY <3>5 DEF IInv, Numbered
    <3>10. versions' = versions /\ DOMAIN versions = Matters /\ \A m \in Matters : versions[m] \in Nat
      BY <1>1 DEF IInv, Numbered
    <3>11. QED
      BY <3>3, <3>4, <3>6, <3>7, <3>8, <3>9, <3>10 DEF Numbered
  <2>8. Faithful'
    <3>1. \A k \in DOMAIN idem' :
            /\ KeyFits(k, idem'[k].checksum)
            /\ idem'[k].doc \in DOMAIN docs' /\ docs'[idem'[k].doc].checksum = idem'[k].checksum
      <4>1. \A k \in DOMAIN idem :
              /\ KeyFits(k, idem[k].checksum)
              /\ idem[k].doc \in DOMAIN docs' /\ docs'[idem[k].doc].checksum = idem[k].checksum
        BY <2>2 DEF IInv, Faithful
      <4>2. CASE Recorded(q, outcome)
        <5>1. KeyFits(q.key, q.sum)
          BY DEF IInv, Faithful
        <5>2. DOMAIN idem' = DOMAIN idem \cup {q.key}
          BY <1>1, <4>2
        <5>3. idem'[q.key].doc = NewId /\ idem'[q.key].checksum = q.sum
          BY <1>1, <4>2
        <5>4. \A k \in DOMAIN idem : k # q.key => idem'[k] = idem[k]
          BY <1>1, <4>2
        <5>5. QED
          BY <2>1, <2>2, <4>1, <5>1, <5>2, <5>3, <5>4
      <4>3. CASE ~Recorded(q, outcome)
        BY <1>1, <4>1, <4>3
      <4>4. QED
        BY <4>2, <4>3
    <3>2. \A h \in Gens : KeyFits(gen'[h].key, gen'[h].sum) /\ OwnKey(gen'[h])
      BY <2>3, <2>5 DEF IInv, Faithful
    <3>3. \A h \in Gens : gen'[h].pc # "done" => gen'[h].doc = NoDoc
      BY <2>3, <2>5 DEF IInv, Faithful
    <3>4. \A h \in Gens : gen'[h].doc # NoDoc => gen'[h].doc \in DOMAIN docs'
      BY <2>2, <2>3, <2>5 DEF IInv, Faithful
    <3>5. \A h \in Gens : Answered(gen[h])'
      <4>1. ASSUME NEW h \in Gens, h # g PROVE Answered(gen[h])'
        <5>1. gen[h].doc # NoDoc => docs'[gen[h].doc] = docs[gen[h].doc]
          BY <2>2 DEF IInv, Faithful
        <5>2. Answered(gen[h]) /\ gen'[h] = gen[h]
          BY <2>5, <4>1 DEF IInv, Faithful
        <5>3. QED
          BY <1>1, <5>1, <5>2 DEF Answered, Overwritten, NoDoc
      <4>2. Answered(gen[g])'
        <5>1. ASSUME w.doc # NoDoc, Len(w.key) = 3
              PROVE  /\ w.sum[2] = w.context
                     /\ <<w.spec, w.sum[1]>> \in registered
                     /\ docs'[w.doc].checksum = w.sum
          <6>1. PICK b : w.sum = <<b, w.key[3]>> /\ <<w.key[2], b>> \in registered
            BY <2>3, <5>1 DEF KeyFits
          <6>2. w.spec = w.key[2] /\ w.context = w.key[3]
            BY <2>3, <5>1 DEF OwnKey
          <6>3. docs'[w.doc].checksum = w.sum
            BY <2>1, <2>2, <2>3, <5>1
          <6>4. QED
            BY <6>1, <6>2, <6>3
        <5>2. gen'[g] = w /\ registered' = registered
          BY <1>1, <2>5
        <5>3. QED
          BY <5>1, <5>2 DEF Answered, NoDoc
      <4>3. QED
        BY <4>1, <4>2
    <3>6. TemplateKnown'
      BY <1>1 DEF IInv, Faithful, TemplateKnown
    <3>7. registered' = registered
      BY <1>1
    <3>8. \A h \in Gens : KeyFits(gen[h].key, gen[h].sum)' /\ OwnKey(gen[h])'
      BY <3>2, <3>7 DEF KeyFits, OwnKey
    <3>9. (\A k \in DOMAIN idem : KeyFits(k, idem[k].checksum))'
      BY <3>1, <3>7 DEF KeyFits
    <3>10. QED
      BY <3>1, <3>3, <3>4, <3>5, <3>6, <3>8, <3>9 DEF Faithful, NoDoc
  <2>9. Guarded' /\ Filed'
    BY <2>1, <2>2, AddedUnfiled
  <2>10. QED
    BY <2>2, <2>6, <2>7, <2>8, <2>9 DEF IInv
<1>4. QED
  BY <1>2, <1>3

-----------------------------------------------------------------------------
(* Steps of a route *)

(* A step that leaves generation and the store alone. *)
LEMMA RouteFrame ==
  ASSUME IInv, UNCHANGED <<docs, gen, idem, versions, template, registered>>
  PROVE  StoreShape' /\ Numbered' /\ Faithful' /\ PrivilegedNotShared'
<1>1. StoreShape' /\ PrivilegedNotShared'
  BY DEF IInv, StoreShape, Guarded, PrivilegedNotShared
<1>2. Numbered'
  BY DEF IInv, Numbered, VersionsDistinct
<1>3. Faithful'
  BY DEF IInv, Faithful, KeyFits, OwnKey, TemplateKnown, Answered, Overwritten
<1>4. QED
  BY <1>1, <1>2, <1>3

(* A decision under a free key that does not say moved. *)
LEMMA SavedFree ==
  ASSUME IInv, NEW id \in DOMAIN docs, NEW to, NEW outcome, outcome # "moved", NEW folder,
         <<id, to>> \notin DOMAIN decisions, Save(<<id, to>>, outcome, folder), UNCHANGED docs,
         \A s \in Routes : route[s].pc = "moved" => route'[s] = route[s]
  PROVE  Filed'
<1>1. /\ DOMAIN decisions' = DOMAIN decisions \cup {<<id, to>>}
      /\ decisions'[<<id, to>>].outcome = outcome
      /\ \A k \in DOMAIN decisions : decisions'[k] = decisions[k]
  BY DEF Save
<1>2. FilingRecorded'
  BY <1>1 DEF IInv, Filed, FilingRecorded
<1>3. QED
  BY <1>1, <1>2 DEF IInv, Filed

(* A call that has answered. *)
LEMMA AnsweredCall ==
  ASSUME IInv, NEW r \in Routes, NEW outcome, Answer(r, outcome), UNCHANGED <<docs, gen>>
  PROVE  CallShape' /\ Cleared'
<1> DEFINE w == [NewRoute EXCEPT !.pc = "done", !.outcome = outcome]
<1>1. DOMAIN w = RouteFields /\ w.pc = "done"
  BY DEF NewRoute, RouteFields
<1>2. route' = [route EXCEPT ![r] = w]
  BY DEF Answer
<1> HIDE DEF w
<1>3. DOMAIN route' = Routes /\ route'[r] = w /\ \A s \in Routes : s # r => route'[s] = route[s]
  BY <1>2 DEF IInv, CallShape
<1>4. CallShape'
  BY <1>1, <1>3 DEF IInv, CallShape
<1>5. Cleared'
  BY <1>1, <1>3 DEF IInv, Guarded, Cleared
<1>6. QED
  BY <1>4, <1>5

LEMMA RouteInv ==
  ASSUME IInv, NEW r \in Routes, NEW id \in DOMAIN docs, NEW to, NEW fields,
         NEW forceReview, NEW dryRun, Route(r, id, to, fields, forceReview, dryRun), UNCHANGED genVars
  PROVE  IInv'
<1> DEFINE doc == docs[id]
           key == <<id, to>>
           c == Classify([classification |-> doc.classification, hints |-> {}], fields, <<>>, Threshold)
           dest == Destination(c, DocumentClasses, forceReview, Threshold)
<1>1. UNCHANGED <<docs, gen, idem, versions, template, registered>> /\ route[r].pc = "idle"
  BY DEF Route, genVars
<1>2. StoreShape' /\ Numbered' /\ Faithful' /\ PrivilegedNotShared'
  BY <1>1, RouteFrame
<1>3. \/ key \in DOMAIN decisions /\ Answer(r, "duplicate") /\ UNCHANGED decisions
      \/ \E outcome \in {"blocked", "queued", "dry_run"} : \E folder :
           key \notin DOMAIN decisions /\ Decide(r, key, outcome, folder)
      \/ /\ PrivilegeGate(doc.privileged, to, to # {}) = "pass" /\ dest.kind = "folder"
         /\ route' = [route EXCEPT ![r] =
                        [@ EXCEPT !.pc = "move", !.key = key, !.folder = dest.folder,
                                  !.acl = BuildAcl(Principals, ClassPolicy[c.class])]]
         /\ UNCHANGED decisions
  BY DEF Route
<1>4. CASE key \in DOMAIN decisions /\ Answer(r, "duplicate") /\ UNCHANGED decisions
  <2>1. \A s \in Routes : route[s].pc = "moved" => route'[s] = route[s]
    BY <1>1, <1>4 DEF Answer, IInv, CallShape
  <2>2. Filed'
    BY <1>1, <1>4, <2>1 DEF IInv, Filed, FilingRecorded
  <2>3. QED
    BY <1>1, <1>2, <1>4, <2>2, AnsweredCall DEF IInv, Guarded
<1>5. CASE \E outcome \in {"blocked", "queued", "dry_run"} : \E folder :
             key \notin DOMAIN decisions /\ Decide(r, key, outcome, folder)
  <2>1. PICK outcome \in {"blocked", "queued", "dry_run"} : \E folder :
          key \notin DOMAIN decisions /\ Decide(r, key, outcome, folder)
    BY <1>5
  <2>2. PICK folder : key \notin DOMAIN decisions /\ Decide(r, key, outcome, folder)
    BY <2>1
  <2>3. Save(key, outcome, folder) /\ Answer(r, outcome) /\ outcome # "moved"
    BY <2>1, <2>2 DEF Decide
  <2>4. \A s \in Routes : route[s].pc = "moved" => route'[s] = route[s]
    BY <1>1, <2>3 DEF Answer, IInv, CallShape
  <2>5. Filed'
    BY <1>1, <2>2, <2>3, <2>4, SavedFree
  <2>6. QED
    BY <1>1, <1>2, <2>3, <2>5, AnsweredCall DEF IInv, Guarded
<1>6. CASE /\ PrivilegeGate(doc.privileged, to, to # {}) = "pass" /\ dest.kind = "folder"
           /\ route' = [route EXCEPT ![r] =
                          [@ EXCEPT !.pc = "move", !.key = key, !.folder = dest.folder,
                                    !.acl = BuildAcl(Principals, ClassPolicy[c.class])]]
           /\ UNCHANGED decisions
  <2>1. doc.privileged => to = {}
    BY <1>6 DEF PrivilegeGate
  <2>2. dest.folder # Unfiled
    <3>1. dest.kind # "folder" \/ dest.folder \in DocumentClasses
      BY DEF Destination, Resolve, ReviewQueue
    <3>2. QED
      BY <1>6, <3>1 DEF DocumentClasses, Unfiled
  <2> DEFINE acl == BuildAcl(Principals, ClassPolicy[c.class])
             w == [route[r] EXCEPT !.pc = "move", !.key = key, !.folder = dest.folder, !.acl = acl]
  <2>3. acl \subseteq Principals
    BY DEF BuildAcl
  <2> HIDE DEF acl, dest
  <2>4. DOMAIN route[r] = RouteFields /\ DOMAIN route = Routes
    BY DEF IInv, CallShape
  <2>5. DOMAIN w = RouteFields /\ w.pc = "move" /\ w.key = key /\ w.folder = dest.folder /\ w.acl = acl
    BY <2>4 DEF RouteFields
  <2>6. route' = [route EXCEPT ![r] = w]
    BY <1>6 DEF acl
  <2> HIDE DEF w
  <2>7. DOMAIN route' = Routes /\ route'[r] = w /\ \A s \in Routes : s # r => route'[s] = route[s]
    BY <2>4, <2>6
  <2>8. CallShape'
    BY <1>1, <2>5, <2>7 DEF IInv, CallShape
  <2>9. w.key[1] = id /\ w.key[2] = to
    BY <2>5
  <2>10. Cleared'
    BY <1>1, <2>1, <2>2, <2>3, <2>5, <2>7, <2>9 DEF IInv, Guarded, Cleared
  <2>11. Filed'
    BY <1>1, <1>6, <2>7 DEF IInv, Filed, FilingRecorded
  <2>12. QED
    BY <1>2, <2>8, <2>10, <2>11 DEF IInv, Guarded
<1>7. QED
  BY <1>3, <1>4, <1>5, <1>6

(* The move takes effect; the place is recorded before any decision. *)
LEMMA MoveDoneInv ==
  ASSUME IInv, NEW r \in Routes, MoveDone(r), UNCHANGED genVars
  PROVE  IInv'
<1> DEFINE key == route[r].key
           id == key[1]
           folder == route[r].folder
<1>1. /\ route[r].pc = "move" /\ Move(id, folder, key[2], route[r].acl)
      /\ UNCHANGED <<gen, idem, versions, template, registered, decisions>>
      /\ route' = [route EXCEPT ![r].pc = "moved"]
  BY DEF MoveDone, genVars
<1>2. /\ id \in DOMAIN docs
      /\ docs[id].privileged => key[2] = {}
      /\ route[r].acl \subseteq Principals /\ folder # Unfiled
  BY <1>1 DEF IInv, Guarded, Cleared
<1>3. /\ DOMAIN docs' = DOMAIN docs
      /\ \A i \in DOMAIN docs : i # id => docs'[i] = docs[i]
      /\ \A i \in DOMAIN docs : /\ docs'[i].matter = docs[i].matter
                                /\ docs'[i].version = docs[i].version
                                /\ docs'[i].checksum = docs[i].checksum
                                /\ docs'[i].privileged = docs[i].privileged
      /\ \A i \in DOMAIN docs : docs[i].places \subseteq docs'[i].places
      /\ docs'[id].folder = folder
      /\ folder \in docs'[id].places
      /\ docs'[id].shared = docs[id].shared \cup key[2]
      /\ docs'[id].acl = route[r].acl
      /\ StoreShape'
  BY <1>1, <1>2, MoveEffect DEF IInv
<1>4. PrivilegedNotShared'
  BY <1>2, <1>3 DEF IInv, Guarded, PrivilegedNotShared
<1>5. VersionsDistinct'
  BY <1>3 DEF IInv, Numbered, VersionsDistinct
<1>6. Numbered'
  BY <1>1, <1>3, <1>5 DEF IInv, Numbered
<1>7. Faithful'
  BY <1>1, <1>3 DEF IInv, Faithful, KeyFits, OwnKey, TemplateKnown, Answered, Overwritten
<1> DEFINE w == [route[r] EXCEPT !.pc = "moved"]
<1>8. /\ DOMAIN w = RouteFields /\ w.pc = "moved" /\ w.key = key /\ w.folder = folder
      /\ w.acl = route[r].acl
  BY DEF IInv, CallShape, RouteFields
<1>9. route' = [route EXCEPT ![r] = w]
  BY <1>1
<1> HIDE DEF w
<1>10. DOMAIN route' = Routes /\ route'[r] = w /\ \A s \in Routes : s # r => route'[s] = route[s]
  BY <1>9 DEF IInv, CallShape
<1> HIDE DEF key, folder
<1>11. CallShape'
  BY <1>1, <1>8, <1>10 DEF IInv, CallShape
<1>12. Cleared'
  BY <1>2, <1>3, <1>8, <1>10 DEF IInv, Guarded, Cleared
<1>13. FilingRecorded'
  <2>1. \A k \in DOMAIN decisions : decisions[k].outcome = "moved" => decisions[k].folder \in docs'[k[1]].places
    BY <1>3 DEF IInv, Filed, FilingRecorded
  <2>2. ASSUME NEW i \in DOMAIN docs, docs'[i].folder # Unfiled
        PROVE  \/ \E k \in DOMAIN decisions : k[1] = i /\ decisions[k].outcome \in {"moved", "blocked"}
               \/ \E s \in Routes : route'[s].pc = "moved" /\ route'[s].key[1] = i
    <3>1. CASE i = id
      BY <1>8, <1>10, <3>1
    <3>2. CASE i # id
      BY <1>1, <1>3, <1>10, <2>2, <3>2 DEF IInv, Filed, FilingRecorded
    <3>3. QED
      BY <3>1, <3>2
  <2>3. QED
    BY <1>1, <1>3, <2>1, <2>2 DEF FilingRecorded
<1>14. Filed'
  BY <1>1, <1>3, <1>13 DEF IInv, Filed
<1>15. QED
  BY <1>3, <1>4, <1>6, <1>7, <1>11, <1>12, <1>14 DEF IInv, Guarded

(* The outcome of a move is saved: it accounts for the document, whatever  *)
(* the decision it replaces said.                                          *)
LEMMA DecidedInv ==
  ASSUME IInv, NEW r \in Routes, NEW said \in {"moved", "blocked"},
         route[r].pc \in {"move", "moved"}, said = "moved" => route[r].pc = "moved",
         Decide(r, route[r].key, said, route[r].folder), UNCHANGED docs, UNCHANGED genVars
  PROVE  IInv'
<1> DEFINE key == route[r].key
           folder == route[r].folder
<1>1. /\ Save(key, said, folder) /\ Answer(r, said)
      /\ UNCHANGED <<docs, gen, idem, versions, template, registered>>
  BY DEF Decide, genVars
<1>2. key[1] \in DOMAIN docs /\ (said = "moved" => folder \in docs[key[1]].places)
  BY DEF IInv, Guarded, Cleared
<1>3. /\ DOMAIN decisions' = DOMAIN decisions \cup {key}
      /\ decisions'[key].outcome = said /\ decisions'[key].folder = folder
      /\ \A k \in DOMAIN decisions : k # key => decisions'[k] = decisions[k]
  BY <1>1 DEF Save
<1>4. \A s \in Routes : s # r => route'[s] = route[s]
  BY <1>1 DEF Answer, IInv, CallShape
<1> HIDE DEF folder
<1>5. FilingRecorded'
  <2>1. \A k \in DOMAIN decisions' : decisions'[k].outcome = "moved" => decisions'[k].folder \in docs[k[1]].places
    BY <1>2, <1>3 DEF IInv, Filed, FilingRecorded
  <2>2. ASSUME NEW i \in DOMAIN docs, docs[i].folder # Unfiled
        PROVE  \/ \E k \in DOMAIN decisions' : k[1] = i /\ decisions'[k].outcome \in {"moved", "blocked"}
               \/ \E s \in Routes : route'[s].pc = "moved" /\ route'[s].key[1] = i
    <3>1. CASE i = key[1]
      BY <1>3, <3>1
    <3>2. CASE i # key[1]
      <4>1. \/ \E k \in DOMAIN decisions : k[1] = i /\ decisions[k].outcome \in {"moved", "blocked"}
            \/ \E s \in Routes : route[s].pc = "moved" /\ route[s].key[1] = i
        BY <2>2 DEF IInv, Filed, FilingRecorded
      <4>2. QED
        BY <1>3, <1>4, <3>2, <4>1
    <3>3. QED
      BY <3>1, <3>2
  <2>3. QED
    BY <1>1, <2>1, <2>2 DEF FilingRecorded
<1>6. Filed'
  BY <1>1, <1>2, <1>3, <1>5 DEF IInv, Filed
<1>7. StoreShape' /\ Numbered' /\ Faithful' /\ PrivilegedNotShared'
  BY <1>1, RouteFrame
<1>8. CallShape' /\ Cleared'
  BY <1>1, AnsweredCall
<1>9. QED
  BY <1>6, <1>7, <1>8 DEF IInv, Guarded

LEMMA MoveAnsweredInv ==
  ASSUME IInv, NEW r \in Routes, NEW lost \in BOOLEAN, MoveAnswered(r, lost), UNCHANGED genVars
  PROVE  IInv'
  BY DecidedInv DEF MoveAnswered

LEMMA MoveFailsInv ==
  ASSUME IInv, NEW r \in Routes, MoveFails(r), UNCHANGED genVars
  PROVE  IInv'
  BY DecidedInv DEF MoveFails

-----------------------------------------------------------------------------
LEMMA InitInv == DocumentsInit => IInv
<1> SUFFICES ASSUME DocumentsInit PROVE IInv
  OBVIOUS
<1>1. docs = <<>> /\ DOMAIN docs = {} /\ DOMAIN idem = {} /\ DOMAIN decisions = {}
  <2>1. docs = <<>> /\ idem = [k \in {} |-> {}] /\ decisions = [k \in {} |-> {}]
    BY Zenon DEF DocumentsInit, DocStoreInit, GenInit, RouteInit
  <2>2. QED
    BY <2>1
<1>2. /\ DOMAIN gen = Gens /\ \A g \in Gens : gen[g] = NewGen
      /\ DOMAIN route = Routes /\ \A r \in Routes : route[r] = NewRoute
      /\ versions = [m \in Matters |-> 0]
  BY DEF DocumentsInit, GenInit, RouteInit
<1>3. /\ DOMAIN NewGen = GenFields /\ NewGen.pc = "idle" /\ NewGen.doc = NoDoc
      /\ KeyFits(NewGen.key, NewGen.sum) /\ OwnKey(NewGen) /\ Answered(NewGen)
      /\ DOMAIN NewRoute = RouteFields /\ NewRoute.pc = "idle"
  BY DEF NewGen, NewRoute, GenFields, RouteFields, KeyFits, OwnKey, Answered
<1>4. StoreShape
  <2>1. DOMAIN docs = 1..0
    BY <1>1
  <2>2. QED
    BY <1>1, <2>1 DEF StoreShape
<1>5. CallShape
  BY <1>2, <1>3 DEF CallShape
<1>6. Numbered
  BY <1>1, <1>2, <1>3 DEF Numbered, VersionsDistinct
<1>7. Faithful
  <2>1. TemplateKnown
    BY DEF DocumentsInit, GenInit, TemplateKnown
  <2>2. QED
    BY <1>1, <1>2, <1>3, <2>1 DEF Faithful
<1>8. Guarded /\ Filed
  BY <1>1, <1>2, <1>3 DEF Guarded, PrivilegedNotShared, Cleared, Filed, FilingRecorded
<1>9. QED
  BY <1>4, <1>5, <1>6, <1>7, <1>8 DEF IInv

LEMMA NextInv == IInv /\ [DocumentsNext]_documentsVars => IInv'
<1> SUFFICES ASSUME IInv, [DocumentsNext]_documentsVars PROVE IInv'
  OBVIOUS
<1>1. CASE GenNext /\ UNCHANGED routeVars
  BY <1>1, RegisterInv, GenerateInv, RenderFailsInv, VerifiedInv, StoreInv DEF GenNext
<1>2. CASE RouteNext /\ UNCHANGED genVars
  BY <1>2, RouteInv, MoveDoneInv, MoveAnsweredInv, MoveFailsInv DEF RouteNext
<1>3. CASE UNCHANGED documentsVars
  <2>1. UNCHANGED <<docs, idem, gen, versions, decisions, route, template, registered>>
    BY <1>3 DEF documentsVars
  <2>2. StoreShape' /\ Numbered' /\ Faithful' /\ PrivilegedNotShared'
    BY <2>1, RouteFrame
  <2>3. CallShape' /\ Cleared' /\ Filed'
    BY <2>1 DEF IInv, CallShape, Guarded, Cleared, Filed, FilingRecorded
  <2>4. QED
    BY <2>2, <2>3 DEF IInv, Guarded
<1>4. QED
  BY <1>1, <1>2, <1>3 DEF DocumentsNext

LEMMA Inductive == DocumentsSpec => []IInv
<1>1. QED
  BY InitInv, NextInv, PTL DEF DocumentsSpec

-----------------------------------------------------------------------------
(* The theorems *)

(* Two documents of a matter never have the same version, however the      *)
(* generations overlap and whatever the store does with their puts.        *)
THEOREM VersionSafety == DocumentsSpec => []VersionsDistinct
<1>1. IInv => VersionsDistinct
  BY DEF IInv, Numbered
<1>2. QED
  BY <1>1, Inductive, PTL

(* A generation without an explicit key answers with its own context in    *)
(* bytes registered as the template version it loaded, the very bytes it   *)
(* loaded unless that version was overwritten, and the ledger points at    *)
(* documents with the checksum it keeps.                                   *)
THEOREM ContentSafety == DocumentsSpec => []ContentAsAsked
<1>1. IInv => ContentAsAsked
  BY DEF IInv, Faithful, ContentAsAsked
<1>2. QED
  BY <1>1, Inductive, PTL

(* A privileged document is never moved for an external recipient, and     *)
(* access lists stay within the principals of the matter.                  *)
THEOREM PrivilegeSafety == DocumentsSpec => []PrivilegedNotShared
<1>1. IInv => PrivilegedNotShared
  BY DEF IInv, Guarded
<1>2. QED
  BY <1>1, Inductive, PTL

(* The decision store, or a move whose answer is still awaited, accounts   *)
(* for every filed document, and a decision that says moved names a place  *)
(* the document was moved to, however routes overlap, whatever becomes of  *)
(* the answers of their moves and in whatever order they arrive.           *)
THEOREM FilingSafety == DocumentsSpec => []FilingRecorded
<1>1. IInv => FilingRecorded
  BY DEF IInv, Filed
<1>2. QED
  BY <1>1, Inductive, PTL
=============================================================================
