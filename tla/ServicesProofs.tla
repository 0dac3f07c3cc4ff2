--------------------------- MODULE ServicesProofs ---------------------------
(***************************************************************************)
(* Proofs about qc.verify, document.extract and deadline.compute, for      *)
(* every packet, request, document, configuration, rule and trigger day.   *)
(* The invariants say little more than that an answer is the answer to     *)
(* something that may be asked, by a rule that was validated; the rest are *)
(* lemmas about the operators that compute it.                             *)
(***************************************************************************)
EXTENDS Services, FiniteSetTheorems, WellFoundedInduction, TLAPS

\* The report of qc.verify is the one of some call.
Reported ==
    \/ report = NoReport
    \/ \E p \in Packets, requested \in Requests, broken \in Breakages :
           report = RunChecks(p, requested, broken)

\* The proposal of document.extract is the one of some call.
Proposal ==
    \/ proposal = NoProposal
    \/ \E in \in Inputs, set \in Settings : proposal = ToolDocumentExtract(in, set)

\* The initial state has no answers (QcInit, ExInit).
LEMMA InitAnswers == ServicesInit => Reported /\ Proposal
  BY DEF ServicesInit, QcInit, ExInit, Reported, Proposal

\* Every step of one service leaves the answers of the others alone.
LEMMA StepAnswers == Reported /\ Proposal /\ [ServicesNext]_servicesVars => (Reported /\ Proposal)'
<1> SUFFICES ASSUME Reported, Proposal, [ServicesNext]_servicesVars PROVE (Reported /\ Proposal)'
  OBVIOUS
<1>1. CASE UNCHANGED <<report, proposal>>
  BY <1>1 DEF Reported, Proposal
<1>2. CASE Verify /\ UNCHANGED proposal
  BY <1>2 DEF Reported, Proposal, Verify
<1>3. CASE Extract /\ UNCHANGED report
  BY <1>3 DEF Reported, Proposal, Extract
<1> QED
  BY <1>1, <1>2, <1>3 DEF ServicesNext, servicesVars, qcVars, exVars

-----------------------------------------------------------------------------
\* The registry (core/services/qc/registry.py).

\* A selected check that fails blocks (_aggregate).
LEMMA FailBlocks ==
    ASSUME NEW p, NEW requested, NEW broken, NEW c \in Selected(p, requested),
           Verdict(c, p, broken) = "fail"
    PROVE  RunChecks(p, requested, broken).aggregate = "block"
<1> DEFINE results == [d \in Selected(p, requested) |-> Verdict(d, p, broken)]
<1>1. "fail" \in {results[d] : d \in Selected(p, requested)}
  OBVIOUS
<1>2. Aggregate({results[d] : d \in Selected(p, requested)}) = "block"
  BY <1>1 DEF Aggregate
<1> QED
  BY <1>2 DEF RunChecks

\* The aggregate is one of three, the mildest ranked lowest.
LEMMA AggregateRank ==
    ASSUME NEW p, NEW requested, NEW broken
    PROVE  /\ RunChecks(p, requested, broken).aggregate \in {"pass", "pass_with_warnings", "block"}
           /\ Rank(RunChecks(p, requested, broken).aggregate) \in 0 .. 2
<1> DEFINE results == [d \in Selected(p, requested) |-> Verdict(d, p, broken)]
           agg == Aggregate({results[d] : d \in Selected(p, requested)})
<1>1. agg \in {"pass", "pass_with_warnings", "block"}
  BY DEF Aggregate
<1>2. RunChecks(p, requested, broken).aggregate = agg
  BY DEF RunChecks
<1> HIDE DEF agg
<1>3. Rank(agg) \in 0 .. 2
  BY <1>1 DEF Rank
<1> QED
  BY <1>1, <1>2, <1>3

\* A packet that would disclose a restricted document fails the privilege
\* check, also when the check itself breaks (privilege.py).
LEMMA DisclosureFails ==
    ASSUME NEW p, NEW broken, WouldDisclose(p)
    PROVE  Verdict("privilege", p, broken) = "fail"
<1>1. EffectiveExternal(p)
  BY DEF WouldDisclose, EffectiveExternal, UnknownRecipient, Participants
<1>2. Privilege(p) = "fail"
  BY <1>1 DEF WouldDisclose, Privilege, Worst
<1>3. Emitted("privilege", p) = "fail"
  BY <1>2 DEF Emitted
<1> QED
  BY <1>3 DEF Verdict

\* The checks that run are those asked for that apply to the packet.
LEMMA SelectedAsked ==
    ASSUME NEW p, NEW requested
    PROVE  Selected(p, requested)
             = (IF requested = Everything THEN Checks ELSE requested) \cap Applicable(p.kind)
  BY DEF Selected, Applicable

\* Asking for one more check that also breaks never makes the answer milder.
LEMMA OneMoreBroken ==
    ASSUME NEW p, NEW requested, NEW broken, NEW c \in Checks,
           NEW asked, asked = (IF requested = Everything THEN Checks ELSE requested)
    PROVE  Rank(RunChecks(p, asked \cup {c}, broken \cup {c}).aggregate)
               >= Rank(RunChecks(p, requested, broken).aggregate)
<1>1. asked \cup {c} # Everything
  BY DEF Checks, Everything
<1>2. Selected(p, asked \cup {c}) = (asked \cup {c}) \cap Applicable(p.kind)
  BY <1>1 DEF Selected
<1>3. CASE c \in Applicable(p.kind)
  <2>1. c \in Selected(p, asked \cup {c})
    BY <1>2, <1>3
  <2>2. Verdict(c, p, broken \cup {c}) = "fail"
    BY DEF Verdict
  <2>3. RunChecks(p, asked \cup {c}, broken \cup {c}).aggregate = "block"
    BY <2>1, <2>2, FailBlocks
  <2>4. Rank("block") = 2
    BY DEF Rank
  <2>5. Rank(RunChecks(p, requested, broken).aggregate) \in 0 .. 2
    BY AggregateRank
  <2> QED
    BY <2>3, <2>4, <2>5
<1>4. CASE c \notin Applicable(p.kind)
  <2> DEFINE S == Selected(p, requested)
  <2>1. Selected(p, asked \cup {c}) = S
    BY <1>2, <1>4, SelectedAsked
  <2>2. c \notin S
    BY <1>4, SelectedAsked
  <2>3. \A d \in S : Verdict(d, p, broken \cup {c}) = Verdict(d, p, broken)
    BY <2>2 DEF Verdict
  <2>4. [d \in S |-> Verdict(d, p, broken \cup {c})] = [d \in S |-> Verdict(d, p, broken)]
    BY <2>3
  <2>5. RunChecks(p, asked \cup {c}, broken \cup {c}).aggregate = RunChecks(p, requested, broken).aggregate
    BY <2>1, <2>4 DEF RunChecks
  <2>6. Rank(RunChecks(p, requested, broken).aggregate) \in 0 .. 2
    BY AggregateRank
  <2> QED
    BY <2>5, <2>6
<1> QED
  BY <1>3, <1>4

\* What holds of every report of run_checks.
LEMMA ReportFailClosed == Reported => QcFailClosed
<1> SUFFICES ASSUME NEW p \in Packets, NEW requested \in Requests, NEW broken \in Breakages,
                    report = RunChecks(p, requested, broken)
             PROVE  QcFailClosed
  BY DEF Reported, QcFailClosed
<1> DEFINE asked == IF requested = Everything THEN Checks ELSE requested
<1>1. /\ report.packet = p /\ report.requested = requested /\ report.broken = broken
      /\ DOMAIN report.results = Selected(p, requested)
      /\ report.skipped = Skipped(p, requested, broken)
  BY DEF RunChecks
<1>2. Selected(p, requested) = asked \cap Applicable(p.kind)
  BY SelectedAsked
<1>3. "privilege" \in asked /\ WouldDisclose(p) => report.aggregate = "block"
  <2>1. "privilege" \in Applicable(p.kind)
    BY DEF Applicable, AppliesTo, Checks
  <2> QED
    BY <1>2, <2>1, FailBlocks, DisclosureFails
<1>4. asked \cap Applicable(p.kind) \cap broken # {} => report.aggregate = "block"
  <2>1. \A c \in broken : Verdict(c, p, broken) = "fail"
    BY DEF Verdict
  <2> QED
    BY <1>2, <2>1, FailBlocks
<1>5. requested # Everything => requested \subseteq Selected(p, requested) \cup Skipped(p, requested, broken)
  BY DEF Selected, Skipped
<1>6. \A c \in Checks : Rank(RunChecks(p, asked \cup {c}, broken \cup {c}).aggregate) >= Rank(report.aggregate)
  BY OneMoreBroken
<1> QED
  BY <1>1, <1>2, <1>3, <1>4, <1>5, <1>6 DEF QcFailClosed

(***************************************************************************)
(* qc.verify fails closed for every packet, every set of requested checks  *)
(* and every set of checks that raise or time out: a disclosing packet is  *)
(* blocked, a broken check blocks, no check asked for is lost and one more *)
(* broken check is never milder (registry.py run_checks, privilege.py).    *)
(***************************************************************************)
THEOREM FailClosed == ServicesSpec => []QcFailClosed
<1>1. Reported /\ Proposal => QcFailClosed
  BY ReportFailClosed
<1> QED
  BY <1>1, InitAnswers, StepAnswers, PTL DEF ServicesSpec

-----------------------------------------------------------------------------
\* The extraction pipeline (core/services/extraction).

\* An answer that proposes something passed every check before it.
LEMMA ProposedOnly ==
    ASSUME NEW in, NEW set, ToolDocumentExtract(in, set).status = "proposed"
    PROVE  /\ ToolDocumentExtract(in, set) = Proposed(in, set)
           /\ ~(Structures(in, set) /\ Denied(set))
  BY DEF ToolDocumentExtract, Refused

\* The number of pages read is the number of the last page.
LEMMA PageCount ==
    ASSUME NEW in \in Inputs
    PROVE  /\ Len(in.pages) \in Nat
           /\ Cardinality(PageTexts(in)) = Len(in.pages)
<1>1. Len(in.pages) \in Nat
  BY InputsAssumption
<1>2. Cardinality(1 .. Len(in.pages)) = Len(in.pages)
  BY <1>1, FS_Interval
<1> QED
  BY <1>1, <1>2 DEF PageTexts, PagesOf

\* build_coverage counts every page of a document exactly once, as text or
\* as OCR: an OCR engine that answers for every page leaves none skipped.
LEMMA CoverageExact ==
    ASSUME NEW in \in Inputs, NEW set, in.kind # "email_body"
    PROVE  /\ Coverage(in, set).text = TextPages(in)
           /\ Coverage(in, set).ocr = OcrNeeded(in)
           /\ Coverage(in, set).skipped = {}
           /\ TextPages(in) \cup OcrNeeded(in) = PagesOf(in)
           /\ TextPages(in) \cap OcrNeeded(in) = {}
<1>1. TextPages(in) \cup OcrNeeded(in) = PagesOf(in) /\ TextPages(in) \cap OcrNeeded(in) = {}
  BY DEF TextPages, OcrNeeded
<1>2. DOMAIN OcrResults(in, set) = OcrNeeded(in)
  BY DEF OcrResults
<1>3. 1 .. Cardinality(PageTexts(in)) = PagesOf(in)
  BY PageCount DEF PagesOf
<1>4. SkippedPages(Cardinality(PageTexts(in)), TextPages(in), OcrNeeded(in), OcrNeeded(in)) = {}
  BY <1>1, <1>3 DEF SkippedPages
<1> QED
  BY <1>1, <1>2, <1>4 DEF Coverage

\* A clamped confidence is a percentage (clamp_confidence).
LEMMA ClampBounds ==
    ASSUME NEW x \in Int \cup {NaN}
    PROVE  Clamp(x) \in 0 .. 100
  BY DEF Clamp

\* A field of the proposal: mapped, within bounds, flagged below threshold.
LEMMA FieldSound ==
    ASSUME NEW in \in Inputs, NEW set \in Settings,
           NEW f \in Proposed(in, set).fields
    PROVE  /\ Structures(in, set)
           /\ \E r \in set.answer : r.key \in DOMAIN Profile /\ f.key = Profile[r.key].key
           /\ f.confidence \in 0 .. 100
           /\ f.flagged \/ f.confidence >= in.threshold
<1> DEFINE got == {Normalise(Received(r)) : r \in set.answer}
<1>1. Structures(in, set) /\ f \in ApplyThreshold(ToDomain(got), in.threshold)
  <2> DEFINE ok == Structures(in, set) /\ set.provider
             fields == IF ok THEN got ELSE {}
  <2>1. Proposed(in, set).fields = ApplyThreshold(ToDomain(fields), in.threshold)
    BY DEF Proposed
  <2>2. CASE ~ok
    <3>1. ApplyThreshold(ToDomain({}), in.threshold) = {}
      BY DEF ToDomain, ApplyThreshold
    <3> QED
      BY <2>1, <2>2, <3>1
  <2> QED
    BY <2>1, <2>2
<1>2. PICK g \in ToDomain(got) : f = IF g.confidence < in.threshold THEN [g EXCEPT !.flagged = TRUE] ELSE g
  BY <1>1 DEF ApplyThreshold
<1>4. PICK h \in got : h.key \in DOMAIN Profile /\ g = [h EXCEPT !.key = Profile[h.key].key]
  BY <1>2 DEF ToDomain
<1>3. PICK r \in set.answer : h = Normalise(Received(r))
  BY <1>4
<1>5. Clamp(r.confidence) \in 0 .. 100
  BY <1>3, ClampBounds, InputsAssumption
<1> DEFINE q == Received(r)
<1>6. q = [key |-> r.key, confidence |-> Clamp(r.confidence), flagged |-> FALSE]
  BY DEF Received
<1>7. Clamp(q.confidence) \in 0 .. 100
  BY <1>5, <1>6, ClampBounds
<1>8. \E b \in BOOLEAN, n \in 0 .. 100 : h = [key |-> r.key, confidence |-> n, flagged |-> b]
  <2> HIDE DEF q
  <2>1. CASE Clamp(q.confidence) = q.confidence
    <3>1. h = q
      BY <1>3, <2>1 DEF Normalise, q
    <3> QED
      BY <3>1, <1>5, <1>6
  <2>2. CASE Clamp(q.confidence) # q.confidence
    <3>1. h = [q EXCEPT !.confidence = Clamp(@), !.flagged = TRUE]
      BY <1>3, <2>2 DEF Normalise, q
    <3>2. h = [key |-> r.key, confidence |-> Clamp(q.confidence), flagged |-> TRUE]
      BY <3>1, <1>6
    <3> QED
      BY <3>2, <1>7
  <2> QED
    BY <2>1, <2>2
<1>9. in.threshold \in Int
  BY InputsAssumption
<1>10. PICK b \in BOOLEAN, n \in 0 .. 100 : h = [key |-> r.key, confidence |-> n, flagged |-> b]
  BY <1>8
<1>11. h.key = r.key /\ g = [key |-> Profile[r.key].key, confidence |-> n, flagged |-> b]
  BY <1>4, <1>10
<1>12. f.key = Profile[r.key].key /\ f.confidence = n /\ (f.flagged \/ n >= in.threshold)
  BY <1>2, <1>9, <1>11
<1> QED
  BY <1>1, <1>4, <1>10, <1>11, <1>12

\* What holds of every proposal of the pipeline.
LEMMA ProposalSound == Proposal => ExtractionSound
<1> SUFFICES ASSUME NEW in \in Inputs, NEW set \in Settings,
                    proposal = ToolDocumentExtract(in, set), proposal.status = "proposed"
             PROVE  ExtractionSound
  BY DEF Proposal, ExtractionSound, NoProposal
<1>1. proposal = Proposed(in, set) /\ ~(Structures(in, set) /\ Denied(set))
  BY ProposedOnly
<1>2. /\ proposal.input = in /\ proposal.settings = set
      /\ proposal.coverage = Coverage(in, set) /\ proposal.sent = Structures(in, set)
      /\ proposal.warned = {i \in OcrNeeded(in) : in.kind # "email_body" /\ ~OcrResults(in, set)[i]}
  BY <1>1 DEF Proposed
<1> DEFINE cov == Coverage(in, set)
<1>3. /\ cov.text \cup cov.ocr \cup cov.skipped
           = (IF in.kind # "email_body" THEN PagesOf(in) ELSE {})
      /\ cov.text \cap cov.ocr = {}
      /\ (cov.text \cup cov.ocr) \cap cov.skipped = {}
  <2>1. CASE in.kind # "email_body"
    BY <2>1, CoverageExact
  <2>2. CASE in.kind = "email_body"
    BY <2>2 DEF Coverage
  <2> QED
    BY <2>1, <2>2
<1>4. in.kind # "email_body" => \A i \in PagesOf(in) :
          in.pages[i] = "blank" /\ ~(set.ocr /\ i \in set.readable) => i \in proposal.warned \cup cov.skipped
  BY <1>2 DEF OcrNeeded, TextPages, OcrResults
<1>5. ASSUME proposal.sent, set.llm = "guarded", ~set.allowExternal
      PROVE  \E n \in 0 .. Len(set.endpoint) : SubSeq(set.endpoint, 1, n) \in set.allowlist
  <2>1. PICK a \in set.allowlist : Seqs!IsPrefix(a, set.endpoint)
    BY <1>1, <1>2, <1>5 DEF Denied, IsAllowed
  <2>2. a \in Seq(STRING) /\ set.endpoint \in Seq(STRING)
    BY InputsAssumption
  <2>3. Len(a) \in 0 .. Len(set.endpoint) /\ SubSeq(a, 1, Len(a)) = SubSeq(set.endpoint, 1, Len(a))
    BY <2>1, <2>2 DEF Seqs!IsPrefix
  <2>4. SubSeq(a, 1, Len(a)) = a
    BY <2>2
  <2> QED
    BY <2>3, <2>4
<1>6. \A f \in proposal.fields :
          /\ Structures(in, set)
          /\ \E r \in set.answer : r.key \in DOMAIN Profile /\ f.key = Profile[r.key].key
          /\ f.confidence \in 0 .. 100
          /\ f.flagged \/ f.confidence >= in.threshold
  BY <1>1, FieldSound
<1>7. proposal.fields # {} => proposal.sent
  BY <1>2, <1>6
<1> QED
  BY <1>2, <1>3, <1>4, <1>5, <1>6, <1>7 DEF ExtractionSound

(***************************************************************************)
(* document.extract is sound for every document, of any number of pages,   *)
(* and every configuration: no page is lost or counted twice, a page       *)
(* nothing could be read from is reported, behind the guard text goes only *)
(* to an endpoint that begins with an allowed entry, and every field is an *)
(* answer the profile maps, within bounds and flagged below the threshold  *)
(* (pipeline.py, coverage.py, llm.py, mapper.py).                          *)
(***************************************************************************)
THEOREM ExtractionSafety == ServicesSpec => []ExtractionSound
<1>1. Reported /\ Proposal => ExtractionSound
  BY ProposalSound
<1> QED
  BY <1>1, InitAnswers, StepAnswers, PTL DEF ServicesSpec

-----------------------------------------------------------------------------
\* deadline.compute.  First the calendar: the model's date arithmetic takes a
\* day apart and puts it together as datetime.date does.

\* A day lies in the year YearOf gives it.
LEMMA YearBounds ==
    ASSUME NEW n \in Int
    PROVE  /\ YearOf(n) \in Int
           /\ YearStart(YearOf(n)) <= n
           /\ n < YearStart(YearOf(n) + 1)
  BY SMT DEF YearOf, YearStart

\* It lies in no other year.
LEMMA YearUnique ==
    ASSUME NEW n \in Int, NEW y \in Int, YearStart(y) <= n, n < YearStart(y + 1)
    PROVE  YearOf(n) = y
  BY SMT DEF YearOf, YearStart

\* The day more of a leap year.
Leap(y) == IF y % 4 = 0 THEN 1 ELSE 0

\* A year has 365 days, and 366 when it is a leap year.
LEMMA YearLength ==
    ASSUME NEW y \in Int
    PROVE  /\ YearStart(y) \in Int
           /\ Leap(y) \in {0, 1}
           /\ YearStart(y + 1) = YearStart(y) + 365 + Leap(y)
  BY SMT DEF YearStart, Leap

\* Where the months of a year begin and how long they are.
LEMMA MonthTable ==
    ASSUME NEW y \in Int
    PROVE  /\ MonthStart(y, 1) = YearStart(y) /\ MonthLength(y, 1) = 31
           /\ MonthStart(y, 2) = YearStart(y) + 31 /\ MonthLength(y, 2) = 28 + Leap(y)
           /\ MonthStart(y, 3) = YearStart(y) + 59 + Leap(y) /\ MonthLength(y, 3) = 31
           /\ MonthStart(y, 4) = YearStart(y) + 90 + Leap(y) /\ MonthLength(y, 4) = 30
           /\ MonthStart(y, 5) = YearStart(y) + 120 + Leap(y) /\ MonthLength(y, 5) = 31
           /\ MonthStart(y, 6) = YearStart(y) + 151 + Leap(y) /\ MonthLength(y, 6) = 30
           /\ MonthStart(y, 7) = YearStart(y) + 181 + Leap(y) /\ MonthLength(y, 7) = 31
           /\ MonthStart(y, 8) = YearStart(y) + 212 + Leap(y) /\ MonthLength(y, 8) = 31
           /\ MonthStart(y, 9) = YearStart(y) + 243 + Leap(y) /\ MonthLength(y, 9) = 30
           /\ MonthStart(y, 10) = YearStart(y) + 273 + Leap(y) /\ MonthLength(y, 10) = 31
           /\ MonthStart(y, 11) = YearStart(y) + 304 + Leap(y) /\ MonthLength(y, 11) = 30
           /\ MonthStart(y, 12) = YearStart(y) + 334 + Leap(y) /\ MonthLength(y, 12) = 31
  BY YearLength, SMT DEF MonthStart, MonthLength, Leap

\* The months of a year do not overlap and leave no day out.
LEMMA MonthsOfYear ==
    ASSUME NEW y \in Int
    PROVE  /\ \A m \in 1 .. 12 : /\ MonthStart(y, m) \in Int
                                 /\ MonthLength(y, m) \in 28 .. 31
                                 /\ YearStart(y) <= MonthStart(y, m)
                                 /\ MonthStart(y, m) + MonthLength(y, m) <= YearStart(y + 1)
           /\ \A m, k \in 1 .. 12 : m < k => MonthStart(y, m) + MonthLength(y, m) <= MonthStart(y, k)
           /\ \A n \in Int : YearStart(y) <= n /\ n < YearStart(y + 1)
                => \E m \in 1 .. 12 : MonthStart(y, m) <= n /\ n < MonthStart(y, m) + MonthLength(y, m)
<1>1. \A m \in 1 .. 12 : m \in {1, 2, 3, 4, 5, 6, 7, 8, 9, 10, 11, 12}
  OBVIOUS
<1>2. YearStart(y) \in Int /\ Leap(y) \in {0, 1} /\ YearStart(y + 1) = YearStart(y) + 365 + Leap(y)
  BY YearLength
<1>3. \A m \in 1 .. 12 : /\ MonthStart(y, m) \in Int
                         /\ MonthLength(y, m) \in 28 .. 31
                         /\ YearStart(y) <= MonthStart(y, m)
                         /\ MonthStart(y, m) + MonthLength(y, m) <= YearStart(y + 1)
  BY <1>1, <1>2, MonthTable
<1>4. \A m, k \in 1 .. 12 : m < k => MonthStart(y, m) + MonthLength(y, m) <= MonthStart(y, k)
  BY <1>1, <1>2, MonthTable
<1>5. ASSUME NEW n \in Int, YearStart(y) <= n, n < YearStart(y + 1)
      PROVE  \E m \in 1 .. 12 : MonthStart(y, m) <= n /\ n < MonthStart(y, m) + MonthLength(y, m)
  BY <1>2, <1>5, MonthTable
<1> QED
  BY <1>3, <1>4, <1>5

\* A day lies in its month, and in no other.
InMonth(n, y, m) == MonthStart(y, m) <= n /\ n < MonthStart(y, m) + MonthLength(y, m)

\* YearOf, MonthOf and DayOf take a day apart and Date puts it together.
LEMMA DayParts ==
    ASSUME NEW n \in Int
    PROVE  /\ YearOf(n) \in Int
           /\ MonthOf(n) \in 1 .. 12
           /\ InMonth(n, YearOf(n), MonthOf(n))
           /\ DayOf(n) \in 1 .. MonthLength(YearOf(n), MonthOf(n))
           /\ Date(YearOf(n), MonthOf(n), DayOf(n)) = n
<1> DEFINE y == YearOf(n)
<1>1. y \in Int /\ YearStart(y) <= n /\ n < YearStart(y + 1)
  BY YearBounds
<1> HIDE DEF y
<1>2. \E m \in 1 .. 12 : MonthStart(y, m) <= n /\ n < MonthStart(y, m) + MonthLength(y, m)
  BY <1>1, MonthsOfYear
<1>3. MonthOf(n) \in 1 .. 12 /\ InMonth(n, y, MonthOf(n))
  BY <1>2 DEF MonthOf, InMonth, y
<1>4. MonthStart(y, MonthOf(n)) \in Int /\ MonthLength(y, MonthOf(n)) \in 28 .. 31
  BY <1>1, <1>3, MonthsOfYear
<1>5. DayOf(n) = n - MonthStart(y, MonthOf(n)) + 1
  BY DEF DayOf, y
<1> QED
  BY <1>1, <1>3, <1>4, <1>5 DEF InMonth, Date, y

\* A day of a month has that month, and its place in it, for its parts.
LEMMA PartsUnique ==
    ASSUME NEW n \in Int, NEW y \in Int, NEW m \in 1 .. 12, InMonth(n, y, m)
    PROVE  YearOf(n) = y /\ MonthOf(n) = m /\ DayOf(n) = n - MonthStart(y, m) + 1
<1>0. /\ MonthStart(y, m) \in Int /\ MonthLength(y, m) \in 28 .. 31
      /\ YearStart(y) <= MonthStart(y, m)
      /\ MonthStart(y, m) + MonthLength(y, m) <= YearStart(y + 1)
  BY MonthsOfYear
<1>1. YearOf(n) = y
  <2>1. YearStart(y) \in Int /\ YearStart(y + 1) \in Int
    BY YearLength
  <2>2. YearStart(y) <= n /\ n < YearStart(y + 1)
    BY <1>0, <2>1 DEF InMonth
  <2> QED
    BY <2>2, YearUnique
<1>2. MonthOf(n) \in 1 .. 12 /\ InMonth(n, y, MonthOf(n))
  BY <1>1, DayParts
<1>3. MonthOf(n) = m
  <2> DEFINE k == MonthOf(n)
  <2>1. k \in 1 .. 12 /\ MonthStart(y, k) \in Int /\ MonthLength(y, k) \in 28 .. 31
    BY <1>2, MonthsOfYear
  <2>2. /\ k < m => MonthStart(y, k) + MonthLength(y, k) <= MonthStart(y, m)
        /\ m < k => MonthStart(y, m) + MonthLength(y, m) <= MonthStart(y, k)
    BY <2>1, MonthsOfYear
  <2>3. InMonth(n, y, k)
    BY <1>2
  <2> HIDE DEF k
  <2>4. k = m
    BY <1>0, <2>1, <2>2, <2>3 DEF InMonth
  <2> QED
    BY <2>4 DEF k
<1> QED
  BY <1>1, <1>3 DEF DayOf

\* Date followed by YearOf, MonthOf and DayOf: what datetime.date gives back.
LEMMA DateParts ==
    ASSUME NEW y \in Int, NEW m \in 1 .. 12, NEW d \in 1 .. MonthLength(y, m)
    PROVE  /\ Date(y, m, d) \in Int
           /\ YearOf(Date(y, m, d)) = y
           /\ MonthOf(Date(y, m, d)) = m
           /\ DayOf(Date(y, m, d)) = d
<1>1. MonthStart(y, m) \in Int /\ MonthLength(y, m) \in 28 .. 31
  BY MonthsOfYear
<1>2. Date(y, m, d) \in Int /\ InMonth(Date(y, m, d), y, m) /\ Date(y, m, d) - MonthStart(y, m) + 1 = d
  BY <1>1 DEF Date, InMonth
<1> QED
  BY <1>2, PartsUnique

-----------------------------------------------------------------------------
\* datetime.replace lands in the month asked for, on the same day or the 28th.
LEMMA ReplacedParts ==
    ASSUME NEW y \in Int, NEW m \in 1 .. 12, NEW d \in 1 .. 31
    PROVE  /\ Replaced(y, m, d) \in Int
           /\ YearOf(Replaced(y, m, d)) = y
           /\ MonthOf(Replaced(y, m, d)) = m
           /\ DayOf(Replaced(y, m, d)) = IF d <= MonthLength(y, m) THEN d ELSE 28
<1>1. MonthLength(y, m) \in 28 .. 31
  BY MonthsOfYear
<1> DEFINE e == IF d <= MonthLength(y, m) THEN d ELSE 28
<1>2. e \in 1 .. MonthLength(y, m)
  BY <1>1
<1>3. Replaced(y, m, d) = Date(y, m, e)
  BY DEF Replaced
<1> HIDE DEF e
<1>4. /\ Replaced(y, m, d) \in Int /\ YearOf(Replaced(y, m, d)) = y
      /\ MonthOf(Replaced(y, m, d)) = m /\ DayOf(Replaced(y, m, d)) = e
  BY <1>2, <1>3, DateParts
<1> QED
  BY <1>4 DEF e

\* How far count months are, whichever way.
Reach(count) == 31 * (IF count >= 0 THEN count ELSE -count) + 3


\* Induction over the naturals, for a set.
LEMMA SetInduction ==
    ASSUME NEW S, 0 \in S, \A n \in Nat : n \in S => n + 1 \in S
    PROVE  Nat \subseteq S
<1> SUFFICES ASSUME Nat \ S # {} PROVE FALSE
  OBVIOUS
<1> DEFINE R == OpToRel(<, Nat)
<1>1. PICK m \in Nat \ S : \A k \in Nat \ S : ~(<<k, m>> \in R)
  BY WFMin, NatLessThanWellFounded
<1>2. \A k \in Nat \ S : ~(k < m)
  BY <1>1 DEF OpToRel
<1>3. m # 0 /\ m - 1 \in Nat /\ m - 1 < m
  OBVIOUS
<1>4. m - 1 \in S
  BY <1>2, <1>3
<1>5. (m - 1) + 1 \in S
  BY <1>3, <1>4
<1> QED
  BY <1>5

\* The months counted through.
MonthAt(c) == MonthStart(c \div 12, (c % 12) + 1)

\* Month m of year y is month 12 * y + m - 1.
LEMMA MonthNumber ==
    ASSUME NEW y \in Int, NEW m \in 1 .. 12
    PROVE  MonthAt(12 * y + m - 1) = MonthStart(y, m)
<1>1. (12 * y + m - 1) \div 12 = y /\ ((12 * y + m - 1) % 12) + 1 = m
  OBVIOUS
<1> QED
  BY <1>1 DEF MonthAt

\* From the first of a month to the first of the next are 28 to 31 days.
LEMMA MonthStep ==
    ASSUME NEW c \in Int
    PROVE  MonthAt(c) \in Int /\ MonthAt(c + 1) - MonthAt(c) \in 28 .. 31
<1> DEFINE y == c \div 12
           m == (c % 12) + 1
<1>1. y \in Int /\ m \in 1 .. 12 /\ c = 12 * y + m - 1
  OBVIOUS
<1> HIDE DEF y, m
<1>2. MonthAt(c) = MonthStart(y, m) /\ MonthStart(y, m) \in Int
  BY <1>1, MonthNumber, MonthsOfYear
<1>3. CASE m = 12
  <2>1. c + 1 = 12 * (y + 1) + 1 - 1 /\ y + 1 \in Int
    BY <1>1, <1>3
  <2>2. MonthAt(c + 1) = MonthStart(y + 1, 1)
    BY <2>1, MonthNumber
  <2>3. MonthStart(y + 1, 1) = YearStart(y + 1) /\ MonthStart(y, 12) = YearStart(y) + 334 + Leap(y)
    BY <1>1, <2>1, MonthTable
  <2>4. YearStart(y) \in Int /\ Leap(y) \in {0, 1} /\ YearStart(y + 1) = YearStart(y) + 365 + Leap(y)
    BY <1>1, YearLength
  <2>5. MonthStart(y + 1, 1) - MonthStart(y, 12) = 31
    BY <2>3, <2>4
  <2> QED
    BY <1>2, <1>3, <2>2, <2>5
<1>4. CASE m # 12
  <2>1. m + 1 \in 1 .. 12 /\ c + 1 = 12 * y + (m + 1) - 1 /\ m \in {1, 2, 3, 4, 5, 6, 7, 8, 9, 10, 11}
    BY <1>1, <1>4
  <2>2. MonthAt(c + 1) = MonthStart(y, m + 1)
    BY <1>1, <2>1, MonthNumber
  <2>3. MonthStart(y, m + 1) - MonthStart(y, m) \in 28 .. 31
    <3>1. YearStart(y) \in Int /\ Leap(y) \in {0, 1}
      BY <1>1, YearLength
    <3>2. \A k \in {1, 2, 3, 4, 5, 6, 7, 8, 9, 10, 11} : MonthStart(y, k + 1) - MonthStart(y, k) \in 28 .. 31
      BY <1>1, <3>1, MonthTable
    <3> QED
      BY <2>1, <3>2
  <2> QED
    BY <1>2, <2>2, <2>3
<1> QED
  BY <1>3, <1>4

\* k months are 28 * k to 31 * k days.
LEMMA MonthsSpan ==
    ASSUME NEW c \in Int, NEW k \in Nat
    PROVE  /\ MonthAt(c + k) - MonthAt(c) >= 28 * k
           /\ MonthAt(c + k) - MonthAt(c) <= 31 * k
<1> DEFINE S == {j \in Nat : MonthAt(c + j) - MonthAt(c) >= 28 * j /\ MonthAt(c + j) - MonthAt(c) <= 31 * j}
<1>1. 0 \in S
  <2>1. c + 0 = c /\ MonthAt(c) \in Int
    BY MonthStep
  <2> QED
    BY <2>1
<1>2. ASSUME NEW j \in Nat, j \in S PROVE j + 1 \in S
  <2>1. /\ MonthAt(c) \in Int /\ MonthAt(c + j) \in Int
        /\ MonthAt((c + j) + 1) \in Int /\ MonthAt((c + j) + 1) - MonthAt(c + j) \in 28 .. 31
    BY MonthStep
  <2>2. c + (j + 1) = (c + j) + 1
    OBVIOUS
  <2>3. MonthAt(c + (j + 1)) = MonthAt((c + j) + 1)
    BY <2>2
  <2> QED
    BY <1>2, <2>1, <2>3
<1> HIDE DEF S
<1>3. k \in S
  BY <1>1, <1>2, SetInduction
<1> QED
  BY <1>3 DEF S

\* The years and months of an offset lead to the month counted on the
\* calendar, within reach of the trigger (apply_offset).
LEMMA MonthsMoved ==
    ASSUME NEW base \in Int, NEW o, NEW years \in Int, NEW months \in Int,
           o.years = years, o.months = months
    PROVE  LET year1  == Replaced(YearOf(base) + years, MonthOf(base), DayOf(base))
               ms     == MonthOf(year1) + months - 1
               month1 == Replaced(YearOf(year1) + (ms \div 12), (ms % 12) + 1, DayOf(year1))
               count  == 12 * years + months
           IN  /\ month1 \in base - Reach(count) .. base + Reach(count)
               /\ MonthsApart(base, month1, o)
<1> DEFINE y == YearOf(base)
           m == MonthOf(base)
           d == DayOf(base)
           year1 == Replaced(y + years, m, d)
           ms == MonthOf(year1) + months - 1
           month1 == Replaced(YearOf(year1) + (ms \div 12), (ms % 12) + 1, DayOf(year1))
           count  == 12 * years + months
<1>1. /\ y \in Int /\ m \in 1 .. 12 /\ d \in 1 .. 31
      /\ base = MonthStart(y, m) + d - 1 /\ MonthStart(y, m) \in Int
  <2>1. y \in Int /\ m \in 1 .. 12 /\ d \in 1 .. MonthLength(y, m) /\ Date(y, m, d) = base
    BY DayParts
  <2>2. MonthStart(y, m) \in Int /\ MonthLength(y, m) \in 28 .. 31
    BY <2>1, MonthsOfYear
  <2> HIDE DEF y, m, d
  <2> QED
    BY <2>1, <2>2 DEF Date
<1> HIDE DEF y, m, d
<1>2. /\ YearOf(year1) = y + years /\ MonthOf(year1) = m /\ year1 \in Int
      /\ DayOf(year1) \in 1 .. 31
      /\ DayOf(year1) = IF d <= MonthLength(y + years, m) THEN d ELSE 28
  <2>1. y + years \in Int
    BY <1>1
  <2>2. /\ YearOf(year1) = y + years /\ MonthOf(year1) = m /\ year1 \in Int
        /\ DayOf(year1) = IF d <= MonthLength(y + years, m) THEN d ELSE 28
    BY <1>1, <2>1, ReplacedParts
  <2> QED
    BY <1>1, <2>2
<1> HIDE DEF year1
<1> DEFINE y2 == y + years + (ms \div 12)
           m2 == (ms % 12) + 1
<1>3. /\ ms = m + months - 1 /\ ms \in Int
      /\ y2 \in Int /\ m2 \in 1 .. 12
      /\ 12 * y2 + m2 = 12 * y + m + count
  BY <1>1, <1>2
<1> DEFINE d1 == DayOf(year1)
<1>4. month1 = Replaced(y2, m2, d1)
  BY <1>2
<1>12. d1 \in 1 .. 31 /\ d1 = IF d <= MonthLength(y + years, m) THEN d ELSE 28
  BY <1>2
<1> HIDE DEF ms, y2, m2, d1, month1
<1>5. /\ month1 \in Int /\ YearOf(month1) = y2 /\ MonthOf(month1) = m2
      /\ DayOf(month1) = IF d > MonthLength(y2, m2) \/ d > MonthLength(y + years, m) THEN 28 ELSE d
      /\ DayOf(month1) = d \/ (DayOf(month1) = 28 /\ 28 < d)
  <2>1. /\ month1 \in Int /\ YearOf(month1) = y2 /\ MonthOf(month1) = m2
        /\ DayOf(month1) = IF d1 <= MonthLength(y2, m2) THEN d1 ELSE 28
    <3>1. d1 \in 1 .. 31
      BY <1>12
    <3>2. /\ Replaced(y2, m2, d1) \in Int
          /\ YearOf(Replaced(y2, m2, d1)) = y2 /\ MonthOf(Replaced(y2, m2, d1)) = m2
          /\ DayOf(Replaced(y2, m2, d1)) = IF d1 <= MonthLength(y2, m2) THEN d1 ELSE 28
      BY <1>3, <3>1, ReplacedParts
    <3> QED
      BY <1>4, <3>2
  <2>2. MonthLength(y2, m2) \in 28 .. 31 /\ MonthLength(y + years, m) \in 28 .. 31
    <3>1. y + years \in Int
      BY <1>1
    <3> QED
      BY <1>1, <1>3, <3>1, MonthsOfYear
  <2> QED
    BY <1>1, <1>12, <2>1, <2>2
<1>6. MonthsApart(base, month1, o)
  <2>1. 12 * y2 + m2 = 12 * y + m + 12 * o.years + o.months
    BY <1>1, <1>3
  <2> QED
    BY <1>5, <2>1 DEF MonthsApart, y, m, d
<1>7. month1 = MonthStart(y2, m2) + DayOf(month1) - 1 /\ MonthStart(y2, m2) \in Int
  BY <1>3, <1>5, DayParts, MonthsOfYear DEF Date
<1> DEFINE c1 == 12 * y + m - 1
           c2 == 12 * y2 + m2 - 1
<1>8. MonthStart(y, m) = MonthAt(c1) /\ MonthStart(y2, m2) = MonthAt(c2)
  BY <1>1, <1>3, MonthNumber
<1>9. c1 \in Int /\ c2 = c1 + count /\ count \in Int
  BY <1>1, <1>3
<1>13. month1 \in Int /\ (DayOf(month1) = d \/ (DayOf(month1) = 28 /\ 28 < d))
  BY <1>5
<1> HIDE DEF c1, c2, count
<1>10. CASE count >= 0
  <2>1. MonthAt(c2) - MonthAt(c1) >= 28 * count /\ MonthAt(c2) - MonthAt(c1) <= 31 * count
    BY <1>9, <1>10, MonthsSpan
  <2>2. month1 \in base - Reach(count) .. base + Reach(count)
    BY <1>1, <1>13, <1>7, <1>8, <1>9, <1>10, <2>1 DEF Reach
  <2> QED
    BY <1>6, <2>2 DEF month1, year1, ms, y, m, d, count
<1>11. CASE count < 0
  <2>0. -count \in Nat /\ c2 \in Int /\ c1 = c2 + (-count)
    BY <1>9, <1>11
  <2>1. MonthAt(c1) - MonthAt(c2) >= 28 * (-count) /\ MonthAt(c1) - MonthAt(c2) <= 31 * (-count)
    BY <2>0, MonthsSpan
  <2>2. month1 \in base - Reach(count) .. base + Reach(count)
    BY <1>1, <1>13, <1>7, <1>8, <1>9, <1>11, <2>1 DEF Reach
  <2> QED
    BY <1>6, <2>2 DEF month1, year1, ms, y, m, d, count
<1> QED
  BY <1>9, <1>10, <1>11

\* A holiday is observed on a weekday n when it falls on n, on the Saturday
\* after it or on the Sunday before it.
LEMMA ObservedDay ==
    ASSUME NEW n \in Int, NEW h \in Int, Weekday(n) < 5
    PROVE  Observed(h) = n <=> \/ h = n
                               \/ Weekday(n) = 4 /\ h = n + 1
                               \/ Weekday(n) = 0 /\ h = n - 1
  BY DEF Observed, Weekday

\* The k-th weekday w of a month is the day w of the month's k-th seven days.
LEMMA NthWeekday ==
    ASSUME NEW y \in Int, NEW m \in 1 .. 12, NEW w \in 0 .. 6, NEW k \in 1 .. 4, NEW n \in Int
    PROVE  n = NthWeekdayOfMonth(y, m, w, k)
           <=> /\ n - MonthStart(y, m) + 1 \in 7 * (k - 1) + 1 .. 7 * k
               /\ Weekday(n) = w
<1> DEFINE first == MonthStart(y, m)
<1>0. first \in Int
  BY MonthsOfYear
<1>1. first \in Int /\ Date(y, m, 1) = first
  <2>1. Date(y, m, 1) = first + 1 - 1
    BY DEF Date
  <2> HIDE DEF first
  <2> QED
    BY <1>0, <2>1
<1>2. NthWeekdayOfMonth(y, m, w, k) = first + ((w - Weekday(first)) % 7) + (k - 1) * 7
  BY <1>1 DEF NthWeekdayOfMonth
<1> HIDE DEF first
<1>3. n = first + ((w - Weekday(first)) % 7) + (k - 1) * 7
      <=> n - first + 1 \in 7 * (k - 1) + 1 .. 7 * k /\ Weekday(n) = w
  BY <1>1 DEF Weekday
<1> QED
  BY <1>2, <1>3 DEF first

\* The last weekday w of a month is the day w of its last seven days.
LEMMA LastWeekday ==
    ASSUME NEW y \in Int, NEW m \in 1 .. 12, NEW w \in 0 .. 6, NEW n \in Int
    PROVE  n = LastWeekdayOfMonth(y, m, w)
           <=> /\ n - MonthStart(y, m) + 1 \in MonthLength(y, m) - 6 .. MonthLength(y, m)
               /\ Weekday(n) = w
<1> DEFINE first == MonthStart(y, m)
           len == MonthLength(y, m)
           last == first + len - 1
<1>1. first \in Int /\ len \in 28 .. 31 /\ Date(y, m, len) = last
  BY MonthsOfYear DEF Date
<1>2. LastWeekdayOfMonth(y, m, w) = last - ((Weekday(last) - w) % 7)
  BY <1>1 DEF LastWeekdayOfMonth
<1> HIDE DEF first, len
<1>3. n = last - ((Weekday(last) - w) % 7)
      <=> n - first + 1 \in len - 6 .. len /\ Weekday(n) = w
  BY <1>1 DEF Weekday
<1> QED
  BY <1>2, <1>3 DEF first, len

\* The fixed holidays of a year are five dates of it.
LEMMA FixedOfYear ==
    ASSUME NEW h \in Int, NEW y \in Int
    PROVE  FixedHoliday(h) /\ YearOf(h) = y
           <=> \E md \in FixedHolidays : Date(y, md[1], md[2]) = h
<1>1. ASSUME FixedHoliday(h), YearOf(h) = y
      PROVE  \E md \in FixedHolidays : Date(y, md[1], md[2]) = h
  <2>1. Date(y, MonthOf(h), DayOf(h)) = h
    BY <1>1, DayParts
  <2>2. <<MonthOf(h), DayOf(h)>> \in FixedHolidays
    BY <1>1 DEF FixedHoliday
  <2> DEFINE md == <<MonthOf(h), DayOf(h)>>
  <2>3. md[1] = MonthOf(h) /\ md[2] = DayOf(h)
    OBVIOUS
  <2>4. md \in FixedHolidays /\ Date(y, md[1], md[2]) = h
    BY <2>1, <2>2, <2>3, Zenon
  <2> QED
    BY <2>4, Zenon
<1>2. ASSUME NEW md \in FixedHolidays, Date(y, md[1], md[2]) = h
      PROVE  FixedHoliday(h) /\ YearOf(h) = y
  <2>1. md = <<md[1], md[2]>> /\ md[1] \in {1, 6, 7, 11, 12} /\ md[2] \in 1 .. 25
    BY DEF FixedHolidays
  <2>2. md[1] \in 1 .. 12 /\ md[2] \in 1 .. MonthLength(y, md[1])
    <3>1. md[1] \in 1 .. 12
      BY <2>1
    <3>2. MonthLength(y, md[1]) \in 28 .. 31
      BY <3>1, MonthsOfYear
    <3> QED
      BY <2>1, <3>1, <3>2
  <2>3. YearOf(h) = y /\ MonthOf(h) = md[1] /\ DayOf(h) = md[2]
    BY <1>2, <2>2, DateParts
  <2>4. <<MonthOf(h), DayOf(h)>> = md
    BY <2>1, <2>3, Zenon
  <2> QED
    BY <1>2, <2>3, <2>4, Zenon DEF FixedHoliday
<1> QED
  BY <1>1, <1>2

\* Without the crossing holidays, those observed on n are of n's own year.
LEMMA ObservedOwn ==
    ASSUME NEW n \in Int
    PROVE  ObservedOn(n, "own_year")
           <=> \E md \in FixedHolidays :
                   LET h == Date(YearOf(n), md[1], md[2])
                   IN  h = n \/ (Weekday(n) = 4 /\ h = n + 1) \/ (Weekday(n) = 0 /\ h = n - 1)
<1> DEFINE y == YearOf(n)
           On(h) == h = n \/ (Weekday(n) = 4 /\ h = n + 1) \/ (Weekday(n) = 0 /\ h = n - 1)
<1>1. y \in Int
  BY DayParts
<1>2. ObservedOn(n, "own_year") <=> \E h \in n - 1 .. n + 1 : FixedHoliday(h) /\ On(h) /\ YearOf(h) = y
  BY DEF ObservedOn
<1> HIDE DEF y
<1>3. \A h : On(h) => h \in Int /\ h \in n - 1 .. n + 1
  OBVIOUS
<1> HIDE DEF On
<1>4. \A h \in Int : FixedHoliday(h) /\ YearOf(h) = y <=> \E md \in FixedHolidays : Date(y, md[1], md[2]) = h
  BY <1>1, FixedOfYear
<1>5. ASSUME NEW h \in n - 1 .. n + 1, FixedHoliday(h), On(h), YearOf(h) = y
      PROVE  \E md \in FixedHolidays : On(Date(y, md[1], md[2]))
  BY <1>3, <1>4, <1>5, Zenon
<1>6. ASSUME NEW md \in FixedHolidays, On(Date(y, md[1], md[2]))
      PROVE  \E h \in n - 1 .. n + 1 : FixedHoliday(h) /\ On(h) /\ YearOf(h) = y
  BY <1>3, <1>4, <1>6, Zenon
<1>7. ObservedOn(n, "own_year") <=> \E md \in FixedHolidays : On(Date(y, md[1], md[2]))
  BY <1>2, <1>5, <1>6, Zenon
<1> QED
  BY <1>7, Zenon DEF On, y

\* The table calendar.py computes for a year is the list of that year's
\* holidays, read off the calendar.
LEMMA HolidayTable ==
    ASSUME NEW n \in Int, Weekday(n) < 5
    PROVE  n \in UsFederalHolidays(YearOf(n))
           <=> \/ ObservedOn(n, "own_year")
               \/ /\ DayOf(n) \in HolidayWeek(MonthOf(n))
                  /\ Weekday(n) = IF MonthOf(n) = 11 THEN 3 ELSE 0
<1> DEFINE y == YearOf(n)
           m == MonthOf(n)
           d == DayOf(n)
           w == Weekday(n)
           fixed == {Observed(Date(y, md[1], md[2])) : md \in FixedHolidays}
           floating == {NthWeekdayOfMonth(y, 1, 0, 3), NthWeekdayOfMonth(y, 2, 0, 3),
                        LastWeekdayOfMonth(y, 5, 0), NthWeekdayOfMonth(y, 9, 0, 1),
                        NthWeekdayOfMonth(y, 10, 0, 2), NthWeekdayOfMonth(y, 11, 3, 4)}
<1>1. /\ y \in Int /\ m \in 1 .. 12 /\ d \in 1 .. MonthLength(y, m)
      /\ d = n - MonthStart(y, m) + 1
  BY DayParts DEF DayOf
<1>2. n \in fixed <=> ObservedOn(n, "own_year")
  <2>1. \A md \in FixedHolidays : Date(y, md[1], md[2]) \in Int
    <3> HIDE DEF y
    <3>1. \A k \in 1 .. 12 : MonthStart(y, k) \in Int
      BY <1>1, MonthsOfYear
    <3>2. \A md \in FixedHolidays : md[1] \in 1 .. 12 /\ md[2] \in Int
      BY DEF FixedHolidays
    <3> QED
      BY <3>1, <3>2 DEF Date
  <2>2. \A md \in FixedHolidays :
            Observed(Date(y, md[1], md[2])) = n
            <=> \/ Date(y, md[1], md[2]) = n
                \/ Weekday(n) = 4 /\ Date(y, md[1], md[2]) = n + 1
                \/ Weekday(n) = 0 /\ Date(y, md[1], md[2]) = n - 1
    <3> HIDE DEF y
    <3> QED
      BY <2>1, ObservedDay
  <2> QED
    BY <2>2, ObservedOwn, Zenon
<1>3. ASSUME NEW k \in 1 .. 12, NEW a \in Int, NEW b \in Int, a >= 1, b <= MonthLength(y, k)
      PROVE  n - MonthStart(y, k) + 1 \in a .. b <=> m = k /\ d \in a .. b
  <2>1. MonthStart(y, k) \in Int /\ MonthLength(y, k) \in 28 .. 31
    BY <1>1, MonthsOfYear
  <2>2. ASSUME n - MonthStart(y, k) + 1 \in a .. b PROVE m = k /\ d \in a .. b
    <3>1. InMonth(n, y, k)
      BY <1>3, <2>1, <2>2 DEF InMonth
    <3>2. m = k
      BY <1>1, <3>1, PartsUnique
    <3> HIDE DEF y, m, d
    <3> QED
      BY <1>1, <2>2, <3>2
  <2> HIDE DEF y, m, d
  <2> QED
    BY <1>1, <2>2
<1>4. /\ MonthLength(y, 1) = 31 /\ MonthLength(y, 2) \in {28, 29} /\ MonthLength(y, 5) = 31
      /\ MonthLength(y, 9) = 30 /\ MonthLength(y, 10) = 31 /\ MonthLength(y, 11) = 30
  BY <1>1 DEF MonthLength
<1>5. /\ n = NthWeekdayOfMonth(y, 1, 0, 3) <=> m = 1 /\ d \in 15 .. 21 /\ w = 0
      /\ n = NthWeekdayOfMonth(y, 2, 0, 3) <=> m = 2 /\ d \in 15 .. 21 /\ w = 0
      /\ n = LastWeekdayOfMonth(y, 5, 0) <=> m = 5 /\ d \in 25 .. 31 /\ w = 0
      /\ n = NthWeekdayOfMonth(y, 9, 0, 1) <=> m = 9 /\ d \in 1 .. 7 /\ w = 0
      /\ n = NthWeekdayOfMonth(y, 10, 0, 2) <=> m = 10 /\ d \in 8 .. 14 /\ w = 0
      /\ n = NthWeekdayOfMonth(y, 11, 3, 4) <=> m = 11 /\ d \in 22 .. 28 /\ w = 3
  <2> HIDE DEF y, m, d
  <2>1. n = NthWeekdayOfMonth(y, 1, 0, 3) <=> m = 1 /\ d \in 15 .. 21 /\ w = 0
    <3>1. n = NthWeekdayOfMonth(y, 1, 0, 3) <=> n - MonthStart(y, 1) + 1 \in 15 .. 21 /\ w = 0
      BY <1>1, NthWeekday
    <3>2. n - MonthStart(y, 1) + 1 \in 15 .. 21 <=> m = 1 /\ d \in 15 .. 21
      BY <1>3, <1>4
    <3> QED
      BY <3>1, <3>2
  <2>2. n = NthWeekdayOfMonth(y, 2, 0, 3) <=> m = 2 /\ d \in 15 .. 21 /\ w = 0
    <3>1. n = NthWeekdayOfMonth(y, 2, 0, 3) <=> n - MonthStart(y, 2) + 1 \in 15 .. 21 /\ w = 0
      BY <1>1, NthWeekday
    <3>2. n - MonthStart(y, 2) + 1 \in 15 .. 21 <=> m = 2 /\ d \in 15 .. 21
      BY <1>3, <1>4
    <3> QED
      BY <3>1, <3>2
  <2>3. n = LastWeekdayOfMonth(y, 5, 0) <=> m = 5 /\ d \in 25 .. 31 /\ w = 0
    <3>0. /\ n = LastWeekdayOfMonth(y, 5, 0)
             <=> n - MonthStart(y, 5) + 1 \in MonthLength(y, 5) - 6 .. MonthLength(y, 5) /\ w = 0
          /\ MonthLength(y, 5) - 6 = 25 /\ MonthLength(y, 5) = 31
      BY <1>1, <1>4, LastWeekday
    <3>1. n = LastWeekdayOfMonth(y, 5, 0) <=> n - MonthStart(y, 5) + 1 \in 25 .. 31 /\ w = 0
      BY <3>0
    <3>2. n - MonthStart(y, 5) + 1 \in 25 .. 31 <=> m = 5 /\ d \in 25 .. 31
      BY <1>3, <1>4
    <3> QED
      BY <3>1, <3>2
  <2>4. n = NthWeekdayOfMonth(y, 9, 0, 1) <=> m = 9 /\ d \in 1 .. 7 /\ w = 0
    <3>1. n = NthWeekdayOfMonth(y, 9, 0, 1) <=> n - MonthStart(y, 9) + 1 \in 1 .. 7 /\ w = 0
      BY <1>1, NthWeekday
    <3>2. n - MonthStart(y, 9) + 1 \in 1 .. 7 <=> m = 9 /\ d \in 1 .. 7
      BY <1>3, <1>4
    <3> QED
      BY <3>1, <3>2
  <2>5. n = NthWeekdayOfMonth(y, 10, 0, 2) <=> m = 10 /\ d \in 8 .. 14 /\ w = 0
    <3>1. n = NthWeekdayOfMonth(y, 10, 0, 2) <=> n - MonthStart(y, 10) + 1 \in 8 .. 14 /\ w = 0
      BY <1>1, NthWeekday
    <3>2. n - MonthStart(y, 10) + 1 \in 8 .. 14 <=> m = 10 /\ d \in 8 .. 14
      BY <1>3, <1>4
    <3> QED
      BY <3>1, <3>2
  <2>6. n = NthWeekdayOfMonth(y, 11, 3, 4) <=> m = 11 /\ d \in 22 .. 28 /\ w = 3
    <3>1. n = NthWeekdayOfMonth(y, 11, 3, 4) <=> n - MonthStart(y, 11) + 1 \in 22 .. 28 /\ w = 3
      BY <1>1, NthWeekday
    <3>2. n - MonthStart(y, 11) + 1 \in 22 .. 28 <=> m = 11 /\ d \in 22 .. 28
      BY <1>3, <1>4
    <3> QED
      BY <3>1, <3>2
  <2> QED
    BY <2>1, <2>2, <2>3, <2>4, <2>5, <2>6
<1>6. n \in floating <=> d \in HolidayWeek(m) /\ w = IF m = 11 THEN 3 ELSE 0
  <2> HIDE DEF y, m, d, w
  <2>1. /\ m \in {1, 2} => HolidayWeek(m) = 15 .. 21
        /\ m = 5 => HolidayWeek(m) = 25 .. 31
        /\ m = 9 => HolidayWeek(m) = 1 .. 7
        /\ m = 10 => HolidayWeek(m) = 8 .. 14
        /\ m = 11 => HolidayWeek(m) = 22 .. 28
        /\ m \notin {1, 2, 5, 9, 10, 11} => HolidayWeek(m) = {}
    BY <1>1 DEF HolidayWeek
  <2> QED
    BY <1>1, <1>5, <2>1
<1>7. UsFederalHolidays(y) = fixed \cup floating
  BY DEF UsFederalHolidays, FixedHolidays
<1> QED
  BY <1>2, <1>6, <1>7

\* Where the year has a table a loop stops on exactly the working days; it
\* passes over no working day of another year.
LEMMA StopsOnWorkingDays ==
    ASSUME NEW n \in Int
    PROVE  /\ YearOf(n) \in SupportedYears => (Stops(n) <=> WorkingDay(n, "own_year"))
           /\ WorkingDay(n, "own_year") => Stops(n)
<1>1. CASE ~(Weekday(n) < 5)
  BY <1>1 DEF Stops, WorkingDay
<1>2. CASE Weekday(n) < 5
  <2>1. YearOf(n) \in SupportedYears => Holidays[YearOf(n)] = UsFederalHolidays(YearOf(n))
    BY DEF Holidays
  <2> QED
    BY <1>2, <2>1, HolidayTable, Zenon DEF Stops, WorkingDay
<1> QED
  BY <1>1, <1>2

\* A Tuesday or Wednesday that is a holiday is one of the five fixed dates.
LEMMA MidweekHoliday ==
    ASSUME NEW n \in Int, Weekday(n) \in {1, 2}, ~Stops(n)
    PROVE  n - YearStart(YearOf(n)) \in {0, 169 + Leap(YearOf(n)), 184 + Leap(YearOf(n)),
                                         314 + Leap(YearOf(n)), 358 + Leap(YearOf(n))}
<1> DEFINE y == YearOf(n)
<1>1. y \in Int /\ YearStart(y) \in Int /\ Leap(y) \in {0, 1}
  BY DayParts, YearLength
<1>2. Weekday(n) < 5
  OBVIOUS
<1>3. ~WorkingDay(n, "own_year")
  BY StopsOnWorkingDays
<1>4. ObservedOn(n, "own_year")
  <2>1. Weekday(n) # IF MonthOf(n) = 11 THEN 3 ELSE 0
    OBVIOUS
  <2> QED
    BY <1>2, <1>3, <2>1 DEF WorkingDay
<1>5. PICK md \in FixedHolidays : Date(y, md[1], md[2]) = n
  BY <1>4, ObservedOwn
<1> HIDE DEF y
<1>6. n \in {Date(y, 1, 1), Date(y, 6, 19), Date(y, 7, 4), Date(y, 11, 11), Date(y, 12, 25)}
  BY <1>5 DEF FixedHolidays
<1>7. /\ Date(y, 1, 1) = YearStart(y)
      /\ Date(y, 6, 19) = YearStart(y) + 169 + Leap(y)
      /\ Date(y, 7, 4) = YearStart(y) + 184 + Leap(y)
      /\ Date(y, 11, 11) = YearStart(y) + 314 + Leap(y)
      /\ Date(y, 12, 25) = YearStart(y) + 358 + Leap(y)
  BY <1>1, MonthTable DEF Date
<1>8. n - YearStart(y) \in {0, 169 + Leap(y), 184 + Leap(y), 314 + Leap(y), 358 + Leap(y)}
  BY <1>1, <1>6, <1>7
<1> QED
  BY <1>8 DEF y

\* Of a Tuesday and a Wednesday at most six days apart one is no holiday.
LEMMA FreeMidweek ==
    ASSUME NEW t \in Int, NEW w \in {t - 6, t + 1}, Weekday(t) = 1
    PROVE  Stops(t) \/ Stops(w)
<1> SUFFICES ASSUME ~Stops(t), ~Stops(w) PROVE FALSE
  OBVIOUS
<1> DEFINE y == YearOf(t)
           z == YearOf(w)
<1>1. w \in Int /\ Weekday(w) = 2
  BY DEF Weekday
<1>2. /\ t - YearStart(y) \in {0, 169 + Leap(y), 184 + Leap(y), 314 + Leap(y), 358 + Leap(y)}
      /\ w - YearStart(z) \in {0, 169 + Leap(z), 184 + Leap(z), 314 + Leap(z), 358 + Leap(z)}
  BY <1>1, MidweekHoliday
<1>3. y \in Int /\ z \in Int /\ z \in {y - 1, y, y + 1}
  BY <1>1, SMT DEF YearOf
<1> HIDE DEF y, z
<1>4. /\ YearStart(y) \in Int /\ Leap(y) \in {0, 1} /\ YearStart(y + 1) = YearStart(y) + 365 + Leap(y)
      /\ YearStart(z) \in Int /\ Leap(z) \in {0, 1} /\ YearStart(z + 1) = YearStart(z) + 365 + Leap(z)
  BY <1>3, YearLength
<1>5. CASE z = y
  BY <1>2, <1>4, <1>5
<1>6. CASE z = y + 1
  BY <1>2, <1>4, <1>6
<1>7. CASE z + 1 = y
  BY <1>2, <1>4, <1>7
<1> QED
  BY <1>3, <1>5, <1>6, <1>7

\* Seven days in a row hold a day the loops stop on.
LEMMA StopInWeek ==
    ASSUME NEW n \in Int
    PROVE  \E k \in n + 1 .. n + 7 : Stops(k)
<1>1. PICK t \in n + 1 .. n + 7 : Weekday(t) = 1
  <2> DEFINE t == n + 1 + ((5 - n) % 7)
  <2>1. t \in n + 1 .. n + 7 /\ Weekday(t) = 1
    BY DEF Weekday
  <2> QED
    BY <2>1
<1>2. CASE t = n + 7
  <2>1. t - 6 \in n + 1 .. n + 7
    BY <1>2
  <2> QED
    BY <1>1, <2>1, FreeMidweek
<1>3. CASE t # n + 7
  <2>1. t + 1 \in n + 1 .. n + 7
    BY <1>1, <1>3
  <2> QED
    BY <1>1, <2>1, FreeMidweek
<1> QED
  BY <1>2, <1>3

\* The loop of next_business_day ends within a week.
LEMMA FirstStop ==
    ASSUME NEW n \in Int
    PROVE  \E k \in n + 1 .. n + 7 : Stops(k) /\ \A i \in n + 1 .. k - 1 : ~Stops(i)
<1> SUFFICES ASSUME \A k \in n + 1 .. n + 7 : ~(Stops(k) /\ \A i \in n + 1 .. k - 1 : ~Stops(i))
             PROVE  FALSE
  OBVIOUS
<1> DEFINE Free(j) == \A i \in n + 1 .. n + j : ~Stops(i)
<1>0. Free(0)
  OBVIOUS
<1>1. ASSUME NEW j \in 0 .. 6, Free(j) PROVE Free(j + 1)
  <2>1. n + (j + 1) \in n + 1 .. n + 7 /\ (n + (j + 1)) - 1 = n + j
    OBVIOUS
  <2>2. ~Stops(n + (j + 1))
    BY <1>1, <2>1
  <2>3. \A i \in n + 1 .. n + (j + 1) : i = n + (j + 1) \/ i \in n + 1 .. n + j
    OBVIOUS
  <2> QED
    BY <1>1, <2>2, <2>3
<1> HIDE DEF Free
<1>2. Free(7)
  BY <1>0, <1>1
<1> QED
  BY <1>2, StopInWeek DEF Free

\* So does the loop of previous_business_day.
LEMMA LastStop ==
    ASSUME NEW n \in Int
    PROVE  \E k \in n - 7 .. n - 1 : Stops(k) /\ \A i \in k + 1 .. n - 1 : ~Stops(i)
<1> SUFFICES ASSUME \A k \in n - 7 .. n - 1 : ~(Stops(k) /\ \A i \in k + 1 .. n - 1 : ~Stops(i))
             PROVE  FALSE
  OBVIOUS
<1> DEFINE Free(j) == \A i \in n - j .. n - 1 : ~Stops(i)
<1>0. Free(0)
  OBVIOUS
<1>1. ASSUME NEW j \in 0 .. 6, Free(j) PROVE Free(j + 1)
  <2>1. n - (j + 1) \in n - 7 .. n - 1 /\ (n - (j + 1)) + 1 = n - j
    OBVIOUS
  <2>2. ~Stops(n - (j + 1))
    BY <1>1, <2>1
  <2>3. \A i \in n - (j + 1) .. n - 1 : i = n - (j + 1) \/ i \in n - j .. n - 1
    OBVIOUS
  <2> QED
    BY <1>1, <2>2, <2>3
<1> HIDE DEF Free
<1>2. Free(7)
  BY <1>0, <1>1
<1>3. n - 8 \in Int /\ \A k \in (n - 8) + 1 .. (n - 8) + 7 : k \in n - 7 .. n - 1
  OBVIOUS
<1> QED
  BY <1>2, <1>3, StopInWeek DEF Free

\* NextBusinessDay and PreviousBusinessDay, when they answer, give the nearest
\* working day.
LEMMA NextDay ==
    ASSUME NEW n \in Int, NextBusinessDay(n) # NoDate
    PROVE  /\ NextBusinessDay(n) \in Int
           /\ NextBusinessDay(n) > n
           /\ WorkingDay(NextBusinessDay(n), "own_year")
           /\ \A i \in n + 1 .. NextBusinessDay(n) - 1 : ~WorkingDay(i, "own_year")
<1> DEFINE P(k) == Stops(k) /\ \A i \in n + 1 .. k - 1 : ~Stops(i)
           k == CHOOSE j \in n + 1 .. n + 7 : P(j)
<1>1. k \in n + 1 .. n + 7 /\ P(k)
  <2>1. \E j \in n + 1 .. n + 7 : P(j)
    BY FirstStop
  <2> HIDE DEF P
  <2> QED
    BY <2>1
<1>2. NextBusinessDay(n) = Answered(k)
  BY DEF NextBusinessDay
<1> HIDE DEF k
<1>3. YearOf(k) \in SupportedYears /\ NextBusinessDay(n) = k
  BY <1>2 DEF Answered
<1>4. WorkingDay(k, "own_year")
  BY <1>1, <1>3, StopsOnWorkingDays
<1>5. \A i \in n + 1 .. k - 1 : ~WorkingDay(i, "own_year")
  BY <1>1, StopsOnWorkingDays
<1> QED
  BY <1>1, <1>3, <1>4, <1>5

\* The same backwards.
LEMMA PreviousDay ==
    ASSUME NEW n \in Int, PreviousBusinessDay(n) # NoDate
    PROVE  /\ PreviousBusinessDay(n) \in Int
           /\ PreviousBusinessDay(n) < n
           /\ WorkingDay(PreviousBusinessDay(n), "own_year")
           /\ \A i \in PreviousBusinessDay(n) + 1 .. n - 1 : ~WorkingDay(i, "own_year")
<1> DEFINE P(k) == Stops(k) /\ \A i \in k + 1 .. n - 1 : ~Stops(i)
           k == CHOOSE j \in n - 7 .. n - 1 : P(j)
<1>1. k \in n - 7 .. n - 1 /\ P(k)
  <2>1. \E j \in n - 7 .. n - 1 : P(j)
    BY LastStop
  <2> HIDE DEF P
  <2> QED
    BY <2>1
<1>2. PreviousBusinessDay(n) = Answered(k)
  BY DEF PreviousBusinessDay
<1> HIDE DEF k
<1>3. YearOf(k) \in SupportedYears /\ PreviousBusinessDay(n) = k
  BY <1>2 DEF Answered
<1>4. WorkingDay(k, "own_year")
  BY <1>1, <1>3, StopsOnWorkingDays
<1>5. \A i \in k + 1 .. n - 1 : ~WorkingDay(i, "own_year")
  BY <1>1, StopsOnWorkingDays
<1> QED
  BY <1>1, <1>3, <1>4, <1>5

\* One step of add_business_days.
OneDay(v, amount) ==
    IF v = NoDate THEN NoDate
    ELSE IF amount > 0 THEN NextBusinessDay(v) ELSE PreviousBusinessDay(v)

\* f counts the steps of the loop of add_business_days up to m.
Steps(f, n, amount, m) ==
    f = [k \in 0 .. m |-> IF k = 0 THEN n ELSE OneDay(f[k - 1], amount)]

\* The recursive function of AddBusinessDays exists: built up one step at a time.
LEMMA StepsExist ==
    ASSUME NEW n, NEW amount, NEW m \in Nat
    PROVE  \E f : Steps(f, n, amount, m)
<1> DEFINE S == {j \in Nat : \E f : Steps(f, n, amount, j)}
<1>1. 0 \in S
  <2> DEFINE f == [k \in 0 .. 0 |-> n]
  <2>1. Steps(f, n, amount, 0)
    BY DEF Steps
  <2> QED
    BY <2>1
<1>2. ASSUME NEW j \in Nat, j \in S PROVE j + 1 \in S
  <2>1. PICK f : Steps(f, n, amount, j)
    BY <1>2
  <2> DEFINE g == [k \in 0 .. j + 1 |-> IF k = j + 1 THEN OneDay(f[j], amount) ELSE f[k]]
  <2>2. ASSUME NEW k \in 0 .. j + 1
        PROVE  g[k] = IF k = 0 THEN n ELSE OneDay(g[k - 1], amount)
    <3>1. CASE k = 0
      BY <2>1, <3>1 DEF Steps
    <3>2. CASE k = j + 1
      <4>1. k # 0 /\ k - 1 = j /\ g[k] = OneDay(f[j], amount) /\ g[j] = f[j]
        BY <3>2
      <4> HIDE DEF g
      <4> QED
        BY <4>1
    <3>3. CASE k # 0 /\ k # j + 1
      <4>1. k \in 0 .. j /\ k - 1 \in 0 .. j /\ g[k] = f[k] /\ g[k - 1] = f[k - 1]
        BY <3>3
      <4> HIDE DEF g
      <4> QED
        BY <2>1, <3>3, <4>1 DEF Steps
    <3> QED
      BY <3>1, <3>2, <3>3
  <2>3. g = [k \in 0 .. j + 1 |-> g[k]]
    OBVIOUS
  <2> HIDE DEF g
  <2>4. Steps(g, n, amount, j + 1)
    BY <2>2, <2>3, Zenon DEF Steps
  <2> QED
    BY <2>4
<1> HIDE DEF S
<1>3. m \in S
  BY <1>1, <1>2, SetInduction
<1> QED
  BY <1>3 DEF S

\* AddBusinessDays is its last value.
LEMMA AddSteps ==
    ASSUME NEW n, NEW amount \in Int
    PROVE  LET count == IF amount >= 0 THEN amount ELSE -amount
           IN  \E f : Steps(f, n, amount, count) /\ AddBusinessDays(n, amount) = f[count]
<1> DEFINE count == IF amount >= 0 THEN amount ELSE -amount
<1>0. count \in Nat
  OBVIOUS
<1>1. \E f : Steps(f, n, amount, count)
  BY <1>0, StepsExist
<1> DEFINE f == CHOOSE g : Steps(g, n, amount, count)
<1>2. Steps(f, n, amount, count)
  BY <1>1
<1>3. AddBusinessDays(n, amount) = f[count]
  BY Zenon DEF AddBusinessDays, Steps, OneDay
<1> QED
  BY <1>2, <1>3

\* There are finitely many working days between two days.
LEMMA DaysFinite ==
    ASSUME NEW a \in Int, NEW b \in Int
    PROVE  IsFiniteSet({i \in a .. b : WorkingDay(i, "own_year")}) /\ WorkingDays(a, b, "own_year") \in Nat
<1>1. IsFiniteSet(a .. b)
  BY FS_Interval
<1>2. {i \in a .. b : WorkingDay(i, "own_year")} \subseteq a .. b
  OBVIOUS
<1>3. IsFiniteSet({i \in a .. b : WorkingDay(i, "own_year")})
  BY <1>1, <1>2, FS_Subset
<1> QED
  BY <1>3, FS_CardinalityType DEF WorkingDays

\* The next working day after b is one more.
LEMMA OneMore ==
    ASSUME NEW a \in Int, NEW b \in Int, NEW c \in Int, a <= b + 1, b < c, WorkingDay(c, "own_year"),
           \A i \in b + 1 .. c - 1 : ~WorkingDay(i, "own_year")
    PROVE  WorkingDays(a, c, "own_year") = WorkingDays(a, b, "own_year") + 1
<1> DEFINE S == {i \in a .. b : WorkingDay(i, "own_year")}
<1>1. IsFiniteSet(S) /\ c \notin S
  BY DaysFinite
<1>2. {i \in a .. c : WorkingDay(i, "own_year")} = S \cup {c}
  <2>1. \A i \in a .. c : i \in a .. b \/ i \in b + 1 .. c - 1 \/ i = c
    OBVIOUS
  <2>2. a .. b \subseteq a .. c /\ c \in a .. c
    OBVIOUS
  <2> QED
    BY <2>1, <2>2
<1> QED
  BY <1>1, <1>2, FS_AddElement DEF WorkingDays

\* The working day before b is one more.
LEMMA OneMoreBack ==
    ASSUME NEW a \in Int, NEW b \in Int, NEW c \in Int, b <= a + 1, c < b, WorkingDay(c, "own_year"),
           \A i \in c + 1 .. b - 1 : ~WorkingDay(i, "own_year")
    PROVE  WorkingDays(c, a, "own_year") = WorkingDays(b, a, "own_year") + 1
<1> DEFINE S == {i \in b .. a : WorkingDay(i, "own_year")}
<1>1. IsFiniteSet(S) /\ c \notin S
  <2>1. IsFiniteSet(S)
    BY DaysFinite
  <2>2. c \notin b .. a
    OBVIOUS
  <2> QED
    BY <2>1, <2>2
<1>2. {i \in c .. a : WorkingDay(i, "own_year")} = S \cup {c}
  <2>1. \A i \in c .. a : i \in b .. a \/ i \in c + 1 .. b - 1 \/ i = c
    OBVIOUS
  <2>2. b .. a \subseteq c .. a /\ c \in c .. a
    OBVIOUS
  <2> QED
    BY <2>1, <2>2
<1> QED
  BY <1>1, <1>2, FS_AddElement DEF WorkingDays

\* There is no working day in an empty interval.
LEMMA NoDays ==
    ASSUME NEW a \in Int, NEW b \in Int, b < a
    PROVE  WorkingDays(a, b, "own_year") = 0
<1>1. {i \in a .. b : WorkingDay(i, "own_year")} = {}
  OBVIOUS
<1> QED
  BY <1>1, FS_EmptySet DEF WorkingDays

\* After k steps forward the loop stands on the k-th working day.
LEMMA StepsForward ==
    ASSUME NEW n \in Int, NEW amount \in Int, amount > 0, NEW f, NEW m \in Nat,
           Steps(f, n, amount, m), f[m] # NoDate, m > 0
    PROVE  f[m] \in Int /\ WorkingDay(f[m], "own_year") /\ WorkingDays(n + 1, f[m], "own_year") = m
<1> DEFINE S == {j \in Nat : j <= m /\ f[j] # NoDate =>
                                /\ f[j] \in Int /\ f[j] >= n
                                /\ j > 0 => WorkingDay(f[j], "own_year")
                                /\ WorkingDays(n + 1, f[j], "own_year") = j}
<1>1. 0 \in S
  <2>1. f[0] = n
    BY DEF Steps
  <2>2. WorkingDays(n + 1, n, "own_year") = 0
    BY NoDays
  <2> QED
    BY <2>1, <2>2
<1>2. ASSUME NEW j \in Nat, j \in S PROVE j + 1 \in S
  <2> SUFFICES ASSUME j + 1 <= m, f[j + 1] # NoDate
               PROVE  /\ f[j + 1] \in Int /\ f[j + 1] >= n
                      /\ WorkingDay(f[j + 1], "own_year")
                      /\ WorkingDays(n + 1, f[j + 1], "own_year") = j + 1
    OBVIOUS
  <2>0. j + 1 \in 0 .. m /\ j + 1 # 0 /\ (j + 1) - 1 = j
    OBVIOUS
  <2>1. f[j + 1] = IF f[j] = NoDate THEN NoDate ELSE NextBusinessDay(f[j])
    BY <2>0 DEF Steps, OneDay
  <2>2. f[j] # NoDate /\ f[j + 1] = NextBusinessDay(f[j])
    BY <2>1
  <2>3. f[j] \in Int /\ f[j] >= n /\ WorkingDays(n + 1, f[j], "own_year") = j
    BY <1>2, <2>2
  <2>4. /\ f[j + 1] \in Int /\ f[j + 1] > f[j] /\ WorkingDay(f[j + 1], "own_year")
        /\ \A i \in f[j] + 1 .. f[j + 1] - 1 : ~WorkingDay(i, "own_year")
    BY <2>2, <2>3, NextDay
  <2>5. WorkingDays(n + 1, f[j + 1], "own_year") = WorkingDays(n + 1, f[j], "own_year") + 1
    BY <2>3, <2>4, OneMore
  <2> QED
    BY <2>3, <2>4, <2>5
<1> HIDE DEF S
<1>3. m \in S
  BY <1>1, <1>2, SetInduction
<1> QED
  BY <1>3 DEF S

\* The same backwards.
LEMMA StepsBackward ==
    ASSUME NEW n \in Int, NEW amount \in Int, ~(amount > 0), NEW f, NEW m \in Nat,
           Steps(f, n, amount, m), f[m] # NoDate, m > 0
    PROVE  f[m] \in Int /\ WorkingDay(f[m], "own_year") /\ WorkingDays(f[m], n - 1, "own_year") = m
<1> DEFINE S == {j \in Nat : j <= m /\ f[j] # NoDate =>
                                /\ f[j] \in Int /\ f[j] <= n
                                /\ j > 0 => WorkingDay(f[j], "own_year")
                                /\ WorkingDays(f[j], n - 1, "own_year") = j}
<1>1. 0 \in S
  <2>1. f[0] = n
    BY DEF Steps
  <2>2. WorkingDays(n, n - 1, "own_year") = 0
    BY NoDays
  <2> QED
    BY <2>1, <2>2
<1>2. ASSUME NEW j \in Nat, j \in S PROVE j + 1 \in S
  <2> SUFFICES ASSUME j + 1 <= m, f[j + 1] # NoDate
               PROVE  /\ f[j + 1] \in Int /\ f[j + 1] <= n
                      /\ WorkingDay(f[j + 1], "own_year")
                      /\ WorkingDays(f[j + 1], n - 1, "own_year") = j + 1
    OBVIOUS
  <2>0. j + 1 \in 0 .. m /\ j + 1 # 0 /\ (j + 1) - 1 = j
    OBVIOUS
  <2>1. f[j + 1] = IF f[j] = NoDate THEN NoDate ELSE PreviousBusinessDay(f[j])
    BY <2>0 DEF Steps, OneDay
  <2>2. f[j] # NoDate /\ f[j + 1] = PreviousBusinessDay(f[j])
    BY <2>1
  <2>3. f[j] \in Int /\ f[j] <= n /\ WorkingDays(f[j], n - 1, "own_year") = j
    BY <1>2, <2>2
  <2>4. /\ f[j + 1] \in Int /\ f[j + 1] < f[j] /\ WorkingDay(f[j + 1], "own_year")
        /\ \A i \in f[j + 1] + 1 .. f[j] - 1 : ~WorkingDay(i, "own_year")
    BY <2>2, <2>3, PreviousDay
  <2>5. WorkingDays(f[j + 1], n - 1, "own_year") = WorkingDays(f[j], n - 1, "own_year") + 1
    BY <2>3, <2>4, OneMoreBack
  <2> QED
    BY <2>3, <2>4, <2>5
<1> HIDE DEF S
<1>3. m \in S
  BY <1>1, <1>2, SetInduction
<1> QED
  BY <1>3 DEF S

\* add_business_days counts working days.
LEMMA AddRight ==
    ASSUME NEW n \in Int, NEW amount \in Int, AddBusinessDays(n, amount) # NoDate
    PROVE  AddBusinessDays(n, amount) \in Int /\ DaysApart(n, AddBusinessDays(n, amount), amount, "own_year")
<1> DEFINE count == IF amount >= 0 THEN amount ELSE -amount
           b == AddBusinessDays(n, amount)
<1>1. PICK f : Steps(f, n, amount, count) /\ b = f[count]
  BY AddSteps
<1>2. count \in Nat
  OBVIOUS
<1>3. CASE amount = 0
  <2>1. b = f[0] /\ f[0] = n
    BY <1>1, <1>3 DEF Steps
  <2> QED
    BY <1>3, <2>1 DEF DaysApart
<1>4. CASE amount > 0
  <2>1. count = amount /\ count > 0
    BY <1>4
  <2> HIDE DEF count, b
  <2>2. b \in Int /\ WorkingDay(b, "own_year") /\ WorkingDays(n + 1, b, "own_year") = amount
    BY <1>1, <1>2, <1>4, <2>1, StepsForward DEF b
  <2> QED
    BY <1>4, <2>2 DEF DaysApart, b
<1>5. CASE amount < 0
  <2>1. count = -amount /\ count > 0 /\ ~(amount > 0)
    BY <1>5
  <2> HIDE DEF count, b
  <2>2. b \in Int /\ WorkingDay(b, "own_year") /\ WorkingDays(b, n - 1, "own_year") = -amount
    BY <1>1, <1>2, <1>5, <2>1, StepsBackward DEF b
  <2>3. amount = -WorkingDays(b, n - 1, "own_year")
    BY <2>2
  <2> QED
    BY <1>5, <2>2, <2>3 DEF DaysApart, b
<1> QED
  BY <1>3, <1>4, <1>5

\* Adjust, when it answers, gives the nearest working day the rule asks for.
LEMMA AdjustedRight ==
    ASSUME NEW raw \in Int, raw # NoDate,
           NEW mode \in {"none", "next_business_day", "previous_business_day"},
           Adjust(raw, mode) # NoDate
    PROVE  Adjust(raw, mode) \in Int /\ AdjustRight(raw, Adjust(raw, mode), mode, "own_year")
<1> DEFINE due == Adjust(raw, mode)
<1>1. CASE mode = "none"
  BY <1>1 DEF Adjust, AdjustRight
<1>2. CASE mode # "none" /\ Stops(raw)
  <2>1. due = raw /\ WorkingDay(raw, "own_year")
    <3>1. due = Answered(raw)
      BY <1>2 DEF Adjust
    <3> QED
      BY <1>2, <3>1, StopsOnWorkingDays DEF Answered
  <2>2. WorkingDays(raw, raw, "own_year") = 1
    <3>1. raw - 1 \in Int /\ \A i \in (raw - 1) + 1 .. raw - 1 : ~WorkingDay(i, "own_year")
      OBVIOUS
    <3>2. WorkingDays(raw, raw, "own_year") = WorkingDays(raw, raw - 1, "own_year") + 1
      BY <2>1, <3>1, OneMore
    <3> QED
      BY <3>2, NoDays
  <2> HIDE DEF due
  <2>3. AdjustRight(raw, due, mode, "own_year")
    <3>1. CASE mode = "next_business_day"
      BY <2>1, <2>2, <3>1 DEF AdjustRight
    <3>2. CASE mode = "previous_business_day"
      BY <2>1, <2>2, <3>2 DEF AdjustRight
    <3> QED
      BY <1>2, <3>1, <3>2
  <2> QED
    BY <2>1, <2>3 DEF due
<1>3. CASE mode = "next_business_day" /\ ~Stops(raw)
  <2>1. due = NextBusinessDay(raw) /\ ~WorkingDay(raw, "own_year")
    BY <1>3, StopsOnWorkingDays DEF Adjust
  <2>2. /\ due \in Int /\ due > raw /\ WorkingDay(due, "own_year")
        /\ \A i \in raw + 1 .. due - 1 : ~WorkingDay(i, "own_year")
    BY <2>1, NextDay
  <2> HIDE DEF due
  <2>3. WorkingDays(raw, due, "own_year") = 1
    <3>1. \A i \in (raw - 1) + 1 .. due - 1 : ~WorkingDay(i, "own_year")
      <4>1. \A i \in (raw - 1) + 1 .. due - 1 : i = raw \/ i \in raw + 1 .. due - 1
        BY <2>2
      <4> QED
        BY <2>1, <2>2, <4>1
    <3>2. WorkingDays(raw, due, "own_year") = WorkingDays(raw, raw - 1, "own_year") + 1
      BY <2>2, <3>1, OneMore
    <3> QED
      BY <3>2, NoDays
  <2> QED
    BY <1>3, <2>2, <2>3 DEF AdjustRight, due
<1>4. CASE mode = "previous_business_day" /\ ~Stops(raw)
  <2>1. due = PreviousBusinessDay(raw) /\ ~WorkingDay(raw, "own_year")
    BY <1>4, StopsOnWorkingDays DEF Adjust
  <2>2. /\ due \in Int /\ due < raw /\ WorkingDay(due, "own_year")
        /\ \A i \in due + 1 .. raw - 1 : ~WorkingDay(i, "own_year")
    BY <2>1, PreviousDay
  <2> HIDE DEF due
  <2>3. WorkingDays(due, raw, "own_year") = 1
    <3>1. \A i \in due + 1 .. (raw + 1) - 1 : ~WorkingDay(i, "own_year")
      <4>1. \A i \in due + 1 .. (raw + 1) - 1 : i = raw \/ i \in due + 1 .. raw - 1
        BY <2>2
      <4> QED
        BY <2>1, <2>2, <4>1
    <3>2. WorkingDays(due, raw, "own_year") = WorkingDays(raw + 1, raw, "own_year") + 1
      BY <2>2, <3>1, OneMoreBack
    <3> QED
      BY <3>2, NoDays
  <2> QED
    BY <1>4, <2>2, <2>3 DEF AdjustRight, due
<1> QED
  BY <1>1, <1>2, <1>3, <1>4

\* The rules and versions the store may hold, and a registry of them: each is
\* under its own id, and no version is there twice.
Rules == {r \in RuleTexts \cup PackRules : r.typed /\ r.id \in RuleIds}

Versions == {<<"yaml", r.text>> : r \in RuleTexts} \cup UNION {VersionsOf(r) : r \in PackRules}

Entry == [version : Versions, rule : Rules]

RightId(entries, id) == \A i \in DOMAIN entries : entries[i].rule.id = id

Distinct(entries) ==
    \A i, k \in DOMAIN entries : entries[i].version = entries[k].version => i = k

Registered ==
    /\ registry \in [RuleIds -> Seq(Entry)]
    /\ \A id \in RuleIds : RightId(registry[id], id) /\ Distinct(registry[id])

\* What load and register_rule do to the registry keeps it so.
LEMMA AddedKeeps ==
    ASSUME Registered, NEW r \in Rules, NEW v \in Versions, registry' = Added(r, v)
    PROVE  Registered'
<1> DEFINE s == registry[r.id]
           e == [version |-> v, rule |-> r]
           t == Append(s, e)
<1>0. r.id \in RuleIds
  BY DEF Rules
<1>1. CASE \E i \in DOMAIN registry[r.id] : registry[r.id][i].version = v
  <2>1. registry' = registry
    BY <1>1 DEF Added
  <2> QED
    BY <2>1 DEF Registered
<1>2. CASE ~\E i \in DOMAIN registry[r.id] : registry[r.id][i].version = v
  <2>1. registry' = [registry EXCEPT ![r.id] = t]
    BY <1>2 DEF Added
  <2>2. s \in Seq(Entry) /\ RightId(s, r.id) /\ Distinct(s)
    BY <1>0 DEF Registered
  <2>3. e \in Entry
    BY DEF Entry
  <2>4. \A i \in DOMAIN s : s[i].version # v
    BY <1>2
  <2> HIDE DEF s
  <2>5. e.version = v /\ e.rule = r
    OBVIOUS
  <2> HIDE DEF e
  <2>6. /\ t \in Seq(Entry) /\ Len(s) \in Nat /\ DOMAIN s = 1 .. Len(s)
        /\ DOMAIN t = 1 .. Len(s) + 1 /\ t[Len(s) + 1] = e
        /\ \A i \in 1 .. Len(s) : t[i] = s[i]
    BY <2>2, <2>3
  <2> HIDE DEF t
  <2>7. \A i \in DOMAIN t : i \in DOMAIN s \/ i = Len(s) + 1
    BY <2>6
  <2>8. RightId(t, r.id)
    BY <2>2, <2>5, <2>6, <2>7 DEF RightId
  <2>9. Distinct(t)
    <3> SUFFICES ASSUME NEW i \in DOMAIN t, NEW k \in DOMAIN t, t[i].version = t[k].version
                 PROVE  i = k
      BY DEF Distinct
    <3>1. CASE i \in DOMAIN s /\ k \in DOMAIN s
      BY <2>2, <2>6, <3>1 DEF Distinct
    <3>2. CASE i \in DOMAIN s /\ k = Len(s) + 1
      BY <2>4, <2>5, <2>6, <3>2
    <3>3. CASE i = Len(s) + 1 /\ k \in DOMAIN s
      BY <2>4, <2>5, <2>6, <3>3
    <3> QED
      BY <2>7, <3>1, <3>2, <3>3
  <2> QED
    BY <1>0, <2>1, <2>6, <2>8, <2>9 DEF Registered
<1> QED
  BY <1>1, <1>2

\* ApplyOffset, when it answers, lands the offset away on the calendar.
LEMMA RawRightHolds ==
    ASSUME NEW base \in Int,
           NEW o \in [years : Int, months : Int, weeks : Int, days : Int, business_days : Int],
           ApplyOffset(base, o) # NoDate
    PROVE  ApplyOffset(base, o) \in Int /\ RawRight(base, ApplyOffset(base, o), o, "own_year")
<1> DEFINE year1  == Replaced(YearOf(base) + o.years, MonthOf(base), DayOf(base))
           ms     == MonthOf(year1) + o.months - 1
           month1 == Replaced(YearOf(year1) + (ms \div 12), (ms % 12) + 1, DayOf(year1))
           count  == 12 * o.years + o.months
           start  == month1 + 7 * o.weeks + o.days
           raw    == ApplyOffset(base, o)
<1>0. /\ o.years \in Int /\ o.months \in Int /\ o.weeks \in Int /\ o.days \in Int
      /\ o.business_days \in Int
  OBVIOUS
<1>1. /\ month1 \in base - Reach(count) .. base + Reach(count)
      /\ MonthsApart(base, month1, o)
  BY <1>0, MonthsMoved, Zenon
<1>2. raw = AddBusinessDays(start, o.business_days)
  BY DEF ApplyOffset
<1> HIDE DEF month1
<1>3. Reach(count) \in Int /\ start \in Int
  BY <1>0, <1>1 DEF Reach
<1> HIDE DEF start
<1>4. raw \in Int /\ DaysApart(start, raw, o.business_days, "own_year")
  BY <1>0, <1>2, <1>3, AddRight
<1> HIDE DEF raw
<1>5. \E d \in base - Reach(count) .. base + Reach(count) :
          /\ MonthsApart(base, d, o)
          /\ DaysApart(d + 7 * o.weeks + o.days, raw, o.business_days, "own_year")
  BY <1>1, <1>4 DEF start
<1>6. RawRight(base, raw, o, "own_year")
  BY <1>5, Zenon DEF RawRight, Reach
<1> QED
  BY <1>4, <1>6 DEF raw

\* An answer for a rule of the store is right (compute_due_date and the reminders).
LEMMA AnswerRight ==
    ASSUME NEW rule \in Rules, NEW version, NEW inputs, NEW asOf,
           rule.trigger \in DOMAIN inputs => inputs[rule.trigger] \in Int,
           NEW t, t = Answer(rule, version, inputs, asOf), t.status = "ok"
    PROVE  t.rule = rule /\ t.version = version /\ DatesRight(t, "own_year")
<1> DEFINE day   == inputs[rule.trigger]
           raw   == ApplyOffset(day, rule.offset)
           due   == Adjust(raw, rule.adjust)
           fires == PreviewReminders(rule, due)
<1>0. /\ rule.offset \in [years : Int, months : Int, weeks : Int, days : Int, business_days : Int]
      /\ rule.adjust \in {"none", "next_business_day", "previous_business_day"}
      /\ \A i \in DOMAIN rule.reminders : rule.reminders[i].amount \in Int
  BY RulesAssumption DEF Rules
<1>1. rule.trigger \in DOMAIN inputs /\ rule.calendar = "us_federal" /\ day \in Int
  BY DEF Answer
<1>2. /\ NoDate \notin {raw, due} \cup {fires[i] : i \in DOMAIN fires}
      /\ t = [status |-> "ok", rule |-> rule, version |-> version,
              trigger |-> day, raw |-> raw, due |-> due,
              reminders |-> fires, pastDue |-> due < asOf]
  <2> HIDE DEF raw, due, fires, day
  <2>1. t = IF NoDate \in {raw, due} \cup {fires[i] : i \in DOMAIN fires}
            THEN [status |-> "calendar_error"]
            ELSE [status |-> "ok", rule |-> rule, version |-> version,
                  trigger |-> day, raw |-> raw, due |-> due,
                  reminders |-> fires, pastDue |-> due < asOf]
    BY <1>1, Zenon DEF Answer, raw, due, fires, day
  <2> QED
    BY <2>1
<1>3. /\ t.rule = rule /\ t.version = version /\ t.trigger = day
      /\ t.raw = raw /\ t.due = due /\ t.reminders = fires
  <2> HIDE DEF raw, due, fires, day
  <2> QED
    BY <1>2
<1>4. raw \in Int /\ raw # NoDate /\ RawRight(day, raw, rule.offset, "own_year")
  <2> HIDE DEF day
  <2> QED
    BY <1>0, <1>1, <1>2, RawRightHolds
<1> HIDE DEF raw
<1>5. due \in Int /\ AdjustRight(raw, due, rule.adjust, "own_year")
  BY <1>0, <1>2, <1>4, AdjustedRight
<1> HIDE DEF due
<1>6. ASSUME NEW i \in DOMAIN rule.reminders, rule.reminders[i].unit = "business_days"
      PROVE  DaysApart(due, fires[i], rule.reminders[i].amount, "own_year")
  <2>1. DOMAIN fires = DOMAIN rule.reminders /\ fires[i] = FireDate(due, rule.reminders[i])
    BY DEF PreviewReminders
  <2>2. fires[i] = AddBusinessDays(due, rule.reminders[i].amount)
    BY <1>6, <2>1 DEF FireDate
  <2> HIDE DEF fires
  <2>3. fires[i] # NoDate
    BY <1>2, <2>1
  <2> QED
    BY <1>0, <1>5, <2>2, <2>3, AddRight
<1> HIDE DEF fires, day
<1> QED
  BY <1>3, <1>4, <1>5, <1>6 DEF DatesRight

\* The active entry is one of the store's, under the id asked for.
LEMMA ActiveEntry ==
    ASSUME Registered, NEW id \in RuleIds, NEW j, Matching(id, j) # {}
    PROVE  /\ Active(id, j) \in Entry
           /\ Active(id, j).rule.id = id
           /\ \E i \in DOMAIN registry[id] : registry[id][i] = Active(id, j)
<1> DEFINE s == registry[id]
           S == Matching(id, j)
<1>1. s \in Seq(Entry) /\ RightId(s, id)
  BY DEF Registered
<1>2. Len(s) \in Nat /\ S \subseteq 1 .. Len(s)
  BY <1>1 DEF Matching
<1> HIDE DEF S
<1>3. Max(S) \in S
  <2> DEFINE T == {k \in Nat : Len(s) - k \in S}
             R == OpToRel(<, Nat)
  <2>1. T \subseteq Nat /\ T # {}
    <3>1. PICK x \in S : TRUE
      BY DEF S
    <3>2. Len(s) - x \in Nat /\ Len(s) - (Len(s) - x) = x
      BY <1>2
    <3> QED
      BY <3>1, <3>2
  <2>2. PICK m \in T : \A k \in T : ~(<<k, m>> \in R)
    BY <2>1, WFMin, NatLessThanWellFounded
  <2>3. \A k \in T : ~(k < m)
    BY <2>2 DEF OpToRel
  <2>4. \A y \in S : Len(s) - m >= y
    <3> TAKE y \in S
    <3>1. Len(s) - y \in Nat /\ Len(s) - (Len(s) - y) = y
      BY <1>2
    <3>2. ~(Len(s) - y < m)
      BY <2>3, <3>1
    <3> QED
      BY <1>2, <3>1, <3>2
  <2> QED
    BY <2>4 DEF Max
<1> HIDE DEF s
<1>4. Max(S) \in DOMAIN s /\ s[Max(S)] \in Entry /\ s[Max(S)].rule.id = id
  <2>1. Max(S) \in 1 .. Len(s)
    BY <1>2, <1>3
  <2> QED
    BY <1>1, <2>1 DEF RightId
<1> QED
  BY <1>4 DEF Active, S, s

(***************************************************************************)
(* Every due date deadline.compute answers with is right, for every set of *)
(* rules, loaded or registered under whatever versions, offsets and        *)
(* reminders of any size and sign and every trigger day: it is the version *)
(* of that rule alone, the offset is counted on the calendar, the table of *)
(* holidays is that of the calendar but for the 31 December DueDateRight   *)
(* leaves open, the adjustment takes the nearest working day and the       *)
(* reminders lie the stated number of working days away (compute.py,       *)
(* calendar.py, rules.py).  The invariant adds that every rule in the      *)
(* registry has the types of DeadlineRule and is under its own id, and     *)
(* that an id has every version once.                                      *)
(***************************************************************************)
THEOREM DueDateSafety == ServicesSpec => []DueDateRight
<1> DEFINE Inv == Registered /\ DueDateRight
<1>1. ServicesInit => Inv
  BY DEF ServicesInit, DueInit, Registered, RightId, Distinct, DueDateRight, NoTrace
<1>2. Inv /\ [ServicesNext]_servicesVars => Inv'
  <2> SUFFICES ASSUME Inv, [ServicesNext]_servicesVars PROVE Inv'
    OBVIOUS
  <2>1. CASE UNCHANGED dueVars
    BY <2>1 DEF dueVars, Registered, DueDateRight, VersionRight
  <2>0. ASSUME trace = NoTrace, UNCHANGED trace PROVE DueDateRight'
    BY <2>0 DEF DueDateRight, NoTrace
  <2>2. ASSUME NEW r \in RuleTexts, trace = NoTrace, Load(r) PROVE Inv'
    <3>1. CASE Validates(r)
      <4>1. r \in Rules /\ <<"yaml", r.text>> \in Versions
        BY <3>1 DEF Rules, Versions, Validates
      <4>2. registry' = Added(r, <<"yaml", r.text>>)
        BY <2>2, <3>1 DEF Load
      <4> QED
        BY <2>0, <2>2, <4>1, <4>2, AddedKeeps DEF Load
    <3>2. CASE ~Validates(r)
      <4>1. registry' = registry
        BY <2>2, <3>2 DEF Load
      <4> QED
        BY <2>0, <2>2, <4>1 DEF Load, Registered
    <3> QED
      BY <3>1, <3>2
  <2>3. ASSUME NEW r \in PackRules, NEW v \in VersionsOf(r), trace = NoTrace, RegisterRule(r, v) PROVE Inv'
    <3>1. r \in Rules
      BY RulesAssumption DEF Rules
    <3>2. v \in Versions
      BY DEF Versions
    <3>3. registry' = Added(r, v)
      BY <2>3 DEF RegisterRule
    <3> QED
      BY <2>0, <2>3, <3>1, <3>2, <3>3, AddedKeeps DEF RegisterRule
  <2>4. ASSUME NEW id \in RuleIds, NEW j \in Jurisdictions, Compute(id, j) PROVE Inv'
    <3> DEFINE e == Active(id, j)
               rule == e.rule
    <3>1. /\ e \in Entry /\ rule.id = id
          /\ \E i \in DOMAIN registry[id] : registry[id][i] = e
      BY <2>4, ActiveEntry DEF Compute
    <3>2. PICK field \in {rule.trigger, "other"}, day \in TriggerDays, asOf \in AsOfDays :
              trace' = Answer(rule, e.version, [f \in {field} |-> day], asOf)
      BY <2>4 DEF Compute
    <3>3. registry' = registry
      BY <2>4 DEF Compute
    <3> HIDE DEF e
    <3>4. rule \in Rules /\ e = [version |-> e.version, rule |-> rule]
      BY <3>1 DEF Entry
    <3> DEFINE inputs == [f \in {field} |-> day]
    <3> HIDE DEF rule
    <3>5. rule.trigger \in DOMAIN inputs => inputs[rule.trigger] \in Int
      BY RulesAssumption
    <3> HIDE DEF inputs
    <3>6. trace' = Answer(rule, e.version, inputs, asOf)
      BY <3>2 DEF inputs
    <3>7. ASSUME trace'.status = "ok"
          PROVE  trace'.rule = rule /\ trace'.version = e.version /\ DatesRight(trace', "own_year")
      BY <3>4, <3>5, <3>6, <3>7, AnswerRight
    <3>8. ASSUME trace'.status = "ok" PROVE VersionRight(trace)'
      <4>1. \E i \in DOMAIN registry'[id] :
                registry'[id][i] = [version |-> trace'.version, rule |-> trace'.rule]
        BY <3>1, <3>3, <3>4, <3>7, <3>8, Zenon
      <4>2. Distinct(registry'[id]) /\ trace'.rule.id = id
        BY <3>1, <3>3, <3>7, <3>8 DEF Registered, rule
      <4> QED
        BY <4>1, <4>2 DEF VersionRight, Distinct
    <3>9. DueDateRight'
      <4>1. ASSUME trace'.status = "ok" PROVE \E table \in Tables : DatesRight(trace', table)
        BY <3>7, <4>1 DEF Tables
      <4> QED
        BY <3>8, <4>1 DEF DueDateRight
    <3> QED
      BY <3>3, <3>9 DEF Registered
  <2>5. CASE UNCHANGED servicesVars
    BY <2>1, <2>5 DEF servicesVars
  <2> QED
    BY <2>1, <2>2, <2>3, <2>4, <2>5 DEF ServicesNext, servicesVars, Unasked, dueVars, Verify, Extract
<1> QED
  BY <1>1, <1>2, PTL DEF ServicesSpec

=============================================================================
