----------------------------- MODULE Extraction -----------------------------
(***************************************************************************)
(* document.extract: text, OCR, page coverage, structuring by a language   *)
(* model behind the residency guard, mapping and the confidence threshold  *)
(* (core/services/extraction).  The tool reads a document and answers with *)
(* a proposal; it writes to no system of record.                           *)
(*                                                                         *)
(* A page is "text" (enough characters), "short" (some) or "blank".        *)
(* Confidences are percentages.                                            *)
(***************************************************************************)
EXTENDS Integers, Sequences, FiniteSets

Seqs == INSTANCE SequencesExt

CONSTANTS Inputs,       \* ExtractInput with its content
          Settings,     \* how the service is configured and what its engines do
          Profile,      \* MappingProfile: source key -> [key, sensitive]
          MaxPages,     \* CAM_EXTRACTION_MAX_PAGES
          NaN           \* a confidence that is not a number

\* What the types of the code give: a document is a sequence of pages, the
\* threshold is a number, and so is a confidence, or it is not one at all.  An
\* endpoint, or an entry of the allow-list, is the sequence of a string's parts.
ASSUME InputsAssumption ==
    /\ \A in \in Inputs : in.pages \in Seq({"text", "short", "blank"}) /\ in.threshold \in Int
    /\ \A set \in Settings :
           /\ \A r \in set.answer : r.confidence \in Int \cup {NaN}
           /\ set.endpoint \in Seq(STRING) /\ set.allowlist \subseteq Seq(STRING)

VARIABLE proposal

exVars == <<proposal>>

NoProposal == [status |-> "none"]
Refused(why) == [status |-> "refused", why |-> why]

PagesOf(in) == 1 .. Len(in.pages)

-----------------------------------------------------------------------------
\* Text and OCR.

\* PdfTextExtractor: pdfplumber, then PyMuPDF; both read every page.
TextPages(in) == {i \in PagesOf(in) : in.pages[i] = "text"}
OcrNeeded(in) == PagesOf(in) \ TextPages(in)
PageTexts(in) == PagesOf(in)

\* TesseractOcrEngine answers for every page it is given, with an empty text
\* when it is not installed or fails on the page.  Such a page therefore counts
\* as OCR and not as skipped.
OcrResults(in, set) == [i \in OcrNeeded(in) |-> set.ocr /\ i \in set.readable]

\* build_coverage: attempted but not returned, and everything left over.
SkippedPages(total, text, ocr, attempted) ==
    LET unreturned == attempted \ ocr
    IN  unreturned \cup (((1 .. total) \ text) \ ocr)

Coverage(in, set) ==
    IF in.kind = "email_body"
    THEN [total |-> 0, text |-> {}, ocr |-> {}, skipped |-> {}]
    ELSE LET total == Cardinality(PageTexts(in))
             ocr   == DOMAIN OcrResults(in, set)
         IN  [total |-> total, text |-> TextPages(in), ocr |-> ocr,
              skipped |-> SkippedPages(total, TextPages(in), ocr, OcrNeeded(in))]

\* The pages whose text goes to the structuring step.  The OCR text of a page
\* is added only if the page is not in page_texts, which holds every page.
Combined(in, set) ==
    {i \in PageTexts(in) : in.pages[i] # "blank"}
    \cup {i \in DOMAIN OcrResults(in, set) : i \notin PageTexts(in) /\ OcrResults(in, set)[i]}

\* all_text.strip() is not empty.
HasText(in, set) ==
    IF in.kind = "email_body" THEN in.pages # <<>> ELSE Combined(in, set) # {}

-----------------------------------------------------------------------------
\* Structuring.

\* Mutant: the endpoint is checked only when a list is configured.
IsAllowedByDefault(set) ==
    set.allowExternal \/ set.allowlist = {} \/ \E a \in set.allowlist : Seqs!IsPrefix(a, set.endpoint)

\* ResidencyGuard._is_allowed: the endpoint starts with an entry of the list.
IsAllowed(set) == set.allowExternal \/ \E a \in set.allowlist : Seqs!IsPrefix(a, set.endpoint)

\* ExtractedField.clamp_confidence and normalise_confidence.
Clamp(x) == IF x = NaN \/ x < 0 THEN 0 ELSE IF x > 100 THEN 100 ELSE x

Received(raw) == [key |-> raw.key, confidence |-> Clamp(raw.confidence), flagged |-> FALSE]

\* normalise_fields: a confidence it has to change also flags the field.
Normalise(f) ==
    IF Clamp(f.confidence) = f.confidence THEN f
    ELSE [f EXCEPT !.confidence = Clamp(@), !.flagged = TRUE]

\* FieldMapper.to_domain drops what the profile does not map and renames the
\* rest.  Only the prompt reads sensitive.
ToDomain(fields) ==
    {[f EXCEPT !.key = Profile[f.key].key] : f \in {g \in fields : g.key \in DOMAIN Profile}}

ApplyThreshold(fields, threshold) ==
    {IF f.confidence < threshold THEN [f EXCEPT !.flagged = TRUE] ELSE f : f \in fields}

Structures(in, set) == in.structuring /\ set.llm # "none" /\ HasText(in, set)

Denied(set) == set.llm = "guarded" /\ ~IsAllowed(set)

\* The proposal of an input that passed validation and, if its text is
\* structured, the residency policy.
Proposed(in, set) ==
    LET called == Structures(in, set)
        ok     == called /\ set.provider
        fields == IF ok THEN {Normalise(Received(r)) : r \in set.answer} ELSE {}
    IN  [status   |-> "proposed", input |-> in, settings |-> set,
         coverage |-> Coverage(in, set),
         sent     |-> called,
         structuring |-> IF ok THEN "ok" ELSE IF called THEN "unavailable" ELSE "skipped",
         fields   |-> ApplyThreshold(ToDomain(fields), in.threshold),
         warned   |-> {i \in OcrNeeded(in) : in.kind # "email_body" /\ ~OcrResults(in, set)[i]}]

\* tool_document_extract and ExtractionService.extract, check by check.  A
\* bare client that fails is not translated: its exception ends the call.
ToolDocumentExtract(in, set) ==
    CASE in.kind \notin {"pdf", "image", "email_body"} -> Refused("kind")
      [] in.size = "empty" -> Refused("empty")
      [] in.size = "large" -> Refused("bytes")
      [] in.kind # "email_body" /\ ~in.parsable -> Refused("unparsable")
      [] in.kind # "email_body" /\ Len(in.pages) > MaxPages -> Refused("pages")
      [] Structures(in, set) /\ Denied(set) -> Refused("residency")
      [] Structures(in, set) /\ set.llm = "bare" /\ ~set.provider -> Refused("provider")
      [] OTHER -> Proposed(in, set)

ExInit == proposal = NoProposal

Extract == \E in \in Inputs, set \in Settings : proposal' = ToolDocumentExtract(in, set)

-----------------------------------------------------------------------------
(***************************************************************************)
(* ExtractionSound: in every proposal each page of the document is counted *)
(* exactly once, as text, OCR or skipped, and a page nothing could be read *)
(* from is named in a warning or skipped; behind the guard the text has    *)
(* only been sent to an endpoint that begins with an entry of the          *)
(* allow-list; every proposed field is one the model answered with and the *)
(* profile maps, under its domain name, has a confidence within bounds and *)
(* is flagged for verification unless it reaches the threshold             *)
(* (pipeline.py, coverage.py, llm.py, mapper.py).                          *)
(***************************************************************************)
ExtractionSound ==
    proposal.status = "proposed" =>
        LET in == proposal.input
            set == proposal.settings
            cov == proposal.coverage
            paged == in.kind # "email_body"
        IN  /\ cov.text \cup cov.ocr \cup cov.skipped = (IF paged THEN PagesOf(in) ELSE {})
            /\ cov.text \cap cov.ocr = {}
            /\ (cov.text \cup cov.ocr) \cap cov.skipped = {}
            /\ paged => \A i \in PagesOf(in) :
                   in.pages[i] = "blank" /\ ~(set.ocr /\ i \in set.readable)
                       => i \in proposal.warned \cup cov.skipped
            /\ proposal.sent /\ set.llm = "guarded" /\ ~set.allowExternal
                   => \E n \in 0 .. Len(set.endpoint) : SubSeq(set.endpoint, 1, n) \in set.allowlist
            /\ \A f \in proposal.fields :
                   /\ \E r \in set.answer : r.key \in DOMAIN Profile /\ f.key = Profile[r.key].key
                   /\ f.confidence \in 0 .. 100
                   /\ f.flagged \/ f.confidence >= in.threshold
            /\ proposal.fields # {} => proposal.sent

(***************************************************************************)
(* SensitiveFlagged: a field the profile marks sensitive is flagged for    *)
(* verification whatever its confidence, as FieldMapping.sensitive says    *)
(* (types.py:44-47) and mapper.py repeats (5, 60-64).  The domain keys of  *)
(* the profile are distinct.                                               *)
(***************************************************************************)
SensitiveFlagged ==
    proposal.status = "proposed" =>
        \A f \in proposal.fields, s \in DOMAIN Profile :
            f.key = Profile[s].key /\ Profile[s].sensitive => f.flagged

=============================================================================
