----------------------------- MODULE MCServices -----------------------------
(***************************************************************************)
(* The read-only services on bounded inputs: the rules, days, packets,     *)
(* documents and configurations they are asked with.                       *)
(***************************************************************************)
EXTENDS Services

-----------------------------------------------------------------------------
NoOffset == [years |-> 0, months |-> 0, weeks |-> 0, days |-> 0, business_days |-> 0]
Reminder(n, u) == [amount |-> n, unit |-> u]

Rule(text, j, offset, adjust, reminders) ==
    [text |-> text, id |-> "r", jurisdiction |-> j, trigger |-> "filed", calendar |-> "us_federal",
     offset |-> offset, adjust |-> adjust, reminders |-> reminders, typed |-> TRUE]

MCRules ==
    {Rule("days", "US", [NoOffset EXCEPT !.days = 30], "next_business_day",
          <<Reminder(-3, "business_days"), Reminder(-7, "days")>>),
     Rule("business", "US", [NoOffset EXCEPT !.business_days = 10], "none",
          <<Reminder(5, "business_days")>>),
     Rule("before", "US", [NoOffset EXCEPT !.business_days = -4, !.weeks = 1],
          "previous_business_day", <<>>),
     Rule("month", "US", [NoOffset EXCEPT !.months = 1], "previous_business_day", <<>>),
     Rule("earlier", "CA", [NoOffset EXCEPT !.months = -1], "none", <<>>),
     Rule("years", "CA", [NoOffset EXCEPT !.years = 1, !.months = -2, !.days = 1],
          "next_business_day", <<>>),
     [Rule("no_trigger", "US", NoOffset, "none", <<>>) EXCEPT !.trigger = NoField],
     [Rule("lunar", "US", NoOffset, "none", <<>>) EXCEPT !.calendar = "lunar"],
     [Rule("untyped", "US", NoOffset, "none", <<>>) EXCEPT !.typed = FALSE]}

\* A pack's rules, one with a calendar nobody has; the version of the other
\* may be given, also when it has been used for another rule.
MCPackRules ==
    {Rule("pack", "US", [NoOffset EXCEPT !.business_days = 1], "none", <<>>),
     [Rule("lunar", "CA", NoOffset, "none", <<>>) EXCEPT !.calendar = "lunar"]}
MCGivenVersions == {<<"given", "1">>}

\* Days whose offsets land around the New Year's Day observed on a Friday, the
\* leap days, fixed and movable holidays, and the last supported days.
MCDays == Date(2021, 10, 8) .. Date(2021, 10, 12) \cup Date(2021, 11, 22) .. Date(2021, 11, 26)
          \cup Date(2021, 12, 1) .. Date(2022, 1, 18)
          \cup Date(2022, 5, 24) .. Date(2022, 6, 21)
          \cup Date(2024, 1, 29) .. Date(2024, 3, 1)
          \cup Date(2040, 12, 10) .. Date(2040, 12, 31)
MCAsOf == {Date(2022, 1, 15)}

-----------------------------------------------------------------------------
MCCfg == [failFloor |-> 50, warnThreshold |-> 80, horizon |-> 3650, tightWindow |-> 7]
Doc(r, m) == [restricted |-> r, sameMatter |-> m]
To(id, role) == [id |-> id, expectedRole |-> role]

Clean == [kind |-> "email_send", documents |-> {Doc(FALSE, TRUE)}, recipients |-> {To("client", TRUE)},
          externalBound |-> FALSE, extraBlock |-> FALSE, hasClient |-> TRUE, matterComplete |-> TRUE,
          attachments |-> {"ok"}, bindings |-> {"resolved"}, confidences |-> {80},
          names |-> {}, dueIn |-> {8}, cfg |-> MCCfg]

\* One or two things wrong with an otherwise clean packet, and any recipients.
Aspects(p) ==
    {[p EXCEPT !.documents = d] : d \in {{}, {Doc(TRUE, TRUE)}, {Doc(FALSE, FALSE), Doc(TRUE, TRUE)}}}
    \cup {[p EXCEPT !.kind = "generic"], [p EXCEPT !.extraBlock = TRUE],
          [p EXCEPT !.hasClient = FALSE], [p EXCEPT !.matterComplete = FALSE]}
    \cup {[p EXCEPT !.attachments = a] : a \in {{}, {"ok", "missing"}, {"checksum"}, {"newer"}, {"older", "newer"}}}
    \cup {[p EXCEPT !.bindings = b] : b \in {{}, {"resolved", "unresolved"}}}
    \cup {[p EXCEPT !.confidences = c] : c \in {{}, {49}, {50, 90}, {79, 30}}}
    \cup {[p EXCEPT !.names = n] : n \in {{"near"}, {"different", "same"}}}
    \cup {[p EXCEPT !.dueIn = d] : d \in {{}, {-1, 8}, {0}, {7}, {3650}, {3651}}}

Addressed(p) ==
    {[p EXCEPT !.recipients = r, !.externalBound = e] :
        r \in SUBSET {To("client", TRUE), To("stranger", TRUE), To("client", FALSE)}, e \in BOOLEAN}

MCPackets == UNION {Addressed(p) : p \in {Clean} \cup UNION {Aspects(q) : q \in {Clean} \cup Aspects(Clean)}}

MCRequests == {Everything, {}, {"privilege"}, {"recipient_integrity", "consistency"}}
MCBreakages == {{}, {"privilege"}, {"recipient_integrity"}, {"deadline_sanity", "completeness"}}

-----------------------------------------------------------------------------
Input(kind, size, parsable, pages, structuring) ==
    [kind |-> kind, size |-> size, parsable |-> parsable, pages |-> pages,
     structuring |-> structuring, threshold |-> 80]

\* Documents of up to one page too many, and of every kind and size.
MCInputs ==
    {Input(k, "ok", TRUE, pages, st) :
        k \in {"pdf", "email_body"}, st \in BOOLEAN,
        pages \in UNION {[1 .. n -> {"text", "short", "blank"}] : n \in 0 .. 3}}
    \cup
    {Input(k, z, ps, <<"text">>, TRUE) :
        k \in {"pdf", "email_body", "video"}, z \in {"empty", "ok", "large"}, ps \in BOOLEAN}

MCAnswers == {{}, {[key |-> "name", confidence |-> 79], [key |-> "email", confidence |-> 80]},
              {[key |-> "name", confidence |-> 1000], [key |-> "shoe_size", confidence |-> 90]},
              {[key |-> "birth_date", confidence |-> 95]},
              {[key |-> "email", confidence |-> -5], [key |-> "name", confidence |-> 170]}}

MCSettings ==
    {[llm |-> "none", endpoint |-> <<>>, allowlist |-> {}, allowExternal |-> FALSE, provider |-> FALSE,
      answer |-> {}, ocr |-> o, readable |-> {1, 3}] : o \in BOOLEAN}
    \cup
    {[llm |-> l, endpoint |-> e, allowlist |-> a, allowExternal |-> x, provider |-> p,
      answer |-> n, ocr |-> o, readable |-> {1, 3}] :
        l \in {"bare", "guarded"}, e \in {<<"local">>, <<"local", "v1">>, <<"cloud">>},
        a \in {{}, {<<"local">>}, {<<"local", "v1">>, <<"cloud">>}}, x \in BOOLEAN,
        p \in BOOLEAN, n \in MCAnswers, o \in BOOLEAN}

MCProfile == [name |-> [key |-> "contact.name", sensitive |-> FALSE],
              email |-> [key |-> "contact.email", sensitive |-> FALSE],
              birth_date |-> [key |-> "contact.birth_date", sensitive |-> TRUE]]

=============================================================================
