----------------------------- MODULE MCServices -----------------------------
EXTENDS Services

\* A node of a template, or one loaded or generated: what it does, and whether
\* it is recovered from, retried, has both paths, and whether its connector is
\* metis-audit.
OfTemplate(i, t, a, r, q, m) ==
  [id |-> i, type |-> t, act |-> a, recovers |-> r, retry |-> q, predicate |-> FALSE, paths |-> FALSE, audit |-> m]

OfPage(t, r, p, m) ==
  [type |-> t, act |-> ActOf(t), recovers |-> r, retry |-> r, predicate |-> FALSE, paths |-> p, audit |-> m]

Kinds == {OfPage("schedule", FALSE, FALSE, FALSE), OfPage("ai-processing", TRUE, FALSE, FALSE),
  OfPage("email-send", FALSE, FALSE, FALSE), OfPage("condition", FALSE, TRUE, FALSE), OfPage("condition", FALSE, FALSE, FALSE)}

Numbered(s) == [i \in DOMAIN s |->
  [id |-> i, type |-> s[i].type, act |-> s[i].act, recovers |-> s[i].recovers,
   retry |-> s[i].retry, predicate |-> s[i].predicate, paths |-> s[i].paths, audit |-> s[i].audit]]

SomeDrafts == {Numbered(s) : s \in UNION {[1 .. n -> Kinds] : n \in 0 .. 2}}

SomeTypes == {"schedule", "condition", "email-send"}

\* Those the checks tell apart, and the others of the drafts and plans here.
AllTypes ==
  Triggers \cup Exits \cup Audits \cup Branches \cup
    {"api-call", "ai-processing", "web-search"}

\* No template, and the template of incident triage.
Templates == {<< >>,
  <<OfTemplate(1, "webhook", "read", FALSE, FALSE, FALSE), OfTemplate(2, "api-call", "read", FALSE, FALSE, FALSE),
    OfTemplate(3, "log-monitor", "read", TRUE, FALSE, FALSE), OfTemplate(4, "condition", "read", FALSE, FALSE, FALSE),
    OfTemplate(5, "ai-processing", "execute", TRUE, FALSE, FALSE),
    OfTemplate(6, "slack-message", "external-send", TRUE, TRUE, FALSE),
    OfTemplate(7, "data-storage", "write", TRUE, TRUE, TRUE)>>}

\* Nodes of which nothing is to be said.
SentNodes == {
  <<OfTemplate(1, "webhook", "read", FALSE, FALSE, FALSE), OfTemplate(2, "api-call", "read", FALSE, FALSE, TRUE),
    OfTemplate(3, "ai-processing", "execute", TRUE, FALSE, FALSE),
    OfTemplate(4, "email-send", "external-send", TRUE, TRUE, FALSE)>>}

=============================================================================
