-------------------------- MODULE ServingAdapters ---------------------------
(***************************************************************************)
(* One request at an application that is not enpilink's own server: the    *)
(* adapters for Hono (adapter/hono.ts), a Cloudflare worker                *)
(* (cloudflare/index.ts) and Next's edge middleware (next/index.ts), over  *)
(* what they share: who may be served (serve-eligibility.ts), the          *)
(* detection (detect.ts) and the row (capture.ts, edge/capture-edge.ts).   *)
(*                                                                         *)
(* The application answers first.  The first two may then put something    *)
(* else in the place of its answer; all of them record the request after   *)
(* an await, or two.  The detection ruleset may load or change in between. *)
(*                                                                         *)
(* A ruleset is its version and two ordered lists of rules; the headers of *)
(* a request are the client they name and a set of signals.                *)
(***************************************************************************)
EXTENDS Naturals, FiniteSetsExt

CONSTANTS
    Rulesets,   \* bound: the rulesets there may be, Pending among them
    Visitors,   \* bound: the requests there may be
    Pending     \* no ruleset is loaded

\* No rule says "pending": the schema of rulesets leaves it out on purpose.
ASSUME AdaptersAssumption ==
    /\ Pending \in Rulesets
    /\ \A rs \in Rulesets \ {Pending} :
        /\ DOMAIN rs.names \subseteq Nat /\ DOMAIN rs.shapes \subseteq Nat
        /\ \A i \in DOMAIN rs.names :
            "pending" \notin {rs.names[i].confidence, rs.names[i].bare}
        /\ \A i \in DOMAIN rs.shapes : rs.shapes[i].confidence # "pending"

VARIABLES
    platform,   \* "hono", "worker" or "next"
    offers,     \* the serving features that are on when the request arrives
    visitor,    \* the request
    loaded,     \* the ruleset the process or the isolate holds now
    step,       \* "arrived", "reading", "sent" or "over"
    origin,     \* the application's answer
    sent,       \* the status and body that go out
    marked,     \* the flags for the row
    chosenBy,   \* the ruleset the answer was chosen by
    entry       \* the row, or Unwritten

adapterVars == <<platform, offers, visitor, loaded, step, origin, sent, marked,
                 chosenBy, entry>>
constantVars == <<platform, offers, visitor>>

Unwritten == [outcome |-> "unwritten"]
NoAnswer == [status |-> 0, html |-> FALSE]

\* Answers, 0 being one that Next resolves further down; html is HTML that is
\* not compressed, which matters for the successful ones.
Origins == [status : {200, 204}, html : BOOLEAN]
               \cup [status : {0, 403, 404, 500}, html : {FALSE}]

AdaptersInit ==
    /\ platform \in {"hono", "worker", "next"}
    /\ offers \in SUBSET {"serve", "spa", "reencode"}
    /\ platform = "next" => offers = {}
    /\ visitor \in Visitors
    /\ loaded \in Rulesets
    /\ step = "arrived"
    /\ origin = NoAnswer
    /\ sent = [status |-> 0, body |-> "none"]
    /\ marked = {}
    /\ chosenBy = Pending
    /\ entry = Unwritten

-----------------------------------------------------------------------------
\* A Headers object has neither the order nor the case of what was sent.
Signals(v) == IF platform = "hono" THEN v.signals ELSE v.signals \ {"titled"}

\* resolveUaConfidence(): a name is worth more if the shape goes with it.
NameConfidence(r, v) ==
    IF r.bare # "" /\ "secFetch" \notin Signals(v) THEN r.bare ELSE r.confidence

ShapeFits(r, v) == r.when \in Signals(v) \cup {"always"}

\* classify(): the first rule that names the client, else the first whose shape
\* fits, else nothing is asserted.
Classify(rs, v) ==
    LET named == {i \in DOMAIN rs.names : rs.names[i].ua = v.ua}
        fitting == {i \in DOMAIN rs.shapes : ShapeFits(rs.shapes[i], v)}
        Name == rs.names[Min(named)]
        Shape == rs.shapes[Min(fitting)]
    IN  IF rs = Pending THEN [class |-> "unknown", confidence |-> "pending"]
        ELSE IF named # {}
        THEN [class |-> Name.class, confidence |-> NameConfidence(Name, v)]
        ELSE IF fitting # {}
        THEN [class |-> Shape.class, confidence |-> Shape.confidence]
        ELSE [class |-> "unknown", confidence |-> "none"]

ELIGIBLE_CLASSES == {"chat-fetcher", "agent-mode", "browser-agent"}

\* agentServeEligibility(): page is a GET that is neither excluded nor a file's.
Eligible(v, class) ==
    /\ v.page
    /\ class # "crawler"
    /\ class \in ELIGIBLE_CLASSES \/ v.markdown

IsMissing(o) == o.status \in {404, 410}
IsPage(o) == o.status \in 200 .. 299 /\ o.html

\* decideServeAction()
ServeAction(o, v) ==
    IF ~Eligible(v, Classify(loaded, v).class) THEN "passthrough"
    ELSE IF "serve" \in offers /\ IsMissing(o) THEN "rescue"
    ELSE IF "spa" \in offers /\ IsPage(o) THEN "spa"
    ELSE IF "reencode" \in offers /\ IsPage(o) THEN "reencode"
    ELSE "passthrough"

\* new Response() throws if a body is given for a status that has none.
Bodiless(status) == status \in {204, 205, 304}

\* Mutant: the flags are set before there is something to send.
ReplacementFlagged(o, kind, flags) ==
    LET status == IF kind = "rescue" THEN 200 ELSE o.status
    IN  {[sent |-> [status |-> o.status, body |-> "origin"], marked |-> flags]}
        \cup {[sent |-> [status |-> s, body |-> "document"], marked |-> flags] :
                s \in {status} \ {204, 205, 304}}

\* The representation instead, unless it fails to build.
Replacement(o, kind, flags) ==
    LET status == IF kind = "rescue" THEN 200 ELSE o.status
    IN  {[sent |-> [status |-> o.status, body |-> "origin"], marked |-> {}]}
        \cup {[sent |-> [status |-> s, body |-> "document"], marked |-> flags] :
                s \in {s \in {status} : ~Bodiless(s)}}

Choose(c) == sent' = c.sent /\ marked' = c.marked

AsIs(o) == [sent |-> [status |-> o.status, body |-> "origin"], marked |-> {}]

\* Nothing will be recorded.
Unrecorded == step' = "over"

\* The application has answered: the ruleset of now chooses what goes out, and
\* the body is read first if it is to be put into markdown.
OriginAnswers(o) ==
    /\ step = "arrived"
    /\ platform = "next" \/ o.status # 0
    /\ origin' = o
    /\ chosenBy' = loaded
    /\ LET act == IF platform = "next" THEN "passthrough" ELSE ServeAction(o, visitor)
       IN  \/ act = "passthrough" /\ Choose(AsIs(o)) /\ step' = "sent"
           \/ act \in {"rescue", "spa"}
              /\ \E c \in Replacement(o, act,
                            {"served"} \cup (IF act = "spa" THEN {"spa"}
                                             ELSE {"rescued"})) :
                    /\ Choose(c)
                    \* A failure is the whole handler's in a worker.
                    /\ step' = IF platform = "worker" /\ c = AsIs(o)
                               THEN "over" ELSE "sent"
           \/ act = "reencode" /\ Choose(AsIs(o)) /\ step' = "reading"
           \* A worker builds the representation before it knows the action.
           \/ act = "reencode" /\ platform = "worker" /\ Choose(AsIs(o)) /\ Unrecorded
    /\ UNCHANGED <<constantVars, loaded, entry>>

\* The application throws: the adapters of the edge let it, and record nothing.
\* Hono makes a response of it before the adapter goes on.
OriginThrows ==
    /\ step = "arrived" /\ platform # "hono"
    /\ Unrecorded
    /\ UNCHANGED <<constantVars, loaded, origin, sent, marked, chosenBy, entry>>

\* The body was read and converted; it is sent as it was if that comes to nothing.
Reencode ==
    /\ step = "reading"
    /\ \/ Choose(AsIs(origin))
       \/ /\ ~Bodiless(origin.status)
          /\ Choose([sent |-> [status |-> origin.status, body |-> "markdown"],
                     marked |-> {"reencoded"}
                        \cup (IF platform = "worker" THEN {"served"} ELSE {})])
    /\ step' = "sent"
    /\ UNCHANGED <<constantVars, loaded, origin, chosenBy, entry>>

\* The answer was sent; this request is not sampled, or its write fails.
Skip ==
    /\ step = "sent"
    /\ Unrecorded
    /\ UNCHANGED <<constantVars, loaded, origin, sent, marked, chosenBy, entry>>

\* classifyOutcome()
ClassifyOutcome(status) ==
    IF status \in {404, 410} THEN "dead_end"
    ELSE IF status \in {401, 403, 429} THEN "blocked"
    ELSE IF status >= 500 THEN "broken" ELSE "resolved"

\* Mutant: what was rescued is forgotten.
OutcomeSent == ClassifyOutcome(sent.status)

\* toCaptureRecord(): a missing page that was made up for is still missing.
OutcomeOf ==
    IF "rescued" \in marked THEN "dead_end" ELSE ClassifyOutcome(sent.status)

\* Mutant: a worker labels by the ruleset of the moment, too.
LabelLate == loaded

\* Hono's recorder reads the ruleset after the salt was awaited; a worker takes
\* the one of its answer along, and Next the one it read before the hash.
LabelRuleset == IF platform = "hono" THEN loaded ELSE chosenBy

\* The address is hashed and the row is made: buildEdgeRecord() or the recorder.
WriteEntry ==
    /\ step = "sent"
    /\ LET d == Classify(LabelRuleset, visitor)
       IN  entry' = [outcome |-> OutcomeOf, flags |-> marked \ {"rescued"},
                     class |-> d.class, confidence |-> d.confidence,
                     ruleset |-> LabelRuleset,
                     unknown |-> platform = "next" /\ sent.status = 0]
    /\ step' = "over"
    /\ UNCHANGED <<constantVars, loaded, origin, sent, marked, chosenBy>>

\* The ruleset client activates another ruleset.
RulesetChanges ==
    /\ step # "over"
    /\ loaded' \in Rulesets \ {loaded, Pending}
    /\ UNCHANGED <<constantVars, step, origin, sent, marked, chosenBy, entry>>

AdaptersNext ==
    \/ \E o \in Origins : OriginAnswers(o)
    \/ OriginThrows
    \/ Reencode
    \/ Skip
    \/ WriteEntry
    \/ RulesetChanges

AdaptersSpec == AdaptersInit /\ [][AdaptersNext]_adapterVars

-----------------------------------------------------------------------------
\* Type invariant of a request at an adapter.
AdaptersTypeOK ==
    /\ step \in {"arrived", "reading", "sent", "over"}
    /\ origin \in Origins \cup {NoAnswer}
    /\ sent.body \in {"none", "origin", "document", "markdown"}
    /\ marked \subseteq {"served", "rescued", "spa", "reencoded"}
    /\ {loaded, chosenBy} \subseteq Rulesets

\* What goes out is the application's answer as it is, or something that has
\* a status it can be sent with and that is for this visitor by the ruleset of
\* the time: whatever fails, a crawler gets nothing else.
AnswerIsWhole ==
    /\ sent.body = "origin" => sent.status = origin.status
    /\ sent.body \in {"document", "markdown"} =>
        /\ ~Bodiless(sent.status)
        /\ IF IsMissing(origin) THEN sent.status = 200 ELSE sent.status = origin.status
        /\ Eligible(visitor, Classify(chosenBy, visitor).class)

\* The row tells what the visitor ran into, be it made up for or not, and that
\* something else was sent exactly if it was.  Its label is one by which that
\* might have been sent, if it is a worker's, or if no other ruleset was
\* activated in between; and a row is pending exactly if no ruleset was there.
EntryTells ==
    entry # Unwritten =>
        /\ IsMissing(origin) <=> entry.outcome = "dead_end"
        /\ origin.status \in {403, 500} <=> entry.outcome \in {"blocked", "broken"}
        /\ entry.unknown <=> origin.status = 0
        /\ entry.flags # {} <=> sent.body # "origin"
        /\ "spa" \in entry.flags => sent.body = "document" /\ IsPage(origin)
        /\ "reencoded" \in entry.flags <=> sent.body = "markdown"
        /\ entry.flags # {} /\ (platform # "hono" \/ entry.ruleset = chosenBy) =>
            Eligible(visitor, entry.class)
        /\ entry.confidence = "pending" <=> entry.ruleset = Pending

\* Both at once.
AdapterHolds == AnswerIsWhole /\ EntryTells
=============================================================================
