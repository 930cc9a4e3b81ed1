------------------------- MODULE ResponseTransform --------------------------
(***************************************************************************)
(* One response to a request that may be an agent's: the wrapper of        *)
(* write() and end() (response-transform.ts; adapter/express.ts for an     *)
(* application of its own), the rescue of a missing page (route.ts), and   *)
(* the record of the request (express-middleware.ts, adapter/express.ts).  *)
(*                                                                         *)
(* The wrapper holds back what the application writes until end() knows    *)
(* the whole body, and then sends it, the representation, or its markdown. *)
(* Past a number of bytes it gives up and streams.  The application may    *)
(* send its headers early, the client may leave at any time, and the       *)
(* request is recorded when the response has finished or was closed.       *)
(*                                                                         *)
(* A chunk is its number and its size is 1, a document is number 0, and a  *)
(* body put into markdown ends in a mark.  Headers are what the body is    *)
(* said to be.                                                             *)
(***************************************************************************)
EXTENDS Naturals, Sequences, SequencesExt

CONSTANTS
    MaxChunks,   \* bound: chunks the application writes
    MaxBuffer    \* MAX_BUFFER_BYTES

ASSUME TransformAssumption == MaxChunks \in Nat /\ MaxBuffer \in Nat

VARIABLES
    mount,     \* "server" or "standalone"
    gate,      \* the gate's features that are on, as the wrapper read it
    wrapper,   \* "none", "buffering" or "aborted"
    head,      \* the status and type the response has now
    chunks,    \* what the wrapper holds back
    size,      \* what it has counted
    headersSent,
    wire,      \* the bytes sent
    wireHead,  \* the headers sent, or "none"
    given,     \* history: what was written to the response
    givenHead, \* history: the status and type it was written with
    locals,    \* res.locals: the flags of the serving layer
    phase,     \* "open", "ended", "closed" or "stuck"
    record     \* the flags recorded, or NotYet

responseVars == <<mount, gate, wrapper, head, chunks, size, headersSent, wire,
                  wireHead, given, givenHead, locals, phase, record>>

requestVars == <<mount, gate>>

NotYet == {"not yet"}
Features == {"serve", "spa", "reencode"}

\* A page is 2xx HTML without an encoding; a missing page is a 404 or 410.
Heads == {"page", "missing", "other", "document", "private document"}

Document == <<0>>
Markdown(body) == Append(body, MaxChunks + 1)

ResponseInit ==
    /\ mount \in {"server", "standalone"}
    /\ gate \in SUBSET Features
    /\ wrapper \in
         \* The wrapper is for an eligible fetcher, if there is anything to do.
         IF gate \cap (IF mount = "server" THEN {"spa", "reencode"} ELSE Features) = {}
         THEN {"none"} ELSE {"none", "buffering"}
    /\ head \in {"page", "missing", "other"}
    /\ chunks = <<>> /\ size = 0
    /\ headersSent = FALSE
    /\ wire = <<>> /\ wireHead = "none"
    /\ given = <<>> /\ givenHead = head
    /\ locals = {}
    /\ phase = "open"
    /\ record = NotYet

-----------------------------------------------------------------------------
\* The response's own write(): the first one sends the headers as they are.
Send(bytes, h) ==
    /\ wire' = wire \o bytes
    /\ wireHead' = IF wireHead = "none" THEN h ELSE wireHead
    /\ headersSent' = TRUE

NextChunk == <<Len(given) + 1>>

\* The application sends its headers before the body.
FlushHeaders ==
    /\ phase = "open" /\ ~headersSent
    /\ Send(<<>>, head)
    /\ UNCHANGED <<requestVars, wrapper, head, chunks, size, given, givenHead,
                   locals, phase, record>>

\* Mutant: the chunk that goes over the limit is left out.
AbortShort ==
    /\ wrapper' = "aborted"
    /\ Send(chunks, head)
    /\ chunks' = <<>>

\* abort(): what was held back goes out, and the rest is streamed.
Abort ==
    /\ wrapper' = "aborted"
    /\ Send(chunks \o NextChunk, head)
    /\ chunks' = <<>>

\* The application writes a chunk.
Write ==
    /\ phase = "open" /\ Len(given) < MaxChunks
    /\ given' = given \o NextChunk
    /\ \/ /\ wrapper # "buffering"
          /\ Send(NextChunk, head)
          /\ UNCHANGED <<wrapper, chunks, size>>
       \/ /\ wrapper = "buffering"
          /\ size' = size + 1
          /\ \/ /\ size' > MaxBuffer
                /\ Abort
             \/ /\ size' <= MaxBuffer
                /\ chunks' = chunks \o NextChunk
                /\ UNCHANGED <<wrapper, wire, wireHead, headersSent>>
    /\ UNCHANGED <<requestVars, head, givenHead, locals, phase, record>>

\* Mutant: a page is marked as served before the document is there.
OutcomesMarked(body, h) ==
    LET asIs == [body |-> body, head |-> h, flags |-> {"served", "spa"}]
    IN  IF wrapper = "buffering" /\ ~headersSent /\ "spa" \in gate /\ h = "page"
        THEN {asIs, [body |-> Document, head |-> "private document",
                     flags |-> {"served", "spa"}]}
        ELSE {[asIs EXCEPT !.flags = {}]}

\* What the body becomes when it is known whole: what the wrapper does, and
\* flags.  The representation may fail to build, and a page may not convert;
\* the body goes out as it is then.
Outcomes(body, h) ==
    LET asIs == [body |-> body, head |-> h, flags |-> {}]
        rescue == mount = "standalone" /\ "serve" \in gate /\ h = "missing"
        page == h \in {"page", "document"}
    IN  IF wrapper # "buffering" \/ headersSent THEN {asIs}
        ELSE IF rescue
        THEN {asIs, [body |-> Document, head |-> "document",
                     flags |-> {"served", "rescued"}]}
        ELSE IF page /\ "spa" \in gate
        THEN {asIs, [body |-> Document, head |-> "private document",
                     flags |-> {"served", "spa"}]}
        ELSE IF page /\ "reencode" \in gate
        THEN {asIs, [body |-> Markdown(body), head |-> "private document",
                     flags |-> {"reencoded"}]}
        ELSE {asIs}

\* end() with the last bytes, which are not counted.
Finalize(last, h) ==
    /\ \E o \in Outcomes(chunks \o last, h) :
        /\ Send(o.body, o.head)
        /\ locals' = locals \cup o.flags
        /\ head' = o.head
    /\ chunks' = <<>>
    /\ phase' = "ended"

\* The application ends the response, with a last chunk or without.
End ==
    /\ phase = "open"
    /\ \E last \in {<<>>, NextChunk} :
        /\ Len(given \o last) <= MaxChunks
        /\ given' = given \o last
        /\ Finalize(last, head)
    /\ UNCHANGED <<requestVars, wrapper, size, givenHead, record>>

\* Nothing matched and the trailing router answers an eligible fetcher with the
\* representation.  It reads the gate and the ruleset anew.
Rescue ==
    /\ mount = "server" /\ phase = "open" /\ ~headersSent /\ given = <<>>
    /\ \E h \in {"document", "markdown"} :
        LET sent == IF h = "document" THEN "document" ELSE "other"
        IN  /\ given' = Document
            /\ givenHead' = sent
            /\ \E o \in Outcomes(chunks \o Document, sent) :
                /\ Send(o.body, o.head)
                /\ locals' = locals \cup {"served", "rescued"} \cup o.flags
                /\ head' = o.head
    /\ chunks' = <<>>
    /\ phase' = "ended"
    /\ UNCHANGED <<requestVars, wrapper, size, record>>

\* The same with the headers out already: the flags are set, setHeader() throws,
\* and the response is neither passed on nor ended.
RescueTooLate ==
    /\ mount = "server" /\ phase = "open" /\ headersSent
    /\ locals' = locals \cup {"served", "rescued"}
    /\ phase' = "stuck"
    /\ UNCHANGED <<requestVars, wrapper, head, chunks, size, headersSent, wire,
                   wireHead, given, givenHead, record>>

\* The client leaves, or the server gives the response up.
Close ==
    /\ phase # "closed"
    /\ phase' = IF phase = "stuck" THEN "stuck" ELSE "closed"
    /\ record' = IF record = NotYet THEN locals ELSE record
    /\ UNCHANGED <<requestVars, wrapper, head, chunks, size, headersSent, wire,
                   wireHead, given, givenHead, locals>>

\* The response has been handed over: "finish".
Finish ==
    /\ phase = "ended" /\ record = NotYet
    /\ record' = locals
    /\ UNCHANGED <<requestVars, wrapper, head, chunks, size, headersSent, wire,
                   wireHead, given, givenHead, locals, phase>>

ResponseNext ==
    \/ FlushHeaders
    \/ Write
    \/ End
    \/ Rescue
    \/ RescueTooLate
    \/ Close
    \/ Finish

ResponseSpec == ResponseInit /\ [][ResponseNext]_responseVars

-----------------------------------------------------------------------------
\* Type invariant of a response.
ResponseTypeOK ==
    /\ mount \in {"server", "standalone"} /\ gate \subseteq Features
    /\ wrapper \in {"none", "buffering", "aborted"}
    /\ head \in Heads /\ givenHead \in Heads /\ wireHead \in Heads \cup {"none"}
    /\ chunks \in Seq(1 .. MaxChunks) /\ size \in 0 .. MaxChunks
    /\ headersSent = (wireHead # "none")
    /\ wrapper = "buffering" /\ phase = "open" => Len(chunks) = size /\ size <= MaxBuffer
    /\ locals \subseteq {"served", "rescued", "spa", "reencoded"}
    /\ phase \in {"open", "ended", "closed", "stuck"}
    /\ record = NotYet \/ record \subseteq locals

\* The client gets what was written, in order and under the headers it was
\* written with, or one document in its place under headers of its own: never a
\* part of either, a mixture, or one under the other's headers, whenever the
\* wrapper gave up and whatever failed.
WireIsWhole ==
    /\ phase = "open" =>
        IsPrefix(wire, given) /\ wireHead \in {"none", givenHead}
    /\ phase = "ended" =>
        \/ wire = given /\ wireHead = givenHead
        \/ /\ wire = Document /\ wireHead = "document"
           /\ givenHead = "missing"
        \/ /\ wire \in {Document, Markdown(given)}
           /\ wireHead = "private document"
           /\ givenHead \in {"page", "document"}

\* The record of a request says of its response what the client got: that a
\* page was replaced, re-encoded, or a missing one made up for; but for a rescue
\* that came when the headers were out.
RecordTellsWire ==
    record # NotYet =>
        /\ "spa" \in record <=> (wire = Document /\ wireHead = "private document")
        /\ "reencoded" \in record <=> wire = Markdown(given)
        /\ phase # "stuck" =>
            ("rescued" \in record <=>
               given = Document \/ (wire = Document /\ wireHead = "document"))
        /\ record \cap {"spa", "rescued"} # {} <=> "served" \in record

\* Both at once: what leaves is whole, and the record is true of it.
ResponseHolds == WireIsWhole /\ RecordTellsWire
=============================================================================
