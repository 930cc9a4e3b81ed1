----------------------------- MODULE ToolCalls ------------------------------
(***************************************************************************)
(* The hook with which a view calls a server tool                          *)
(* (web/hooks/use-call-tool.ts).  A call may be made while others are in   *)
(* flight, their answers come in any order, and a callback the view has    *)
(* passed along may throw: a .catch() behind the .then() takes that for a  *)
(* failure of the call.                                                    *)
(***************************************************************************)
EXTENDS Naturals, Sequences

CONSTANTS
    MaxToolCalls \* bound: calls of the hook

ASSUME ToolCallsAssumption == MaxToolCalls \in Nat \ {0}

VARIABLES
    callId,   \* callIdRef.current
    rendered, \* the status the view renders, and the call it is of
    outcome,  \* outcome[c]: how the call c ended, or "pending"
    told,     \* history: the callbacks of c that were called
    threw     \* history: one of them threw

toolCallVars == <<callId, rendered, outcome, told, threw>>

ToolCallIds == 1 .. MaxToolCalls
Endings == {"success", "error"}

ToolCallsInit ==
    /\ callId = 0
    /\ rendered = [status |-> "idle", of |-> 0]
    /\ outcome = [c \in ToolCallIds |-> "pending"]
    /\ told = [c \in ToolCallIds |-> <<>>]
    /\ threw = [c \in ToolCallIds |-> FALSE]

-----------------------------------------------------------------------------
\* callTool(): the state of the call before is given up.
CallTool ==
    /\ callId < MaxToolCalls
    /\ callId' = callId + 1
    /\ rendered' = [status |-> "pending", of |-> callId + 1]
    /\ UNCHANGED <<outcome, told, threw>>

\* Mutant: an older answer is rendered too.
RenderAny(c, how) == rendered' = [status |-> how, of |-> c]

\* The answer of c is rendered if no later call was made.
Render(c, how) ==
    rendered' = IF c = callId THEN [status |-> how, of |-> c] ELSE rendered

\* Mutant: the callbacks of an older call are dropped.
CallbacksLatest(c, how) ==
    /\ told' = [told EXCEPT ![c] = IF c = callId THEN <<how, "settled">> ELSE <<>>]
    /\ UNCHANGED threw

\* The callbacks of c: the one for how it ended and onSettled; one of them that
\* throws leads to onError and onSettled, which may throw in turn.
Callbacks(c, how) ==
    LET rescue == {<<"error", "settled">>, <<"error">>}
        thrown == IF how = "error" THEN {<<"error">>}
                  ELSE {b \o r : b \in {<<"success">>, <<"success", "settled">>},
                                 r \in rescue}
    IN  \/ told' = [told EXCEPT ![c] = <<how, "settled">>] /\ UNCHANGED threw
        \/ /\ \E t \in thrown : told' = [told EXCEPT ![c] = t]
           /\ threw' = [threw EXCEPT ![c] = TRUE]

\* The tool's answer, or its failure, arrives.
Answer(c) ==
    /\ c <= callId /\ outcome[c] = "pending"
    /\ \E how \in Endings :
        /\ outcome' = [outcome EXCEPT ![c] = how]
        /\ Render(c, how)
        /\ Callbacks(c, how)
    /\ UNCHANGED callId

ToolCallsNext == CallTool \/ \E c \in ToolCallIds : Answer(c)

ToolCallsSpec == ToolCallsInit /\ [][ToolCallsNext]_toolCallVars

-----------------------------------------------------------------------------
\* Type invariant of the hook.
ToolCallsTypeOK ==
    /\ callId \in 0 .. MaxToolCalls
    /\ rendered \in [status : Endings \cup {"idle", "pending"}, of : 0 .. MaxToolCalls]
    /\ outcome \in [ToolCallIds -> Endings \cup {"pending"}]
    /\ told \in [ToolCallIds -> Seq(Endings \cup {"settled"})]
    /\ threw \in [ToolCallIds -> BOOLEAN]

\* The view renders the state of its latest call, whichever answers are late;
\* and the callbacks of every call that has ended are called all the same, the
\* one for how it ended and then onSettled, once each unless one of them threw.
CallsHold ==
    /\ callId > 0 => rendered = [status |-> outcome[callId], of |-> callId]
    /\ \A c \in ToolCallIds :
        /\ outcome[c] = "pending" => told[c] = <<>>
        /\ outcome[c] # "pending" =>
            /\ told[c] # <<>> /\ Head(told[c]) = outcome[c]
            /\ ~threw[c] => told[c] = <<outcome[c], "settled">>
=============================================================================
