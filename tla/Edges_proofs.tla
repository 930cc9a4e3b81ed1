---------------------------- MODULE Edges_proofs ----------------------------
(***************************************************************************)
(* Proofs about parts at the program's edges: the ages of an edge          *)
(* deployment's copies, the control of the tunnel, a view's tool calls,    *)
(* the migrations, the serving adapters, the live stream, a view's state,  *)
(* and the response wrapper, for any numbers of isolates, processes,       *)
(* calls, rules, polls and chunks.                                         *)
(***************************************************************************)
EXTENDS EdgeRuleset, TunnelControl, ToolCalls, Migrations, ServingAdapters,
        ObservabilityStream, ViewState, ResponseTransform, FiniteSetTheorems,
        SequenceTheorems, WellFoundedInduction, TLAPS

(***************************************************************************)
(* EdgeRuleset: a copy carries the moment the network gave it.             *)
(***************************************************************************)

\* Neither the isolates nor the cache make a copy younger.
AgesTrue ==
    /\ \A e \in kv : e.at = e.born
    /\ \A i \in Isolates : held[i] # NoCopy => held[i].at = held[i].born

\* The next refresh is due when the copy is over, or when a failure's floor is.
DueInTime ==
    \A i \in Isolates : held[i] # NoCopy =>
        \/ next[i] <= held[i].at + EffectiveTtl(held[i].age)
        \/ next[i] <= failed[i]

\* What is being saved is there.
SavesACopy == \A i \in Isolates : inflight[i] = "saving" => held[i] # NoCopy

EdgeInv == EdgeTypeOK /\ AgesTrue /\ DueInTime /\ SavesACopy

\* A time to live is a number.
LEMMA TtlType == \A age \in Ages : EffectiveTtl(age) \in Nat
BY EdgeAssumption DEF EffectiveTtl

\* At first no isolate holds a copy.
LEMMA EdgeInitial == EdgeInit => EdgeInv
BY DEF EdgeInit, EdgeInv, EdgeTypeOK, AgesTrue, DueInTime, SavesACopy

\* An isolate takes over a copy that is as old as it says.
LEMMA AdoptingKeeps ==
    ASSUME EdgeInv, NEW i \in Isolates, NEW e \in Copy, e.at = e.born,
           NEW stage \in {"none", "fetching", "saving"},
           held' = [held EXCEPT ![i] = e],
           next' = [next EXCEPT ![i] = e.at + EffectiveTtl(e.age)],
           inflight' = [inflight EXCEPT ![i] = stage],
           UNCHANGED <<now, enabled, warmed, failed, kv>>
    PROVE  EdgeInv'
<1>1. e # NoCopy /\ e.at + EffectiveTtl(e.age) \in Nat
  <2>1. Copy \subseteq [at : Nat, age : Nat, born : Nat]
    BY EdgeAssumption DEF Copy
  <2>2. e # NoCopy
    BY <2>1, EdgeAssumption
  <2>3. e.at \in Nat /\ EffectiveTtl(e.age) \in Nat
    BY TtlType DEF Copy
  <2> QED BY <2>2, <2>3
<1>2. EdgeTypeOK'
  BY <1>1 DEF EdgeInv, EdgeTypeOK
<1>3. held'[i] = e /\ next'[i] = e.at + EffectiveTtl(e.age)
      /\ \A j \in Isolates \ {i} : held'[j] = held[j] /\ next'[j] = next[j]
                                   /\ inflight'[j] = inflight[j]
  BY DEF EdgeInv, EdgeTypeOK
<1>4. AgesTrue'
  BY <1>3 DEF EdgeInv, AgesTrue
<1>5. DueInTime'
  BY <1>1, <1>3 DEF EdgeInv, DueInTime
<1>6. SavesACopy'
  BY <1>1, <1>3 DEF EdgeInv, SavesACopy
<1> QED BY <1>2, <1>4, <1>5, <1>6 DEF EdgeInv

\* Every step of the isolates and of the cache keeps the invariant.
LEMMA EdgeStepKeeps ==
    ASSUME EdgeInv, EdgeNext
    PROVE  EdgeInv'
<1>1. CASE Pass
  BY <1>1 DEF Pass, EdgeInv, EdgeTypeOK, AgesTrue, DueInTime, SavesACopy
<1>2. ASSUME NEW i \in Isolates, Tick(i) \/ LoadMiss(i)
      PROVE  EdgeInv'
  <2>1. \E stage \in {"none", "loading", "fetching"} :
          inflight' = [inflight EXCEPT ![i] = stage]
    BY <1>2 DEF Tick, LoadMiss, Refresh
  <2>2. warmed' \in [Isolates -> BOOLEAN]
    BY <1>2 DEF Tick, LoadMiss, EdgeInv, EdgeTypeOK
  <2>3. UNCHANGED <<now, enabled, held, next, failed, kv>>
    BY <1>2 DEF Tick, LoadMiss
  <2> QED BY <2>1, <2>2, <2>3 DEF EdgeInv, EdgeTypeOK, AgesTrue, DueInTime, SavesACopy
<1>3. ASSUME NEW i \in Isolates, LoadHit(i)
      PROVE  EdgeInv'
  <2>1. PICK e \in kv : Warm(i, e)
    BY <1>3 DEF LoadHit
  <2>2. e \in Copy /\ e.at = e.born
    BY <2>1 DEF EdgeInv, EdgeTypeOK, AgesTrue
  <2>3. PICK stage \in {"none", "fetching"} : inflight' = [inflight EXCEPT ![i] = stage]
    BY <2>1 DEF Warm, Refresh
  <2> QED BY <1>3, <2>1, <2>2, <2>3, AdoptingKeeps DEF LoadHit, Warm
<1>4. ASSUME NEW i \in Isolates, FetchAnswers(i)
      PROVE  EdgeInv'
  <2>1. PICK age \in Ages :
          /\ held' = [held EXCEPT ![i] = [at |-> now, age |-> age, born |-> now]]
          /\ next' = [next EXCEPT ![i] = now + EffectiveTtl(age)]
    BY <1>4 DEF FetchAnswers
  <2> DEFINE e == [at |-> now, age |-> age, born |-> now]
  <2>2. e \in Copy /\ e.at = e.born /\ e.at = now /\ e.age = age
    BY DEF EdgeInv, EdgeTypeOK, Copy
  <2> HIDE DEF e
  <2> QED BY <1>4, <2>1, <2>2, AdoptingKeeps DEF FetchAnswers, e
<1>5. ASSUME NEW i \in Isolates, FetchFails(i)
      PROVE  EdgeInv'
  <2>1. now + RetryFloor \in Nat
    BY EdgeAssumption DEF EdgeInv, EdgeTypeOK
  <2> QED BY <1>5, <2>1 DEF FetchFails, EdgeInv, EdgeTypeOK, AgesTrue, DueInTime,
                            SavesACopy
<1>6. ASSUME NEW i \in Isolates, SaveEnds(i)
      PROVE  EdgeInv'
  <2>1. held[i] \in Copy /\ held[i].at = held[i].born
    BY <1>6 DEF SaveEnds, EdgeInv, EdgeTypeOK, SavesACopy, AgesTrue
  <2>2. kv' \subseteq Copy /\ \A e \in kv' : e.at = e.born
    BY <1>6, <2>1 DEF SaveEnds, EdgeInv, EdgeTypeOK, AgesTrue
  <2> QED BY <1>6, <2>2 DEF SaveEnds, EdgeInv, EdgeTypeOK, AgesTrue, DueInTime,
                            SavesACopy
<1>7. ASSUME NEW i \in Isolates, Recycle(i)
      PROVE  EdgeInv'
  BY <1>7 DEF Recycle, EdgeInv, EdgeTypeOK, AgesTrue, DueInTime, SavesACopy
<1> QED BY <1>1, <1>2, <1>3, <1>4, <1>5, <1>6, <1>7 DEF EdgeNext

\* Copies carry the moment the network gave them, whatever isolates share them
\* (adapter/edge.ts, agent/edge-ruleset.ts).
THEOREM EdgeInvariant == EdgeSpec => []EdgeInv
<1>1. EdgeInit => EdgeInv
  BY EdgeInitial
<1>2. EdgeInv /\ UNCHANGED edgeVars => EdgeInv'
  BY DEF EdgeInv, EdgeTypeOK, AgesTrue, DueInTime, SavesACopy, edgeVars
<1>3. EdgeInv /\ [EdgeNext]_edgeVars => EdgeInv'
  BY <1>2, EdgeStepKeeps
<1> QED BY <1>1, <1>3, PTL DEF EdgeSpec

\* However often a copy went through the cache, an isolate that sees no need to
\* refresh is within that copy's time to live (edge-client.ts, warm).
THEOREM CopiesAge == EdgeSpec => []NotOlderThanTtl
<1>1. EdgeInv => NotOlderThanTtl
  <2>1. ASSUME EdgeInv, NEW i \in Isolates, held[i] # NoCopy, now < next[i]
        PROVE  \/ now < held[i].born + EffectiveTtl(held[i].age)
               \/ now < failed[i]
    <3>1. held[i].at \in Nat /\ EffectiveTtl(held[i].age) \in Nat
      BY <2>1, TtlType DEF EdgeInv, EdgeTypeOK, Copy
    <3> QED BY <2>1, <3>1 DEF EdgeInv, EdgeTypeOK, AgesTrue, DueInTime
  <2> QED BY <2>1 DEF NotOlderThanTtl
<1> QED BY <1>1, EdgeInvariant, PTL

(***************************************************************************)
(* TunnelControl: what is on its way to the terminal ends with the truth.  *)
(***************************************************************************)

\* The last frame on its way is the manager's status; without a stream none is.
FramesEndTrue ==
    /\ watching /\ frames # <<>> => frames[Len(frames)] = manager
    /\ watching /\ frames = <<>> => shown = manager
    /\ ~watching => frames = <<>>

\* The CLI's own POST is over once wishes count.
WishesCount == asked # "nothing" => poster \in {"off", "done"}

\* A tunnel that was stopped is not wanted; only late output covers its "idle".
StoppedStays == asked = "down" => ~wantUp /\ (lateOutput \/ manager = "idle")

ControlInv ==
    /\ ControlTypeOK
    /\ FramesEndTrue
    /\ WishesCount
    /\ StoppedStays

\* At first nothing has been posted or shown.
LEMMA ControlInitial == ControlInit => ControlInv
<1> SUFFICES ASSUME ControlInit PROVE ControlInv
  OBVIOUS
<1>1. frames \in Seq(Statuses) /\ Len(frames) <= MaxFrames + 1
  BY ControlAssumption DEF ControlInit
<1>2. ControlTypeOK
  BY <1>1 DEF ControlInit, StatusInit, ControlTypeOK, Statuses
<1>3. FramesEndTrue /\ WishesCount /\ StoppedStays
  BY DEF ControlInit, FramesEndTrue, WishesCount, StoppedStays
<1> QED BY <1>2, <1>3 DEF ControlInv

\* What is announced in a step is one status or two.
LEMMA AnnouncementType ==
    ASSUME NEW w \in Announcements
    PROVE  /\ w \in Seq(Statuses) /\ Final(w) \in Statuses
           /\ Len(w) \in Nat /\ Len(w) <= 2 /\ Len(w) # 0
<1>1. CASE \E s \in Statuses : w = <<s>>
  BY <1>1 DEF Final
<1>2. CASE \E s \in Statuses : w = <<s, "error">>
  <2>1. PICK s \in Statuses : w = <<s, "error">>
    BY <1>2
  <2>2. w \in Seq(Statuses) /\ Len(w) = 2 /\ w[2] = "error"
    BY <2>1 DEF Statuses
  <2> QED BY <2>2 DEF Final, Statuses
<1> QED BY <1>1, <1>2 DEF Announcements, Statuses

\* What telling something, or nothing, leaves of the frames.
LEMMA TellingKeeps ==
    ASSUME ControlTypeOK, FramesEndTrue, Room, UNCHANGED <<watching, shown>>,
           \/ \E w \in Announcements : Tell(w)
           \/ UNCHANGED <<manager, lateOutput, frames>>
    PROVE  /\ manager' \in Statuses
           /\ frames' \in Seq(Statuses) /\ Len(frames') <= MaxFrames + 1
           /\ FramesEndTrue'
           /\ UNCHANGED lateOutput
<1>1. CASE UNCHANGED <<manager, lateOutput, frames>>
  BY <1>1 DEF ControlTypeOK, FramesEndTrue
<1>2. ASSUME NEW w \in Announcements, Tell(w)
      PROVE  /\ manager' \in Statuses
             /\ frames' \in Seq(Statuses) /\ Len(frames') <= MaxFrames + 1
             /\ FramesEndTrue'
             /\ UNCHANGED lateOutput
  <2>1. /\ w \in Seq(Statuses) /\ Final(w) \in Statuses
        /\ Len(w) \in Nat /\ Len(w) <= 2 /\ Len(w) # 0
    BY AnnouncementType
  <2>2. manager' = w[Len(w)] /\ manager' \in Statuses /\ UNCHANGED lateOutput
    BY <1>2, <2>1 DEF Tell, Final
  <2>3. CASE watching
    <3>1. frames' = frames \o w
      BY <1>2, <2>3 DEF Tell
    <3>2. frames' \in Seq(Statuses) /\ Len(frames') = Len(frames) + Len(w)
      BY <2>1, <3>1 DEF ControlTypeOK
    <3>3. Len(frames) \in Nat
      BY DEF ControlTypeOK
    <3>4. Len(frames') <= MaxFrames + 1 /\ Len(frames') # 0
      BY <2>1, <3>2, <3>3, ControlAssumption DEF Room
    <3>5. frames'[Len(frames) + Len(w)] = w[Len(w)]
      <4>1. frames \in Seq(Statuses) /\ w \in Seq(Statuses)
        BY <2>1 DEF ControlTypeOK
      <4>2. Len(frames) + Len(w) \in Len(frames) + 1 .. Len(frames) + Len(w)
        BY <2>1, <3>3
      <4>3. (frames \o w)[Len(frames) + Len(w)] = w[Len(frames) + Len(w) - Len(frames)]
        BY <2>1, <3>3, <4>1, <4>2, ConcatProperties
      <4> QED BY <2>1, <3>1, <3>3, <4>3
    <3> QED BY <2>2, <2>3, <3>2, <3>4, <3>5 DEF FramesEndTrue
  <2>4. CASE ~watching
    BY <1>2, <2>2, <2>4 DEF Tell, ControlTypeOK, FramesEndTrue
  <2> QED BY <2>3, <2>4
<1> QED BY <1>1, <1>2

\* Every step of the control keeps the invariant.
LEMMA ControlStepKeeps ==
    ASSUME ControlInv, ControlNext
    PROVE  ControlInv'
<1>1. CASE ManagerMoves
  <2>1. /\ Room
        /\ \E w \in Announcements : Occurs(w) /\ Tell(w)
        /\ UNCHANGED <<proxied, watching, shown, poster, mounted, asked>>
    BY <1>1 DEF ManagerMoves
  <2>2. /\ wantUp' \in {wantUp, FALSE}
        /\ wantUp \/ lateOutput
    BY <2>1 DEF Occurs, Output, Drop, Respawn, TimeOut
  <2>3. manager' \in Statuses /\ frames' \in Seq(Statuses)
        /\ Len(frames') <= MaxFrames + 1 /\ FramesEndTrue' /\ UNCHANGED lateOutput
    BY <2>1, TellingKeeps DEF ControlInv
  <2>4. StoppedStays'
    BY <2>1, <2>2, <2>3 DEF ControlInv, StoppedStays
  <2> QED BY <2>1, <2>2, <2>3, <2>4 DEF ControlInv, ControlTypeOK, WishesCount
<1>2. CASE Post \/ LatePost
  <2>1. /\ Room /\ poster \in {"trying", "aborted"}
        /\ poster' \in {"posted", "late"}
        /\ StartTunnel
        /\ UNCHANGED <<proxied, watching, shown, mounted, asked>>
    BY <1>2 DEF Post, LatePost
  <2>2. /\ \/ \E w \in Announcements : Tell(w)
           \/ UNCHANGED <<manager, lateOutput, frames>>
        /\ wantUp' \in {wantUp, TRUE}
    BY <2>1 DEF StartTunnel, Starts, statusVars
  <2>3. manager' \in Statuses /\ frames' \in Seq(Statuses)
        /\ Len(frames') <= MaxFrames + 1 /\ FramesEndTrue' /\ UNCHANGED lateOutput
    BY <2>1, <2>2, TellingKeeps DEF ControlInv
  <2>4. asked' = "nothing"
    BY <2>1 DEF ControlInv, WishesCount
  <2> QED BY <2>1, <2>2, <2>3, <2>4
          DEF ControlInv, ControlTypeOK, WishesCount, StoppedStays
<1>3. CASE UserStarts \/ UserStops
  <2>1. /\ Room
        /\ \/ StartTunnel /\ Asked("up")
           \/ StopTunnel /\ Asked("down")
        /\ UNCHANGED <<proxied, watching, shown, poster, mounted>>
    BY <1>3 DEF UserStarts, UserStops
  <2>2. /\ \/ \E w \in Announcements : Tell(w)
           \/ UNCHANGED <<manager, lateOutput, frames>>
        /\ wantUp' \in {wantUp, TRUE, FALSE}
    BY <2>1 DEF StartTunnel, StopTunnel, Starts, Stops, statusVars
  <2>3. manager' \in Statuses /\ frames' \in Seq(Statuses)
        /\ Len(frames') <= MaxFrames + 1 /\ FramesEndTrue' /\ UNCHANGED lateOutput
    BY <2>1, <2>2, TellingKeeps DEF ControlInv
  <2>4. asked' \in {"nothing", "up", "down"} /\ WishesCount'
    BY <2>1 DEF Asked, ControlInv, ControlTypeOK, WishesCount
  <2>5. Asked("up") => StoppedStays'
    BY DEF Asked, StoppedStays
  <2>6. ASSUME StopTunnel PROVE StoppedStays'
    <3>1. wantUp' = FALSE /\ manager' = "idle"
      BY <2>6 DEF StopTunnel, Stops, Tell, Final
    <3> QED BY <3>1 DEF StoppedStays
  <2>7. StoppedStays'
    BY <2>1, <2>5, <2>6
  <2> QED BY <2>1, <2>2, <2>3, <2>4, <2>7 DEF ControlInv, ControlTypeOK
<1>4. CASE Watch \/ StreamCut \/ ServerDown \/ Unmount
  <2>1. /\ UNCHANGED <<statusVars, shown, asked>>
        /\ proxied' \in BOOLEAN /\ watching' \in BOOLEAN /\ mounted' \in BOOLEAN
        /\ frames' = IF watching' THEN <<manager>> ELSE <<>>
        /\ \/ poster' = poster
           \/ poster \in {"posted", "trying"} /\ poster' \in {"trying", "aborted"}
    BY <1>4 DEF Watch, StreamCut, ServerDown, Unmount, ControlInv, ControlTypeOK
  <2>2. frames' \in Seq(Statuses) /\ Len(frames') <= MaxFrames + 1
        /\ (watching' => frames' # <<>> /\ frames'[Len(frames')] = manager)
    BY <2>1, ControlAssumption DEF ControlInv, ControlTypeOK
  <2> QED BY <2>1, <2>2
          DEF statusVars, ControlInv, ControlTypeOK, FramesEndTrue, WishesCount, StoppedStays
<1>5. CASE Frame
  <2>1. /\ frames # <<>> /\ shown' = Head(frames) /\ frames' = Tail(frames)
        /\ UNCHANGED <<statusVars, proxied, watching, poster, mounted, asked>>
    BY <1>5 DEF Frame
  <2>2. frames \in Seq(Statuses) /\ Len(frames) \in Nat \ {0}
    BY <2>1 DEF ControlInv, ControlTypeOK
  <2>3. frames' \in Seq(Statuses) /\ Len(frames') = Len(frames) - 1
        /\ shown' = frames[1] /\ shown' \in Statuses
    BY <2>1, <2>2
  <2>4. Len(frames) > 1 => frames' # <<>> /\ frames'[Len(frames')] = frames[Len(frames)]
    <3>1. \A j \in 1 .. Len(frames) - 1 : frames'[j] = frames[j + 1]
      BY <2>1, <2>2
    <3> QED BY <2>2, <2>3, <3>1
  <2>5. Len(frames) = 1 => frames' = <<>>
    BY <2>3
  <2>6. FramesEndTrue'
    BY <2>1, <2>2, <2>3, <2>4, <2>5 DEF statusVars, ControlInv, FramesEndTrue
  <2> QED BY <2>1, <2>3, <2>6, ControlAssumption
          DEF statusVars, ControlInv, ControlTypeOK, WishesCount, StoppedStays
<1>6. CASE Replied \/ ReplyLost \/ ServerUp
  <2>1. UNCHANGED <<statusVars, watching, frames, shown, mounted>>
    BY <1>6 DEF Replied, ReplyLost, ServerUp
  <2>2. /\ proxied' \in BOOLEAN
        /\ poster' \in {"off", "trying", "posted", "done", "aborted", "late"}
        /\ asked' \in {"nothing", "up", "down"}
        /\ asked' = "down" => asked = "down"
        /\ WishesCount'
    BY <1>6 DEF Replied, ReplyLost, ServerUp, ControlInv, ControlTypeOK, WishesCount
  <2> QED BY <2>1, <2>2 DEF statusVars, ControlInv, ControlTypeOK, FramesEndTrue, StoppedStays
<1> QED BY <1>1, <1>2, <1>3, <1>4, <1>5, <1>6 DEF ControlNext

\* The frames of a stream end in the status, however often it is opened anew
\* (routes/tunnel, tunnel/observer).
THEOREM ControlInvariant == ControlSpec => []ControlInv
<1>1. ControlInit => ControlInv
  BY ControlInitial
<1>2. ControlInv /\ UNCHANGED controlVars => ControlInv'
  BY DEF ControlInv, ControlTypeOK, FramesEndTrue, WishesCount, StoppedStays, controlVars,
     statusVars
<1>3. ControlInv /\ [ControlNext]_controlVars => ControlInv'
  BY <1>2, ControlStepKeeps
<1> QED BY <1>1, <1>3, PTL DEF ControlSpec

\* The terminal shows the truth once it has read its stream; a tunnel that was
\* stopped after the CLI's POST was answered is not wanted until someone starts
\* it, and only late output of a killed child covers its "idle", whatever
\* restarts and lost replies come between (use-tunnel.ts, tunnel-handler.ts).
THEOREM TerminalTellsTruth == ControlSpec => []ControlHolds
<1>1. ControlInv => ControlHolds
  BY DEF ControlInv, FramesEndTrue, StoppedStays, ControlHolds
<1> QED BY <1>1, ControlInvariant, PTL

\* The control asks of the manager what TunnelStatus lets be asked, and takes it
\* for nothing else (tunnel-handler.ts): with StatusImplemented of
\* TunnelManager_proofs, the manager may stand in its place.
THEOREM ControlKeepsToStatus == ControlSpec => StatusSpec
<1>1. ControlInit => StatusInit
  BY DEF ControlInit
<1>2. ASSUME ControlNext PROVE [StatusNext]_statusVars
  <2>1. ASSUME NEW w \in Announcements, Tell(w), Starts(w) \/ Stops(w) \/ Occurs(w)
        PROVE  StatusNext
    BY <2>1 DEF Tell, StatusNext
  <2>2. StartTunnel => [StatusNext]_statusVars
    BY <2>1 DEF StartTunnel
  <2>3. StopTunnel => StatusNext
    BY <2>1 DEF StopTunnel
  <2>4. ManagerMoves => StatusNext
    BY <2>1 DEF ManagerMoves
  <2> QED BY <1>2, <2>2, <2>3, <2>4
          DEF ControlNext, Watch, Frame, StreamCut, Post, Replied, ReplyLost, UserStarts,
              UserStops, ServerDown, ServerUp, Unmount, LatePost
<1>3. [ControlNext]_controlVars => [StatusNext]_statusVars
  BY <1>2 DEF controlVars
<1> QED BY <1>1, <1>3, PTL DEF ControlSpec, StatusSpec

(***************************************************************************)
(* ToolCalls: a call is pending, with no callback called, or has ended.    *)
(***************************************************************************)

\* Calls to come are pending; what is rendered is the latest call's state.
RendersLatest ==
    /\ \A c \in ToolCallIds : c > callId => outcome[c] = "pending"
    /\ callId > 0 => rendered = [status |-> outcome[callId], of |-> callId]

\* The callbacks of a call that has ended, and of one that has not.
ToldWhole ==
    \A c \in ToolCallIds :
        /\ outcome[c] = "pending" => told[c] = <<>>
        /\ outcome[c] # "pending" =>
            /\ told[c] # <<>> /\ Head(told[c]) = outcome[c]
            /\ ~threw[c] => told[c] = <<outcome[c], "settled">>

ToolCallsInv == ToolCallsTypeOK /\ RendersLatest /\ ToldWhole

\* At first there is no call.
LEMMA ToolCallsInitial == ToolCallsInit => ToolCallsInv
BY ToolCallsAssumption
   DEF ToolCallsInit, ToolCallsInv, ToolCallsTypeOK, RendersLatest, ToldWhole,
       ToolCallIds, Endings

\* One or two callbacks, the first of which is x.
LEMMA FewBegin ==
    ASSUME NEW S, NEW x \in S, NEW y \in S, NEW s, s = <<x>> \/ s = <<x, y>>
    PROVE  s \in Seq(S) /\ Len(s) \in Nat \ {0} /\ s[1] = x
<1>1. CASE s = <<x>>
  BY <1>1
<1>2. CASE s = <<x, y>>
  BY <1>2
<1> QED BY <1>1, <1>2

\* What comes first in the first of two sequences comes first.
LEMMA FirstFirst ==
    ASSUME NEW S, NEW s \in Seq(S), NEW r \in Seq(S), Len(s) \in Nat \ {0}
    PROVE  s \o r \in Seq(S) /\ s \o r # <<>> /\ Head(s \o r) = s[1]
OBVIOUS

CallbackName == Endings \cup {"settled"}

\* Whatever throws, the callback for how the call ended comes first.
LEMMA CallbacksTell ==
    ASSUME ToolCallsTypeOK, NEW c \in ToolCallIds, NEW how \in Endings,
           Callbacks(c, how)
    PROVE  /\ threw' \in [ToolCallIds -> BOOLEAN]
           /\ \A d \in ToolCallIds \ {c} : threw'[d] = threw[d]
           /\ \E seq \in Seq(CallbackName) :
                /\ told' = [told EXCEPT ![c] = seq]
                /\ seq # <<>> /\ Head(seq) = how
                /\ threw'[c] \/ seq = <<how, "settled">>
<1>1. "success" \in CallbackName /\ "error" \in CallbackName /\ "settled" \in CallbackName
      /\ how \in CallbackName
  BY DEF CallbackName, Endings
<1>2. CASE told' = [told EXCEPT ![c] = <<how, "settled">>] /\ UNCHANGED threw
  <2>1. <<how, "settled">> \in Seq(CallbackName) /\ <<how, "settled">> # <<>>
        /\ Head(<<how, "settled">>) = how
    BY <1>1
  <2> QED BY <1>2, <2>1 DEF ToolCallsTypeOK
<1>3. ASSUME NEW t \in Seq(CallbackName), t # <<>>, Head(t) = how,
             told' = [told EXCEPT ![c] = t], threw' = [threw EXCEPT ![c] = TRUE]
      PROVE  /\ threw' \in [ToolCallIds -> BOOLEAN]
             /\ \A d \in ToolCallIds \ {c} : threw'[d] = threw[d]
             /\ \E seq \in Seq(CallbackName) :
                  /\ told' = [told EXCEPT ![c] = seq]
                  /\ seq # <<>> /\ Head(seq) = how
                  /\ threw'[c] \/ seq = <<how, "settled">>
  BY <1>3 DEF ToolCallsTypeOK
<1>4. CASE how = "error" /\ told' = [told EXCEPT ![c] = <<"error">>]
           /\ threw' = [threw EXCEPT ![c] = TRUE]
  <2>1. <<"error">> \in Seq(CallbackName) /\ <<"error">> # <<>> /\ Head(<<"error">>) = how
    BY <1>1, <1>4
  <2> QED BY <1>3, <1>4, <2>1
<1>5. ASSUME NEW b, NEW r,
             how = "success",
             b = <<"success">> \/ b = <<"success", "settled">>,
             r = <<"error">> \/ r = <<"error", "settled">>,
             told' = [told EXCEPT ![c] = b \o r],
             threw' = [threw EXCEPT ![c] = TRUE]
      PROVE  /\ threw' \in [ToolCallIds -> BOOLEAN]
             /\ \A d \in ToolCallIds \ {c} : threw'[d] = threw[d]
             /\ \E seq \in Seq(CallbackName) :
                  /\ told' = [told EXCEPT ![c] = seq]
                  /\ seq # <<>> /\ Head(seq) = how
                  /\ threw'[c] \/ seq = <<how, "settled">>
  <2>1. b \in Seq(CallbackName) /\ Len(b) \in Nat \ {0} /\ b[1] = "success"
    BY <1>1, <1>5, FewBegin
  <2>2. r \in Seq(CallbackName)
    BY <1>1, <1>5, FewBegin
  <2> DEFINE t == b \o r
  <2>3. t \in Seq(CallbackName) /\ t # <<>> /\ Head(t) = how
    BY <1>5, <2>1, <2>2, FirstFirst
  <2>4. told' = [told EXCEPT ![c] = t]
    BY <1>5
  <2> HIDE DEF t
  <2> QED BY <1>3, <1>5, <2>3, <2>4
<1>6. \/ told' = [told EXCEPT ![c] = <<how, "settled">>] /\ UNCHANGED threw
      \/ how = "error" /\ told' = [told EXCEPT ![c] = <<"error">>]
         /\ threw' = [threw EXCEPT ![c] = TRUE]
      \/ \E b \in {<<"success">>, <<"success", "settled">>},
            r \in {<<"error", "settled">>, <<"error">>} :
            how = "success" /\ told' = [told EXCEPT ![c] = b \o r]
            /\ threw' = [threw EXCEPT ![c] = TRUE]
  BY DEF Callbacks, Endings
<1> QED BY <1>2, <1>4, <1>5, <1>6

\* Every step of the calls keeps the invariant.
LEMMA ToolCallsStepKeeps ==
    ASSUME ToolCallsInv, ToolCallsNext
    PROVE  ToolCallsInv'
<1>1. CASE CallTool
  <2>1. callId \in 0 .. MaxToolCalls /\ callId < MaxToolCalls /\ callId' = callId + 1
        /\ callId' \in ToolCallIds /\ callId' > callId
    BY <1>1, ToolCallsAssumption DEF CallTool, ToolCallsInv, ToolCallsTypeOK, ToolCallIds
  <2>2. rendered' = [status |-> "pending", of |-> callId']
        /\ UNCHANGED <<outcome, told, threw>>
    BY <1>1 DEF CallTool
  <2>3. callId' \in 0 .. MaxToolCalls /\ outcome[callId'] = "pending"
    BY <2>1 DEF ToolCallsInv, RendersLatest, ToolCallIds
  <2>4. ToolCallsTypeOK'
    BY <2>2, <2>3 DEF ToolCallsInv, ToolCallsTypeOK
  <2>5. RendersLatest'
    <3>1. \A c \in ToolCallIds : c > callId' => c > callId
      BY <2>1 DEF ToolCallIds
    <3> QED BY <2>2, <2>3, <3>1 DEF ToolCallsInv, RendersLatest
  <2>6. ToldWhole'
    BY <2>2 DEF ToolCallsInv, ToldWhole
  <2> QED BY <2>4, <2>5, <2>6 DEF ToolCallsInv
<1>2. ASSUME NEW c \in ToolCallIds, Answer(c)
      PROVE  ToolCallsInv'
  <2>1. PICK how \in Endings :
          /\ outcome' = [outcome EXCEPT ![c] = how]
          /\ Render(c, how)
          /\ Callbacks(c, how)
    BY <1>2 DEF Answer
  <2>2. c <= callId /\ outcome[c] = "pending" /\ callId' = callId
    BY <1>2 DEF Answer
  <2>3. how # "pending" /\ how \in Endings \cup {"pending"} /\ how \in Endings \cup {"idle", "pending"}
    BY DEF Endings
  <2>4. /\ outcome' \in [ToolCallIds -> Endings \cup {"pending"}] /\ outcome'[c] = how
        /\ \A d \in ToolCallIds \ {c} : outcome'[d] = outcome[d]
    BY <2>1, <2>3 DEF ToolCallsInv, ToolCallsTypeOK
  <2>5. threw' \in [ToolCallIds -> BOOLEAN]
        /\ \A d \in ToolCallIds \ {c} : threw'[d] = threw[d]
    BY <2>1, CallbacksTell DEF ToolCallsInv
  <2>6. PICK seq \in Seq(CallbackName) :
          /\ told' = [told EXCEPT ![c] = seq]
          /\ seq # <<>> /\ Head(seq) = how
          /\ threw'[c] \/ seq = <<how, "settled">>
    BY <2>1, CallbacksTell DEF ToolCallsInv
  <2>7. told' \in [ToolCallIds -> Seq(Endings \cup {"settled"})] /\ told'[c] = seq
        /\ \A d \in ToolCallIds \ {c} : told'[d] = told[d]
    BY <2>6 DEF ToolCallsInv, ToolCallsTypeOK, CallbackName
  <2>8. rendered' = IF c = callId THEN [status |-> how, of |-> c] ELSE rendered
    BY <2>1 DEF Render
  <2>9. c \in 0 .. MaxToolCalls /\ callId \in Nat
    BY ToolCallsAssumption DEF ToolCallIds, ToolCallsInv, ToolCallsTypeOK
  <2>10. ToolCallsTypeOK'
    BY <2>2, <2>3, <2>4, <2>5, <2>7, <2>8, <2>9 DEF ToolCallsInv, ToolCallsTypeOK
  <2>11. RendersLatest'
    <3>1. \A d \in ToolCallIds : d > callId => outcome'[d] = "pending"
      BY <2>2, <2>4, <2>9 DEF ToolCallsInv, RendersLatest, ToolCallIds
    <3>2. callId > 0 => callId \in ToolCallIds
      BY ToolCallsAssumption DEF ToolCallsInv, ToolCallsTypeOK, ToolCallIds
    <3>3. callId > 0 => rendered' = [status |-> outcome'[callId], of |-> callId]
      BY <2>4, <2>8, <3>2 DEF ToolCallsInv, RendersLatest
    <3> QED BY <2>2, <3>1, <3>3 DEF RendersLatest
  <2>12. ToldWhole'
    <3> SUFFICES ASSUME NEW d \in ToolCallIds
                 PROVE  /\ outcome'[d] = "pending" => told'[d] = <<>>
                        /\ outcome'[d] # "pending" =>
                            /\ told'[d] # <<>> /\ Head(told'[d]) = outcome'[d]
                            /\ ~threw'[d] => told'[d] = <<outcome'[d], "settled">>
      BY DEF ToldWhole
    <3>1. CASE d = c
      BY <2>3, <2>4, <2>6, <2>7, <3>1
    <3>2. CASE d # c
      BY <2>4, <2>5, <2>7, <3>2 DEF ToolCallsInv, ToldWhole
    <3> QED BY <3>1, <3>2
  <2> QED BY <2>10, <2>11, <2>12 DEF ToolCallsInv
<1> QED BY <1>1, <1>2 DEF ToolCallsNext

\* What is rendered is of the latest call, and it is told whole (web/hooks,
\* use-call-tool).
THEOREM ToolCallsInvariant == ToolCallsSpec => []ToolCallsInv
<1>1. ToolCallsInit => ToolCallsInv
  BY ToolCallsInitial
<1>2. ToolCallsInv /\ UNCHANGED toolCallVars => ToolCallsInv'
  BY DEF ToolCallsInv, ToolCallsTypeOK, RendersLatest, ToldWhole, toolCallVars
<1>3. ToolCallsInv /\ [ToolCallsNext]_toolCallVars => ToolCallsInv'
  BY <1>2, ToolCallsStepKeeps
<1> QED BY <1>1, <1>3, PTL DEF ToolCallsSpec

\* The view renders its latest call whichever answers are late, and every call
\* that ended has been told so, first (use-call-tool.ts).
THEOREM LatestCallRendered == ToolCallsSpec => []CallsHold
<1>1. ToolCallsInv => CallsHold
  BY DEF ToolCallsInv, RendersLatest, ToldWhole, CallsHold
<1> QED BY <1>1, ToolCallsInvariant, PTL

(***************************************************************************)
(* Migrations: what is on record is made, and as long as no two processes  *)
(* overlapped and none was cut off, nothing else is.                       *)
(***************************************************************************)

\* What the process p has made of its migration.
MadeSoFar(p) == {MIGRATIONS[opening[p].version][i] : i \in 1 .. opening[p].made}

\* And what it makes next, up to the statement last.
MadeNext(p, last) ==
    {MIGRATIONS[opening[p].version][i] : i \in opening[p].made + 1 .. last}

RecordedMade == \A v \in recorded : Makes(v) \subseteq schema

\* How far a process has got.
Underway(p) ==
    LET o == opening[p]
    IN  Migrating(p) =>
        /\ o.made <= Len(MIGRATIONS[o.version])
        /\ MadeSoFar(p) \subseteq schema
        /\ \A w \in Versions : w < o.version \/ w \in o.done => Makes(w) \subseteq schema

\* A store that opened is whole.
OpenedWhole ==
    \A p \in Processes : opening[p].at = "up" =>
        \A v \in Versions : Makes(v) \subseteq schema

\* Until two overlap, the versions go on record in their order.
OneByOne ==
    ~overlapped =>
        /\ \A p, q \in Processes : Migrating(p) /\ Migrating(q) => p = q
        /\ \E k \in 0 .. 4 : recorded = 1 .. k
        /\ \A p \in Processes : Migrating(p) =>
            /\ recorded = 1 .. opening[p].version - 1
            /\ opening[p].done \subseteq recorded

\* And until one is cut off, the schema is what they have made.
NothingElse ==
    ~overlapped /\ ~torn =>
        \A x \in schema :
            \/ \E v \in recorded : x \in Makes(v)
            \/ \E p \in Processes : Migrating(p) /\ x \in MadeSoFar(p)

RefusalsExplained == StartRefused => overlapped \/ (engine = "sqlite" /\ torn)

MigrationsInv ==
    /\ MigrationsTypeOK
    /\ RecordedMade
    /\ \A p \in Processes : Underway(p)
    /\ OpenedWhole
    /\ OneByOne
    /\ NothingElse
    /\ RefusalsExplained

\* The four migrations, of one or two statements each.
LEMMA MigrationsShape ==
    /\ Versions = 1 .. 4
    /\ \A v \in Versions :
        /\ Len(MIGRATIONS[v]) \in Nat \ {0}
        /\ Makes(v) = {MIGRATIONS[v][i] : i \in 1 .. Len(MIGRATIONS[v])}
<1>1. Versions = 1 .. 4
  BY DEF Versions, MIGRATIONS
<1>2. /\ MIGRATIONS[1] = <<"agent_requests", "indexes">>
      /\ MIGRATIONS[2] = <<"agent_class">>
      /\ MIGRATIONS[3] = <<"served", "served_encoding">>
      /\ MIGRATIONS[4] = <<"ruleset_version", "idx_areq_ruleset">>
  BY DEF MIGRATIONS
<1>3. ASSUME NEW v \in 1 .. 4
      PROVE  /\ Len(MIGRATIONS[v]) \in Nat \ {0}
             /\ DOMAIN MIGRATIONS[v] = 1 .. Len(MIGRATIONS[v])
  <2>1. v = 1 \/ v = 2 \/ v = 3 \/ v = 4
    OBVIOUS
  <2> QED BY <1>2, <2>1
<1> QED BY <1>1, <1>3 DEF Makes, ToSet

\* No statement is in the list twice.
LEMMA StatementsDiffer ==
    ASSUME NEW v \in Versions, NEW w \in Versions,
           NEW i \in 1 .. Len(MIGRATIONS[v]), NEW j \in 1 .. Len(MIGRATIONS[w]),
           MIGRATIONS[v][i] = MIGRATIONS[w][j]
    PROVE  v = w /\ i = j
<1>1. v \in 1 .. 4 /\ w \in 1 .. 4
  BY MigrationsShape
<1>2. /\ MIGRATIONS[1] = <<"agent_requests", "indexes">>
      /\ MIGRATIONS[2] = <<"agent_class">>
      /\ MIGRATIONS[3] = <<"served", "served_encoding">>
      /\ MIGRATIONS[4] = <<"ruleset_version", "idx_areq_ruleset">>
  BY DEF MIGRATIONS
<1>3. ASSUME NEW u \in 1 .. 4, NEW k \in 1 .. Len(MIGRATIONS[u])
      PROVE  k \in 1 .. 2 /\ (u = 2 => k = 1)
  <2>1. u = 1 \/ u = 2 \/ u = 3 \/ u = 4
    OBVIOUS
  <2>2. CASE u = 1
    <3>1. Len(MIGRATIONS[u]) = 2
      BY <1>2, <2>2
    <3> QED BY <2>2, <3>1
  <2>3. CASE u = 2
    <3>1. Len(MIGRATIONS[u]) = 1
      BY <1>2, <2>3
    <3> QED BY <2>3, <3>1
  <2>4. CASE u = 3
    <3>1. Len(MIGRATIONS[u]) = 2
      BY <1>2, <2>4
    <3> QED BY <2>4, <3>1
  <2>5. CASE u = 4
    <3>1. Len(MIGRATIONS[u]) = 2
      BY <1>2, <2>5
    <3> QED BY <2>5, <3>1
  <2> QED BY <2>1, <2>2, <2>3, <2>4, <2>5
<1>4. i \in 1 .. 2 /\ j \in 1 .. 2 /\ (v = 2 => i = 1) /\ (w = 2 => j = 1)
  BY <1>1, <1>3
<1> DEFINE s(u, k) == MIGRATIONS[u][k]
<1>5. /\ s(1, 1) = "agent_requests" /\ s(1, 2) = "indexes" /\ s(2, 1) = "agent_class"
      /\ s(3, 1) = "served" /\ s(3, 2) = "served_encoding"
      /\ s(4, 1) = "ruleset_version" /\ s(4, 2) = "idx_areq_ruleset"
  BY <1>2
<1>6. s(v, i) = s(w, j)
  OBVIOUS
<1>7. /\ v = 1 \/ v = 2 \/ v = 3 \/ v = 4
      /\ w = 1 \/ w = 2 \/ w = 3 \/ w = 4
      /\ (i = 1 \/ i = 2) /\ (j = 1 \/ j = 2)
  BY <1>1, <1>4
<1> HIDE DEF s
<1>8. CASE v = 1
  BY <1>4, <1>5, <1>6, <1>7, <1>8
<1>9. CASE v = 2
  BY <1>4, <1>5, <1>6, <1>7, <1>9
<1>10. CASE v = 3
  BY <1>4, <1>5, <1>6, <1>7, <1>10
<1>11. CASE v = 4
  BY <1>4, <1>5, <1>6, <1>7, <1>11
<1> QED BY <1>7, <1>8, <1>9, <1>10, <1>11

\* The loop ends, or turns to the next migration that was not on record.
LEMMA TurnEnds ==
    ASSUME MigrationsTypeOK, NEW p \in Processes, NEW done \in SUBSET Versions,
           NEW v \in 0 .. 4, Turn(p, done, v)
    PROVE  \/ /\ opening'[p].at = "up" /\ opening'[p] \in Opening
              /\ \A w \in Versions : w <= v \/ w \in done
           \/ \E w \in Versions :
              /\ w > v /\ w \notin done
              /\ \A x \in Versions : x < w => x <= v \/ x \in done
              /\ opening'[p] = [at |-> "migrating", done |-> done, made |-> 0,
                                version |-> w]
<1> DEFINE left == {w \in Versions : w > v /\ w \notin done}
<1>1. opening' = [opening EXCEPT ![p] =
        IF left = {} THEN [Off EXCEPT !.at = "up"]
        ELSE [at |-> "migrating", done |-> done, made |-> 0,
              version |-> CHOOSE w \in left : \A x \in left : w <= x]]
  BY DEF Turn
<1>2. opening'[p] =
        IF left = {} THEN [Off EXCEPT !.at = "up"]
        ELSE [at |-> "migrating", done |-> done, made |-> 0,
              version |-> CHOOSE w \in left : \A x \in left : w <= x]
  BY <1>1 DEF MigrationsTypeOK
<1>3. CASE left = {}
  <2>1. opening'[p] = [Off EXCEPT !.at = "up"]
    BY <1>2, <1>3
  <2>2. [Off EXCEPT !.at = "up"] = [at |-> "up", done |-> {}, version |-> 1, made |-> 0]
    BY DEF Off
  <2>3. opening'[p].at = "up" /\ opening'[p] \in Opening
    BY <2>1, <2>2, MigrationsShape DEF Opening
  <2>4. \A w \in Versions : w <= v \/ w \in done
    BY <1>3, MigrationsShape
  <2> HIDE DEF left
  <2> QED BY <2>3, <2>4
<1>4. CASE left # {}
  <2>1. left \subseteq 1 .. 4
    BY MigrationsShape
  <2> HIDE DEF left
  <2>2. \E w \in left : \A x \in left : w <= x
    <3>1. CASE 1 \in left
      BY <2>1, <3>1
    <3>2. CASE 1 \notin left /\ 2 \in left
      BY <2>1, <3>2
    <3>3. CASE 1 \notin left /\ 2 \notin left /\ 3 \in left
      BY <2>1, <3>3
    <3>4. CASE 1 \notin left /\ 2 \notin left /\ 3 \notin left
      <4>1. PICK w \in left : TRUE
        BY <1>4
      <4>2. \A x \in left : x = 4
        BY <2>1, <3>4
      <4> QED BY <4>1, <4>2
    <3> QED BY <3>1, <3>2, <3>3, <3>4
  <2> DEFINE first == CHOOSE w \in left : \A x \in left : w <= x
  <2>3. first \in left /\ \A x \in left : first <= x
    BY <2>2
  <2>4. opening'[p] = [at |-> "migrating", done |-> done, made |-> 0, version |-> first]
    BY <1>2, <1>4
  <2> HIDE DEF first
  <2>5. first \in Versions /\ first > v /\ first \notin done
    BY <2>3 DEF left
  <2>6. \A x \in Versions : x < first => x <= v \/ x \in done
    BY <2>1, <2>3, MigrationsShape DEF left
  <2> QED BY <2>4, <2>5, <2>6
<1> QED BY <1>3, <1>4

\* At first no process has begun.
LEMMA MigrationsInitial == MigrationsInit => MigrationsInv
<1> SUFFICES ASSUME MigrationsInit PROVE MigrationsInv
  OBVIOUS
<1>1. \A p \in Processes : opening[p] = Off /\ ~Migrating(p)
  BY DEF MigrationsInit, Migrating, Off
<1>2. Off \in Opening
  BY MigrationsShape DEF Off, Opening
<1>3. MigrationsTypeOK
  BY <1>2 DEF MigrationsInit, MigrationsTypeOK
<1>4. RecordedMade /\ NothingElse
  BY DEF MigrationsInit, RecordedMade, NothingElse
<1>5. (\A p \in Processes : Underway(p)) /\ OpenedWhole /\ RefusalsExplained
  BY <1>1 DEF Underway, OpenedWhole, RefusalsExplained, StartRefused, Off
<1>6. OneByOne
  <2>1. recorded = 1 .. 0
    BY DEF MigrationsInit
  <2> QED BY <1>1, <2>1 DEF OneByOne
<1> QED BY <1>3, <1>4, <1>5, <1>6 DEF MigrationsInv

\* A process that no step concerns is as far as it was.
LEMMA OthersKeep ==
    ASSUME NEW q \in Processes, Underway(q), opening'[q] = opening[q],
           schema \subseteq schema'
    PROVE  /\ Underway(q)' /\ Migrating(q)' = Migrating(q)
           /\ MadeSoFar(q)' = MadeSoFar(q)
BY DEF Underway, Migrating, MadeSoFar

\* A process that stops, in the middle of a migration or anywhere else.
LEMMA StoppingKeeps ==
    ASSUME MigrationsInv, NEW p \in Processes, NEW o \in Opening,
           o.at \in {"off", "failed", "refused"},
           opening' = [opening EXCEPT ![p] = o],
           torn' \in BOOLEAN, torn => torn',
           Migrating(p) /\ opening[p].made # 0 => torn' \/ overlapped,
           o.at = "refused" => opening[p].at = "refused" \/ overlapped
                                \/ (engine = "sqlite" /\ torn),
           UNCHANGED <<engine, schema, recorded, overlapped>>
    PROVE  MigrationsInv'
<1>1. opening'[p] = o /\ \A q \in Processes \ {p} : opening'[q] = opening[q]
  BY DEF MigrationsInv, MigrationsTypeOK
<1>2. /\ ~Migrating(p)'
      /\ \A q \in Processes \ {p} : /\ Underway(q)' /\ Migrating(q)' = Migrating(q)
                                    /\ MadeSoFar(q)' = MadeSoFar(q)
  BY <1>1, OthersKeep DEF MigrationsInv, Migrating
<1>3. MigrationsTypeOK'
  BY DEF MigrationsInv, MigrationsTypeOK
<1>4. RecordedMade' /\ OpenedWhole'
  BY <1>1 DEF MigrationsInv, RecordedMade, OpenedWhole
<1>5. \A q \in Processes : Underway(q)'
  BY <1>2 DEF Underway
<1>6. OneByOne'
  <2>1. \A q \in Processes : Migrating(q)' => Migrating(q) /\ opening'[q] = opening[q]
    BY <1>1, <1>2
  <2> QED BY <2>1 DEF MigrationsInv, OneByOne
<1>7. NothingElse'
  <2> SUFFICES ASSUME ~overlapped, ~torn', NEW x \in schema
               PROVE  \/ \E v \in recorded : x \in Makes(v)
                      \/ \E q \in Processes : Migrating(q)' /\ x \in MadeSoFar(q)'
    BY DEF NothingElse
  <2>1. CASE \E v \in recorded : x \in Makes(v)
    BY <2>1
  <2>2. ASSUME NEW q \in Processes, Migrating(q), x \in MadeSoFar(q)
        PROVE  \E r \in Processes : Migrating(r)' /\ x \in MadeSoFar(r)'
    <3>1. CASE q = p
      <4>1. opening[p].made = 0
        BY <2>2, <3>1
      <4>2. x \notin MadeSoFar(p)
        BY <4>1 DEF MadeSoFar
      <4> QED BY <2>2, <3>1, <4>2
    <3>2. CASE q # p
      BY <1>2, <2>2, <3>2
    <3> QED BY <3>1, <3>2
  <2> QED BY <2>1, <2>2 DEF MigrationsInv, NothingElse
<1>8. RefusalsExplained'
  <2> SUFFICES ASSUME NEW q \in Processes, opening'[q].at = "refused"
               PROVE  overlapped \/ (engine = "sqlite" /\ torn')
    BY DEF RefusalsExplained, StartRefused
  <2>1. CASE opening[q].at = "refused"
    BY <2>1 DEF MigrationsInv, RefusalsExplained, StartRefused
  <2>2. CASE opening[q].at # "refused"
    BY <1>1, <2>2
  <2> QED BY <2>1, <2>2
<1> QED BY <1>3, <1>4, <1>5, <1>6, <1>7, <1>8 DEF MigrationsInv

\* A process is refused only if the store is not as its record says.
LEMMA RefusedExplained ==
    ASSUME MigrationsInv, NEW p \in Processes, Migrating(p),
           NEW x \in Once, x \in schema,
           NEW i \in opening[p].made + 1 .. Len(MIGRATIONS[opening[p].version]),
           x = MIGRATIONS[opening[p].version][i]
    PROVE  engine = "sqlite" /\ (overlapped \/ torn)
<1> DEFINE v == opening[p].version
           made == opening[p].made
<1>1. engine = "sqlite"
  BY DEF Once
<1>2. v \in Versions /\ made \in Nat /\ Len(MIGRATIONS[v]) \in Nat
  BY MigrationsShape DEF MigrationsInv, MigrationsTypeOK, Opening
<1>3. i \in 1 .. Len(MIGRATIONS[v]) /\ i > made
  BY <1>2
<1> HIDE DEF v, made
<1>4. ASSUME ~overlapped, ~torn
      PROVE  FALSE
  <2>1. /\ recorded = 1 .. v - 1
        /\ \A q \in Processes : Migrating(q) => q = p
    BY <1>4 DEF MigrationsInv, OneByOne, v
  <2>2. ASSUME NEW w \in recorded, x \in Makes(w)
        PROVE  FALSE
    <3>1. w \in Versions /\ w # v
      BY <1>2, <2>1, <2>2, MigrationsShape DEF MigrationsInv, MigrationsTypeOK
    <3>2. PICK j \in 1 .. Len(MIGRATIONS[w]) : x = MIGRATIONS[w][j]
      <4>1. Makes(w) = {MIGRATIONS[w][j] : j \in 1 .. Len(MIGRATIONS[w])}
        BY <3>1, MigrationsShape
      <4> QED BY <2>2, <4>1
    <3> QED BY <1>2, <1>3, <3>1, <3>2, StatementsDiffer DEF v
  <2>3. ASSUME x \in MadeSoFar(p)
        PROVE  FALSE
    <3>1. PICK j \in 1 .. made : x = MIGRATIONS[v][j]
      BY <2>3 DEF MadeSoFar, v, made
    <3>2. j \in 1 .. Len(MIGRATIONS[v]) /\ j # i
      BY <1>2, <1>3, <3>1 DEF MigrationsInv, Underway, v, made
    <3> QED BY <1>2, <1>3, <3>1, <3>2, StatementsDiffer DEF v
  <2> QED BY <1>4, <2>1, <2>2, <2>3 DEF MigrationsInv, NothingElse
<1> QED BY <1>1, <1>4

\* Statements of p's migration take effect.
LEMMA ExecutingKeeps ==
    ASSUME MigrationsInv, NEW p \in Processes, Migrating(p),
           NEW last \in opening[p].made + 1 .. Len(MIGRATIONS[opening[p].version]),
           schema' = schema \cup MadeNext(p, last),
           opening' = [opening EXCEPT ![p].made = last],
           UNCHANGED <<engine, recorded, overlapped, torn>>
    PROVE  MigrationsInv'
<1> DEFINE v == opening[p].version
           made == opening[p].made
           new == MadeNext(p, last)
<1>1. /\ v \in Versions /\ made \in Nat /\ last \in Nat \ {0} /\ last >= made
      /\ Len(MIGRATIONS[v]) \in Nat
      /\ \A i \in 1 .. last : i \in 1 .. Len(MIGRATIONS[v])
  <2>1. v \in Versions /\ made \in Nat /\ Len(MIGRATIONS[v]) \in Nat
    BY MigrationsShape DEF MigrationsInv, MigrationsTypeOK, Opening
  <2> QED BY <2>1
<1>2. /\ \A q \in Processes \ {p} : opening'[q] = opening[q]
      /\ opening'[p] \in Opening /\ opening' \in [Processes -> Opening]
      /\ opening'[p].at = opening[p].at /\ opening'[p].done = opening[p].done
      /\ opening'[p].version = v /\ opening'[p].made = last
  BY <1>1 DEF MigrationsInv, MigrationsTypeOK, Opening
<1>3. schema \subseteq schema' /\ schema' = schema \cup new
  OBVIOUS
<1>4. new \subseteq Makes(v)
  <2>1. Makes(v) = {MIGRATIONS[v][i] : i \in 1 .. Len(MIGRATIONS[v])}
    BY <1>1, MigrationsShape
  <2>2. \A i \in made + 1 .. last : i \in 1 .. Len(MIGRATIONS[v])
    BY <1>1
  <2> QED BY <2>1, <2>2 DEF MadeNext
<1> HIDE DEF v, made
<1>5. MadeSoFar(p)' = MadeSoFar(p) \cup new
  <2>1. MadeSoFar(p)' = {MIGRATIONS[v][i] : i \in 1 .. last}
    BY <1>2 DEF MadeSoFar
  <2>2. MadeSoFar(p) = {MIGRATIONS[v][i] : i \in 1 .. made}
    BY DEF MadeSoFar, v, made
  <2>3. \A i : i \in 1 .. last <=> i \in 1 .. made \/ i \in made + 1 .. last
    BY <1>1
  <2> QED BY <2>1, <2>2, <2>3 DEF MadeNext, v, made
<1> HIDE DEF new
<1>6. \A q \in Processes : /\ Migrating(q)' = Migrating(q)
                           /\ opening'[q].version = opening[q].version
                           /\ opening'[q].done = opening[q].done
                           /\ opening'[q].at = opening[q].at
                           /\ MadeSoFar(q) \subseteq MadeSoFar(q)'
  <2> TAKE q \in Processes
  <2>1. CASE q = p
    BY <1>2, <1>5, <2>1 DEF Migrating, v
  <2>2. CASE q # p
    BY <1>2, <2>2 DEF Migrating, MadeSoFar
  <2> QED BY <2>1, <2>2
<1>7. MigrationsTypeOK'
  BY <1>1, <1>2, <1>3, <1>4 DEF MigrationsInv, MigrationsTypeOK
<1>8. RecordedMade' /\ OpenedWhole'
  BY <1>3, <1>6 DEF MigrationsInv, RecordedMade, OpenedWhole
<1>9. ASSUME NEW q \in Processes
      PROVE  Underway(q)'
  <2>1. CASE q = p
    <3>1. last <= Len(MIGRATIONS[v]) /\ MadeSoFar(p) \subseteq schema
          /\ \A w \in Versions : w < v \/ w \in opening[p].done => Makes(w) \subseteq schema
      BY <1>1 DEF MigrationsInv, Underway, v
    <3> QED BY <1>2, <1>3, <1>5, <2>1, <3>1 DEF Underway
  <2>2. CASE q # p
    BY <1>2, <1>3, <2>2, OthersKeep DEF MigrationsInv
  <2> QED BY <2>1, <2>2
<1>10. OneByOne'
  BY <1>6 DEF MigrationsInv, OneByOne
<1>11. NothingElse'
  BY <1>3, <1>5, <1>6 DEF MigrationsInv, NothingElse
<1>12. RefusalsExplained'
  BY <1>6 DEF MigrationsInv, RefusalsExplained, StartRefused
<1> QED BY <1>7, <1>8, <1>9, <1>10, <1>11, <1>12 DEF MigrationsInv

\* A process opens the store.
LEMMA OpeningKeeps ==
    ASSUME MigrationsInv, NEW p \in Processes, Open(p)
    PROVE  MigrationsInv'
<1>1. /\ ~Migrating(p)
      /\ Turn(p, recorded, 0)
      /\ overlapped' = (overlapped \/ \E q \in Processes : Migrating(q))
      /\ UNCHANGED <<engine, schema, recorded, torn>>
  BY DEF Open, Migrating
<1>2. recorded \subseteq Versions /\ 0 \in 0 .. 4
  BY DEF MigrationsInv, MigrationsTypeOK
<1>3. \A q \in Processes \ {p} : opening'[q] = opening[q]
  BY <1>1 DEF Turn, MigrationsInv, MigrationsTypeOK
<1>4. \A q \in Processes \ {p} : /\ Underway(q)' /\ Migrating(q)' = Migrating(q)
                                 /\ MadeSoFar(q)' = MadeSoFar(q)
  BY <1>1, <1>3, OthersKeep DEF MigrationsInv
<1>5. \/ /\ opening'[p].at = "up" /\ opening'[p] \in Opening
         /\ \A w \in Versions : w \in recorded
      \/ \E w \in Versions :
         /\ w \notin recorded
         /\ \A x \in Versions : x < w => x \in recorded
         /\ opening'[p] = [at |-> "migrating", done |-> recorded, made |-> 0,
                           version |-> w]
  BY <1>1, <1>2, TurnEnds, MigrationsShape DEF MigrationsInv
<1>6. /\ opening'[p].at \in {"up", "migrating"} /\ opening'[p] \in Opening
      /\ opening'[p].at = "up" => \A w \in Versions : w \in recorded
  <2>1. ASSUME NEW w \in Versions,
               opening'[p] = [at |-> "migrating", done |-> recorded, made |-> 0,
                              version |-> w]
        PROVE  opening'[p].at = "migrating" /\ opening'[p] \in Opening
    BY <1>2, <2>1 DEF Opening
  <2> QED BY <1>5, <2>1
<1>7. MigrationsTypeOK'
  <2>1. opening' \in [Processes -> Opening]
    BY <1>1, <1>3, <1>6 DEF Turn, MigrationsInv, MigrationsTypeOK
  <2> QED BY <1>1, <2>1 DEF MigrationsInv, MigrationsTypeOK
<1>8. RecordedMade'
  BY <1>1 DEF MigrationsInv, RecordedMade
<1>9. Underway(p)'
  <2> SUFFICES ASSUME Migrating(p)'
               PROVE  /\ opening'[p].made <= Len(MIGRATIONS[opening'[p].version])
                      /\ MadeSoFar(p)' \subseteq schema'
                      /\ \A w \in Versions :
                           w < opening'[p].version \/ w \in opening'[p].done =>
                             Makes(w) \subseteq schema'
    BY DEF Underway
  <2>1. PICK w \in Versions :
          /\ \A x \in Versions : x < w => x \in recorded
          /\ opening'[p] = [at |-> "migrating", done |-> recorded, made |-> 0,
                            version |-> w]
    BY <1>5 DEF Migrating
  <2>2. MadeSoFar(p)' = {}
    BY <2>1 DEF MadeSoFar
  <2> QED BY <1>1, <2>1, <2>2, MigrationsShape DEF MigrationsInv, RecordedMade
<1>10. OpenedWhole'
  <2>1. opening'[p].at = "up" => \A w \in Versions : Makes(w) \subseteq schema'
    BY <1>1, <1>6 DEF MigrationsInv, RecordedMade
  <2> QED BY <1>1, <1>3, <2>1 DEF MigrationsInv, OpenedWhole
<1>11. OneByOne'
  <2> SUFFICES ASSUME ~overlapped'
               PROVE  /\ \A q, r \in Processes : Migrating(q)' /\ Migrating(r)' => q = r
                      /\ \E k \in 0 .. 4 : recorded' = 1 .. k
                      /\ \A q \in Processes : Migrating(q)' =>
                          /\ recorded' = 1 .. opening'[q].version - 1
                          /\ opening'[q].done \subseteq recorded'
    BY DEF OneByOne
  <2>1. ~overlapped /\ \A q \in Processes \ {p} : ~Migrating(q)'
    BY <1>1, <1>4
  <2>2. PICK k \in 0 .. 4 : recorded = 1 .. k
    BY <2>1 DEF MigrationsInv, OneByOne
  <2>3. Migrating(p)' => /\ recorded' = 1 .. opening'[p].version - 1
                         /\ opening'[p].done \subseteq recorded'
    <3> SUFFICES ASSUME Migrating(p)'
                 PROVE  /\ recorded' = 1 .. opening'[p].version - 1
                        /\ opening'[p].done \subseteq recorded'
      OBVIOUS
    <3>1. PICK w \in Versions :
            /\ w \notin recorded
            /\ \A x \in Versions : x < w => x \in recorded
            /\ opening'[p] = [at |-> "migrating", done |-> recorded, made |-> 0,
                              version |-> w]
      BY <1>5 DEF Migrating
    <3>2. w \in 1 .. 4 /\ \A x \in 1 .. 4 : x < w => x \in 1 .. k
      BY <2>2, <3>1, MigrationsShape
    <3>3. w = k + 1
      <4>1. w > k
        BY <2>2, <3>1, <3>2
      <4>2. ~(w > k + 1)
        <5>1. w > k + 1 => k + 1 \in 1 .. 4 /\ k + 1 < w
          BY <3>2
        <5> QED BY <3>2, <5>1
      <4> QED BY <3>2, <4>1, <4>2
    <3> QED BY <1>1, <2>2, <3>1, <3>3
  <2> QED BY <1>1, <2>1, <2>2, <2>3
<1>12. NothingElse'
  <2>1. \A q \in Processes : Migrating(q) => Migrating(q)' /\ MadeSoFar(q)' = MadeSoFar(q)
    BY <1>1, <1>4
  <2> QED BY <1>1, <2>1 DEF MigrationsInv, NothingElse
<1>13. RefusalsExplained'
  BY <1>1, <1>3, <1>6 DEF MigrationsInv, RefusalsExplained, StartRefused
<1> QED BY <1>4, <1>7, <1>8, <1>9, <1>10, <1>11, <1>12, <1>13 DEF MigrationsInv

\* Where a turn after the version v leads: to an open store, or to the first
\* version left.
TurnedPast(p, done, v) ==
    \/ /\ opening'[p].at = "up" /\ opening'[p] \in Opening
       /\ \A w \in Versions : w <= v \/ w \in done
    \/ \E w \in Versions :
       /\ w > v /\ w \notin done
       /\ \A x \in Versions : x < w => x <= v \/ x \in done
       /\ opening'[p] = [at |-> "migrating", done |-> done, made |-> 0,
                         version |-> w]

\* TurnEnds for the turn a recorded version leads to.
LEMMA AfterRecording ==
    ASSUME MigrationsTypeOK, NEW p \in Processes, NEW v \in 1 .. 4,
           NEW done \in SUBSET Versions, Turn(p, done, v)
    PROVE  TurnedPast(p, done, v)
<1>1. v \in 0 .. 4
  OBVIOUS
<1>2. \/ /\ opening'[p].at = "up" /\ opening'[p] \in Opening
         /\ \A w \in Versions : w <= v \/ w \in done
      \/ \E w \in Versions :
         /\ w > v /\ w \notin done
         /\ \A x \in Versions : x < w => x <= v \/ x \in done
         /\ opening'[p] = [at |-> "migrating", done |-> done, made |-> 0,
                           version |-> w]
  BY <1>1, TurnEnds, ZenonT(30)
<1> QED BY <1>2, Zenon DEF TurnedPast

\* A migration that is through goes on record.
LEMMA RecordingKeeps ==
    ASSUME MigrationsInv, NEW p \in Processes, Migrating(p),
           NEW v \in 1 .. 4, v = opening[p].version,
           NEW done \in SUBSET Versions, done = opening[p].done,
           opening[p].made = Len(MIGRATIONS[v]),
           recorded' \subseteq Versions, v \in recorded',
           \A w \in recorded' : w <= v \/ w \in recorded,
           ~overlapped => recorded' = 1 .. v,
           Turn(p, done, v),
           UNCHANGED <<engine, schema, overlapped, torn>>
    PROVE  MigrationsInv'
<1>1. v \in Versions /\ v \in 0 .. 4 /\ recorded \subseteq Versions
  BY MigrationsShape DEF MigrationsInv, MigrationsTypeOK
<1>2. \A q \in Processes \ {p} : opening'[q] = opening[q]
  BY DEF Turn, MigrationsInv, MigrationsTypeOK
<1>3. \A q \in Processes \ {p} : /\ Underway(q)' /\ Migrating(q)' = Migrating(q)
                                 /\ MadeSoFar(q)' = MadeSoFar(q)
  BY <1>2, OthersKeep DEF MigrationsInv
<1>4. \/ /\ opening'[p].at = "up" /\ opening'[p] \in Opening
         /\ \A w \in Versions : w <= v \/ w \in done
      \/ \E w \in Versions :
         /\ w > v /\ w \notin done
         /\ \A x \in Versions : x < w => x <= v \/ x \in done
         /\ opening'[p] = [at |-> "migrating", done |-> done, made |-> 0,
                           version |-> w]
  <2>1. MigrationsTypeOK
    BY DEF MigrationsInv
  <2>2. TurnedPast(p, done, v)
    BY <2>1, AfterRecording
  <2> QED BY <2>2, Zenon DEF TurnedPast
<1>5. MadeSoFar(p) = Makes(v)
  BY <1>1, MigrationsShape DEF MadeSoFar
<1>6. \A w \in Versions : w <= v \/ w \in done => Makes(w) \subseteq schema
  <2>1. \A w \in Versions : w < v \/ w \in done => Makes(w) \subseteq schema
    BY DEF MigrationsInv, Underway
  <2>2. Makes(v) \subseteq schema
    BY <1>5 DEF MigrationsInv, Underway
  <2>3. \A w \in Versions : w <= v => w < v \/ w = v
    BY <1>1, MigrationsShape
  <2> QED BY <2>1, <2>2, <2>3
<1>7. ~overlapped => recorded = 1 .. v - 1 /\ recorded' = 1 .. v /\ done \subseteq recorded
  <2> SUFFICES ASSUME ~overlapped
               PROVE  recorded = 1 .. v - 1 /\ recorded' = 1 .. v /\ done \subseteq recorded
    OBVIOUS
  <2>1. recorded = 1 .. v - 1 /\ done \subseteq recorded
    BY DEF MigrationsInv, OneByOne
  <2> QED BY <2>1
<1>8. /\ opening'[p].at \in {"up", "migrating"} /\ opening'[p] \in Opening
      /\ opening'[p].at = "up" => \A w \in Versions : Makes(w) \subseteq schema
  <2>1. ASSUME NEW w \in Versions,
               opening'[p] = [at |-> "migrating", done |-> done, made |-> 0,
                              version |-> w]
        PROVE  opening'[p].at = "migrating" /\ opening'[p] \in Opening
    BY <1>1, <2>1 DEF Opening
  <2> QED BY <1>4, <1>6, <2>1
<1>9. MigrationsTypeOK'
  <2>1. opening' \in [Processes -> Opening]
    BY <1>2, <1>8 DEF Turn, MigrationsInv, MigrationsTypeOK
  <2> QED BY <2>1 DEF MigrationsInv, MigrationsTypeOK
<1>10. RecordedMade'
  BY <1>6 DEF MigrationsInv, RecordedMade
<1>11. Underway(p)'
  <2> SUFFICES ASSUME Migrating(p)'
               PROVE  /\ opening'[p].made <= Len(MIGRATIONS[opening'[p].version])
                      /\ MadeSoFar(p)' \subseteq schema'
                      /\ \A w \in Versions :
                           w < opening'[p].version \/ w \in opening'[p].done =>
                             Makes(w) \subseteq schema'
    BY DEF Underway
  <2>1. PICK w \in Versions :
          /\ \A x \in Versions : x < w => x <= v \/ x \in done
          /\ opening'[p] = [at |-> "migrating", done |-> done, made |-> 0,
                            version |-> w]
    BY <1>4 DEF Migrating
  <2>2. MadeSoFar(p)' = {}
    BY <2>1 DEF MadeSoFar
  <2> QED BY <1>6, <2>1, <2>2, MigrationsShape
<1>12. OpenedWhole'
  BY <1>2, <1>8 DEF MigrationsInv, OpenedWhole
<1>13. OneByOne'
  <2> SUFFICES ASSUME ~overlapped
               PROVE  /\ \A q, r \in Processes : Migrating(q)' /\ Migrating(r)' => q = r
                      /\ \E k \in 0 .. 4 : recorded' = 1 .. k
                      /\ \A q \in Processes : Migrating(q)' =>
                          /\ recorded' = 1 .. opening'[q].version - 1
                          /\ opening'[q].done \subseteq recorded'
    BY DEF OneByOne
  <2>1. \A q \in Processes \ {p} : ~Migrating(q)'
    BY <1>3 DEF MigrationsInv, OneByOne
  <2>2. Migrating(p)' => /\ recorded' = 1 .. opening'[p].version - 1
                         /\ opening'[p].done \subseteq recorded'
    <3> SUFFICES ASSUME Migrating(p)'
                 PROVE  /\ recorded' = 1 .. opening'[p].version - 1
                        /\ opening'[p].done \subseteq recorded'
      OBVIOUS
    <3>1. PICK w \in Versions :
            /\ w > v
            /\ \A x \in Versions : x < w => x <= v \/ x \in done
            /\ opening'[p] = [at |-> "migrating", done |-> done, made |-> 0,
                              version |-> w]
      BY <1>4 DEF Migrating
    <3>2. w \in 1 .. 4 /\ \A x \in 1 .. 4 : x < w => x <= v
      <4>1. \A x \in done : x <= v
        BY <1>1, <1>7
      <4> QED BY <3>1, <4>1, MigrationsShape
    <3>3. w = v + 1
      <4>1. w > v + 1 => v + 1 \in 1 .. 4 /\ v + 1 < w
        BY <1>1, <3>2
      <4>2. ~(w > v + 1)
        BY <1>1, <3>2, <4>1
      <4> QED BY <1>1, <3>1, <3>2, <4>2
    <3>4. done \subseteq 1 .. v /\ w - 1 = v
      BY <1>1, <1>7, <3>3
    <3>5. opening'[p].version = w /\ opening'[p].done = done
      BY <3>1
    <3> QED BY <1>7, <3>4, <3>5
  <2> QED BY <1>1, <1>7, <2>1, <2>2
<1>14. NothingElse'
  <2> SUFFICES ASSUME ~overlapped, ~torn, NEW x \in schema
               PROVE  \/ \E w \in recorded' : x \in Makes(w)
                      \/ \E q \in Processes : Migrating(q)' /\ x \in MadeSoFar(q)'
    BY DEF NothingElse
  <2>1. recorded \subseteq recorded'
    <3>1. recorded = 1 .. v - 1 /\ recorded' = 1 .. v
      BY <1>7
    <3>2. v \in Int
      BY <1>1
    <3> QED BY <3>1, <3>2
  <2>2. \A q \in Processes : Migrating(q) => q = p
    BY DEF MigrationsInv, OneByOne
  <2>3. (\E w \in recorded : x \in Makes(w)) \/ x \in MadeSoFar(p)
    BY <2>2 DEF MigrationsInv, NothingElse
  <2> QED BY <1>5, <2>1, <2>3
<1>15. RefusalsExplained'
  BY <1>2, <1>8 DEF MigrationsInv, RefusalsExplained, StartRefused
<1> QED BY <1>3, <1>9, <1>10, <1>11, <1>12, <1>13, <1>14, <1>15 DEF MigrationsInv

\* Every step of a process keeps the invariant.
LEMMA MigrationsStepKeeps ==
    ASSUME MigrationsInv, NEW p \in Processes,
           Open(p) \/ Execute(p) \/ Record(p) \/ StoreFails(p) \/ ProcessEnds(p)
    PROVE  MigrationsInv'
<1> DEFINE how(a) == [opening[p] EXCEPT !.at = a]
<1>1. opening[p] \in Opening
  BY DEF MigrationsInv, MigrationsTypeOK
<1>2. /\ how("failed") \in Opening /\ how("failed").at = "failed"
      /\ how("refused") \in Opening /\ how("refused").at = "refused"
  BY <1>1 DEF Opening
<1>3. Off \in Opening /\ Off.at = "off"
  BY MigrationsShape DEF Off, Opening
<1>4. \A a : Fail(p, a) => opening' = [opening EXCEPT ![p] = how(a)]
  BY DEF Fail
<1> HIDE DEF how
<1>5. CASE Open(p)
  BY <1>5, OpeningKeeps
<1>6. CASE Execute(p)
  <2> DEFINE all == MIGRATIONS[opening[p].version]
             last == IF engine = "sqlite" THEN opening[p].made + 1 ELSE Len(all)
             making == MadeNext(p, last)
  <2>1. /\ Migrating(p) /\ opening[p].made < Len(all)
        /\ \/ schema' = schema \cup making /\ opening' = [opening EXCEPT ![p].made = last]
           \/ making \cap Once \cap schema # {} /\ Fail(p, "refused") /\ UNCHANGED schema
        /\ UNCHANGED <<engine, recorded, overlapped, torn>>
    BY <1>6 DEF Execute, MadeNext
  <2>2. opening[p].made \in Nat /\ Len(all) \in Nat
    BY <1>1, MigrationsShape DEF Opening
  <2>3. last \in opening[p].made + 1 .. Len(all)
    BY <2>1, <2>2
  <2>4. \A i \in opening[p].made + 1 .. last : i \in opening[p].made + 1 .. Len(all)
    BY <2>2, <2>3
  <2> HIDE DEF last
  <2>5. CASE schema' = schema \cup making /\ opening' = [opening EXCEPT ![p].made = last]
    BY <2>1, <2>3, <2>5, ExecutingKeeps
  <2>6. CASE making \cap Once \cap schema # {} /\ Fail(p, "refused") /\ UNCHANGED schema
    <3>1. PICK i \in opening[p].made + 1 .. last : all[i] \in Once /\ all[i] \in schema
      BY <2>6 DEF MadeNext
    <3>2. engine = "sqlite" /\ (overlapped \/ torn)
      BY <2>1, <2>4, <3>1, RefusedExplained
    <3>3. opening' = [opening EXCEPT ![p] = how("refused")]
      BY <1>4, <2>6
    <3>4. torn \in BOOLEAN /\ torn' = torn
      BY <2>1 DEF MigrationsInv, MigrationsTypeOK
    <3>5. /\ torn' \in BOOLEAN /\ (torn => torn')
          /\ torn' \/ overlapped
          /\ overlapped \/ (engine = "sqlite" /\ torn)
      BY <3>2, <3>4, Zenon
    <3>6. UNCHANGED <<engine, schema, recorded, overlapped>>
      BY <2>1, <2>6
    <3> QED BY <1>2, <3>3, <3>5, <3>6, StoppingKeeps, Zenon
  <2> QED BY <2>1, <2>5, <2>6
<1>7. CASE Record(p)
  <2> DEFINE v == opening[p].version
  <2>1. /\ Migrating(p) /\ opening[p].made = Len(MIGRATIONS[v])
        /\ \/ /\ engine = "sqlite" \/ v \notin recorded
              /\ recorded' = IF engine = "sqlite" THEN 1 .. v ELSE recorded \cup {v}
              /\ Turn(p, opening[p].done, v)
           \/ /\ v \in recorded /\ Fail(p, "refused") /\ UNCHANGED recorded
        /\ UNCHANGED <<engine, schema, overlapped, torn>>
    BY <1>7 DEF Record
  <2>2. CASE /\ engine = "sqlite" \/ v \notin recorded
             /\ recorded' = IF engine = "sqlite" THEN 1 .. v ELSE recorded \cup {v}
             /\ Turn(p, opening[p].done, v)
    <3>1. v \in 1 .. 4 /\ opening[p].done \in SUBSET Versions /\ recorded \subseteq Versions
      BY <1>1, MigrationsShape DEF MigrationsInv, MigrationsTypeOK, Opening
    <3>2. Versions = 1 .. 4
      BY MigrationsShape
    <3> HIDE DEF v
    <3>3. /\ recorded' \subseteq Versions /\ v \in recorded'
          /\ \A w \in recorded' : w <= v \/ w \in recorded
      <4>1. CASE recorded' = 1 .. v
        <5>1. \A w \in 1 .. v : w \in 1 .. 4 /\ w <= v
          BY <3>1
        <5>2. v \in 1 .. v
          BY <3>1
        <5> QED BY <3>2, <4>1, <5>1, <5>2
      <4>2. CASE recorded' = recorded \cup {v}
        <5>1. v <= v
          BY <3>1
        <5> QED BY <3>1, <3>2, <4>2, <5>1, Zenon
      <4> QED BY <2>2, <4>1, <4>2
    <3>4. ~overlapped => recorded' = 1 .. v
      <4>1. ~overlapped => recorded = 1 .. v - 1
        BY <2>1 DEF MigrationsInv, OneByOne, v
      <4>2. 1 .. v = (1 .. v - 1) \cup {v}
        BY <3>1
      <4> QED BY <2>2, <4>1, <4>2
    <3>5. v = opening[p].version
      BY DEF v
    <3> QED BY <2>1, <2>2, <3>1, <3>3, <3>4, <3>5, RecordingKeeps
  <2>3. CASE v \in recorded /\ Fail(p, "refused") /\ UNCHANGED recorded
    <3>1. v \in Int
      BY <1>1, MigrationsShape DEF Opening
    <3>2. overlapped
      <4>1. ~overlapped => recorded = 1 .. v - 1
        BY <2>1 DEF MigrationsInv, OneByOne
      <4> QED BY <2>3, <3>1, <4>1
    <3>3. opening' = [opening EXCEPT ![p] = how("refused")]
      BY <1>4, <2>3
    <3>4. torn \in BOOLEAN /\ torn' = torn
      BY <2>1 DEF MigrationsInv, MigrationsTypeOK
    <3>5. torn' \in BOOLEAN /\ (torn => torn')
      BY <3>4, Zenon
    <3>6. UNCHANGED <<engine, schema, recorded, overlapped>>
      BY <2>1, <2>3
    <3> QED BY <1>2, <3>2, <3>3, <3>5, <3>6, StoppingKeeps, Zenon
  <2> QED BY <2>1, <2>2, <2>3
<1>8. CASE StoreFails(p)
  <2>1. opening' = [opening EXCEPT ![p] = how("failed")]
        /\ torn' = (torn \/ opening[p].made # 0)
        /\ UNCHANGED <<engine, schema, recorded, overlapped>>
    BY <1>4, <1>8 DEF StoreFails
  <2> QED BY <1>2, <2>1, StoppingKeeps DEF MigrationsInv, MigrationsTypeOK
<1>9. CASE ProcessEnds(p)
  <2>1. opening' = [opening EXCEPT ![p] = Off]
        /\ torn' = (torn \/ (Migrating(p) /\ opening[p].made # 0))
        /\ UNCHANGED <<engine, schema, recorded, overlapped>>
    BY <1>9 DEF ProcessEnds
  <2> QED BY <1>3, <2>1, StoppingKeeps DEF MigrationsInv, MigrationsTypeOK
<1> QED BY <1>5, <1>6, <1>7, <1>8, <1>9

\* However many processes open the database and crash, what is recorded was made
\* (storage/sqlite.ts, storage/postgres.ts).
THEOREM MigrationsInvariant == MigrationsSpec => []MigrationsInv
<1>1. MigrationsInit => MigrationsInv
  BY MigrationsInitial
<1>2. MigrationsInv /\ UNCHANGED migrationVars => MigrationsInv'
  BY DEF MigrationsInv, MigrationsTypeOK, RecordedMade, Underway, OpenedWhole,
         OneByOne, NothingElse, RefusalsExplained, StartRefused, Migrating,
         MadeSoFar, Once, migrationVars
<1>3. MigrationsInv /\ [MigrationsNext]_migrationVars => MigrationsInv'
  BY <1>2, MigrationsStepKeeps DEF MigrationsNext
<1> QED BY <1>1, <1>3, PTL DEF MigrationsSpec

\* However many processes open a store and wherever they are cut off: what is on
\* record is made, a store that opened is whole, and no start is refused but for
\* processes that overlapped or a torn migration (runMigrations).
THEOREM SchemasHold == MigrationsSpec => []SchemaHolds
<1>1. MigrationsInv => SchemaHolds
  BY DEF MigrationsInv, RecordedMade, OpenedWhole, RefusalsExplained, SchemaHolds
<1> QED BY <1>1, MigrationsInvariant, PTL

(***************************************************************************)
(* ServingAdapters: the row is written from what was sent.                 *)
(***************************************************************************)

\* Numbers have a least one among them.
LEMMA LeastOne ==
    ASSUME NEW S \in SUBSET Nat, S # {}
    PROVE  Min(S) \in S
<1> DEFINE R == {ss \in Nat \X Nat : ss[1] < ss[2]}
<1>1. IsWellFoundedOn(R, Nat)
  BY NatLessThanWellFounded, Zenon DEF OpToRel
<1> HIDE DEF R
<1>2. PICK x \in S : \A y \in S : ~(<<y, x>> \in R)
  BY <1>1, WFMin, Zenon
<1>3. \A y \in S : ~(y < x)
  BY <1>2 DEF R
<1>4. \A y \in S : x <= y
  BY <1>3
<1> QED BY <1>4 DEF Min

\* Nothing but the lack of a ruleset makes a verdict pending.
LEMMA VerdictPending ==
    ASSUME NEW rs \in Rulesets, NEW v
    PROVE  Classify(rs, v).confidence = "pending" <=> rs = Pending
<1> DEFINE named == {i \in DOMAIN rs.names : rs.names[i].ua = v.ua}
           fitting == {i \in DOMAIN rs.shapes : ShapeFits(rs.shapes[i], v)}
<1>1. CASE rs = Pending
  BY <1>1 DEF Classify
<1>2. CASE rs # Pending /\ named # {}
  <2>1. Min(named) \in DOMAIN rs.names
    BY <1>2, LeastOne, AdaptersAssumption
  <2>2. NameConfidence(rs.names[Min(named)], v) # "pending"
    BY <1>2, <2>1, AdaptersAssumption DEF NameConfidence
  <2> QED BY <1>2, <2>2 DEF Classify
<1>3. CASE rs # Pending /\ named = {} /\ fitting # {}
  <2>1. Min(fitting) \in DOMAIN rs.shapes
    BY <1>3, LeastOne, AdaptersAssumption
  <2>2. rs.shapes[Min(fitting)].confidence # "pending"
    BY <1>3, <2>1, AdaptersAssumption
  <2> QED BY <1>3, <2>2 DEF Classify
<1>4. CASE rs # Pending /\ named = {} /\ fitting = {}
  BY <1>4 DEF Classify
<1> QED BY <1>1, <1>2, <1>3, <1>4

\* Nothing is sent before the application answered, and no row is there before
\* the request is over.
InStages ==
    /\ step = "arrived" => origin = NoAnswer /\ sent.body = "none"
    /\ step # "over" => entry = Unwritten
    /\ sent.body = "none" => step \in {"arrived", "over"} /\ entry = Unwritten
    /\ step = "reading" => /\ sent.body = "origin"
                           /\ IsPage(origin)
                           /\ Eligible(visitor, Classify(chosenBy, visitor).class)
    /\ step \in {"reading", "sent"} =>
        origin \in Origins /\ (origin.status = 0 => platform = "next")

\* What goes out and its flags tell each other.
FlagsTell ==
    /\ sent.body \in {"none", "origin"} => marked = {}
    /\ sent.body = "document" =>
        IF IsMissing(origin) THEN marked = {"served", "rescued"} /\ sent.status = 200
        ELSE marked = {"served", "spa"} /\ IsPage(origin)
    /\ sent.body = "markdown" =>
        IsPage(origin) /\ marked \in {{"reencoded"}, {"reencoded", "served"}}

AdaptersInv == AdaptersTypeOK /\ InStages /\ FlagsTell /\ AdapterHolds

\* At first a visitor has arrived, or is about to.
LEMMA AdaptersInitial == AdaptersInit => AdaptersInv
BY AdaptersAssumption DEF AdaptersInit, AdaptersInv, AdaptersTypeOK, InStages,
    FlagsTell, AdapterHolds, AnswerIsWhole, EntryTells

\* A verdict stays as long as the ruleset it is by, and the request.
LEMMA VerdictStays ==
    ASSUME UNCHANGED <<platform, visitor>>, NEW rs, chosenBy' = rs
    PROVE  Classify(chosenBy, visitor)' = Classify(rs, visitor)
<1>1. Signals(visitor)' = Signals(visitor)
  BY DEF Signals
<1>2. \A r : NameConfidence(r, visitor)' = NameConfidence(r, visitor)
  BY <1>1 DEF NameConfidence
<1>3. \A r : ShapeFits(r, visitor)' = ShapeFits(r, visitor)
  BY <1>1 DEF ShapeFits
<1>4. {i \in DOMAIN chosenBy.names : chosenBy.names[i].ua = visitor.ua}'
        = {i \in DOMAIN rs.names : rs.names[i].ua = visitor.ua}
  OBVIOUS
<1>5. {i \in DOMAIN chosenBy.shapes : ShapeFits(chosenBy.shapes[i], visitor)}'
        = {i \in DOMAIN rs.shapes : ShapeFits(rs.shapes[i], visitor)}
  BY <1>3
<1> QED BY <1>2, <1>4, <1>5 DEF Classify

\* Whatever is put in the place of an answer, or not, is whole and well marked.
LEMMA ReplacingKeeps ==
    ASSUME AdaptersInv, NEW o \in Origins, step = "arrived",
           chosenBy' = loaded, UNCHANGED <<platform, offers, visitor, loaded, entry>>,
           origin' = o, NEW act \in {"rescue", "spa"},
           Eligible(visitor, Classify(loaded, visitor).class),
           act = "rescue" => IsMissing(o),
           act = "spa" => IsPage(o),
           NEW c \in Replacement(o, act, {"served"} \cup (IF act = "spa" THEN {"spa"}
                                                         ELSE {"rescued"})),
           Choose(c), step' \in {"sent", "over"}, o.status = 0 => platform = "next"
    PROVE  AdaptersInv'
<1> entry = Unwritten /\ entry' = Unwritten
  BY DEF AdaptersInv, InStages
<1>1. CASE c = AsIs(o)
  <2>1. marked' = {} /\ sent'.body = "origin" /\ sent'.status = o.status
    BY <1>1 DEF Choose, AsIs
  <2> QED BY <2>1 DEF AdaptersInv, AdaptersTypeOK, InStages, FlagsTell, AdapterHolds,
        AnswerIsWhole, EntryTells
<1>2. CASE c # AsIs(o)
  <2> DEFINE status == IF act = "rescue" THEN 200 ELSE o.status
  <2>1. /\ c.sent = [status |-> status, body |-> "document"] /\ ~Bodiless(status)
        /\ c.marked = {"served"} \cup (IF act = "spa" THEN {"spa"} ELSE {"rescued"})
    BY <1>2 DEF Replacement, AsIs
  <2>2. sent'.body = "document" /\ sent'.status = status
        /\ marked' = {"served"} \cup (IF act = "spa" THEN {"spa"} ELSE {"rescued"})
    BY <2>1 DEF Choose
  <2>3. act = "rescue" <=> IsMissing(o)
    BY DEF IsMissing, IsPage
  <2>4. AdaptersTypeOK' /\ InStages'
    BY <2>2 DEF AdaptersInv, AdaptersTypeOK, InStages
  <2>5. FlagsTell'
    BY <2>2, <2>3 DEF FlagsTell, IsMissing, IsPage
  <2>6. AnswerIsWhole'
    <3>1. ~Bodiless(sent.status)' /\ Eligible(visitor, Classify(chosenBy, visitor).class)'
      BY <2>1, <2>2, VerdictStays DEF Bodiless, Eligible
    <3> QED BY <2>2, <2>3, <3>1 DEF AnswerIsWhole, IsMissing
  <2>7. EntryTells'
    BY DEF EntryTells
  <2> QED BY <2>4, <2>5, <2>6, <2>7 DEF AdaptersInv, AdapterHolds
<1> QED BY <1>1, <1>2

\* The origin answers, and the adapter chooses what to serve.
LEMMA AnsweringKeeps ==
    ASSUME AdaptersInv, NEW o \in Origins, OriginAnswers(o)
    PROVE  AdaptersInv'
<1> DEFINE act == IF platform = "next" THEN "passthrough" ELSE ServeAction(o, visitor)
<1>1. /\ step = "arrived" /\ entry = Unwritten /\ origin' = o /\ chosenBy' = loaded
      /\ UNCHANGED <<platform, offers, visitor, loaded, entry>>
      /\ o.status = 0 => platform = "next"
  BY DEF OriginAnswers, constantVars, AdaptersInv, InStages
<1>2. Classify(chosenBy, visitor)' = Classify(loaded, visitor)
  BY <1>1, VerdictStays
<1>3. /\ act # "passthrough" => Eligible(visitor, Classify(loaded, visitor).class)
      /\ act = "rescue" => IsMissing(o)
      /\ act \in {"spa", "reencode"} => IsPage(o)
  BY DEF ServeAction
<1>4. CASE Choose(AsIs(o)) /\ (step' = "reading" => act = "reencode")
           /\ step' \in {"sent", "reading", "over"}
  <2>1. marked' = {} /\ sent'.body = "origin" /\ sent'.status = o.status
    BY <1>4 DEF Choose, AsIs
  <2>2. step' = "reading" => IsPage(origin)' /\ Eligible(visitor, Classify(chosenBy, visitor).class)'
    BY <1>1, <1>2, <1>3, <1>4 DEF IsPage, Eligible
  <2>3. AdaptersTypeOK'
    BY <1>1, <1>4, <2>1 DEF AdaptersInv, AdaptersTypeOK
  <2> QED BY <1>1, <1>4, <2>1, <2>2, <2>3 DEF AdaptersInv, InStages, FlagsTell,
        AdapterHolds, AnswerIsWhole, EntryTells
<1>5. CASE act \in {"rescue", "spa"}
  <2>1. PICK c \in Replacement(o, act, {"served"} \cup (IF act = "spa" THEN {"spa"}
                                                        ELSE {"rescued"})) :
          Choose(c) /\ step' \in {"sent", "over"}
    BY <1>5 DEF OriginAnswers, Unrecorded
  <2> HIDE DEF act
  <2> QED BY <1>1, <1>3, <1>5, <2>1, ReplacingKeeps
<1>6. act \in {"rescue", "spa"} \/ (Choose(AsIs(o)) /\ (step' = "reading" => act = "reencode")
                                  /\ step' \in {"sent", "reading", "over"})
  BY DEF OriginAnswers, Unrecorded
<1> QED BY <1>4, <1>5, <1>6

\* The row is true of what was sent, by the label it gets.
LEMMA WritingKeeps ==
    ASSUME AdaptersInv, WriteEntry
    PROVE  AdaptersInv'
<1> DEFINE d == Classify(LabelRuleset, visitor)
<1>1. /\ step = "sent" /\ step' = "over" /\ sent.body # "none"
      /\ UNCHANGED <<platform, offers, visitor, loaded, origin, sent, marked, chosenBy>>
  BY DEF WriteEntry, constantVars, AdaptersInv, InStages
<1>2. /\ entry'.outcome = OutcomeOf /\ entry'.flags = marked \ {"rescued"}
      /\ entry'.class = d.class /\ entry'.confidence = d.confidence
      /\ entry'.ruleset = LabelRuleset
      /\ entry'.unknown = (platform = "next" /\ sent.status = 0)
  BY DEF WriteEntry
<1>3. Classify(chosenBy, visitor)' = Classify(chosenBy, visitor)
  BY <1>1, VerdictStays
<1>4. LabelRuleset \in Rulesets
  BY DEF LabelRuleset, AdaptersInv, AdaptersTypeOK
<1>5. entry'.confidence = "pending" <=> entry'.ruleset = Pending
  BY <1>2, <1>4, VerdictPending
<1>6. AdaptersTypeOK' /\ InStages' /\ FlagsTell' /\ AnswerIsWhole'
  BY <1>1, <1>3 DEF AdaptersInv, AdaptersTypeOK, InStages, FlagsTell, AdapterHolds,
    AnswerIsWhole
<1>7. origin \in Origins /\ (origin.status = 0 => platform = "next")
  BY <1>1 DEF AdaptersInv, InStages
<1>8. /\ IsMissing(origin) <=> OutcomeOf = "dead_end"
      /\ origin.status \in {403, 500} <=> OutcomeOf \in {"blocked", "broken"}
  <2>1. CASE sent.body = "document" /\ IsMissing(origin)
    BY <2>1 DEF AdaptersInv, FlagsTell, OutcomeOf, IsMissing
  <2>2. CASE sent.body # "document" \/ ~IsMissing(origin)
    <3>1. sent.status = origin.status /\ "rescued" \notin marked
      BY <1>1, <2>2 DEF AdaptersInv, AdaptersTypeOK, FlagsTell, AdapterHolds,
        AnswerIsWhole, IsMissing, IsPage
    <3>2. OutcomeOf = ClassifyOutcome(origin.status)
      BY <3>1 DEF OutcomeOf
    <3>3. origin.status \in {0, 200, 204, 403, 404, 500}
      <4>1. \A o \in [status : {200, 204}, html : BOOLEAN] : o.status \in {200, 204}
        OBVIOUS
      <4>2. \A o \in [status : {0, 403, 404, 500}, html : {FALSE}] :
              o.status \in {0, 403, 404, 500}
        OBVIOUS
      <4>3. \/ origin \in [status : {200, 204}, html : BOOLEAN]
            \/ origin \in [status : {0, 403, 404, 500}, html : {FALSE}]
        BY <1>7, Zenon DEF Origins
      <4>4. origin.status \in {200, 204} \/ origin.status \in {0, 403, 404, 500}
        <5> DEFINE A == [status : {200, 204}, html : BOOLEAN]
                   B == [status : {0, 403, 404, 500}, html : {FALSE}]
        <5>1. origin \in A \/ origin \in B
          BY <4>3
        <5>2. /\ \A o \in A : o.status \in {200, 204}
              /\ \A o \in B : o.status \in {0, 403, 404, 500}
          BY <4>1, <4>2
        <5> HIDE DEF A, B
        <5> QED BY <5>1, <5>2
      <4> QED BY <4>4
    <3>4. \A n \in {0, 200, 204, 403, 404, 500} :
            /\ n \in {404, 410} <=> ClassifyOutcome(n) = "dead_end"
            /\ n \in {403, 500} <=> ClassifyOutcome(n) \in {"blocked", "broken"}
      BY DEF ClassifyOutcome
    <3> QED BY <3>2, <3>3, <3>4 DEF IsMissing
  <2> QED BY <2>1, <2>2
<1>9. entry'.unknown <=> origin.status = 0
  <2>1. origin.status = 0 => sent.status = 0
    BY <1>1, <1>7 DEF AdaptersInv, AdaptersTypeOK, FlagsTell, AdapterHolds,
      AnswerIsWhole, IsMissing, IsPage
  <2>2. sent.status = 0 => origin.status = 0
    BY <1>1 DEF AdaptersInv, AdaptersTypeOK, AdapterHolds, AnswerIsWhole
  <2> QED BY <1>2, <1>7, <2>1, <2>2
<1>10. /\ entry'.flags # {} <=> sent.body # "origin"
       /\ "spa" \in entry'.flags => sent.body = "document" /\ IsPage(origin)
       /\ "reencoded" \in entry'.flags <=> sent.body = "markdown"
  <2>1. sent.body \in {"origin", "document", "markdown"}
    BY <1>1 DEF AdaptersInv, AdaptersTypeOK
  <2>2. CASE sent.body = "origin"
    BY <1>2, <2>2 DEF AdaptersInv, FlagsTell
  <2>3. CASE sent.body = "document"
    <3>1. "served" \in marked /\ "reencoded" \notin marked /\ ("spa" \in marked => IsPage(origin))
      BY <2>3 DEF AdaptersInv, FlagsTell
    <3> QED BY <1>2, <2>3, <3>1
  <2>4. CASE sent.body = "markdown"
    <3>1. "reencoded" \in marked /\ "spa" \notin marked
      BY <2>4 DEF AdaptersInv, FlagsTell
    <3> QED BY <1>2, <2>4, <3>1
  <2> QED BY <2>1, <2>2, <2>3, <2>4
<1>11. ASSUME entry'.flags # {}, platform # "hono" \/ entry'.ruleset = chosenBy
       PROVE  Eligible(visitor, entry'.class)
  <2>1. LabelRuleset = chosenBy
    BY <1>2, <1>11 DEF LabelRuleset
  <2>2. Eligible(visitor, Classify(chosenBy, visitor).class)
    BY <1>1, <1>10, <1>11 DEF AdaptersInv, AdaptersTypeOK, AdapterHolds, AnswerIsWhole
  <2> QED BY <1>2, <2>1, <2>2
<1>12. EntryTells'
  BY <1>1, <1>2, <1>5, <1>8, <1>9, <1>10, <1>11 DEF EntryTells, IsMissing, IsPage, Eligible
<1> QED BY <1>6, <1>12 DEF AdaptersInv, AdapterHolds

\* Every step of an adapter keeps the invariant.
LEMMA AdaptersStepKeeps ==
    ASSUME AdaptersInv, AdaptersNext
    PROVE  AdaptersInv'
<1>1. CASE \E o \in Origins : OriginAnswers(o)
  BY <1>1, AnsweringKeeps
<1>2. CASE OriginThrows
  <2>1. Classify(chosenBy, visitor)' = Classify(chosenBy, visitor)
    BY <1>2, VerdictStays DEF OriginThrows, constantVars
  <2> QED BY <1>2, <2>1 DEF OriginThrows, Unrecorded, constantVars, AdaptersInv,
        AdaptersTypeOK, InStages, FlagsTell, AdapterHolds, AnswerIsWhole, EntryTells
<1>3. CASE Reencode
  <2>1. /\ step = "reading" /\ step' = "sent" /\ entry' = Unwritten
        /\ UNCHANGED <<platform, offers, visitor, loaded, origin, chosenBy, entry>>
    BY <1>3 DEF Reencode, constantVars, AdaptersInv, InStages
  <2>2. Classify(chosenBy, visitor)' = Classify(chosenBy, visitor)
    BY <2>1, VerdictStays
  <2>3. /\ origin \in Origins /\ IsPage(origin)
        /\ Eligible(visitor, Classify(chosenBy, visitor).class)
    BY <2>1 DEF AdaptersInv, InStages
  <2>4. /\ sent'.status = origin.status
        /\ \/ sent'.body = "origin" /\ marked' = {}
           \/ /\ sent'.body = "markdown" /\ ~Bodiless(origin.status)
              /\ marked' \in {{"reencoded"}, {"reencoded", "served"}}
    BY <1>3 DEF Reencode, Choose, AsIs
  <2>5. AdaptersTypeOK'
    BY <2>1, <2>4 DEF AdaptersInv, AdaptersTypeOK
  <2>6. InStages' /\ FlagsTell'
    BY <2>1, <2>3, <2>4 DEF AdaptersInv, InStages, FlagsTell, IsPage
  <2>7. AnswerIsWhole'
    BY <2>1, <2>2, <2>3, <2>4 DEF AnswerIsWhole, IsPage, IsMissing, Bodiless, Eligible
  <2> QED BY <2>1, <2>5, <2>6, <2>7 DEF AdaptersInv, AdapterHolds, EntryTells
<1>4. CASE Skip \/ RulesetChanges
  <2>1. Classify(chosenBy, visitor)' = Classify(chosenBy, visitor)
    BY <1>4, VerdictStays DEF Skip, RulesetChanges, constantVars
  <2>2. /\ step # "over" /\ step' \in {step, "over"} /\ loaded' \in Rulesets
        /\ UNCHANGED <<platform, offers, visitor, origin, sent, marked, chosenBy, entry>>
    BY <1>4 DEF Skip, Unrecorded, RulesetChanges, constantVars, AdaptersInv, AdaptersTypeOK
  <2>3. AdaptersTypeOK' /\ InStages' /\ FlagsTell'
    BY <2>1, <2>2 DEF AdaptersInv, AdaptersTypeOK, InStages, FlagsTell
  <2>4. AnswerIsWhole' /\ EntryTells'
    BY <2>1, <2>2 DEF AdaptersInv, InStages, AdapterHolds, AnswerIsWhole, EntryTells
  <2> QED BY <2>3, <2>4 DEF AdaptersInv, AdapterHolds
<1>5. CASE WriteEntry
  BY <1>5, WritingKeeps
<1> QED BY <1>1, <1>2, <1>3, <1>4, <1>5 DEF AdaptersNext

\* Through every stage of an adapter its flags tell what was done
\* (adapter/vercel.ts, adapter/cloudflare.ts).
THEOREM AdaptersInvariant == AdaptersSpec => []AdaptersInv
<1>1. AdaptersInit => AdaptersInv
  BY AdaptersInitial
<1>2. AdaptersInv /\ UNCHANGED adapterVars => AdaptersInv'
  <2> SUFFICES ASSUME AdaptersInv, UNCHANGED adapterVars
               PROVE  AdaptersInv'
    OBVIOUS
  <2>1. Classify(chosenBy, visitor)' = Classify(chosenBy, visitor)
    BY VerdictStays DEF adapterVars
  <2> QED BY <2>1 DEF adapterVars, AdaptersInv, AdaptersTypeOK, InStages, FlagsTell,
        AdapterHolds, AnswerIsWhole, EntryTells
<1>3. AdaptersInv /\ [AdaptersNext]_adapterVars => AdaptersInv'
  BY <1>2, AdaptersStepKeeps
<1> QED BY <1>1, <1>3, PTL DEF AdaptersSpec

\* Whatever ruleset comes in between and whatever fails: what goes out is whole
\* and for this visitor, and the row tells what happened (cloudflare/index.ts,
\* adapter/hono.ts, edge/capture-edge.ts).
THEOREM AnswersAndRowsAgree == AdaptersSpec => []AdapterHolds
<1>1. AdaptersInv => AdapterHolds
  BY DEF AdaptersInv
<1> QED BY <1>1, AdaptersInvariant, PTL

(***************************************************************************)
(* ObservabilityStream: a poll has all there is past the cursor.           *)
(***************************************************************************)

\* Numbers up to some have a greatest one among them.
LEMMA GreatestOne ==
    ASSUME NEW n \in Nat, NEW S \in SUBSET (1 .. n), S # {}
    PROVE  Max(S) \in S /\ \A x \in S : x <= Max(S)
<1> DEFINE T == {n - x : x \in S}
<1>1. T \in SUBSET Nat /\ T # {}
  <2>1. \A x \in S : n - x \in Nat
    OBVIOUS
  <2> QED BY <2>1
<1>2. PICK t \in T : \A u \in T : t <= u
  <2> HIDE DEF T
  <2> DEFINE R == {ss \in Nat \X Nat : ss[1] < ss[2]}
  <2>1. IsWellFoundedOn(R, Nat)
    BY NatLessThanWellFounded, Zenon DEF OpToRel
  <2> HIDE DEF R
  <2>2. PICK t \in T : \A u \in T : ~(<<u, t>> \in R)
    BY <1>1, <2>1, WFMin, Zenon
  <2>3. \A u \in T : ~(u < t)
    BY <1>1, <2>2 DEF R
  <2> QED BY <1>1, <2>2, <2>3
<1>3. PICK m \in S : t = n - m
  BY <1>2
<1>4. \A x \in S : m >= x
  BY <1>2, <1>3
<1> QED BY <1>4 DEF Max

\* And so do three.
LEMMA GreatestOfThree ==
    ASSUME NEW a \in Nat, NEW b \in Nat, NEW c \in Nat
    PROVE  LET m == Max({a, b, c}) IN m \in Nat /\ a <= m /\ b <= m /\ c <= m
<1>1. \E m \in {a, b, c} : \A x \in {a, b, c} : m >= x
  OBVIOUS
<1> QED BY <1>1 DEF Max

Kinds == {"event", "log"}
StreamRow == [kind : Kinds, ts : Nat]
PollRecord == [from : Nat, event : SUBSET Nat, log : SUBSET Nat,
               read : SUBSET (Kinds \cup {"started"})]

StreamTyped ==
    /\ ms \in Nat /\ pollsOverlap \in BOOLEAN
    /\ writing \in [Writers -> {NoWrite} \cup StreamRow]
    /\ stored \in Seq(StreamRow)
    /\ stream \in [open : BOOLEAN, since : Nat, cursor : Nat, fired : Nat]
    /\ polls \in [Polls -> PollRecord]
    /\ sentOnce \cup storedLate \cup shed \subseteq DOMAIN stored

\* What a poll has of a table that it has read: all there is from its bound on,
\* but for what it had to leave and what came later.
PollHas(p, kind) ==
    /\ kind \notin polls[p].read => polls[p][kind] = {}
    /\ polls[p][kind] \subseteq RowsFrom(kind, polls[p].from)
    /\ kind \in polls[p].read =>
        RowsFrom(kind, polls[p].from) \subseteq polls[p][kind] \cup shed \cup storedLate

PollsTrue ==
    /\ ~stream.open => sentOnce = {} /\ sentTwice = {}
    /\ \A p \in Polls :
        /\ polls[p].read # {} => stream.open
        /\ polls[p] = Asleep \/ "started" \in polls[p].read
        /\ polls[p].from <= stream.cursor
        /\ \A kind \in Kinds : PollHas(p, kind)

\* Polls that do not overlap begin where the last one ended.
PollsInTurn ==
    ~pollsOverlap =>
        /\ \A p, q \in Polls : polls[p] # Asleep /\ polls[q] # Asleep => p = q
        /\ \A p \in Polls : polls[p] # Asleep => polls[p].from = stream.cursor
        /\ StampsInOrder => sentTwice = {} /\ \A i \in sentOnce : stored[i].ts < stream.cursor

ObserveInv == StreamTyped /\ PollsTrue /\ PollsInTurn /\ PassedWasSent

\* At first nothing is stored and no stream is open.
LEMMA ObserveInitial == StreamInit => ObserveInv
<1> SUFFICES ASSUME StreamInit PROVE ObserveInv
  OBVIOUS
<1>1. StreamTyped
  <2>1. Asleep \in PollRecord
    BY DEF Asleep, PollRecord
  <2>2. polls \in [Polls -> PollRecord]
    BY <2>1 DEF StreamInit
  <2>3. sentOnce \cup storedLate \cup shed \subseteq DOMAIN stored
    BY DEF StreamInit
  <2>4. stream \in [open : BOOLEAN, since : Nat, cursor : Nat, fired : Nat]
    BY DEF StreamInit
  <2>5. stored \in Seq(StreamRow)
    BY DEF StreamInit
  <2> QED BY <2>2, <2>3, <2>4, <2>5 DEF StreamInit, StreamTyped
<1>2. PollsTrue
  BY DEF StreamInit, PollsTrue, PollHas, RowsFrom, Asleep, Kinds
<1>3. PollsInTurn /\ PassedWasSent
  BY DEF StreamInit, PollsInTurn, PassedWasSent
<1> QED BY <1>1, <1>2, <1>3 DEF ObserveInv

\* Steps that neither store nor poll.
LEMMA WritingBeginsKeeps ==
    ASSUME ObserveInv, UNCHANGED <<stored, stream, polls, sendHistory, storedLate, pollsOverlap>>,
           ms' \in Nat, writing' \in [Writers -> {NoWrite} \cup StreamRow]
    PROVE  ObserveInv'
BY DEF ObserveInv, StreamTyped, PollsTrue, PollHas, RowsFrom, PollsInTurn, StampsInOrder,
    PassedWasSent, sendHistory

\* A row is stored (WriteStored).
LEMMA StoringKeeps ==
    ASSUME ObserveInv, NEW w \in Writers, WriteStored(w)
    PROVE  ObserveInv'
<1> DEFINE n == Len(stored) + 1
<1>1. /\ writing[w] \in StreamRow /\ stored' = Append(stored, writing[w])
      /\ UNCHANGED <<ms, stream, polls, sentOnce, sentTwice, shed, pollsOverlap>>
  BY DEF WriteStored, sendHistory, ObserveInv, StreamTyped
<1>2. /\ DOMAIN stored = 1 .. Len(stored) /\ n \in Nat /\ Len(stored) \in Nat
      /\ DOMAIN stored' = DOMAIN stored \cup {n} /\ n \notin DOMAIN stored
      /\ Len(stored') = n /\ stored'[n] = writing[w] /\ stored' \in Seq(StreamRow)
      /\ \A i \in DOMAIN stored : stored'[i] = stored[i]
  BY <1>1 DEF ObserveInv, StreamTyped
<1>3. /\ storedLate \subseteq storedLate' /\ storedLate' \subseteq storedLate \cup {n}
      /\ stream.open /\ (\/ writing[w].ts < stream.cursor
                         \/ \E p \in Polls : writing[w].kind \in polls[p].read)
            => n \in storedLate'
  BY <1>2 DEF WriteStored
<1>4. StreamTyped'
  BY <1>1, <1>2, <1>3 DEF WriteStored, ObserveInv, StreamTyped
<1>5. PollsTrue'
  <2>1. ASSUME NEW p \in Polls, NEW kind \in Kinds
        PROVE  PollHas(p, kind)'
    <3>1. /\ RowsFrom(kind, polls[p].from) \subseteq RowsFrom(kind, polls[p].from)'
          /\ RowsFrom(kind, polls[p].from)' \subseteq RowsFrom(kind, polls[p].from) \cup {n}
          /\ n \in RowsFrom(kind, polls[p].from)' => writing[w].kind = kind
      BY <1>1, <1>2 DEF RowsFrom
    <3>2. PollHas(p, kind) /\ (polls[p].read # {} => stream.open)
      BY DEF ObserveInv, PollsTrue
    <3>3. kind \in polls[p].read /\ n \in RowsFrom(kind, polls[p].from)' => n \in storedLate'
      BY <1>3, <3>1, <3>2
    <3> QED BY <1>1, <1>3, <3>1, <3>2, <3>3 DEF PollHas
  <2> QED BY <1>1, <2>1 DEF ObserveInv, PollsTrue
<1>6. PollsInTurn'
  <2>1. \A i \in sentOnce : i \in DOMAIN stored /\ stored'[i] = stored[i]
    BY <1>2 DEF ObserveInv, StreamTyped
  <2>2. StampsInOrder' => StampsInOrder
    BY <1>1, <2>1 DEF StampsInOrder
  <2> QED BY <1>1, <2>1, <2>2 DEF ObserveInv, PollsInTurn
<1>7. PassedWasSent'
  <2>1. stream.open /\ writing[w].ts \in stream.since .. stream.cursor - 1 => n \in storedLate'
    BY <1>1, <1>3 DEF ObserveInv, StreamTyped, StreamRow
  <2> QED BY <1>1, <1>2, <1>3, <2>1 DEF ObserveInv, PassedWasSent
<1> QED BY <1>4, <1>5, <1>6, <1>7 DEF ObserveInv

\* A stream is opened, from now or from a moment ago.
LEMMA OpeningStreamKeeps ==
    ASSUME ObserveInv, OpenStream
    PROVE  ObserveInv'
<1>1. PICK start \in 0 .. ms :
        stream' = [open |-> TRUE, since |-> start, cursor |-> start, fired |-> ms]
  BY DEF OpenStream
<1>2. /\ ~stream.open
      /\ UNCHANGED <<ms, writing, stored, polls, sendHistory, storedLate, pollsOverlap>>
  BY DEF OpenStream
<1>3. \A p \in Polls : polls[p] = Asleep
  BY <1>2 DEF ObserveInv, PollsTrue
<1>4. StreamTyped'
  BY <1>1, <1>2 DEF ObserveInv, StreamTyped, sendHistory
<1>5. PollsTrue'
  <2>1. \A p \in Polls, kind \in Kinds : PollHas(p, kind)'
    BY <1>2 DEF ObserveInv, PollsTrue, PollHas, RowsFrom, sendHistory
  <2>2. start \in Nat /\ stream'.cursor = start /\ stream'.open
    BY <1>1 DEF ObserveInv, StreamTyped
  <2>3. \A p \in Polls : polls'[p] = Asleep /\ polls'[p].from <= stream'.cursor
    BY <1>2, <1>3, <2>2 DEF Asleep
  <2> QED BY <2>1, <2>2, <2>3 DEF PollsTrue
<1>6. PollsInTurn'
  BY <1>2, <1>3 DEF ObserveInv, PollsTrue, PollsInTurn, sendHistory
<1>7. PassedWasSent'
  <2>1. stream'.since .. stream'.cursor - 1 = {}
    BY <1>1 DEF ObserveInv, StreamTyped
  <2> QED BY <2>1 DEF PassedWasSent
<1> QED BY <1>4, <1>5, <1>6, <1>7 DEF ObserveInv

\* A poll begins with nothing, or is over.
LEMMA FreshPollTrue ==
    ASSUME ObserveInv, NEW p \in Polls, NEW from \in Nat, from <= stream'.cursor,
           NEW read \in {{}, {"started"}},
           polls' = [polls EXCEPT ![p] = [from |-> from, event |-> {}, log |-> {},
                                          read |-> read]],
           read = {} => from = 0,
           stored' = stored, shed \subseteq shed', storedLate \subseteq storedLate',
           stream'.open, stream'.cursor \in Nat, stream.cursor <= stream'.cursor
    PROVE  PollsTrue' /\ polls' \in [Polls -> PollRecord]
<1>1. polls \in [Polls -> PollRecord] /\ stream.cursor \in Nat
  BY DEF ObserveInv, StreamTyped, PollRecord
<1>2. [from |-> from, event |-> {}, log |-> {}, read |-> read] \in PollRecord
  BY DEF PollRecord
<1>3. polls'[p] = [from |-> from, event |-> {}, log |-> {}, read |-> read]
      /\ \A q \in Polls \ {p} : polls'[q] = polls[q]
  BY <1>1
<1>4. \A kind \in Kinds : PollHas(p, kind)'
  BY <1>3 DEF PollHas, Kinds
<1>5. \A q \in Polls \ {p}, kind \in Kinds : PollHas(q, kind)'
  BY <1>3 DEF ObserveInv, PollsTrue, PollHas, RowsFrom
<1>6. polls'[p] = Asleep \/ "started" \in polls'[p].read
  <2>1. CASE read = {}
    BY <1>3, <2>1 DEF Asleep
  <2>2. CASE read = {"started"}
    BY <1>3, <2>2
  <2> QED BY <2>1, <2>2
<1>7. \A q \in Polls : polls'[q].from <= stream'.cursor
  <2>1. \A q \in Polls : polls[q].from \in Nat /\ polls[q].from <= stream.cursor
    BY <1>1 DEF ObserveInv, PollsTrue, PollRecord
  <2> QED BY <1>1, <1>3, <2>1
<1> QED BY <1>1, <1>2, <1>3, <1>4, <1>5, <1>6, <1>7 DEF ObserveInv, PollsTrue

\* A poll starts at the cursor.
LEMMA StartingPollKeeps ==
    ASSUME ObserveInv, NEW p \in Polls, StartPoll(p)
    PROVE  ObserveInv'
<1>1. /\ stream.open /\ polls[p] = Asleep
      /\ polls' = [polls EXCEPT ![p] = [from |-> stream.cursor, event |-> {}, log |-> {},
                                        read |-> {"started"}]]
      /\ stream' = [stream EXCEPT !.fired = ms]
      /\ pollsOverlap' = (pollsOverlap \/ \E q \in Polls : polls[q] # Asleep)
      /\ UNCHANGED <<ms, writing, stored, sentOnce, sentTwice, shed, storedLate>>
  BY DEF StartPoll, Unpolled, sendHistory
<1>2. /\ stream'.open = stream.open /\ stream'.cursor = stream.cursor
      /\ stream'.since = stream.since /\ stream.cursor \in Nat
      /\ stream' \in [open : BOOLEAN, since : Nat, cursor : Nat, fired : Nat]
  BY <1>1 DEF ObserveInv, StreamTyped
<1>3. PollsTrue' /\ polls' \in [Polls -> PollRecord]
  <2>1. stream.cursor <= stream'.cursor /\ {"started"} \in {{}, {"started"}}
        /\ {"started"} # {} /\ stream'.cursor \in Nat /\ stream'.open
    BY <1>1, <1>2
  <2> QED BY <1>1, <1>2, <2>1, FreshPollTrue
<1>4. StreamTyped'
  BY <1>1, <1>2, <1>3 DEF ObserveInv, StreamTyped, PollRecord
<1>5. PollsInTurn'
  <2>1. ASSUME ~pollsOverlap'
        PROVE  \A q \in Polls \ {p} : polls'[q] = Asleep
    BY <1>1, <2>1 DEF ObserveInv, StreamTyped
  <2>2. polls'[p].from = stream.cursor
    BY <1>1 DEF ObserveInv, StreamTyped
  <2> QED BY <1>1, <1>2, <2>1, <2>2 DEF ObserveInv, PollsInTurn, StampsInOrder
<1>6. PassedWasSent'
  BY <1>1, <1>2 DEF ObserveInv, PassedWasSent
<1> QED BY <1>3, <1>4, <1>5, <1>6 DEF ObserveInv

\* A poll fails, and the next one starts at the same cursor.
LEMMA FailingPollKeeps ==
    ASSUME ObserveInv, NEW p \in Polls, FailPoll(p)
    PROVE  ObserveInv'
<1>1. /\ polls[p] # Asleep
      /\ polls' = [polls EXCEPT ![p] = [from |-> 0, event |-> {}, log |-> {}, read |-> {}]]
      /\ UNCHANGED <<ms, writing, stored, stream, sentOnce, sentTwice, shed, storedLate,
                     pollsOverlap>>
  BY DEF FailPoll, Unpolled, Asleep, sendHistory
<1>2. stream.open /\ stream.cursor \in Nat
  BY <1>1 DEF ObserveInv, StreamTyped, PollsTrue
<1>3. PollsTrue' /\ polls' \in [Polls -> PollRecord]
  <2>1. 0 <= stream'.cursor /\ stream.cursor <= stream'.cursor /\ stream'.open
    BY <1>1, <1>2
  <2> QED BY <1>1, <1>2, <2>1, FreshPollTrue
<1>4. StreamTyped'
  BY <1>1, <1>3 DEF ObserveInv, StreamTyped, PollRecord
<1>5. PollsInTurn'
  <2>1. polls'[p] = Asleep /\ \A q \in Polls \ {p} : polls'[q] = polls[q]
    BY <1>1 DEF ObserveInv, StreamTyped, Asleep
  <2> QED BY <1>1, <2>1 DEF ObserveInv, PollsInTurn, StampsInOrder
<1>6. PassedWasSent'
  BY <1>1 DEF ObserveInv, PassedWasSent
<1> QED BY <1>3, <1>4, <1>5, <1>6 DEF ObserveInv

\* A poll reads one of the two tables.
LEMMA PollReadingKeeps ==
    ASSUME ObserveInv, NEW p \in Polls, NEW kind \in Kinds, ReadTable(p, kind)
    PROVE  ObserveInv'
<1> DEFINE ids == RowsFrom(kind, polls[p].from)
           left == {i \in ids : Cardinality({j \in ids : j > i}) >= PollLimit}
<1>1. /\ "started" \in polls[p].read /\ kind \notin polls[p].read
      /\ polls' = [polls EXCEPT ![p][kind] = NewestOf(ids), ![p].read = @ \cup {kind}]
      /\ shed' = shed \cup left
      /\ UNCHANGED <<ms, writing, stored, stream, sentOnce, sentTwice, storedLate,
                     pollsOverlap>>
  BY DEF ReadTable
<1>2. polls \in [Polls -> PollRecord] /\ polls[p] \in PollRecord
  BY DEF ObserveInv, StreamTyped, PollRecord
<1>3. ids \in SUBSET Nat /\ ids \subseteq DOMAIN stored
  BY DEF RowsFrom, ObserveInv, StreamTyped
<1>4. NewestOf(ids) \subseteq ids
  BY DEF NewestOf
<1>5. /\ \A q \in Polls \ {p} : polls'[q] = polls[q]
      /\ polls'[p].from = polls[p].from /\ polls'[p].read = polls[p].read \cup {kind}
      /\ polls'[p][kind] = NewestOf(ids)
      /\ \A k \in Kinds \ {kind} : polls'[p][k] = polls[p][k]
      /\ polls' \in [Polls -> PollRecord]
  <2>1. CASE kind = "event"
    BY <1>1, <1>2, <1>3, <1>4, <2>1 DEF Kinds, PollRecord
  <2>2. CASE kind = "log"
    BY <1>1, <1>2, <1>3, <1>4, <2>2 DEF Kinds, PollRecord
  <2> QED BY <2>1, <2>2 DEF Kinds
<1>6. ids \subseteq NewestOf(ids) \cup left
  <2>1. \A i \in ids : Cardinality({j \in ids : j > i}) \in Nat
    <3>1. IsFiniteSet(DOMAIN stored)
      BY FS_Interval DEF ObserveInv, StreamTyped
    <3>2. \A i \in ids : {j \in ids : j > i} \subseteq DOMAIN stored
      BY <1>3
    <3> QED BY <3>1, <3>2, FS_Subset, FS_CardinalityType
  <2> QED BY <2>1, StreamAssumption DEF NewestOf
<1>7. StreamTyped'
  BY <1>1, <1>3, <1>5 DEF ObserveInv, StreamTyped, PollRecord
<1>8. PollsTrue'
  <2>1. ASSUME NEW q \in Polls, NEW k \in Kinds
        PROVE  PollHas(q, k)'
    <3>1. RowsFrom(k, polls[q].from)' = RowsFrom(k, polls[q].from)
      BY <1>1, <1>5 DEF RowsFrom
    <3>2. PollHas(q, k)
      BY DEF ObserveInv, PollsTrue
    <3>3. CASE q # p \/ k # kind
      <4>1. polls'[q][k] = polls[q][k] /\ (k \in polls'[q].read <=> k \in polls[q].read)
        BY <1>5, <3>3
      <4> QED BY <1>1, <3>1, <3>2, <4>1 DEF PollHas
    <3>4. CASE q = p /\ k = kind
      <4>1. RowsFrom(kind, polls[p].from)' = ids
        BY <3>1, <3>4
      <4>2. /\ polls'[p][kind] = NewestOf(ids) /\ kind \in polls'[p].read
            /\ ids \subseteq NewestOf(ids) \cup shed' \cup storedLate'
        BY <1>1, <1>5, <1>6
      <4> HIDE DEF ids
      <4> QED BY <1>4, <3>4, <4>1, <4>2 DEF PollHas
    <3> QED BY <3>3, <3>4
  <2>2. stream.open
    BY <1>1 DEF ObserveInv, PollsTrue
  <2> QED BY <1>1, <1>5, <2>1, <2>2 DEF ObserveInv, PollsTrue
<1>9. PollsInTurn'
  <2>1. polls[p] # Asleep
    BY <1>1 DEF Asleep
  <2>2. \A q \in Polls : polls'[q] # Asleep => polls[q] # Asleep
    BY <1>5, <2>1
  <2> QED BY <1>1, <1>5, <2>1, <2>2 DEF ObserveInv, PollsInTurn, StampsInOrder
<1>10. PassedWasSent'
  BY <1>1 DEF ObserveInv, PassedWasSent
<1> QED BY <1>7, <1>8, <1>9, <1>10 DEF ObserveInv

\* What is stored has a time of its own.
LEMMA RowsAreStamped ==
    ASSUME ObserveInv
    PROVE  /\ \A i \in DOMAIN stored : stored[i] \in StreamRow /\ stored[i].ts \in Nat
           /\ sentOnce \subseteq DOMAIN stored
<1>1. stored \in Seq(StreamRow) /\ sentOnce \subseteq DOMAIN stored
  BY DEF ObserveInv, StreamTyped
<1>2. \A i \in DOMAIN stored : stored[i] \in StreamRow
  BY <1>1
<1> QED BY <1>1, <1>2 DEF StreamRow

\* The stamp of an answer's first row, which is the newest by id.
LEMMA FirstIsThere ==
    ASSUME ObserveInv, NEW ids \in SUBSET (DOMAIN stored)
    PROVE  /\ FirstTs(ids) \in Nat
           /\ ids # {} => /\ Max(ids) \in ids /\ FirstTs(ids) = stored[Max(ids)].ts
                          /\ \A i \in ids : i <= Max(ids)
<1>1. Len(stored) \in Nat /\ DOMAIN stored = 1 .. Len(stored)
  BY DEF ObserveInv, StreamTyped
<1>2. ids # {} => Max(ids) \in ids /\ \A i \in ids : i <= Max(ids)
  BY <1>1, GreatestOne
<1> QED BY <1>2, RowsAreStamped DEF FirstTs

\* A poll sends what it has read and moves the cursor past it.
LEMMA EndingPollKeeps ==
    ASSUME ObserveInv, NEW p \in Polls, EndPoll(p)
    PROVE  ObserveInv'
<1> DEFINE ids == polls[p].event \cup polls[p].log
<1>1. /\ {"event", "log"} \subseteq polls[p].read
      /\ sentTwice' = sentTwice \cup (ids \cap sentOnce)
      /\ sentOnce' = sentOnce \cup ids
      /\ stream' = [stream EXCEPT !.cursor = NewestStamp(p) + 1]
      /\ polls' = [polls EXCEPT ![p] = [from |-> 0, event |-> {}, log |-> {}, read |-> {}]]
      /\ UNCHANGED <<ms, writing, stored, storedLate, shed, pollsOverlap>>
  BY DEF EndPoll, Asleep
<1>2. /\ stream.open /\ stream.cursor \in Nat /\ polls[p] # Asleep
      /\ polls[p].from \in Nat /\ polls[p].from <= stream.cursor
  BY <1>1 DEF ObserveInv, StreamTyped, PollsTrue, PollRecord, Asleep
<1>3. \A k \in Kinds : /\ polls[p][k] \subseteq RowsFrom(k, polls[p].from)
                       /\ RowsFrom(k, polls[p].from)
                            \subseteq polls[p][k] \cup shed \cup storedLate
  BY <1>1 DEF ObserveInv, PollsTrue, PollHas, Kinds
<1>4. ids \subseteq DOMAIN stored /\ \A i \in ids : stored[i].ts >= polls[p].from
  BY <1>3 DEF RowsFrom, Kinds
<1>5. /\ NewestStamp(p) \in Nat /\ stream.cursor <= NewestStamp(p)
      /\ FirstTs(polls[p].event) <= NewestStamp(p) /\ FirstTs(polls[p].log) <= NewestStamp(p)
  BY <1>2, <1>4, FirstIsThere, GreatestOfThree DEF NewestStamp
<1>6. /\ stream'.open /\ stream'.since = stream.since
      /\ stream'.cursor = NewestStamp(p) + 1 /\ stream.cursor <= stream'.cursor
      /\ stream' \in [open : BOOLEAN, since : Nat, cursor : Nat, fired : Nat]
  <2>1. stream \in [open : BOOLEAN, since : Nat, cursor : Nat, fired : Nat]
    BY DEF ObserveInv, StreamTyped
  <2> DEFINE c == NewestStamp(p) + 1
  <2>2. c \in Nat /\ stream.cursor <= c /\ stream' = [stream EXCEPT !.cursor = c]
    BY <1>1, <1>2, <1>5
  <2> HIDE DEF c
  <2>3. /\ stream'.open = stream.open /\ stream'.since = stream.since /\ stream'.cursor = c
        /\ stream' \in [open : BOOLEAN, since : Nat, cursor : Nat, fired : Nat]
    BY <2>1, <2>2
  <2> QED BY <1>2, <2>2, <2>3 DEF c
<1>7. PollsTrue' /\ polls' \in [Polls -> PollRecord]
  <2>1. 0 <= stream'.cursor /\ stream'.cursor \in Nat
    BY <1>5, <1>6
  <2> QED BY <1>1, <1>6, <2>1, FreshPollTrue
<1>8. StreamTyped'
  BY <1>1, <1>4, <1>6, <1>7 DEF ObserveInv, StreamTyped, PollRecord
<1>9. PollsInTurn'
  <2> SUFFICES ASSUME ~pollsOverlap' PROVE PollsInTurn'
    BY DEF PollsInTurn
  <2>1. /\ polls'[p] = Asleep /\ \A q \in Polls \ {p} : polls'[q] = polls[q]
    BY <1>1 DEF ObserveInv, StreamTyped, Asleep
  <2>2. \A q \in Polls : polls'[q] = Asleep
    BY <1>1, <1>2, <2>1 DEF ObserveInv, PollsInTurn
  <2>3. polls[p].from = stream.cursor
    BY <1>1, <1>2 DEF ObserveInv, PollsInTurn
  <2>4. ASSUME StampsInOrder'
        PROVE  sentTwice' = {} /\ \A i \in sentOnce' : stored'[i].ts < stream'.cursor
    <3>1. /\ sentTwice = {} /\ \A i \in sentOnce : stored[i].ts < stream.cursor
      <4>1. StampsInOrder
        BY <1>1, <2>4 DEF StampsInOrder
      <4> QED BY <1>1, <4>1 DEF ObserveInv, PollsInTurn
    <3>2. \A i \in ids \cup sentOnce : stored[i].ts \in Nat
      BY <1>4, RowsAreStamped
    <3>3. ids \cap sentOnce = {}
      BY <1>2, <1>4, <2>3, <3>1, <3>2
    <3>4. ASSUME NEW k \in Kinds, NEW i \in polls[p][k]
          PROVE  stored[i].ts <= FirstTs(polls[p][k])
      <4> DEFINE m == Max(polls[p][k])
      <4>1. m \in polls[p][k] /\ FirstTs(polls[p][k]) = stored[m].ts /\ i <= m
        <5>1. polls[p][k] \in SUBSET (DOMAIN stored)
          BY <1>3 DEF RowsFrom
        <5> QED BY <3>4, <5>1, FirstIsThere
      <4>2. stored[i].kind = k /\ stored[m].kind = k
        BY <1>3, <4>1 DEF RowsFrom
      <4>3. {i, m} \subseteq sentOnce' /\ i \in DOMAIN stored /\ m \in DOMAIN stored
        BY <1>1, <1>4, <4>1 DEF Kinds
      <4>4. i < m => stored[i].ts <= stored[m].ts
        BY <1>1, <2>4, <4>2, <4>3 DEF StampsInOrder
      <4>5. i = m \/ i < m
        BY <4>1, <4>3 DEF ObserveInv, StreamTyped
      <4>6. stored[i].ts \in Nat
        BY <4>3, RowsAreStamped
      <4> QED BY <4>1, <4>4, <4>5, <4>6
    <3>5. \A i \in ids : stored[i].ts <= NewestStamp(p)
      <4>1. /\ FirstTs(polls[p].event) \in Nat /\ FirstTs(polls[p].log) \in Nat
        BY <1>4, FirstIsThere
      <4>2. \A i \in polls[p].event : stored[i].ts <= FirstTs(polls[p].event)
        BY <3>4 DEF Kinds
      <4>3. \A i \in polls[p].log : stored[i].ts <= FirstTs(polls[p].log)
        BY <3>4 DEF Kinds
      <4> QED BY <1>5, <3>2, <4>1, <4>2, <4>3
    <3> QED BY <1>1, <1>2, <1>5, <1>6, <3>1, <3>2, <3>3, <3>5
  <2> QED BY <2>2, <2>4 DEF PollsInTurn
<1>10. PassedWasSent'
  <2> SUFFICES ASSUME NEW i \in DOMAIN stored,
                      stored[i].ts \in stream.since .. NewestStamp(p)
               PROVE  i \in sentOnce' \cup storedLate \cup shed
    BY <1>1, <1>5, <1>6 DEF PassedWasSent
  <2>1. stored[i] \in StreamRow /\ stream.since \in Nat
    BY DEF ObserveInv, StreamTyped
  <2>2. CASE stored[i].ts < stream.cursor
    <3>1. stored[i].ts \in stream.since .. stream.cursor - 1
      BY <1>2, <2>1, <2>2 DEF StreamRow
    <3> QED BY <1>1, <1>2, <3>1 DEF ObserveInv, PassedWasSent
  <2>3. CASE stored[i].ts >= stream.cursor
    <3>1. stored[i].kind \in Kinds /\ stored[i].ts >= polls[p].from
      BY <1>2, <2>1, <2>3 DEF StreamRow
    <3>2. i \in RowsFrom(stored[i].kind, polls[p].from)
      BY <3>1 DEF RowsFrom
    <3> QED BY <1>1, <1>3, <3>1, <3>2 DEF Kinds
  <2> QED BY <1>2, <2>1, <2>2, <2>3 DEF StreamRow
<1> QED BY <1>7, <1>8, <1>9, <1>10 DEF ObserveInv

\* Every step of the stream keeps the invariant.
LEMMA StreamStepKeeps ==
    ASSUME ObserveInv, StreamNext
    PROVE  ObserveInv'
<1>1. CASE MsPasses
  BY <1>1, WritingBeginsKeeps DEF MsPasses, ObserveInv, StreamTyped
<1>2. CASE OpenStream
  BY <1>2, OpeningStreamKeeps
<1>3. ASSUME NEW w \in Writers, NEW kind \in Kinds, WriteBegins(w, kind)
      PROVE  ObserveInv'
  <2>1. [kind |-> kind, ts |-> ms] \in StreamRow
    BY DEF StreamRow, ObserveInv, StreamTyped
  <2>2. writing' \in [Writers -> {NoWrite} \cup StreamRow]
    BY <1>3, <2>1 DEF WriteBegins, ObserveInv, StreamTyped
  <2> QED BY <1>3, <2>2, WritingBeginsKeeps DEF WriteBegins, ObserveInv, StreamTyped
<1>4. ASSUME NEW w \in Writers, WriteForgotten(w)
      PROVE  ObserveInv'
  <2>1. writing' \in [Writers -> {NoWrite} \cup StreamRow]
    BY <1>4 DEF WriteForgotten, ObserveInv, StreamTyped
  <2> QED BY <1>4, <2>1, WritingBeginsKeeps DEF WriteForgotten, ObserveInv, StreamTyped
<1> QED BY <1>1, <1>2, <1>3, <1>4, StoringKeeps, StartingPollKeeps, PollReadingKeeps,
        EndingPollKeeps, FailingPollKeeps DEF StreamNext, Kinds

\* The polls of a stream have what their tables held past their cursors
\* (observability.ts).
THEOREM StreamInvariant == StreamSpec => []ObserveInv
<1>1. StreamInit => ObserveInv
  BY ObserveInitial
<1>2. ObserveInv /\ UNCHANGED observeVars => ObserveInv'
  <2> SUFFICES ASSUME ObserveInv, UNCHANGED observeVars
               PROVE  ObserveInv'
    OBVIOUS
  <2> QED BY WritingBeginsKeeps DEF observeVars, sendHistory, ObserveInv, StreamTyped
<1>3. ObserveInv /\ [StreamNext]_observeVars => ObserveInv'
  BY <1>2, StreamStepKeeps
<1> QED BY <1>1, <1>3, PTL DEF StreamSpec

\* However polls overlap and fail, what the cursor has passed was sent but for
\* what had to be left or came late, and nothing is sent again if polls do not
\* overlap and the order of storing was that of the stamps (observability.ts).
THEOREM StreamsHold == StreamSpec => []StreamHolds
<1>1. ObserveInv => StreamHolds
  BY DEF ObserveInv, PollsInTurn, StreamHolds, SentAtMostOnce
<1> QED BY <1>1, StreamInvariant, PTL

Busy == {w \in Writers : writing[w] # NoWrite}

\* There is room for what is under way, and what was sent again was sent before.
StreamBounded ==
    /\ ms \in 0 .. LastMs
    /\ IsFiniteSet(Busy) /\ Len(stored) + Cardinality(Busy) <= MaxStored
    /\ sentTwice \subseteq sentOnce

\* Whatever is begun at a time, no more is stored than there is room for.
THEOREM StreamTypesHold == StreamSpec => []StreamTypeOK
<1>1. StreamInit => StreamBounded
  <2> SUFFICES ASSUME StreamInit PROVE StreamBounded
    OBVIOUS
  <2>1. Busy = {}
    BY DEF StreamInit, Busy
  <2>2. IsFiniteSet(Busy) /\ Cardinality(Busy) = 0
    BY <2>1, FS_EmptySet
  <2> QED BY <2>2, StreamAssumption DEF StreamInit, StreamBounded
<1>2. ObserveInv /\ StreamBounded /\ [StreamNext]_observeVars => StreamBounded'
  <2> SUFFICES ASSUME ObserveInv, StreamBounded, [StreamNext]_observeVars
               PROVE  StreamBounded'
    OBVIOUS
  <2>1. /\ LastMs \in Nat /\ MaxStored \in Nat /\ Len(stored) \in Nat
        /\ stored \in Seq(StreamRow)
        /\ writing \in [Writers -> {NoWrite} \cup StreamRow]
        /\ Cardinality(Busy) \in Nat
    BY StreamAssumption, FS_CardinalityType DEF ObserveInv, StreamTyped, StreamBounded
  <2>2. ASSUME UNCHANGED <<writing, stored, sentOnce, sentTwice>>, ms' \in 0 .. LastMs
        PROVE  StreamBounded'
    BY <2>2 DEF StreamBounded, Busy
  <2>3. CASE MsPasses
    <3>1. ms' \in 0 .. LastMs
      BY <2>1, <2>3 DEF MsPasses, StreamBounded
    <3> QED BY <2>2, <2>3, <3>1 DEF MsPasses, sendHistory
  <2>4. CASE OpenStream
    BY <2>2, <2>4 DEF OpenStream, sendHistory, StreamBounded
  <2>5. ASSUME NEW w \in Writers, NEW kind \in Kinds, WriteBegins(w, kind)
        PROVE  StreamBounded'
    <3>1. Busy' = Busy \cup {w} /\ w \notin Busy
      BY <2>1, <2>5 DEF WriteBegins, Busy, NoWrite
    <3>2. IsFiniteSet(Busy') /\ Cardinality(Busy') = Cardinality(Busy) + 1
      BY <3>1, FS_AddElement DEF StreamBounded
    <3>3. Len(stored) + Cardinality(Busy) < MaxStored
      BY <2>5 DEF WriteBegins, Busy
    <3>4. /\ UNCHANGED <<ms, stored, sentOnce, sentTwice>>
      BY <2>5 DEF WriteBegins, sendHistory
    <3> QED BY <2>1, <3>2, <3>3, <3>4 DEF StreamBounded
  <2>6. ASSUME NEW w \in Writers, writing[w] # NoWrite, writing' = [writing EXCEPT ![w] = NoWrite]
        PROVE  IsFiniteSet(Busy') /\ Cardinality(Busy') = Cardinality(Busy) - 1
    <3>1. Busy' = Busy \ {w} /\ w \in Busy
      BY <2>1, <2>6 DEF Busy
    <3> QED BY <3>1, FS_RemoveElement DEF StreamBounded
  <2>7. ASSUME NEW w \in Writers, WriteStored(w)
        PROVE  StreamBounded'
    <3>1. IsFiniteSet(Busy') /\ Cardinality(Busy') = Cardinality(Busy) - 1
      BY <2>6, <2>7 DEF WriteStored
    <3>2. Len(stored') = Len(stored) + 1
      BY <2>1, <2>7 DEF WriteStored
    <3>3. UNCHANGED <<ms, sentOnce, sentTwice>>
      BY <2>7 DEF WriteStored, sendHistory
    <3> QED BY <2>1, <3>1, <3>2, <3>3 DEF StreamBounded
  <2>8. ASSUME NEW w \in Writers, WriteForgotten(w)
        PROVE  StreamBounded'
    <3>1. IsFiniteSet(Busy') /\ Cardinality(Busy') = Cardinality(Busy) - 1
      BY <2>6, <2>8 DEF WriteForgotten
    <3>2. UNCHANGED <<ms, stored, sentOnce, sentTwice>>
      BY <2>8 DEF WriteForgotten, sendHistory
    <3> QED BY <2>1, <3>1, <3>2 DEF StreamBounded
  <2>9. ASSUME NEW p \in Polls, EndPoll(p)
        PROVE  StreamBounded'
    <3>1. sentTwice' \subseteq sentOnce' /\ UNCHANGED <<ms, writing, stored>>
      BY <2>9 DEF EndPoll, StreamBounded
    <3> QED BY <3>1 DEF StreamBounded, Busy
  <2>10. ASSUME NEW p \in Polls,
                StartPoll(p) \/ FailPoll(p) \/ \E kind \in Kinds : ReadTable(p, kind)
         PROVE  StreamBounded'
    BY <2>2, <2>10 DEF StartPoll, FailPoll, ReadTable, sendHistory, StreamBounded
  <2>11. CASE UNCHANGED observeVars
    BY <2>2, <2>11 DEF observeVars, sendHistory, StreamBounded
  <2> QED BY <2>3, <2>4, <2>5, <2>7, <2>8, <2>9, <2>10, <2>11 DEF StreamNext, Kinds
<1>3. ObserveInv /\ StreamBounded => StreamTypeOK
  <2> SUFFICES ASSUME ObserveInv, StreamBounded PROVE StreamTypeOK
    OBVIOUS
  <2>1. Len(stored) \in Nat /\ Cardinality(Busy) \in Nat /\ MaxStored \in Nat
    BY StreamAssumption, FS_CardinalityType DEF ObserveInv, StreamTyped, StreamBounded
  <2>2. Len(stored) <= MaxStored
    BY <2>1 DEF StreamBounded
  <2> QED BY <2>2 DEF StreamTypeOK, StreamBounded, ObserveInv, StreamTyped
<1> QED BY <1>1, <1>2, <1>3, StreamInvariant, PTL DEF StreamSpec

(***************************************************************************)
(* ViewState: the last call on its way to the host tells the view's state. *)
(***************************************************************************)

ViewTyped ==
    /\ store \in Values /\ view \in State /\ context \in State
    /\ viewUUID \in Ids \cup {Absent}
    /\ storage \in [Ids -> State]
    /\ sends \in Seq(State)
    /\ connected \in BOOLEAN /\ stale \in BOOLEAN /\ lost \in BOOLEAN
    /\ described \in Descriptions \cup {Absent}

\* Only a view to which nothing has happened has no value.
FreshStore == view.value = Absent => view = Nothing /\ store = Default

LastCallTells ==
    sends # <<>> /\ ~stale /\ view # Nothing => Tells(sends[Len(sends)])

ViewInv == ViewTyped /\ FreshStore /\ LastCallTells /\ ViewAgrees

\* At first a view has its default, or what was handed to it.
LEMMA ViewInitial == ViewInit => ViewInv
<1> SUFFICES ASSUME ViewInit PROVE ViewInv
  OBVIOUS
<1>1. Nothing \in State /\ Nothing.value = Absent /\ sends = <<>> /\ view = Nothing
  BY DEF Nothing, State, ViewInit
<1>2. ViewTyped
  <2>1. storage \in [Ids -> State] /\ sends \in Seq(State)
    BY <1>1 DEF ViewInit
  <2>2. /\ store \in Values /\ view \in State /\ context \in State
        /\ viewUUID = Absent /\ described = Absent
    BY <1>1, ViewAssumption DEF ViewInit
  <2> QED BY <2>1, <2>2 DEF ViewInit, ViewTyped
<1>3. FreshStore /\ LastCallTells
  BY <1>1 DEF ViewInit, FreshStore, LastCallTells
<1>4. ViewAgrees
  <2>1. view.said = described
    BY DEF ViewInit, Nothing
  <2> QED BY <1>1, <2>1 DEF ViewInit, ViewAgrees
<1> QED BY <1>2, <1>3, <1>4 DEF ViewInv

\* The state that a call was for, and the state it leaves behind.
LEMMA RehydratedTells ==
    ASSUME ViewTyped, NEW s \in State, view' = Rehydrated(s)
    PROVE  /\ view' \in State /\ view'.value \in Values /\ view'.said = s.said
           /\ view' # Nothing
           /\ s.value # Absent => view'.value = s.value
           /\ s.value = Absent => view'.value = store
           /\ (s.value = Absent => store = Default) => Tells(s)'
           /\ Tells(view)'
<1>1. /\ view' \in State /\ view'.said = s.said
      /\ view'.value = IF s.value = Absent THEN store ELSE s.value
  BY DEF Rehydrated, State, ViewTyped
<1>2. view'.value \in Values
  BY <1>1 DEF State, ViewTyped
<1>3. view' # Nothing
  BY <1>2, ViewAssumption DEF Nothing
<1> QED BY <1>1, <1>2, <1>3 DEF Tells

\* The state is set by the view or taken from its host (SetViewState).
LEMMA SettingKeeps ==
    ASSUME ViewInv, NEW s \in State, SetViewState(s), s.value = view.value,
           UNCHANGED <<viewUUID, connected, context, lost>>,
           described' = s.said, described' \in Descriptions, stale' = FALSE
    PROVE  ViewInv'
<1>1. ViewTyped /\ view' = Rehydrated(s) /\ store' = view'.value
  BY DEF ViewInv, SetViewState
<1>2. s.value = Absent => store = Default
  BY DEF ViewInv, FreshStore
<1>3. /\ view' \in State /\ view'.value \in Values /\ view'.said = s.said
      /\ view' # Nothing /\ Tells(s)'
  BY <1>1, <1>2, RehydratedTells
<1>4. /\ sends' \in Seq(State) /\ sends' # <<>> /\ sends'[Len(sends')] = s
  <2>1. Rehydrated(s) \in State /\ sends \in Seq(State)
    BY <1>1, <1>3 DEF ViewTyped
  <2>2. CASE s.value = store
    BY <2>1, <2>2 DEF SetViewState
  <2>3. CASE s.value # store
    BY <2>1, <2>3 DEF SetViewState
  <2> QED BY <2>2, <2>3
<1>5. /\ storage' \in [Ids -> State]
      /\ viewUUID # Absent => storage'[viewUUID] = s
  BY <1>1 DEF SetViewState, Persist, ViewTyped
<1>6. ViewTyped'
  BY <1>1, <1>3, <1>4, <1>5 DEF ViewTyped
<1>7. FreshStore' /\ LastCallTells'
  <2>1. LastCallTells'
    BY <1>3, <1>4 DEF LastCallTells, Tells
  <2>2. FreshStore'
    BY <1>3, ViewAssumption DEF FreshStore
  <2> QED BY <2>1, <2>2
<1>8. ViewAgrees'
  <2>1. viewUUID' # Absent => Tells(storage[viewUUID])'
    BY <1>3, <1>5 DEF Tells
  <2> QED BY <1>1, <1>3, <1>4, <2>1 DEF ViewAgrees
<1> QED BY <1>6, <1>7, <1>8 DEF ViewInv

\* The application's store is set.
LEMMA StoreSettingKeeps ==
    ASSUME ViewInv, SetStore
    PROVE  ViewInv'
<1>1. PICK v \in Values : store' = v /\ view' = [value |-> v, said |-> view.said]
  BY DEF SetStore
<1>2. /\ view' \in State /\ view' # Nothing /\ view'.value = v /\ v # Absent
      /\ view'.said = view.said
  BY <1>1, ViewAssumption DEF State, Nothing, ViewInv, ViewTyped
<1>3. /\ sends' \in Seq(State) /\ sends' # <<>> /\ sends'[Len(sends')] = view'
  BY <1>2 DEF SetStore, ViewInv, ViewTyped
<1>4. /\ storage' \in [Ids -> State]
      /\ viewUUID # Absent => storage'[viewUUID] = view'
      /\ UNCHANGED <<viewUUID, connected, context, described, stale, lost>>
  BY <1>2 DEF SetStore, Persist, ViewInv, ViewTyped
<1>5. ViewTyped'
  BY <1>1, <1>2, <1>3, <1>4 DEF ViewInv, ViewTyped
<1>6. LastCallTells'
  BY <1>3 DEF LastCallTells, Tells
<1>7. ViewAgrees'
  <2>1. viewUUID' # Absent => Tells(storage[viewUUID])'
    BY <1>4 DEF Tells
  <2> QED BY <1>1, <1>2, <1>3, <1>4, <2>1 DEF ViewInv, ViewAgrees
<1> QED BY <1>1, <1>2, <1>5, <1>6, <1>7 DEF ViewInv, FreshStore

\* What was stored for a view is restored.
LEMMA RestoringKeeps ==
    ASSUME ViewInv, NEW u \in Ids, viewUUID' = u, Restore(u, storage[u]), stale' = TRUE,
           UNCHANGED <<connected, context, described, lost>>
    PROVE  ViewInv'
<1>0. PICK s \in State : s = storage[u]
  BY DEF ViewInv, ViewTyped
<1>1. ViewTyped /\ view' = Rehydrated(s) /\ store' = view'.value /\ u # Absent
  BY <1>0, ViewAssumption DEF ViewInv, Restore
<1>2. /\ view' \in State /\ view'.value \in Values /\ view' # Nothing
      /\ s.value # Absent => Tells(s)'
      /\ Tells(view)'
  BY <1>1, RehydratedTells
<1>3. /\ storage' \in [Ids -> State] /\ sends' \in Seq(State)
      /\ s.value # store => storage'[u] = view'
      /\ s.value = store => storage'[u] = s
  BY <1>0, <1>1, <1>2 DEF Restore, Persist, ViewTyped
<1>4. Tells(storage[viewUUID])'
  <2>1. s.value = store => s.value # Absent
    BY <1>1, ViewAssumption DEF ViewTyped
  <2> QED BY <1>2, <1>3, <2>1 DEF Tells
<1>5. ViewTyped'
  BY <1>1, <1>2, <1>3 DEF ViewTyped
<1>6. FreshStore' /\ LastCallTells'
  BY <1>2, ViewAssumption DEF FreshStore, LastCallTells
<1>7. ViewAgrees'
  BY <1>1, <1>4 DEF ViewAgrees
<1> QED BY <1>5, <1>6, <1>7 DEF ViewInv

\* Every step of a view keeps the invariant.
LEMMA ViewStepKeeps ==
    ASSUME ViewInv, ViewNext
    PROVE  ViewInv'
<1>1. CASE SetStore
  BY <1>1, StoreSettingKeeps
<1>2. CASE Describe
  <2>1. PICK d \in Descriptions : SetViewState([view EXCEPT !.said = d]) /\ described' = d
    BY <1>2 DEF Describe
  <2> DEFINE s == [value |-> view.value, said |-> d]
  <2>2. s \in State /\ [view EXCEPT !.said = d] = s
    BY DEF State, ViewInv, ViewTyped
  <2> HIDE DEF s
  <2>3. SetViewState(s) /\ s.value = view.value /\ described' = s.said
    BY <2>1, <2>2 DEF s
  <2> QED BY <1>2, <2>1, <2>2, <2>3, SettingKeeps DEF Describe
<1>3. CASE ToolResult
  <2>1. PICK u \in Ids \ {viewUUID} :
          /\ viewUUID' = u
          /\ IF storage[u] = Nothing
             THEN UNCHANGED <<store, view, storage, sends, stale>>
             ELSE Restore(u, storage[u]) /\ stale' = TRUE
          /\ UNCHANGED <<connected, context, described, lost>>
    BY <1>3 DEF ToolResult
  <2>2. CASE storage[u] = Nothing
    BY <2>1, <2>2 DEF ViewInv, ViewTyped, FreshStore, LastCallTells, ViewAgrees, Tells
  <2>3. CASE storage[u] # Nothing
    BY <2>1, <2>3, RestoringKeeps
  <2> QED BY <2>2, <2>3
<1>4. CASE Connect
  BY <1>4 DEF Connect, ViewInv, ViewTyped, FreshStore, LastCallTells, ViewAgrees, Tells
<1>5. CASE HostUpdates
  <2>1. /\ sends # <<>> /\ sends \in Seq(State) /\ sends' = Tail(sends)
        /\ UNCHANGED <<store, view, viewUUID, storage, connected, described, stale>>
    BY <1>5 DEF HostUpdates, ViewInv, ViewTyped
  <2>2. /\ sends' \in Seq(State) /\ Head(sends) \in State
        /\ sends' # <<>> => sends'[Len(sends')] = sends[Len(sends)]
        /\ sends' = <<>> => Head(sends) = sends[Len(sends)]
    BY <2>1
  <2>3. context' \in State /\ lost' \in BOOLEAN /\ (~lost' => context' = Head(sends))
    BY <1>5, <2>2 DEF HostUpdates, ViewInv, ViewTyped
  <2>4. ViewTyped' /\ FreshStore'
    BY <2>1, <2>2, <2>3 DEF ViewInv, ViewTyped, FreshStore
  <2>5. LastCallTells'
    BY <2>1, <2>2 DEF ViewInv, LastCallTells, Tells
  <2>6. ViewAgrees'
    BY <2>1, <2>2, <2>3 DEF ViewInv, LastCallTells, ViewAgrees, Tells
  <2> QED BY <2>4, <2>5, <2>6 DEF ViewInv
<1>6. CASE Evicted
  <2>1. PICK u \in Ids : storage' = [storage EXCEPT ![u] = Nothing]
    BY <1>6 DEF Evicted
  <2>2. Nothing \in State
    BY DEF Nothing, State
  <2>3. /\ storage' \in [Ids -> State]
        /\ viewUUID \in Ids => storage'[viewUUID] \in {Nothing, storage[viewUUID]}
    BY <2>1, <2>2 DEF ViewInv, ViewTyped
  <2>4. ViewTyped' /\ FreshStore' /\ LastCallTells'
    BY <1>6, <2>3 DEF Evicted, ViewInv, ViewTyped, FreshStore, LastCallTells, Tells
  <2>5. ViewAgrees'
    BY <1>6, <2>3 DEF Evicted, ViewInv, ViewTyped, ViewAgrees, Tells
  <2> QED BY <2>4, <2>5 DEF ViewInv
<1>7. CASE Remount
  <2>1. Nothing \in State /\ Nothing.value = Absent /\ Nothing.said = Absent
    BY DEF Nothing, State
  <2>2. ViewTyped'
    <3>1. <<>> \in Seq(State)
      OBVIOUS
    <3> QED BY <1>7, <2>1, <3>1, ViewAssumption DEF Remount, ViewInv, ViewTyped
  <2>3. FreshStore' /\ LastCallTells'
    BY <1>7, <2>1 DEF Remount, FreshStore, LastCallTells
  <2>4. ViewAgrees'
    BY <1>7, <2>1 DEF Remount, ViewAgrees
  <2> QED BY <2>2, <2>3, <2>4 DEF ViewInv
<1> QED BY <1>1, <1>2, <1>3, <1>4, <1>5, <1>6, <1>7 DEF ViewNext

\* The last call on its way to the host tells the state (web/bridges/mcp-app).
THEOREM ViewInvariant == ViewSpec => []ViewInv
<1>1. ViewInit => ViewInv
  BY ViewInitial
<1>2. ViewInv /\ UNCHANGED viewVars => ViewInv'
  BY DEF viewVars, ViewInv, ViewTyped, FreshStore, LastCallTells, ViewAgrees, Tells
<1>3. ViewInv /\ [ViewNext]_viewVars => ViewInv'
  BY <1>2, ViewStepKeeps
<1> QED BY <1>1, <1>3, PTL DEF ViewSpec

\* However calls nest and restorations come in between, the store, the view's
\* state, its entry and, in the end, the host's context agree
\* (mcp-app/adaptor.ts, create-store.ts).
THEOREM ViewsAgree == ViewSpec => []ViewAgrees
<1>1. ViewInv => ViewAgrees
  BY DEF ViewInv
<1> QED BY <1>1, ViewInvariant, PTL

\* No call is begun when so many wait, and one that runs adds two at most.
THEOREM ViewTypesHold == ViewSpec => []ViewTypeOK
<1> DEFINE Bounded == Len(sends) <= MaxSends + 1
<1>1. ViewInit => Bounded
  BY ViewAssumption DEF ViewInit
<1>2. ViewInv /\ Bounded /\ [ViewNext]_viewVars => Bounded'
  <2> SUFFICES ASSUME ViewInv, Bounded, [ViewNext]_viewVars PROVE Bounded'
    OBVIOUS
  <2>1. MaxSends \in Nat /\ sends \in Seq(State) /\ Len(sends) \in Nat
    BY ViewAssumption DEF ViewInv, ViewTyped
  <2>2. \A s : Len(Append(sends, s)) = Len(sends) + 1
    BY <2>1
  <2>3. \A s, t : Len(sends \o <<s, t>>) = Len(sends) + 2
    BY <2>1
  <2>4. CASE SetStore
    BY <2>1, <2>2, <2>4 DEF SetStore
  <2>5. CASE Describe
    BY <2>1, <2>2, <2>3, <2>5 DEF Describe, SetViewState
  <2>6. CASE ToolResult
    BY <2>1, <2>2, <2>6 DEF ToolResult, Restore
  <2>7. CASE HostUpdates
    <3>1. Len(Tail(sends)) = Len(sends) - 1
      BY <2>1, <2>7 DEF HostUpdates
    <3> QED BY <2>1, <2>7, <3>1 DEF HostUpdates
  <2>8. CASE Connect \/ Evicted \/ UNCHANGED viewVars
    BY <2>8 DEF Connect, Evicted, viewVars
  <2>9. CASE Remount
    BY <2>1, <2>9 DEF Remount
  <2> QED BY <2>4, <2>5, <2>6, <2>7, <2>8, <2>9 DEF ViewNext
<1>3. ViewInv /\ Bounded => ViewTypeOK
  BY DEF ViewInv, ViewTyped, ViewTypeOK
<1> QED BY <1>1, <1>2, <1>3, ViewInvariant, PTL DEF ViewSpec

(***************************************************************************)
(* ResponseTransform: what is held back follows what has left.             *)
(***************************************************************************)

ResponseTyped ==
    /\ wrapper \in {"none", "buffering", "aborted"}
    /\ chunks \in Seq(Nat) /\ wire \in Seq(Nat) /\ given \in Seq(Nat)
    /\ headersSent = (wireHead # "none")
    /\ phase \in {"open", "ended", "closed", "stuck"}
    /\ locals \subseteq {"served", "rescued", "spa", "reencoded"}
    /\ head \in Heads

\* What was written is what has left and what is held back, and nothing leaves
\* while something is.
HeldBackFollows ==
    /\ wire \o chunks = given
    /\ \A i \in DOMAIN given : given[i] = i
    /\ wrapper # "buffering" => chunks = <<>>
    /\ wrapper = "buffering" => wire = <<>>
    /\ head = givenHead /\ wireHead \in {"none", head}
    /\ head \in {"page", "missing", "other"}

\* Being rescued is the trailing router's: it wrote a document.
RescueFlags == IF given = Document THEN {"served", "rescued"} ELSE {}

\* A response that was ended went out in one of four ways.
EndedTells ==
    \/ wire = given /\ wireHead = givenHead /\ wireHead # "private document"
       /\ (wireHead = "document" => given = Document)
       /\ locals = RescueFlags
    \/ wire = Document /\ wireHead = "document" /\ givenHead = "missing"
       /\ locals = {"served", "rescued"}
    \/ wire = Document /\ wireHead = "private document"
       /\ givenHead \in {"page", "document"}
       /\ locals = {"served", "spa"} \cup RescueFlags
    \/ wire = Markdown(given) /\ wireHead = "private document"
       /\ givenHead \in {"page", "document"}
       /\ locals = {"reencoded"} \cup RescueFlags

InPhases ==
    /\ phase \in {"open", "stuck"} => HeldBackFollows
    /\ phase = "open" => locals = {} /\ record = NotYet
    /\ phase = "stuck" => locals = {"served", "rescued"} /\ record \in {NotYet, locals}
    /\ phase = "ended" => EndedTells /\ record \in {NotYet, locals}

ResponseInv == ResponseTyped /\ InPhases /\ RecordTellsWire

\* The rescued document is none of the markdown that is made of a body.
LEMMA DocumentIsNoText ==
    /\ Document \in Seq(Nat) /\ Document # <<>> /\ Document[1] = 0 /\ Len(Document) = 1
    /\ \A body \in Seq(Nat) : /\ Markdown(body) \in Seq(Nat) /\ Markdown(body) # Document
                              /\ Len(Markdown(body)) = Len(body) + 1
<1>1. \A body \in Seq(Nat) : /\ Markdown(body) \in Seq(Nat)
                            /\ Len(Markdown(body)) = Len(body) + 1
                            /\ Markdown(body)[Len(body) + 1] = MaxChunks + 1
  BY TransformAssumption DEF Markdown
<1>2. Document \in Seq(Nat) /\ Document # <<>> /\ Document[1] = 0 /\ Len(Document) = 1
  BY DEF Document
<1>3. ASSUME NEW body \in Seq(Nat), Markdown(body) = Document
      PROVE  FALSE
  <2>1. Len(body) \in Nat
    BY LenProperties
  <2>2. Len(body) + 1 = 1
    BY <1>1, <1>2, <1>3
  <2>3. MaxChunks + 1 = 0
    BY <1>1, <1>2, <1>3, <2>2
  <2> QED BY <2>3, TransformAssumption
<1> QED BY <1>1, <1>2, <1>3

\* What an application wrote is no document, nor is a part of it.
LEMMA TextIsNoDocument ==
    ASSUME ResponseTyped, HeldBackFollows
    PROVE  /\ given # Document /\ wire # Document /\ wire # Markdown(given)
           /\ Len(wire) <= Len(given)
           /\ \A i \in 1 .. Len(wire) : wire[i] = given[i]
<1>1. /\ wire \in Seq(Nat) /\ chunks \in Seq(Nat) /\ given \in Seq(Nat)
      /\ given = wire \o chunks /\ \A i \in DOMAIN given : given[i] = i
  BY DEF ResponseTyped, HeldBackFollows
<1>2. /\ Len(given) = Len(wire) + Len(chunks) /\ Len(wire) \in Nat /\ Len(chunks) \in Nat
      /\ \A i \in 1 .. Len(wire) : wire[i] = given[i]
  BY <1>1, ConcatProperties
<1>3. Len(given) >= 1 => given[1] = 1
  <2>1. DOMAIN given = 1 .. Len(given) /\ Len(given) \in Nat
    BY LenProperties DEF ResponseTyped
  <2>2. Len(given) >= 1 => 1 \in DOMAIN given
    BY <2>1
  <2> QED BY <2>2 DEF HeldBackFollows
<1>4. given # Document /\ wire # Document
  <2>1. Document[1] = 0 /\ Len(Document) = 1
    BY DocumentIsNoText
  <2>2. given # Document
    BY <1>3, <2>1
  <2>3. ASSUME wire = Document PROVE FALSE
    <3>1. Len(wire) = 1 /\ wire[1] = 0
      BY <2>1, <2>3
    <3> QED BY <1>2, <1>3, <3>1
  <2> QED BY <2>2, <2>3
<1>5. wire # Markdown(given)
  <2>1. Len(Markdown(given)) = Len(given) + 1
    BY <1>1, DocumentIsNoText
  <2>2. Len(wire) # Len(given) + 1
    BY <1>2
  <2> QED BY <2>1, <2>2
<1> QED BY <1>2, <1>4, <1>5

\* At first nothing is written.
LEMMA ResponseInitial == ResponseInit => ResponseInv
<1> SUFFICES ASSUME ResponseInit PROVE ResponseInv
  OBVIOUS
<1>1. ResponseTyped
  <2>1. <<>> \in Seq(Nat)
    OBVIOUS
  <2> QED BY <2>1 DEF ResponseInit, ResponseTyped, Heads
<1>2. HeldBackFollows
  BY DEF ResponseInit, HeldBackFollows
<1> QED BY <1>1, <1>2 DEF ResponseInit, ResponseInv, InPhases, RecordTellsWire

\* The flags of a response that ended are true of it.
LEMMA EndedRecordTells ==
    ASSUME ResponseTyped, EndedTells, record' = locals,
           UNCHANGED <<wire, wireHead, given, locals>>
    PROVE  RecordTellsWire'
<1>1. given \in Seq(Nat) /\ Markdown(given) # Document /\ Markdown(given) # given
  BY DocumentIsNoText DEF ResponseTyped
<1>2. Markdown(given)' = Markdown(given)
  BY DEF Markdown
<1>3. Document' = Document
  BY DEF Document
<1>4. CASE given = Document
  BY <1>1, <1>2, <1>3, <1>4 DEF EndedTells, RescueFlags, RecordTellsWire
<1>5. CASE given # Document
  BY <1>1, <1>2, <1>3, <1>5 DEF EndedTells, RescueFlags, RecordTellsWire
<1> QED BY <1>4, <1>5

\* The application's next bytes go on where it was.
LEMMA NextIsNumbered ==
    ASSUME ResponseTyped, HeldBackFollows, NEW last \in {<<>>, NextChunk}
    PROVE  /\ last \in Seq(Nat) /\ given \o last \in Seq(Nat) /\ chunks \o last \in Seq(Nat)
           /\ wire \o (chunks \o last) = given \o last
           /\ \A i \in DOMAIN (given \o last) : (given \o last)[i] = i
           /\ given \o last # Document
<1>1. /\ wire \in Seq(Nat) /\ chunks \in Seq(Nat) /\ given \in Seq(Nat)
      /\ DOMAIN given = 1 .. Len(given) /\ Len(given) \in Nat
      /\ \A i \in 1 .. Len(given) : given[i] = i
  BY LenProperties DEF ResponseTyped, HeldBackFollows
<1>2. last \in Seq(Nat) /\ (last = <<>> \/ (Len(last) = 1 /\ last[1] = Len(given) + 1))
  <2>1. <<>> \in Seq(Nat)
    OBVIOUS
  <2>2. NextChunk \in Seq(Nat) /\ Len(NextChunk) = 1 /\ NextChunk[1] = Len(given) + 1
    BY <1>1 DEF NextChunk
  <2> QED BY <2>1, <2>2
<1>3. given \o last \in Seq(Nat) /\ chunks \o last \in Seq(Nat)
  BY <1>1, <1>2, ConcatProperties
<1>4. wire \o (chunks \o last) = given \o last
  <2>1. \A s, t, u \in Seq(Nat) : (s \o t) \o u = s \o (t \o u)
    BY ConcatAssociative, SMTT(30)
  <2>2. wire \in Seq(Nat) /\ chunks \in Seq(Nat) /\ last \in Seq(Nat)
    BY <1>1, <1>2
  <2>3. (wire \o chunks) \o last = wire \o (chunks \o last)
    BY <2>1, <2>2, Zenon
  <2> QED BY <2>3 DEF HeldBackFollows
<1>5. \A i \in 1 .. Len(given \o last) : (given \o last)[i] = i
  <2>1. CASE last = <<>>
    <3>1. given \o last = given
      BY <1>1, <2>1, ConcatEmptySeq
    <3> QED BY <1>1, <3>1
  <2>2. CASE Len(last) = 1 /\ last[1] = Len(given) + 1
    <3>1. /\ Len(given \o last) = Len(given) + Len(last)
          /\ \A i \in 1 .. Len(given) + Len(last) :
               (given \o last)[i] = IF i <= Len(given) THEN given[i] ELSE last[i - Len(given)]
      BY <1>1, <1>2, ConcatProperties
    <3>2. ASSUME NEW i \in 1 .. Len(given) + 1
          PROVE  (given \o last)[i] = i
      <4>1. i \in 1 .. Len(given) + Len(last)
        BY <2>2
      <4>2. CASE i <= Len(given)
        BY <1>1, <3>1, <4>1, <4>2
      <4>3. CASE ~(i <= Len(given))
        <5>1. i - Len(given) = 1 /\ i = Len(given) + 1
          BY <1>1, <4>3
        <5> QED BY <2>2, <3>1, <4>1, <4>3, <5>1
      <4> QED BY <4>2, <4>3
    <3> QED BY <2>2, <3>1, <3>2
  <2> QED BY <1>2, <2>1, <2>2
<1>6. DOMAIN (given \o last) = 1 .. Len(given \o last) /\ Len(given \o last) \in Nat
  BY <1>3, LenProperties
<1>7. given \o last # Document
  <2> SUFFICES ASSUME given \o last = Document PROVE FALSE
    OBVIOUS
  <2>1. Len(given \o last) = 1 /\ (given \o last)[1] = 0
    BY DocumentIsNoText
  <2> QED BY <1>5, <2>1
<1> QED BY <1>2, <1>3, <1>4, <1>5, <1>6, <1>7

\* A chunk is written through the wrapper (Write).
LEMMA ChunkKeeps ==
    ASSUME ResponseInv, Write
    PROVE  ResponseInv'
<1>1. /\ phase = "open" /\ HeldBackFollows /\ ResponseTyped /\ record = NotYet
      /\ given' = given \o NextChunk
      /\ UNCHANGED <<mount, gate, head, givenHead, locals, phase, record>>
  BY DEF Write, ResponseInv, InPhases, requestVars
<1>2. /\ NextChunk \in Seq(Nat) /\ given' \in Seq(Nat)
      /\ chunks \o NextChunk \in Seq(Nat)
      /\ wire \o (chunks \o NextChunk) = given'
      /\ \A i \in DOMAIN given' : given'[i] = i
  BY <1>1, NextIsNumbered
<1>3. head # "none"
  BY <1>1 DEF HeldBackFollows
<1>4. ASSUME ResponseTyped', HeldBackFollows'
      PROVE  ResponseInv'
  BY <1>1, <1>4 DEF ResponseInv, InPhases, RecordTellsWire
<1>5. CASE wrapper # "buffering"
  <2>1. /\ chunks = <<>> /\ Send(NextChunk, head) /\ UNCHANGED <<wrapper, chunks>>
    BY <1>1, <1>5 DEF Write, HeldBackFollows
  <2>2. chunks \o NextChunk = NextChunk /\ wire' = wire \o NextChunk
    BY <1>2, <2>1, ConcatEmptySeq DEF Send
  <2>3. wire' = given' /\ given' \o <<>> = given'
    BY <1>2, <2>2, ConcatEmptySeq
  <2>4. HeldBackFollows'
    BY <1>1, <1>2, <1>5, <2>1, <2>3 DEF HeldBackFollows, Send
  <2>5. ResponseTyped'
    BY <1>1, <1>2, <1>3, <2>1, <2>3 DEF ResponseTyped, Send
  <2> QED BY <1>4, <2>4, <2>5
<1>6. CASE wrapper = "buffering" /\ Abort
  <2>1. /\ wrapper' = "aborted" /\ Send(chunks \o NextChunk, head) /\ chunks' = <<>>
    BY <1>6 DEF Abort
  <2>2. wire' = given' /\ given' \o <<>> = given'
    BY <1>2, <2>1, ConcatEmptySeq DEF Send
  <2>3. HeldBackFollows'
    BY <1>1, <1>2, <2>1, <2>2 DEF HeldBackFollows, Send
  <2>4. ResponseTyped'
    <3>1. <<>> \in Seq(Nat)
      OBVIOUS
    <3> QED BY <1>1, <1>2, <1>3, <2>1, <2>2, <3>1 DEF ResponseTyped, Send
  <2> QED BY <1>4, <2>3, <2>4
<1>7. CASE wrapper = "buffering" /\ chunks' = chunks \o NextChunk
           /\ UNCHANGED <<wrapper, wire, wireHead, headersSent>>
  <2>1. HeldBackFollows'
    BY <1>1, <1>2, <1>7 DEF HeldBackFollows
  <2>2. ResponseTyped'
    BY <1>1, <1>2, <1>7 DEF ResponseTyped
  <2> QED BY <1>4, <2>1, <2>2
<1> QED BY <1>5, <1>6, <1>7 DEF Write

\* end() sends what was written, or something else in its place.
LEMMA FinalizingTells ==
    ASSUME ResponseTyped, NEW body \in Seq(Nat), NEW h \in Heads \ {"private document"},
           given' \in Seq(Nat), wire \o body = given', givenHead' = h,
           wireHead \in {"none", h}, wrapper = "buffering" => wire = <<>>,
           h = "document" => given' = Document,
           NEW o \in Outcomes(body, h), Send(o.body, o.head),
           locals' = RescueFlags' \cup o.flags
    PROVE  /\ EndedTells' /\ wire' \in Seq(Nat) /\ headersSent' = (wireHead' # "none")
           /\ locals' \subseteq {"served", "rescued", "spa", "reencoded"}
           /\ o.head \in Heads
<1>1. h # "none" /\ wire \in Seq(Nat)
  BY DEF Heads, ResponseTyped
<1>2. CASE o.body = body /\ o.head = h /\ o.flags = {}
  <2>1. wire' = given' /\ wireHead' = h /\ locals' = RescueFlags' /\ headersSent' = TRUE
    BY <1>1, <1>2 DEF Send
  <2> QED BY <1>1, <1>2, <2>1 DEF EndedTells, RescueFlags
<1>3. CASE wrapper = "buffering" /\ ~headersSent
           /\ \/ h = "missing" /\ o.body = Document /\ o.head = "document"
                 /\ o.flags = {"served", "rescued"}
              \/ h \in {"page", "document"} /\ o.head = "private document"
                 /\ \/ o.body = Document /\ o.flags = {"served", "spa"}
                    \/ o.body = Markdown(body) /\ o.flags = {"reencoded"}
  <2>1. wire = <<>> /\ wireHead = "none"
    BY <1>3 DEF ResponseTyped
  <2>2. body = given'
    BY <2>1, ConcatEmptySeq
  <2>3. o.body \in Seq(Nat)
    BY <1>3, DocumentIsNoText
  <2>4. wire' = o.body /\ wireHead' = o.head /\ headersSent' = TRUE
    BY <2>1, <2>3, ConcatEmptySeq DEF Send
  <2>5. RescueFlags' \subseteq {"served", "rescued"}
    BY DEF RescueFlags
  <2>6. wire' \in Seq(Nat) /\ headersSent' = (wireHead' # "none") /\ o.head \in Heads
        /\ locals' \subseteq {"served", "rescued", "spa", "reencoded"}
    BY <1>3, <2>3, <2>4, <2>5 DEF Heads
  <2>7. CASE h = "missing" /\ o.body = Document /\ o.head = "document"
             /\ o.flags = {"served", "rescued"}
    <3>1. locals' = {"served", "rescued"}
      BY <2>5, <2>7
    <3> QED BY <2>4, <2>6, <2>7, <3>1 DEF EndedTells
  <2>8. CASE h \in {"page", "document"} /\ o.head = "private document"
             /\ o.body = Document /\ o.flags = {"served", "spa"}
    BY <2>4, <2>6, <2>8 DEF EndedTells
  <2>9. CASE h \in {"page", "document"} /\ o.head = "private document"
             /\ o.body = Markdown(body) /\ o.flags = {"reencoded"}
    <3>1. Markdown(given)' = Markdown(body)
      BY <2>2 DEF Markdown
    <3> QED BY <2>4, <2>6, <2>9, <3>1 DEF EndedTells
  <2> QED BY <1>3, <2>7, <2>8, <2>9
<1> DEFINE asIs == [body |-> body, head |-> h, flags |-> {}]
           rescue == mount = "standalone" /\ "serve" \in gate /\ h = "missing"
           page == h \in {"page", "document"}
<1>4. CASE wrapper # "buffering" \/ headersSent
  <2>1. o = asIs
    BY <1>4 DEF Outcomes
  <2> QED BY <1>2, <2>1
<1>5. CASE wrapper = "buffering" /\ ~headersSent
  <2>1. CASE rescue
    <3>1. o \in {asIs, [body |-> Document, head |-> "document",
                        flags |-> {"served", "rescued"}]}
      BY <1>5, <2>1, Zenon DEF Outcomes
    <3> QED BY <1>2, <1>3, <1>5, <2>1, <3>1
  <2>2. CASE ~rescue /\ page /\ "spa" \in gate
    <3>1. o \in {asIs, [body |-> Document, head |-> "private document",
                        flags |-> {"served", "spa"}]}
      BY <1>5, <2>2, Zenon DEF Outcomes
    <3>2. CASE o = asIs
      BY <1>2, <3>2
    <3>3. CASE o = [body |-> Document, head |-> "private document",
                    flags |-> {"served", "spa"}]
      <4>1. o.body = Document /\ o.head = "private document" /\ o.flags = {"served", "spa"}
        BY <3>3
      <4>2. h \in {"page", "document"}
        BY <2>2
      <4> QED BY <1>3, <1>5, <4>1, <4>2
    <3> QED BY <3>1, <3>2, <3>3
  <2>3. CASE ~rescue /\ page /\ "spa" \notin gate /\ "reencode" \in gate
    <3>1. o \in {asIs, [body |-> Markdown(body), head |-> "private document",
                        flags |-> {"reencoded"}]}
      BY <1>5, <2>3, Zenon DEF Outcomes
    <3>2. CASE o = asIs
      BY <1>2, <3>2
    <3>3. CASE o = [body |-> Markdown(body), head |-> "private document",
                    flags |-> {"reencoded"}]
      <4>1. o.body = Markdown(body) /\ o.head = "private document" /\ o.flags = {"reencoded"}
        BY <3>3
      <4>2. h \in {"page", "document"}
        BY <2>3
      <4> QED BY <1>3, <1>5, <4>1, <4>2
    <3> QED BY <3>1, <3>2, <3>3
  <2>4. CASE ~rescue /\ (~page \/ ("spa" \notin gate /\ "reencode" \notin gate))
    <3>1. o = asIs
      BY <1>5, <2>4 DEF Outcomes
    <3> QED BY <1>2, <3>1
  <2> QED BY <2>1, <2>2, <2>3, <2>4
<1> QED BY <1>4, <1>5 DEF ResponseTyped

\* The response is ended, and what was held back is flushed (End).
LEMMA ResponseEndingKeeps ==
    ASSUME ResponseInv, End
    PROVE  ResponseInv'
<1>1. /\ phase = "open" /\ HeldBackFollows /\ ResponseTyped /\ record = NotYet /\ locals = {}
      /\ phase' = "ended" /\ chunks' = <<>>
      /\ UNCHANGED <<mount, gate, wrapper, givenHead, record>>
  BY DEF End, Finalize, ResponseInv, InPhases, requestVars
<1>2. PICK last \in {<<>>, NextChunk} : given' = given \o last /\ Finalize(last, head)
  BY DEF End
<1>3. /\ given' \in Seq(Nat) /\ chunks \o last \in Seq(Nat)
      /\ wire \o (chunks \o last) = given' /\ given' # Document
  BY <1>1, <1>2, NextIsNumbered
<1>4. PICK o \in Outcomes(chunks \o last, head) :
        Send(o.body, o.head) /\ locals' = locals \cup o.flags /\ head' = o.head
  BY <1>2 DEF Finalize
<1>5. RescueFlags' = {}
  BY <1>3, DocumentIsNoText DEF RescueFlags, Document
<1>6. /\ head \in Heads \ {"private document"} /\ head # "document" /\ givenHead' = head
      /\ wireHead \in {"none", head} /\ (wrapper = "buffering" => wire = <<>>)
      /\ locals' = RescueFlags' \cup o.flags
  BY <1>1, <1>4, <1>5 DEF HeldBackFollows, Heads
<1>7. /\ EndedTells' /\ wire' \in Seq(Nat) /\ headersSent' = (wireHead' # "none")
      /\ locals' \subseteq {"served", "rescued", "spa", "reencoded"} /\ o.head \in Heads
  BY <1>1, <1>3, <1>4, <1>6, FinalizingTells
<1>8. ResponseTyped'
  <2>1. <<>> \in Seq(Nat)
    OBVIOUS
  <2> QED BY <1>1, <1>3, <1>4, <1>7, <2>1 DEF ResponseTyped
<1> QED BY <1>1, <1>7, <1>8 DEF ResponseInv, InPhases, RecordTellsWire

\* A dead end is rescued (Rescue).
LEMMA RescuingKeeps ==
    ASSUME ResponseInv, Rescue
    PROVE  ResponseInv'
<1>1. /\ phase = "open" /\ HeldBackFollows /\ ResponseTyped /\ record = NotYet /\ locals = {}
      /\ phase' = "ended" /\ chunks' = <<>> /\ given = <<>> /\ ~headersSent
      /\ given' = Document
      /\ UNCHANGED <<mount, gate, wrapper, record>>
  BY DEF Rescue, ResponseInv, InPhases, requestVars
<1>2. PICK sent2 \in {"document", "other"} :
        /\ givenHead' = sent2
        /\ \E o \in Outcomes(chunks \o Document, sent2) :
             /\ Send(o.body, o.head)
             /\ locals' = locals \cup {"served", "rescued"} \cup o.flags
             /\ head' = o.head
  BY DEF Rescue
<1>3. PICK o \in Outcomes(chunks \o Document, sent2) :
        /\ Send(o.body, o.head)
        /\ locals' = locals \cup {"served", "rescued"} \cup o.flags
        /\ head' = o.head
  BY <1>2
<1>4. wire = <<>> /\ chunks = <<>>
  <2>1. wire \in Seq(Nat) /\ chunks \in Seq(Nat) /\ wire \o chunks = <<>>
    BY <1>1 DEF ResponseTyped, HeldBackFollows
  <2> QED BY <2>1, ConcatEqualIffEmpty
<1>5. /\ Document \in Seq(Nat) /\ chunks \o Document = Document /\ wire \o Document = Document
  BY <1>4, DocumentIsNoText, ConcatEmptySeq
<1>6. RescueFlags' = {"served", "rescued"}
  <2>1. Document' = Document
    BY DEF Document
  <2> QED BY <1>1, <2>1 DEF RescueFlags
<1>7. /\ sent2 \in Heads \ {"private document"} /\ wireHead = "none"
      /\ locals' = RescueFlags' \cup o.flags
  BY <1>1, <1>3, <1>6 DEF Heads, ResponseTyped
<1>8. chunks \o Document \in Seq(Nat) /\ wire \o (chunks \o Document) = given'
  BY <1>1, <1>5
<1>9. /\ EndedTells' /\ wire' \in Seq(Nat) /\ headersSent' = (wireHead' # "none")
      /\ locals' \subseteq {"served", "rescued", "spa", "reencoded"} /\ o.head \in Heads
  <2>1. /\ given' \in Seq(Nat) /\ givenHead' = sent2
        /\ wireHead \in {"none", sent2} /\ (wrapper = "buffering" => wire = <<>>)
        /\ (sent2 = "document" => given' = Document)
    BY <1>1, <1>2, <1>4, <1>5, <1>7
  <2>2. Send(o.body, o.head) /\ ResponseTyped
    BY <1>1, <1>3
  <2>3. PICK body \in Seq(Nat) : body = chunks \o Document
    BY <1>8
  <2>4. o \in Outcomes(body, sent2) /\ wire \o body = given'
    BY <1>3, <1>8, <2>3
  <2> QED BY <1>7, <2>1, <2>2, <2>4, FinalizingTells
<1>10. ResponseTyped'
  <2>1. <<>> \in Seq(Nat)
    OBVIOUS
  <2> QED BY <1>1, <1>3, <1>5, <1>9, <2>1 DEF ResponseTyped
<1> QED BY <1>1, <1>9, <1>10 DEF ResponseInv, InPhases, RecordTellsWire

\* Every step of a response keeps the invariant.
LEMMA ResponseStepKeeps ==
    ASSUME ResponseInv, ResponseNext
    PROVE  ResponseInv'
<1>1. CASE FlushHeaders
  <2>1. /\ phase = "open" /\ HeldBackFollows /\ ResponseTyped
        /\ wire' = wire \o <<>> /\ headersSent' = TRUE
        /\ wireHead' = IF wireHead = "none" THEN head ELSE wireHead
        /\ UNCHANGED <<mount, gate, wrapper, head, chunks, size, given, givenHead, locals,
                       phase, record>>
    BY <1>1 DEF FlushHeaders, Send, ResponseInv, InPhases, requestVars
  <2>2. wire' = wire
    BY <2>1, ConcatEmptySeq DEF ResponseTyped
  <2>3. wireHead' = head /\ head # "none"
    BY <2>1 DEF HeldBackFollows
  <2>4. HeldBackFollows' /\ ResponseTyped'
    BY <2>1, <2>2, <2>3 DEF HeldBackFollows, ResponseTyped
  <2> QED BY <2>1, <2>4 DEF ResponseInv, InPhases, RecordTellsWire
<1>2. CASE RescueTooLate
  <2>1. /\ phase = "open" /\ HeldBackFollows /\ ResponseTyped /\ record = NotYet
        /\ locals' = {"served", "rescued"} /\ phase' = "stuck"
        /\ UNCHANGED <<mount, gate, wrapper, head, chunks, size, headersSent, wire, wireHead,
                       given, givenHead, record>>
    BY <1>2 DEF RescueTooLate, ResponseInv, InPhases, requestVars
  <2>2. HeldBackFollows' /\ ResponseTyped'
    BY <2>1 DEF HeldBackFollows, ResponseTyped
  <2> QED BY <2>1, <2>2 DEF ResponseInv, InPhases, RecordTellsWire
<1>3. CASE Close
  <2>1. /\ phase # "closed" /\ phase' = IF phase = "stuck" THEN "stuck" ELSE "closed"
        /\ record' = IF record = NotYet THEN locals ELSE record
        /\ UNCHANGED <<mount, gate, wrapper, head, chunks, size, headersSent, wire, wireHead,
                       given, givenHead, locals>>
    BY <1>3 DEF Close, requestVars
  <2>2. ResponseTyped /\ ResponseTyped' /\ record' = locals
    BY <2>1 DEF ResponseInv, ResponseTyped, InPhases
  <2>3. CASE phase = "ended"
    <3>1. phase' = "closed" /\ RecordTellsWire'
      BY <2>1, <2>2, <2>3, EndedRecordTells DEF ResponseInv, InPhases
    <3> QED BY <2>2, <3>1 DEF ResponseInv, InPhases
  <2>4. CASE phase \in {"open", "stuck"}
    <3>1. given # Document /\ wire # Document /\ wire # Markdown(given)
      BY <2>2, <2>4, TextIsNoDocument DEF ResponseInv, InPhases
    <3>2. HeldBackFollows'
      BY <2>1, <2>4 DEF ResponseInv, InPhases, HeldBackFollows
    <3>3. RecordTellsWire'
      BY <2>1, <2>2, <2>4, <3>1 DEF ResponseInv, InPhases, RecordTellsWire
    <3> QED BY <2>1, <2>2, <2>4, <3>2, <3>3 DEF ResponseInv, InPhases
  <2> QED BY <2>1, <2>2, <2>3, <2>4 DEF ResponseTyped
<1>4. CASE Finish
  <2>1. /\ phase = "ended" /\ EndedTells /\ record' = locals
        /\ UNCHANGED <<mount, gate, wrapper, head, chunks, size, headersSent, wire, wireHead,
                       given, givenHead, locals, phase>>
    BY <1>4 DEF Finish, requestVars, ResponseInv, InPhases
  <2>2. ResponseTyped' /\ EndedTells'
    BY <2>1 DEF ResponseInv, ResponseTyped, EndedTells, RescueFlags, Markdown
  <2>3. RecordTellsWire'
    BY <2>1, EndedRecordTells DEF ResponseInv
  <2> QED BY <2>1, <2>2, <2>3 DEF ResponseInv, InPhases
<1> QED BY <1>1, <1>2, <1>3, <1>4, ChunkKeeps, ResponseEndingKeeps, RescuingKeeps DEF ResponseNext

\* The invariant says that the response is whole.
LEMMA InvIsWhole == ResponseInv => ResponseHolds
<1> SUFFICES ASSUME ResponseInv PROVE ResponseHolds
  OBVIOUS
<1>1. ASSUME phase = "open"
      PROVE  IsPrefix(wire, given) /\ wireHead \in {"none", givenHead}
  <2>1. HeldBackFollows /\ ResponseTyped
    BY <1>1 DEF ResponseInv, InPhases
  <2>2. /\ wire \in Seq(Nat) /\ given \in Seq(Nat) /\ Len(wire) <= Len(given)
        /\ \A i \in 1 .. Len(wire) : wire[i] = given[i]
    BY <2>1, TextIsNoDocument DEF ResponseTyped
  <2>3. SubSeq(wire, 1, Len(wire)) = SubSeq(given, 1, Len(wire))
    BY <2>2
  <2> QED BY <2>1, <2>2, <2>3 DEF IsPrefix, HeldBackFollows
<1>2. phase = "ended" => EndedTells
  BY DEF ResponseInv, InPhases
<1>3. WireIsWhole
  BY <1>1, <1>2 DEF WireIsWhole, EndedTells
<1> QED BY <1>3 DEF ResponseHolds, ResponseInv

\* What is held back follows what was sent (response-transform.ts).
THEOREM ResponseInvariant == ResponseSpec => []ResponseInv
<1>1. ResponseInit => ResponseInv
  BY ResponseInitial
<1>2. ResponseInv /\ UNCHANGED responseVars => ResponseInv'
  <2> SUFFICES ASSUME ResponseInv, UNCHANGED responseVars PROVE ResponseInv'
    OBVIOUS
  <2> USE DEF responseVars
  <2>1. ResponseTyped'
    BY DEF ResponseInv, ResponseTyped
  <2>2. HeldBackFollows => HeldBackFollows'
    BY DEF HeldBackFollows
  <2>3. EndedTells => EndedTells'
    BY DEF EndedTells, RescueFlags, Markdown
  <2>4. InPhases'
    BY <2>2, <2>3 DEF ResponseInv, InPhases
  <2>5. RecordTellsWire'
    BY DEF ResponseInv, RecordTellsWire, Markdown
  <2> QED BY <2>1, <2>4, <2>5 DEF ResponseInv
<1>3. ResponseInv /\ [ResponseNext]_responseVars => ResponseInv'
  BY <1>2, ResponseStepKeeps
<1> QED BY <1>1, <1>3, PTL DEF ResponseSpec

\* What the client gets is what was written or one document in its place,
\* whenever the wrapper gave up, whatever failed and whoever left, and the
\* record is true of it (response-transform.ts, adapter/express.ts, route.ts).
THEOREM ResponsesHold == ResponseSpec => []ResponseHolds
<1> QED BY InvIsWhole, ResponseInvariant, PTL

\* A chunk is a number up to MaxChunks, and the wrapper counts what it holds back.
ResponseBounded ==
    /\ mount \in {"server", "standalone"} /\ gate \subseteq Features
    /\ givenHead \in Heads /\ wireHead \in Heads \cup {"none"}
    /\ chunks \in Seq(1 .. MaxChunks) /\ size \in 0 .. MaxChunks
    /\ phase = "open" =>
        /\ Len(given) <= MaxChunks /\ size <= Len(given)
        /\ wrapper = "buffering" => Len(chunks) = size /\ size <= MaxBuffer
    /\ record = NotYet \/ record \subseteq locals

\* Whatever a body becomes, it goes out under a head of a response.
LEMMA OutcomeHeads ==
    ASSUME NEW body, NEW h \in Heads, NEW o \in Outcomes(body, h)
    PROVE  o.head \in Heads
<1>1. o \in {[body |-> body, head |-> h, flags |-> {}],
            [body |-> Document, head |-> "document", flags |-> {"served", "rescued"}],
            [body |-> Document, head |-> "private document", flags |-> {"served", "spa"}],
            [body |-> Markdown(body), head |-> "private document",
             flags |-> {"reencoded"}]}
  BY Zenon DEF Outcomes
<1>2. CASE o = [body |-> body, head |-> h, flags |-> {}]
  BY <1>2
<1>3. CASE o = [body |-> Document, head |-> "document", flags |-> {"served", "rescued"}]
  BY <1>3 DEF Heads
<1>4. CASE o = [body |-> Document, head |-> "private document", flags |-> {"served", "spa"}]
  BY <1>4 DEF Heads
<1>5. CASE o = [body |-> Markdown(body), head |-> "private document",
                flags |-> {"reencoded"}]
  BY <1>5 DEF Heads
<1> QED BY <1>1, <1>2, <1>3, <1>4, <1>5

\* What is written to an open response stays within its bounds, and the flags
\* that were recorded stay.
THEOREM ResponseTypesHold == ResponseSpec => []ResponseTypeOK
<1>1. ResponseInit => ResponseBounded
  <2> SUFFICES ASSUME ResponseInit PROVE ResponseBounded
    OBVIOUS
  <2>1. head \in Heads /\ givenHead = head
    BY DEF ResponseInit, Heads
  <2>2. chunks \in Seq(1 .. MaxChunks) /\ Len(chunks) = 0 /\ Len(given) = 0 /\ size = 0
    BY DEF ResponseInit
  <2> QED BY <2>1, <2>2, TransformAssumption DEF ResponseInit, ResponseBounded
<1>2. ResponseInv /\ ResponseBounded /\ [ResponseNext]_responseVars => ResponseBounded'
  <2> SUFFICES ASSUME ResponseInv, ResponseBounded, [ResponseNext]_responseVars
               PROVE  ResponseBounded'
    OBVIOUS
  <2>1. /\ MaxChunks \in Nat /\ MaxBuffer \in Nat
        /\ given \in Seq(Nat) /\ Len(given) \in Nat
        /\ head \in Heads
        /\ phase = "open" => record = NotYet
    BY TransformAssumption DEF ResponseInv, ResponseTyped, InPhases
  <2>2. CASE FlushHeaders
    BY <2>1, <2>2 DEF FlushHeaders, Send, requestVars, ResponseBounded
  <2>3. CASE Write
    <3>1. /\ given' = given \o NextChunk /\ Len(given) < MaxChunks /\ phase = "open"
          /\ UNCHANGED <<mount, gate, head, givenHead, locals, phase, record>>
      BY <2>3 DEF Write, requestVars
    <3>2. /\ Len(given') = Len(given) + 1
      BY <2>1, <3>1 DEF NextChunk
    <3>3. NextChunk \in Seq(1 .. MaxChunks) /\ Len(NextChunk) = 1
      BY <2>1, <3>1 DEF NextChunk
    <3>4. /\ chunks \o NextChunk \in Seq(1 .. MaxChunks)
          /\ Len(chunks \o NextChunk) = Len(chunks) + 1 /\ Len(chunks) \in Nat
      <4>1. ASSUME NEW S, NEW s \in Seq(S), NEW t \in Seq(S), Len(t) = 1
            PROVE  s \o t \in Seq(S) /\ Len(s \o t) = Len(s) + 1 /\ Len(s) \in Nat
        <5>1. s \o t \in Seq(S) /\ Len(s) \in Nat
          OBVIOUS
        <5>2. Len(s \o t) = Len(s) + Len(t)
          OBVIOUS
        <5> QED BY <4>1, <5>1, <5>2
      <4>2. chunks \in Seq(1 .. MaxChunks)
        BY DEF ResponseBounded
      <4> QED BY <3>3, <4>1, <4>2
    <3>5. wireHead' \in Heads \cup {"none"}
      BY <2>1, <2>3 DEF Write, Abort, Send, ResponseBounded
    <3>6. CASE wrapper # "buffering"
      BY <2>1, <2>3, <3>1, <3>2, <3>5, <3>6 DEF Write, ResponseBounded
    <3>7. CASE wrapper = "buffering" /\ size' > MaxBuffer
      <4>1. /\ size' = size + 1 /\ wrapper' = "aborted" /\ chunks' = <<>>
        BY <2>1, <2>3, <3>1, <3>7 DEF Write, Abort, ResponseBounded
      <4>2. <<>> \in Seq(1 .. MaxChunks)
        OBVIOUS
      <4> QED BY <2>1, <3>1, <3>2, <3>5, <4>1, <4>2 DEF ResponseBounded
    <3>8. CASE wrapper = "buffering" /\ ~(size' > MaxBuffer)
      <4>1. /\ size' = size + 1 /\ size' <= MaxBuffer /\ chunks' = chunks \o NextChunk
            /\ UNCHANGED wrapper
        BY <2>3, <3>8 DEF Write
      <4> QED BY <2>1, <3>1, <3>2, <3>4, <3>5, <3>8, <4>1 DEF ResponseBounded
    <3> QED BY <3>6, <3>7, <3>8
  <2>4. CASE End
    <3>1. /\ phase' = "ended" /\ chunks' = <<>> /\ phase = "open"
          /\ UNCHANGED <<mount, gate, size, givenHead, record>>
      BY <2>4 DEF End, Finalize, requestVars
    <3>2. wireHead' \in Heads \cup {"none"}
      <4>1. PICK last \in {<<>>, NextChunk} :
              \E o \in Outcomes(chunks \o last, head) : Send(o.body, o.head)
        BY <2>4 DEF End, Finalize
      <4> QED BY <2>1, <4>1, OutcomeHeads DEF Send, ResponseBounded
    <3>3. <<>> \in Seq(1 .. MaxChunks)
      OBVIOUS
    <3> QED BY <2>1, <3>1, <3>2, <3>3 DEF ResponseBounded
  <2>5. CASE Rescue
    <3>1. /\ phase' = "ended" /\ chunks' = <<>> /\ phase = "open"
          /\ givenHead' \in {"document", "other"}
          /\ UNCHANGED <<mount, gate, size, record>>
      BY <2>5 DEF Rescue, requestVars
    <3>2. wireHead' \in Heads \cup {"none"}
      <4>1. PICK h \in {"document", "other"} :
              \E o \in Outcomes(chunks \o Document, h) : Send(o.body, o.head)
        BY <2>5 DEF Rescue
      <4>2. h \in Heads
        BY <4>1 DEF Heads
      <4> QED BY <4>1, <4>2, OutcomeHeads DEF Send, ResponseBounded
    <3>3. <<>> \in Seq(1 .. MaxChunks)
      OBVIOUS
    <3>4. givenHead' \in Heads
      BY <3>1 DEF Heads
    <3> QED BY <2>1, <3>1, <3>2, <3>3, <3>4 DEF ResponseBounded
  <2>6. CASE RescueTooLate
    BY <2>1, <2>6 DEF RescueTooLate, requestVars, ResponseBounded
  <2>7. CASE Close
    BY <2>7 DEF Close, requestVars, ResponseBounded
  <2>8. CASE Finish
    BY <2>8 DEF Finish, requestVars, ResponseBounded
  <2>9. CASE UNCHANGED responseVars
    BY <2>9 DEF responseVars, ResponseBounded
  <2> QED BY <2>2, <2>3, <2>4, <2>5, <2>6, <2>7, <2>8, <2>9 DEF ResponseNext
<1>3. ResponseInv /\ ResponseBounded => ResponseTypeOK
  BY DEF ResponseInv, ResponseTyped, ResponseBounded, ResponseTypeOK
<1> QED BY <1>1, <1>2, <1>3, ResponseInvariant, PTL DEF ResponseSpec
=============================================================================
