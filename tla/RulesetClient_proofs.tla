------------------------- MODULE RulesetClient_proofs -------------------------
(***************************************************************************)
(* Proofs about RulesetClient: for any number of clients and releases, the *)
(* classifier uses what the live client holds, a stopped client is inert,  *)
(* and a client does not go back to an older release.                      *)
(***************************************************************************)
EXTENDS RulesetClient, TLAPS

USE RulesetAssumption

(***************************************************************************)
(* What holds of each client at any time.  The first part says which       *)
(* client may still activate anything, the second bounds what it holds,    *)
(* has loaded or may be sent by what was published; the last is why an     *)
(* answer, which is at least as new as its request, is no step back: what  *)
(* a client holds at the request is not newer, and an entry of the cache   *)
(* does not come in between unless a request raced the read of the file.   *)
(***************************************************************************)
Lives(c) ==
    /\ c = client <=> phase[c] # "absent" /\ ~stopped[c]
    /\ phase[c] = "absent" => ~stopped[c]
    /\ phase[c] \in {"absent", "idle"} => current[c] = None /\ fetch[c] = "none"

Released(c) ==
    /\ current[c] \in Remote => current[c] <= published
    /\ loaded[c] # None => loaded[c].version <= published
    /\ fetch[c] # "none" => artifact[c] <= published
    /\ fetch[c] = "saving" => artifact[c] \in Remote

Ascends(c) ==
    ~raced[c] =>
        /\ phase[c] \in {"loading", "read"} =>
             current[c] = None /\ fetch[c] = "none"
        /\ fetch[c] = "asked" /\ current[c] \in Remote =>
             current[c] <= artifact[c]

IInv ==
    /\ TypeOK
    /\ HolderIsLive
    /\ disk # None => disk.version <= published
    /\ \A c \in Clients : Lives(c) /\ Released(c) /\ Ascends(c)

-----------------------------------------------------------------------------
\* What maybeRefresh() does to a client c that holds, or has just loaded, rs.
Refreshes(c, rs) ==
    /\ current' = [current EXCEPT ![c] = rs] /\ UNCHANGED <<fetch, artifact>>
    \/ /\ ~stopped[c] /\ fetch[c] = "none"
       /\ \/ /\ current' = [current EXCEPT ![c] = rs]
             /\ fetch' = [fetch EXCEPT ![c] = "asked"]
             /\ artifact' = [artifact EXCEPT ![c] = published]
          \/ /\ current' = [current EXCEPT ![c] = Packaged]
             /\ UNCHANGED <<fetch, artifact>>

\* The branches of maybeRefresh(), with the types they keep.
LEMMA MaybeRefreshes ==
    ASSUME TypeOK, NEW c \in Clients, NEW rs \in Versions \cup {None},
           NEW wait \in BOOLEAN, MaybeRefresh(c, rs, wait)
    PROVE  /\ Refreshes(c, rs)
           /\ holder' = IF current'[c] # current[c] THEN current'[c] ELSE holder
           /\ waiting' \in [Clients -> BOOLEAN]
           /\ current' \in [Clients -> Versions \cup {None}]
           /\ fetch' \in [Clients -> {"none", "asked", "saving"}]
           /\ artifact' \in [Clients -> 0..MaxVersion]
<1> USE DEF TypeOK, MaybeRefresh, Activate, Versions
<1>1. \/ Activate(c, rs) /\ UNCHANGED <<fetch, artifact>>
      \/ /\ ~stopped[c] /\ fetch[c] = "none"
         /\ Activate(c, rs)
         /\ fetch' = [fetch EXCEPT ![c] = "asked"]
         /\ artifact' = [artifact EXCEPT ![c] = published]
      \/ /\ ~stopped[c] /\ fetch[c] = "none"
         /\ Activate(c, Packaged) /\ UNCHANGED <<fetch, artifact>>
  OBVIOUS
<1>2. waiting' \in [Clients -> BOOLEAN]
  OBVIOUS
<1>3. Refreshes(c, rs)
  BY <1>1 DEF Refreshes
<1>4. holder' = IF current'[c] # current[c] THEN current'[c] ELSE holder
  BY <1>1
<1>5. current' \in [Clients -> Versions \cup {None}]
  BY <1>3 DEF Refreshes
<1>6. fetch' \in [Clients -> {"none", "asked", "saving"}]
  BY <1>3 DEF Refreshes
<1>7. artifact' \in [Clients -> 0..MaxVersion]
  BY <1>3 DEF Refreshes
<1> QED  BY <1>2, <1>3, <1>4, <1>5, <1>6, <1>7

\* start() of a client that holds nothing and asks for nothing.
LEMMA Starts ==
    ASSUME TypeOK, NEW c \in Clients, Start(c)
    PROVE  /\ phase' \in [Clients -> {"absent", "idle", "loading", "read", "up"}]
           /\ \/ /\ phase' = [phase EXCEPT ![c] = "loading"]
                 /\ UNCHANGED <<holder, current, waiting, fetch, artifact>>
              \/ /\ phase' = [phase EXCEPT ![c] = "up"]
                 /\ MaybeRefresh(c, current[c], waiting[c])
BY DEF TypeOK, Start

\* The packaged ruleset is no remote release, and releases are numbers.
LEMMA NotRemote ==
    /\ None \notin Remote /\ Packaged \notin Remote
    /\ Remote \subseteq Nat
    /\ published \in 0..MaxVersion => published \in Nat
BY DEF Remote

\* A process starts without clients.
LEMMA InitIInv == Init => IInv
<1> SUFFICES ASSUME Init PROVE IInv
  OBVIOUS
<1>1. TypeOK
  BY DEF Init, Each, TypeOK
<1>2. \A c \in Clients : Lives(c)
  BY DEF Init, Each, Lives
<1>3. ASSUME NEW c \in Clients PROVE Released(c) /\ Ascends(c)
  <2>1. /\ current[c] = None /\ loaded[c] = None /\ fetch[c] = "none"
        /\ phase[c] = "absent"
    BY DEF Init, Each
  <2> QED  BY <2>1, NotRemote DEF Released, Ascends
<1> QED  BY <1>1, <1>2, <1>3 DEF Init, IInv, HolderIsLive

\* What is the same for d, the invariant still says of d.
Same(d) ==
    /\ phase'[d] = phase[d] /\ stopped'[d] = stopped[d]
    /\ current'[d] = current[d] /\ loaded'[d] = loaded[d]
    /\ fetch'[d] = fetch[d] /\ artifact'[d] = artifact[d]
    /\ raced'[d] = raced[d]

\* A step that leaves d alone keeps what the invariant says of d.
LEMMA SameKept ==
    ASSUME NEW d \in Clients, Same(d), Released(d), Ascends(d),
           published' = published
    PROVE  Released(d)' /\ Ascends(d)'
BY DEF Same, Released, Ascends

\* A refresh of the live client, or of one that will not act any more, leaves
\* the classifier with what the live client holds.
LEMMA RefreshKeepsHolder ==
    ASSUME IInv, NEW c \in Clients, NEW rs,
           Refreshes(c, rs), rs = current[c] \/ c = client,
           c = client \/ stopped[c],
           holder' = IF current'[c] # current[c] THEN current'[c] ELSE holder,
           client' = client
    PROVE  HolderIsLive'
<1> USE DEF IInv, HolderIsLive, TypeOK
<1>1. \A d \in Clients \ {c} : current'[d] = current[d]
  BY DEF Refreshes
<1>2. stopped[c] => current'[c] = rs
  BY DEF Refreshes
<1>3. CASE c = client
  BY <1>3
<1>4. CASE c # client
  BY <1>1, <1>2, <1>4
<1> QED  BY <1>3, <1>4

\* A request nudges the live client: it starts, or refreshes.
LEMMA NudgeKeeps ==
    ASSUME IInv, Nudge PROVE IInv'
<1>0. SUFFICES ASSUME NEW c \in Clients, c = client PROVE IInv'
  BY DEF IInv, TypeOK, Nudge
<1>1. /\ c \in Clients /\ TypeOK /\ Lives(c) /\ Released(c) /\ Ascends(c)
      /\ current[c] \in Versions \cup {None} /\ waiting[c] \in BOOLEAN
      /\ phase[c] # "absent" /\ ~stopped[c]
  BY <1>0 DEF IInv, TypeOK, Nudge, Lives
<1>2. /\ UNCHANGED <<configVars, disk, client, stopped, loaded, fresh>>
      /\ raced' = [raced EXCEPT ![c] = @ \/ phase[c] \in {"loading", "read"}]
  BY <1>0 DEF Nudge
<1>3. CASE /\ phase[c] = "idle"
           /\ phase' = [phase EXCEPT ![c] = "loading"]
           /\ UNCHANGED <<holder, current, waiting, fetch, artifact>>
  <2>1. TypeOK'
    BY <1>1, <1>2, <1>3 DEF TypeOK, configVars
  <2>2. \A d \in Clients : Lives(d)'
    BY <1>0, <1>1, <1>2, <1>3 DEF TypeOK, IInv, Lives
  <2>3. \A d \in Clients : Released(d)' /\ Ascends(d)'
    BY <1>1, <1>2, <1>3 DEF TypeOK, IInv, Lives, Released, Ascends, configVars
  <2> QED  BY <1>2, <1>3, <2>1, <2>2, <2>3 DEF IInv, HolderIsLive, configVars
<1>4. CASE /\ phase' = [phase EXCEPT ![c] = "up"] \/ UNCHANGED phase
           /\ phase[c] = "idle" => phase' = [phase EXCEPT ![c] = "up"]
           /\ phase[c] # "idle" => UNCHANGED phase
           /\ MaybeRefresh(c, current[c], waiting[c])
  <2>0. /\ Refreshes(c, current[c])
        /\ holder' = IF current'[c] # current[c] THEN current'[c] ELSE holder
        /\ waiting' \in [Clients -> BOOLEAN]
        /\ current' \in [Clients -> Versions \cup {None}]
        /\ fetch' \in [Clients -> {"none", "asked", "saving"}]
        /\ artifact' \in [Clients -> 0..MaxVersion]
    BY <1>1, <1>4, MaybeRefreshes
  <2>1. TypeOK'
    BY <1>1, <1>2, <1>4, <2>0 DEF TypeOK, configVars
  <2>2. \A d \in Clients : Lives(d)'
    BY <1>0, <1>1, <1>2, <1>4, <2>0 DEF TypeOK, IInv, Lives, Refreshes
  <2>3. Released(c)' /\ Ascends(c)'
    <3>1. /\ published' = published /\ loaded' = loaded
          /\ ~raced'[c] => ~raced[c] /\ phase[c] \notin {"loading", "read"}
          /\ phase'[c] = IF phase[c] = "idle" THEN "up" ELSE phase[c]
      BY <1>1, <1>2, <1>4 DEF TypeOK, configVars
    <3>2. CASE /\ current'[c] = current[c]
               /\ fetch'[c] = fetch[c] /\ artifact'[c] = artifact[c]
      BY <1>1, <3>1, <3>2 DEF Released, Ascends
    <3>3. CASE /\ current'[c] = current[c]
               /\ fetch'[c] = "asked" /\ artifact'[c] = published
      BY <1>1, <3>1, <3>3, NotRemote DEF Released, Ascends, TypeOK
    <3>4. CASE /\ current'[c] = Packaged /\ fetch[c] = "none"
               /\ fetch'[c] = fetch[c] /\ artifact'[c] = artifact[c]
      BY <1>1, <3>1, <3>4, NotRemote DEF Released, Ascends
    <3> QED  BY <1>1, <2>0, <3>2, <3>3, <3>4 DEF Refreshes, TypeOK
  <2>4. ASSUME NEW d \in Clients \ {c} PROVE Released(d)' /\ Ascends(d)'
    <3>1. Same(d)
      BY <1>1, <1>2, <1>4, <2>0 DEF Same, TypeOK, Refreshes
    <3> QED  BY <1>2, <3>1, SameKept DEF IInv, configVars
  <2>5. HolderIsLive'
    BY <1>0, <1>1, <1>2, <2>0, RefreshKeepsHolder
  <2> QED  BY <1>2, <2>1, <2>2, <2>3, <2>4, <2>5 DEF IInv, configVars
<1> QED  BY <1>0, <1>1, <1>3, <1>4 DEF Nudge, Start

\* A refresh of c by its start(), which then is up.
LEMMA RefreshKeepsOwn ==
    ASSUME TypeOK, NEW c \in Clients, NEW rs,
           Released(c), Ascends(c), Refreshes(c, rs),
           rs \in Remote => rs <= published,
           ~raced[c] => fetch[c] = "none",
           phase'[c] = "up", loaded'[c] \in {loaded[c], None},
           published' = published, raced' = raced
    PROVE  Released(c)' /\ Ascends(c)'
<1>1. CASE /\ current'[c] = rs
           /\ fetch'[c] = fetch[c] /\ artifact'[c] = artifact[c]
  BY <1>1 DEF Released, Ascends
<1>2. CASE /\ current'[c] = rs
           /\ fetch'[c] = "asked" /\ artifact'[c] = published
  BY <1>2, NotRemote DEF Released, Ascends, TypeOK
<1>3. CASE /\ current'[c] = Packaged /\ fetch[c] = "none"
           /\ fetch'[c] = fetch[c] /\ artifact'[c] = artifact[c]
  BY <1>3, NotRemote DEF Released, Ascends
<1> QED  BY <1>1, <1>2, <1>3 DEF Refreshes, TypeOK

\* The file was written from a release.
LEMMA CacheReadKeeps ==
    ASSUME IInv, NEW c \in Clients, CacheRead(c) PROVE IInv'
<1>1. TypeOK'
  BY DEF IInv, TypeOK, CacheRead, configVars
<1>2. \A d \in Clients : Lives(d)'
  BY DEF IInv, TypeOK, CacheRead, Lives
<1>3. Released(c)' /\ Ascends(c)'
  BY DEF IInv, TypeOK, CacheRead, Released, Ascends, configVars
<1>4. ASSUME NEW d \in Clients \ {c} PROVE Released(d)' /\ Ascends(d)'
  <2>1. Same(d) /\ published' = published
    BY DEF IInv, TypeOK, CacheRead, Same, configVars
  <2> QED  BY <2>1, SameKept DEF IInv
<1> QED  BY <1>1, <1>2, <1>3, <1>4
         DEF IInv, CacheRead, HolderIsLive, configVars

\* A stopped client activates no entry; a raced one is exempt from order.
LEMMA CacheLoadedKeeps ==
    ASSUME IInv, NEW c \in Clients, CacheLoaded(c) PROVE IInv'
<1>1. /\ phase[c] = "read" /\ phase' = [phase EXCEPT ![c] = "up"]
      /\ loaded' = [loaded EXCEPT ![c] = None]
      /\ UNCHANGED <<configVars, disk, client, stopped, fresh, raced>>
      /\ TypeOK /\ Lives(c) /\ Released(c) /\ Ascends(c)
  BY DEF CacheLoaded, IInv
<1>2. PICK rs \in Versions \cup {None}, wait \in BOOLEAN :
        /\ MaybeRefresh(c, rs, wait)
        /\ \/ rs = current[c]
           \/ rs = loaded[c].version /\ loaded[c] # None /\ ~stopped[c]
  <2>1. CASE MaybeRefresh(c, current[c], waiting[c])
    BY <1>1, <2>1 DEF TypeOK
  <2>2. CASE /\ loaded[c] # None /\ ~stopped[c]
             /\ \E wait \in TtlAhead(c) : MaybeRefresh(c, loaded[c].version, wait)
    <3>1. loaded[c].version \in Versions
      BY <1>1, <2>2 DEF TypeOK, Entries, Versions
    <3> QED  BY <2>2, <3>1 DEF TtlAhead
  <2> QED  BY <2>1, <2>2 DEF CacheLoaded
<1>3. /\ Refreshes(c, rs)
      /\ holder' = IF current'[c] # current[c] THEN current'[c] ELSE holder
      /\ waiting' \in [Clients -> BOOLEAN]
      /\ current' \in [Clients -> Versions \cup {None}]
      /\ fetch' \in [Clients -> {"none", "asked", "saving"}]
      /\ artifact' \in [Clients -> 0..MaxVersion]
  BY <1>1, <1>2, MaybeRefreshes
<1>4. TypeOK'
  BY <1>1, <1>3 DEF TypeOK, configVars
<1>5. \A d \in Clients : Lives(d)'
  BY <1>1, <1>3 DEF IInv, TypeOK, Lives, Refreshes
<1>6. Released(c)' /\ Ascends(c)'
  <2>1. /\ phase'[c] = "up" /\ loaded'[c] = None
        /\ published' = published /\ raced' = raced
    BY <1>1 DEF TypeOK, configVars
  <2>2. rs \in Remote => rs <= published
    BY <1>1, <1>2 DEF Released
  <2>3. ~raced[c] => fetch[c] = "none"
    BY <1>1 DEF Ascends
  <2> QED  BY <1>1, <1>3, <2>1, <2>2, <2>3, RefreshKeepsOwn
<1>7. ASSUME NEW d \in Clients \ {c} PROVE Released(d)' /\ Ascends(d)'
  <2>1. Same(d) /\ published' = published
    BY <1>1, <1>3 DEF TypeOK, Same, Refreshes, configVars
  <2> QED  BY <2>1, SameKept DEF IInv
<1>8. HolderIsLive'
  <2>1. c = client \/ stopped[c]
    BY <1>1 DEF Lives
  <2>2. rs = current[c] \/ c = client
    BY <1>2, <2>1
  <2> QED  BY <1>1, <1>3, <2>1, <2>2, RefreshKeepsHolder
<1> QED  BY <1>1, <1>4, <1>5, <1>6, <1>7, <1>8 DEF IInv, configVars

\* An answer is at least as new as what was held at the request.
LEMMA FetchSucceedsKeeps ==
    ASSUME IInv, NEW c \in Clients, FetchSucceeds(c) PROVE IInv'
<1> USE DEF IInv, TypeOK, configVars
<1>1. PICK v \in Remote :
        /\ artifact[c] <= v /\ v <= published
        /\ IF stopped[c]
           THEN /\ fetch' = [fetch EXCEPT ![c] = "none"]
                /\ UNCHANGED <<holder, current, waiting, artifact, fresh>>
           ELSE /\ Activate(c, v)
                /\ waiting' = [waiting EXCEPT ![c] = TRUE]
                /\ fresh' = [fresh EXCEPT ![c] = TRUE]
                /\ fetch' = [fetch EXCEPT ![c] = "saving"]
                /\ artifact' = [artifact EXCEPT ![c] = v]
  BY DEF FetchSucceeds
<1>2. /\ fetch[c] = "asked"
      /\ UNCHANGED <<configVars, disk, client, phase, stopped, loaded, raced>>
  BY DEF FetchSucceeds
<1>3. TypeOK'
  <2>1. CASE stopped[c]
    BY <1>1, <1>2, <2>1
  <2>2. CASE ~stopped[c]
    <3>1. v \in Versions /\ v \in 0..MaxVersion
      BY DEF Versions, Remote
    <3>2. /\ current' \in [Clients -> Versions \cup {None}]
          /\ holder' \in Versions \cup {None}
      BY <1>1, <2>2, <3>1 DEF Activate
    <3>3. /\ waiting' \in [Clients -> BOOLEAN]
          /\ fresh' \in [Clients -> BOOLEAN]
      BY <1>1, <2>2
    <3>4. /\ fetch' \in [Clients -> {"none", "asked", "saving"}]
          /\ artifact' \in [Clients -> 0..MaxVersion]
      BY <1>1, <2>2, <3>1
    <3> QED  BY <1>2, <3>2, <3>3, <3>4
  <2> QED  BY <2>1, <2>2
<1>4. \A d \in Clients : Lives(d)'
  BY <1>1, <1>2 DEF Lives, Activate
<1>5. Released(c)' /\ Ascends(c)'
  BY <1>1, <1>2 DEF Released, Ascends, Activate
<1>6. ASSUME NEW d \in Clients \ {c} PROVE Released(d)' /\ Ascends(d)'
  <2>1. Same(d) /\ published' = published
    BY <1>1, <1>2 DEF Same, Activate
  <2> QED  BY <2>1, SameKept
<1>7. HolderIsLive'
  <2>1. stopped[c] \/ c = client
    BY <1>2 DEF Lives
  <2> QED  BY <1>1, <1>2, <2>1 DEF HolderIsLive, Activate
<1> QED  BY <1>2, <1>3, <1>4, <1>5, <1>6, <1>7

\* A failed fetch changes nothing that is held.
LEMMA FetchFailsKeeps ==
    ASSUME IInv, NEW c \in Clients, FetchFails(c) PROVE IInv'
<1> USE DEF IInv, TypeOK, configVars
<1>1. TypeOK'
  BY DEF FetchFails
<1>2. \A d \in Clients : Lives(d)'
  BY DEF FetchFails, Lives
<1>3. \A d \in Clients : Released(d)' /\ Ascends(d)'
  BY DEF FetchFails, Released, Ascends
<1> QED  BY <1>1, <1>2, <1>3 DEF FetchFails, HolderIsLive

\* What is saved is a release.
LEMMA SavedKeeps ==
    ASSUME IInv, NEW c \in Clients, Saved(c) PROVE IInv'
<1> USE DEF IInv, TypeOK, configVars
<1>1. /\ fetch[c] = "saving" /\ artifact[c] \in Remote /\ artifact[c] <= published
      /\ fetch' = [fetch EXCEPT ![c] = "none"]
      /\ disk' \in {disk, [version |-> artifact[c], by |-> c]}
      /\ UNCHANGED <<configVars, client, holder, phase, stopped, current,
                     waiting, loaded, artifact, fresh, raced>>
  BY DEF Saved, Released
<1>2. disk' \in Entries \cup {None} /\ (disk' # None => disk'.version <= published')
  BY <1>1 DEF Entries
<1>3. TypeOK'
  BY <1>1, <1>2
<1>4. \A d \in Clients : Lives(d)'
  BY <1>1 DEF Lives
<1>5. \A d \in Clients : Released(d)' /\ Ascends(d)'
  BY <1>1 DEF Released, Ascends
<1> QED  BY <1>1, <1>2, <1>3, <1>4, <1>5 DEF HolderIsLive

\* The clock is in no part of the invariant.
LEMMA TimePassesKeeps ==
    ASSUME IInv, NEW c \in Clients, TimePasses(c) PROVE IInv'
<1> USE DEF IInv, TypeOK, configVars
<1>1. TypeOK'
  BY DEF TimePasses
<1>2. \A d \in Clients : Lives(d)' /\ Released(d)' /\ Ascends(d)'
  BY DEF TimePasses, Lives, Released, Ascends
<1> QED  BY <1>1, <1>2 DEF TimePasses, HolderIsLive

\* The new client holds nothing, and the one it replaces is stopped.
LEMMA BootstrapKeeps ==
    ASSUME IInv, NEW c \in Clients, Bootstrap(c) PROVE IInv'
<1>1. /\ phase[c] = "absent" /\ client' = c /\ ~stopped[c] /\ c # client
      /\ current[c] = None /\ fetch[c] = "none"
      /\ stopped' = [d \in Clients |-> stopped[d] \/ d = client]
      /\ UNCHANGED <<configVars, disk, loaded, fresh, raced>>
      /\ TypeOK /\ Lives(c) /\ Released(c) /\ Ascends(c)
  BY DEF Bootstrap, StoppedClient, IInv, Lives
<1>2. stopped' \in [Clients -> BOOLEAN]
  BY <1>1 DEF TypeOK
<1>3. ASSUME /\ phase' = [phase EXCEPT ![c] = "idle"]
                \/ phase' = [phase EXCEPT ![c] = "loading"]
             /\ UNCHANGED <<holder, current, waiting, fetch, artifact>>
      PROVE  IInv'
  <2>1. TypeOK'
    BY <1>1, <1>2, <1>3 DEF TypeOK, configVars
  <2>2. \A d \in Clients : Lives(d)'
    BY <1>1, <1>3, ZenonT(30) DEF IInv, TypeOK, Lives
  <2>3. \A d \in Clients : Released(d)' /\ Ascends(d)'
    BY <1>1, <1>3 DEF IInv, TypeOK, Released, Ascends, configVars
  <2>4. current'[client'] = None
    BY <1>1, <1>3
  <2> QED  BY <1>1, <2>1, <2>2, <2>3, <2>4 DEF IInv, HolderIsLive, configVars
<1>4. ASSUME phase' = [phase EXCEPT ![c] = "up"],
             MaybeRefresh(c, current[c], waiting[c])
      PROVE  IInv'
  <2>1. /\ Refreshes(c, current[c])
        /\ holder' = IF current'[c] # current[c] THEN current'[c] ELSE holder
        /\ waiting' \in [Clients -> BOOLEAN]
        /\ current' \in [Clients -> Versions \cup {None}]
        /\ fetch' \in [Clients -> {"none", "asked", "saving"}]
        /\ artifact' \in [Clients -> 0..MaxVersion]
    <3>1. current[c] \in Versions \cup {None} /\ waiting[c] \in BOOLEAN
      BY <1>1 DEF TypeOK
    <3> QED  BY <1>1, <1>4, <3>1, MaybeRefreshes
  <2>2. TypeOK'
    BY <1>1, <1>2, <1>4, <2>1 DEF TypeOK, configVars
  <2>3. ASSUME NEW d \in Clients PROVE Lives(d)'
    <3>1. CASE d = c
      BY <1>1, <1>4, <3>1 DEF TypeOK, Lives
    <3>2. CASE d # c
      <4>1. /\ phase'[d] = phase[d] /\ current'[d] = current[d]
            /\ fetch'[d] = fetch[d]
            /\ stopped'[d] <=> stopped[d] \/ d = client
        BY <1>1, <1>4, <2>1, <3>2 DEF TypeOK, Refreshes
      <4> QED  BY <1>1, <3>2, <4>1 DEF IInv, Lives
    <3> QED  BY <3>1, <3>2
  <2>4. Released(c)' /\ Ascends(c)'
    <3>1. /\ phase'[c] = "up" /\ loaded'[c] = loaded[c]
          /\ published' = published /\ raced' = raced
      BY <1>1, <1>4 DEF TypeOK, configVars
    <3> QED  BY <1>1, <2>1, <3>1, NotRemote, RefreshKeepsOwn
  <2>5. ASSUME NEW d \in Clients \ {c} PROVE Released(d)' /\ Ascends(d)'
    BY <1>1, <1>4, <2>1
       DEF IInv, TypeOK, Refreshes, Released, Ascends, configVars
  <2>6. HolderIsLive'
    BY <1>1, <2>1 DEF HolderIsLive
  <2> QED  BY <1>1, <2>2, <2>3, <2>4, <2>5, <2>6 DEF IInv, configVars
<1> QED  BY <1>3, <1>4 DEF Bootstrap, Start

\* A stopped client leaves the slot empty.
LEMMA StopClientKeeps ==
    ASSUME IInv, StopClient PROVE IInv'
<1> USE DEF IInv, TypeOK, configVars, StopClient, StoppedClient
<1>1. TypeOK'
  OBVIOUS
<1>2. \A d \in Clients : Lives(d)'
  BY DEF Lives
<1>3. \A d \in Clients : Released(d)' /\ Ascends(d)'
  BY DEF Released, Ascends
<1> QED  BY <1>1, <1>2, <1>3 DEF HolderIsLive

\* A restart forgets all clients; the file stays.
LEMMA RestartKeeps ==
    ASSUME IInv, Restart PROVE IInv'
<1> USE DEF Restart, Each
<1>0. disk' \in Entries \cup {None} /\ (disk' # None => disk'.version <= published')
  BY DEF IInv, TypeOK, Entries, configVars
<1>1. TypeOK'
  BY <1>0 DEF IInv, TypeOK, configVars
<1>2. \A d \in Clients : Lives(d)'
  BY DEF Lives
<1>3. ASSUME NEW d \in Clients PROVE Released(d)' /\ Ascends(d)'
  <2>1. /\ current'[d] = None /\ loaded'[d] = None /\ fetch'[d] = "none"
        /\ phase'[d] = "absent"
    OBVIOUS
  <2> QED  BY <2>1, NotRemote DEF Released, Ascends
<1> QED  BY <1>0, <1>1, <1>2, <1>3 DEF IInv, HolderIsLive

\* Edits and releases do not touch a client.
LEMMA ConfigKeeps ==
    ASSUME IInv, EditConfig \/ Publish PROVE IInv'
<1> USE DEF IInv, TypeOK, EditConfig, Publish, clientVars
<1>1. TypeOK' /\ published <= published' /\ published \in Nat /\ published' \in Nat
  OBVIOUS
<1>2. \A d \in Clients : Lives(d)'
  BY DEF Lives
<1>3. ASSUME NEW d \in Clients PROVE Released(d)' /\ Ascends(d)'
  <2>1. current[d] \in Remote => current[d] \in Nat
    BY NotRemote
  <2>2. loaded[d] # None => loaded[d].version \in Nat
    BY NotRemote DEF Entries
  <2>3. artifact[d] \in Nat
    OBVIOUS
  <2> QED  BY <1>1, <2>1, <2>2, <2>3 DEF Released, Ascends
<1>4. disk' # None => disk'.version <= published'
  <2>1. disk # None => disk.version \in Nat
    BY NotRemote DEF Entries
  <2> QED  BY <1>1, <2>1
<1> QED  BY <1>1, <1>2, <1>3, <1>4 DEF HolderIsLive

\* Every step keeps the invariant: one lemma for each action.
LEMMA NextIInv == IInv /\ [Next]_vars => IInv'
<1> SUFFICES ASSUME IInv, [Next]_vars PROVE IInv'
  OBVIOUS
<1>1. CASE UNCHANGED vars
  BY <1>1 DEF vars, configVars, clientVars, IInv, TypeOK, HolderIsLive, Lives,
              Released, Ascends
<1> QED  BY <1>1, NudgeKeeps, StopClientKeeps, RestartKeeps, ConfigKeeps,
            BootstrapKeeps, CacheReadKeeps, CacheLoadedKeeps,
            FetchSucceedsKeeps, FetchFailsKeeps, SavedKeeps, TimePassesKeeps
         DEF Next

\* At any time the client in the slot is the only one that may still act, and
\* what a client holds or may be sent obeys the order of the releases.
THEOREM InvariantHolds == SafeSpec => []IInv
BY InitIInv, NextIInv, PTL DEF SafeSpec

\* TypeOK for any number of clients and releases.
THEOREM TypesHold == SafeSpec => []TypeOK
<1>1. IInv => TypeOK
  BY DEF IInv
<1> QED  BY <1>1, InvariantHolds, PTL

\* HolderIsLive: the classifier uses what the live client holds, whatever
\* replaced or stopped clients still await.
THEOREM ClassifierFollows == SafeSpec => []HolderIsLive
<1>1. IInv => HolderIsLive
  BY DEF IInv
<1> QED  BY <1>1, InvariantHolds, PTL

\* StoppedIsInert: a stopped client activates and fetches nothing any more,
\* whatever it was awaiting.
THEOREM StoppedStays == SafeSpec => StoppedIsInert
<1>1. ASSUME IInv, [Next]_vars
      PROVE  [\A c \in Clients : stopped[c] /\ stopped'[c] =>
                /\ current'[c] = current[c]
                /\ fetch'[c] = "asked" => fetch[c] = "asked"]_vars
  <2>1. SUFFICES ASSUME Next, NEW d \in Clients, stopped[d], stopped'[d]
                 PROVE  /\ current'[d] = current[d]
                        /\ fetch'[d] = "asked" => fetch[d] = "asked"
    BY <1>1
  <2> USE DEF TypeOK
  <2>2. TypeOK /\ Lives(d) /\ d # client
    BY <1>1, <2>1 DEF IInv, Lives
  <2>3. ASSUME NEW c \in Clients, NEW rs, NEW wait, MaybeRefresh(c, rs, wait),
               c # d \/ rs = current[c]
        PROVE  current'[d] = current[d] /\ (fetch'[d] = "asked" => fetch[d] = "asked")
    BY <2>1, <2>2, <2>3 DEF MaybeRefresh, Activate
  <2>4. CASE Nudge
    BY <2>1, <2>2, <2>3, <2>4 DEF Nudge, Start
  <2>5. CASE StopClient \/ EditConfig \/ Publish
    BY <2>5 DEF StopClient, EditConfig, Publish, clientVars
  <2>6. CASE Restart
    BY <2>1, <2>6 DEF Restart, Each
  <2>7. ASSUME NEW c \in Clients, Bootstrap(c)
        PROVE  current'[d] = current[d] /\ (fetch'[d] = "asked" => fetch[d] = "asked")
    BY <2>1, <2>2, <2>3, <2>7 DEF Bootstrap, Start
  <2>8. ASSUME NEW c \in Clients, CacheLoaded(c)
        PROVE  current'[d] = current[d] /\ (fetch'[d] = "asked" => fetch[d] = "asked")
    BY <2>1, <2>3, <2>8 DEF CacheLoaded
  <2>9. ASSUME NEW c \in Clients, FetchSucceeds(c)
        PROVE  current'[d] = current[d] /\ (fetch'[d] = "asked" => fetch[d] = "asked")
    BY <2>1, <2>2, <2>9 DEF FetchSucceeds, Activate
  <2>10. ASSUME NEW c \in Clients,
                CacheRead(c) \/ FetchFails(c) \/ Saved(c) \/ TimePasses(c)
         PROVE  current'[d] = current[d] /\ (fetch'[d] = "asked" => fetch[d] = "asked")
    BY <2>1, <2>2, <2>10 DEF CacheRead, FetchFails, Saved, TimePasses
  <2> QED  BY <2>1, <2>4, <2>5, <2>6, <2>7, <2>8, <2>9, <2>10 DEF Next
<1> QED  BY <1>1, InvariantHolds, PTL DEF SafeSpec, StoppedIsInert

\* NeverRollsBack: a client that no request nudged during its cache read never
\* goes back to an older release.
THEOREM ReleasesAscend == SafeSpec => NeverRollsBack
<1>1. ASSUME IInv, [Next]_vars
      PROVE  [\A c \in Clients :
                current[c] \in Remote /\ current'[c] \in Remote /\ ~raced[c]
                  => current[c] <= current'[c]]_vars
  <2>0. \A x \in Remote : x <= x
    BY NotRemote
  <2>1. SUFFICES ASSUME Next, NEW d \in Clients, current[d] \in Remote,
                        current'[d] \in Remote, ~raced[d],
                        current'[d] # current[d]
                 PROVE  current[d] <= current'[d]
    BY <1>1, <2>0
  <2> USE DEF TypeOK
  <2>2. TypeOK /\ Ascends(d) /\ Lives(d)
    BY <1>1, <2>1 DEF IInv
  <2>3. ASSUME NEW c \in Clients, NEW rs, NEW wait, MaybeRefresh(c, rs, wait),
               c # d \/ rs = current[c]
        PROVE  FALSE
    BY <2>1, <2>2, <2>3, NotRemote DEF MaybeRefresh, Activate
  <2>4. CASE Nudge
    BY <2>1, <2>2, <2>3, <2>4 DEF Nudge, Start
  <2>5. CASE StopClient \/ EditConfig \/ Publish
    BY <2>1, <2>5 DEF StopClient, EditConfig, Publish, clientVars
  <2>6. CASE Restart
    BY <2>1, <2>6, NotRemote DEF Restart, Each
  <2>7. ASSUME NEW c \in Clients, Bootstrap(c) PROVE FALSE
    BY <2>1, <2>2, <2>3, <2>7 DEF Bootstrap, Start
  <2>8. ASSUME NEW c \in Clients, CacheLoaded(c) PROVE FALSE
    <3>1. c # d
      BY <2>1, <2>2, <2>8, NotRemote DEF CacheLoaded, Ascends
    <3> QED  BY <2>3, <2>8, <3>1 DEF CacheLoaded
  <2>9. ASSUME NEW c \in Clients, FetchSucceeds(c)
        PROVE  current[d] <= current'[d]
    <3>1. c = d /\ fetch[d] = "asked"
      BY <2>1, <2>2, <2>9 DEF FetchSucceeds, Activate
    <3>2. PICK v \in Remote : artifact[d] <= v /\ current'[d] = v
      BY <2>1, <2>2, <2>9, <3>1 DEF FetchSucceeds, Activate
    <3>3. current[d] <= artifact[d]
      BY <2>1, <2>2, <3>1 DEF Ascends
    <3>4. current[d] \in Nat /\ v \in Nat
      BY <2>1, NotRemote
    <3>5. artifact[d] \in Nat
      BY <2>1, <2>2
    <3> QED  BY <3>2, <3>3, <3>4, <3>5
  <2>10. ASSUME NEW c \in Clients,
                CacheRead(c) \/ FetchFails(c) \/ Saved(c) \/ TimePasses(c)
         PROVE  FALSE
    BY <2>1, <2>10 DEF CacheRead, FetchFails, Saved, TimePasses
  <2> QED  BY <2>1, <2>4, <2>5, <2>6, <2>7, <2>8, <2>9, <2>10 DEF Next
<1> QED  BY <1>1, InvariantHolds, PTL DEF SafeSpec, NeverRollsBack
=============================================================================
