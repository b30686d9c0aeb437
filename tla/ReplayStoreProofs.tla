------------------------- MODULE ReplayStoreProofs -------------------------
(***************************************************************************)
(* Proofs about ReplayStore for every set of identities and callers, every *)
(* time to live and every number of crashes.                               *)
(***************************************************************************)
EXTENDS ReplayStore, TLAPS

\* What the temporary file holds follows from where the writer is, so that only
\* synced data is ever renamed.
WriterTemp ==
    /\ synced
    /\ \A c \in Callers :
        /\ step[c] = "sync" => temp = "full"
        /\ step[c] = "rename" => temp = "synced"
    /\ file # Torn

\* Nobody commits while no Run has loaded the store, and clocks do not run ahead.
Clocks ==
    /\ \A c \in Callers : step[c] # "idle" => running /\ at[c] <= now
    /\ \A k \in Keys : seenAt[k] <= now /\ file[k] <= now /\ previous[k] <= now

\* Calls in progress share no identity, and no other commit has made an entry of
\* theirs younger than the time they read.
CallsApart ==
    \A c \in Callers : step[c] # "idle" =>
        /\ \A d \in Callers \ {c} : step[d] # "idle" => keys[c] \cap keys[d] = {}
        /\ \A k \in keys[c] : seenAt[k] <= at[c]

\* The holder of the lock writes memory, pruned, with its own identities in it.
NextMap ==
    \A c \in Callers : mu = c =>
        /\ \A k \in Keys : next[k] = IF k \in keys[c] THEN at[c]
                                     ELSE PruneReplay(seenAt, at[c])[k]
        /\ step[c] = "publish" => file = next

InWindow(t) == now - t <= TTL

\* Within the window, the file is at least as recent as memory, and both as what
\* was acknowledged.
Recent ==
    /\ running => \A k \in Keys : InWindow(seenAt[k]) => file[k] >= seenAt[k]
    /\ \A a \in acked : InWindow(a[2]) => /\ file[a[1]] >= a[2]
                                          /\ running => seenAt[a[1]] >= a[2]

Inv == TypeOK /\ WriterTemp /\ Clocks /\ CallsApart /\ NextMap /\ Recent

----------------------------------------------------------------------------
LEMMA TimeFacts ==
    /\ TTL \in Nat \ {0} /\ MaxTime \in Nat /\ MaxCrashes \in Nat
    /\ Never \in Int /\ Never < 0 - TTL
    /\ Times \subseteq Int /\ 0..MaxTime \subseteq Times /\ Never \in Times
    /\ Empty \in Maps
BY TimeAssumption DEF Never, Times, Empty, Maps

LEMMA PruneFacts ==
    ASSUME NEW m \in Maps, NEW t \in 0..MaxTime
    PROVE  /\ PruneReplay(m, t) \in Maps
           /\ \A k \in Keys : PruneReplay(m, t)[k] = IF m[k] < t - TTL THEN Never ELSE m[k]
BY TimeFacts DEF PruneReplay, Maps

\* No call is in progress.
LEMMA NoCalls ==
    /\ [c \in Callers |-> "idle"] \in [Callers -> Steps]
    /\ [c \in Callers |-> {}] \in [Callers -> SUBSET Keys]
    /\ [c \in Callers |-> 0] \in [Callers -> 0..MaxTime]
    /\ \A c \in Callers : [d \in Callers |-> "idle"][c] \notin {"idle", "called"}
                          <=> Nobody = c
BY TimeFacts, NobodyAssumption DEF Steps

LEMMA TypeInit == Init => TypeOK
<1> SUFFICES ASSUME Init PROVE TypeOK
  OBVIOUS
<1>1. /\ step \in [Callers -> Steps] /\ keys \in [Callers -> SUBSET Keys]
      /\ at \in [Callers -> 0..MaxTime]
  BY NoCalls DEF Init
<1>2. \A c \in Callers : step[c] \notin {"idle", "called"} <=> mu = c
  BY NoCalls DEF Init
<1>3. /\ now \in 0..MaxTime /\ seenAt \in Maps /\ next \in Maps /\ file \in Maps
      /\ previous \in Maps /\ crashes \in 0..MaxCrashes
  BY TimeFacts DEF Init
<1>4. synced \in BOOLEAN /\ running \in BOOLEAN
  BY DEF Init
<1>5. mu = Nobody /\ temp = "none" /\ acked \in SUBSET (Keys \X (0..MaxTime))
  BY DEF Init
<1> QED BY <1>1, <1>2, <1>3, <1>4, <1>5 DEF TypeOK, Contents

LEMMA DownType ==
    ASSUME TypeOK, Down
    PROVE  /\ now' \in 0..MaxTime /\ seenAt' \in Maps /\ next' \in Maps
           /\ running' \in BOOLEAN /\ crashes' \in 0..MaxCrashes
           /\ step' \in [Callers -> Steps] /\ keys' \in [Callers -> SUBSET Keys]
           /\ at' \in [Callers -> 0..MaxTime] /\ mu' = Nobody
           /\ \A c \in Callers : step'[c] \notin {"idle", "called"} <=> mu' = c
           /\ temp' = "none"
<1>1. /\ step' \in [Callers -> Steps] /\ keys' \in [Callers -> SUBSET Keys]
      /\ at' \in [Callers -> 0..MaxTime]
  BY NoCalls DEF Down
<1>2. \A c \in Callers : step'[c] \notin {"idle", "called"} <=> mu' = c
  BY NoCalls DEF Down
<1>3. /\ now' \in 0..MaxTime /\ seenAt' \in Maps /\ next' \in Maps
      /\ crashes' \in 0..MaxCrashes
  BY TimeFacts DEF Down, TypeOK
<1>4. running' \in BOOLEAN /\ mu' = Nobody /\ temp' = "none"
  BY DEF Down
<1> QED BY <1>1, <1>2, <1>3, <1>4

LEMMA TypeNext == ASSUME TypeOK, [Next]_vars PROVE TypeOK'
<1> USE TimeFacts, NobodyAssumption DEF TypeOK, diskVars, callVars
<1>1. CASE Tick
  BY <1>1 DEF Tick
<1>2. CASE Load
  BY <1>2, PruneFacts DEF Load
<1>3. CASE EndRun
  BY <1>3 DEF EndRun
<1>4. CASE Crash
  BY <1>4, DownType DEF Crash, Contents
<1>5. CASE PowerLoss
  <2>1. Down
    BY <1>5 DEF PowerLoss
  <2>2. file' \in Maps \cup {Torn} /\ previous' \in Maps /\ synced' \in BOOLEAN
    BY <1>5 DEF PowerLoss
  <2>3. acked' \in SUBSET (Keys \X (0..MaxTime))
    BY <1>5 DEF PowerLoss
  <2> QED BY <2>1, <2>2, <2>3, DownType DEF Contents
<1>6. ASSUME NEW c \in Callers, NEW K \in SUBSET Keys, CommitAll(c, K) PROVE TypeOK'
  BY <1>6 DEF CommitAll, Steps
<1>7. ASSUME NEW c \in Callers, Lock(c) PROVE TypeOK'
  <2>1. next' \in Maps
    BY <1>7, PruneFacts DEF Lock, Maps
  <2> QED BY <1>7, <2>1 DEF Lock, Write, PublishLater, Steps, Contents
<1>8. ASSUME NEW c \in Callers, CreateTemp(c) PROVE TypeOK'
  BY <1>8 DEF CreateTemp, Write, Steps, Contents
<1>9. ASSUME NEW c \in Callers, NEW content \in {"short", "full"}, WriteTemp(c, content)
      PROVE  TypeOK'
  BY <1>9 DEF WriteTemp, Write, Steps, Contents
<1>10. ASSUME NEW c \in Callers, SyncTemp(c) PROVE TypeOK'
  BY <1>10 DEF SyncTemp, SyncData, Write, Steps, Contents
<1>11. ASSUME NEW c \in Callers, Rename(c) PROVE TypeOK'
  BY <1>11 DEF Rename, Write, Steps, Contents
<1>12. ASSUME NEW c \in Callers, Publish(c) PROVE TypeOK'
  BY <1>12 DEF Publish, Write, Return, Steps, Contents
<1>13. ASSUME NEW c \in Callers, WriteFails(c) PROVE TypeOK'
  BY <1>13 DEF WriteFails, TempRemoved, Write, Return, Steps, Contents
<1>14. CASE UNCHANGED vars
  BY <1>14 DEF vars
<1> QED BY <1>1, <1>2, <1>3, <1>4, <1>5, <1>6, <1>7, <1>8, <1>9, <1>10, <1>11, <1>12,
           <1>13, <1>14 DEF Next, Committer
----------------------------------------------------------------------------
LEMMA InvInit == Init => Inv
<1> SUFFICES ASSUME Init PROVE Inv
  OBVIOUS
<1>1. TypeOK
  BY TypeInit
<1>2. WriterTemp
  BY TimeFacts, TornAssumption DEF Init, WriterTemp
<1>3. Clocks /\ CallsApart /\ NextMap
  BY TimeFacts, NobodyAssumption DEF Init, Clocks, CallsApart, NextMap, Empty
<1>4. Recent
  BY DEF Init, Recent
<1> QED BY <1>1, <1>2, <1>3, <1>4 DEF Inv

LEMMA WriterTempNext ==
    ASSUME TypeOK, WriterTemp, [Next]_vars PROVE WriterTemp'
<1> USE NobodyAssumption DEF TypeOK, WriterTemp, diskVars, callVars
<1>1. CASE Tick \/ Load \/ EndRun \/ UNCHANGED vars
  BY <1>1 DEF Tick, Load, EndRun, vars
<1>2. CASE Crash \/ PowerLoss
  BY <1>2, TornAssumption DEF Crash, PowerLoss, Down
<1>3. ASSUME NEW c \in Callers, NEW K \in SUBSET Keys, CommitAll(c, K)
      PROVE  WriterTemp'
  BY <1>3 DEF CommitAll
<1>4. ASSUME NEW c \in Callers, Lock(c) PROVE WriterTemp'
  BY <1>4 DEF Lock, Write
<1>5. ASSUME NEW c \in Callers, CreateTemp(c) PROVE WriterTemp'
  BY <1>5 DEF CreateTemp, Write
<1>6. ASSUME NEW c \in Callers, NEW content \in {"short", "full"}, WriteTemp(c, content)
      PROVE  WriterTemp'
  BY <1>6 DEF WriteTemp, WholeLength, Write
<1>7. ASSUME NEW c \in Callers, SyncTemp(c) PROVE WriterTemp'
  BY <1>7 DEF SyncTemp, SyncData, Write
<1>8. ASSUME NEW c \in Callers, Rename(c) PROVE WriterTemp'
  BY <1>8, TornAssumption DEF Rename, Write
<1>9. ASSUME NEW c \in Callers, Publish(c) \/ WriteFails(c) PROVE WriterTemp'
  BY <1>9 DEF Publish, WriteFails, Write
<1> QED BY <1>1, <1>2, <1>3, <1>4, <1>5, <1>6, <1>7, <1>8, <1>9 DEF Next, Committer

LEMMA Values ==
    ASSUME TypeOK, WriterTemp
    PROVE  /\ now \in 0..MaxTime /\ file \in Maps /\ seenAt \in Maps
           /\ \A k \in Keys : /\ seenAt[k] \in Int /\ file[k] \in Int
                              /\ previous[k] \in Int /\ next[k] \in Int
           /\ \A c \in Callers : at[c] \in 0..MaxTime /\ keys[c] \subseteq Keys
           /\ \A a \in acked : a[1] \in Keys /\ a[2] \in 0..MaxTime
BY TimeFacts DEF TypeOK, WriterTemp, Maps

LEMMA NextBounds ==
    ASSUME TypeOK, WriterTemp, Clocks, CallsApart, NextMap,
           NEW c \in Callers, mu = c, NEW k \in Keys
    PROVE  /\ running /\ at[c] \in 0..now /\ keys[c] \subseteq Keys
           /\ next[k] = IF k \in keys[c] THEN at[c]
                        ELSE IF seenAt[k] < at[c] - TTL THEN Never ELSE seenAt[k]
           /\ next[k] \in Int /\ seenAt[k] \in Int /\ file[k] \in Int
           /\ next[k] <= now
           /\ InWindow(seenAt[k]) => next[k] >= seenAt[k]
<1>1. at[c] \in 0..MaxTime /\ now \in 0..MaxTime /\ step[c] # "idle"
      /\ keys[c] \subseteq Keys /\ seenAt \in Maps /\ file \in Maps
  BY DEF TypeOK, WriterTemp
<1>2. running /\ at[c] <= now
  BY <1>1 DEF Clocks
<1>3. seenAt[k] \in Int /\ file[k] \in Int /\ seenAt[k] <= now
  BY <1>1, TimeFacts DEF Maps, Clocks
<1>4. next[k] = IF k \in keys[c] THEN at[c]
                ELSE IF seenAt[k] < at[c] - TTL THEN Never ELSE seenAt[k]
  BY <1>1, PruneFacts DEF NextMap
<1>5. k \in keys[c] => seenAt[k] <= at[c]
  BY <1>1 DEF CallsApart
<1> QED BY <1>1, <1>2, <1>3, <1>4, <1>5, TimeFacts DEF InWindow

LEMMA ClocksNext ==
    ASSUME TypeOK, TypeOK', WriterTemp, Clocks, CallsApart, NextMap, [Next]_vars
    PROVE  Clocks'
<1> USE TimeFacts, NobodyAssumption DEF TypeOK, Clocks, diskVars, callVars
<1>1. CASE Tick \/ EndRun \/ UNCHANGED vars
  <2>1. now' >= now /\ UNCHANGED <<seenAt, file, previous, at>>
    BY <1>1, Values DEF Tick, EndRun, vars
  <2>2. \A c \in Callers : step'[c] # "idle" => running'
    BY <1>1 DEF Tick, EndRun, vars
  <2>3. \A c \in Callers : step'[c] # "idle" => step[c] # "idle"
    BY <1>1 DEF Tick, EndRun, vars
  <2>4. now' \in Int
    OBVIOUS
  <2> QED BY <2>1, <2>2, <2>3, <2>4, Values
<1>2. CASE Load
  <2>1. \A k \in Keys : seenAt'[k] \in {file[k], Never}
    BY <1>2, Values, PruneFacts DEF Load
  <2>2. \A c \in Callers : step'[c] # "idle" => running' /\ at'[c] <= now'
    BY <1>2 DEF Load
  <2>3. UNCHANGED <<now, file, previous>>
    BY <1>2 DEF Load
  <2> QED BY <2>1, <2>2, <2>3, Values
<1>3. CASE Crash \/ PowerLoss
  <2>1. \A k \in Keys : seenAt'[k] = Never
    BY <1>3 DEF Crash, PowerLoss, Down, Empty
  <2>2. \A c \in Callers : step'[c] = "idle"
    BY <1>3 DEF Crash, PowerLoss, Down
  <2>3. now' = now /\ file' \in {file, previous} /\ previous' \in {file, previous}
    BY <1>3 DEF Crash, PowerLoss, Down, WriterTemp
  <2> QED BY <2>1, <2>2, <2>3, Values
<1>4. ASSUME NEW c \in Callers, NEW K \in SUBSET Keys, CommitAll(c, K)
      PROVE  Clocks'
  BY <1>4 DEF CommitAll
<1>5. ASSUME NEW c \in Callers, Lock(c) PROVE Clocks'
  BY <1>5 DEF Lock, PublishLater, Write
<1>6. ASSUME NEW c \in Callers,
             CreateTemp(c) \/ (\E x \in {"short", "full"} : WriteTemp(c, x))
               \/ SyncTemp(c)
      PROVE  Clocks'
  BY <1>6 DEF CreateTemp, WriteTemp, SyncTemp, Write
<1>7. ASSUME NEW c \in Callers, Rename(c) PROVE Clocks'
  <2>1. mu = c
    BY <1>7 DEF Rename, Write
  <2>2. \A k \in Keys : next[k] <= now
    BY <2>1, NextBounds
  <2> QED BY <1>7, <2>2 DEF Rename, Write, WriterTemp
<1>8. ASSUME NEW c \in Callers, Publish(c) PROVE Clocks'
  <2>1. mu = c
    BY <1>8 DEF Publish, Write
  <2>2. \A k \in Keys : next[k] <= now
    BY <2>1, NextBounds
  <2> QED BY <1>8, <2>2 DEF Publish, Return, Write
<1>9. ASSUME NEW c \in Callers, WriteFails(c) PROVE Clocks'
  BY <1>9 DEF WriteFails, Return, Write
<1> QED BY <1>1, <1>2, <1>3, <1>4, <1>5, <1>6, <1>7, <1>8, <1>9 DEF Next, Committer

LEMMA CallsApartNext ==
    ASSUME TypeOK, TypeOK', WriterTemp, Clocks, CallsApart, NextMap, [Next]_vars
    PROVE  CallsApart'
<1> USE NobodyAssumption DEF TypeOK, diskVars, callVars
<1>1. CASE Tick \/ EndRun \/ UNCHANGED vars
  BY <1>1 DEF Tick, EndRun, vars, CallsApart
<1>2. CASE Load
  BY <1>2 DEF Load, Clocks, CallsApart
<1>3. CASE Crash \/ PowerLoss
  BY <1>3 DEF Crash, PowerLoss, Down, CallsApart
<1>4. ASSUME NEW c \in Callers, NEW K \in SUBSET Keys, CommitAll(c, K)
      PROVE  CallsApart'
  BY <1>4 DEF CommitAll, CallsApart, Clocks
<1>5. ASSUME NEW c \in Callers, Lock(c) PROVE CallsApart'
  BY <1>5 DEF Lock, PublishLater, Write, CallsApart
<1>6. ASSUME NEW c \in Callers,
             CreateTemp(c) \/ (\E x \in {"short", "full"} : WriteTemp(c, x))
               \/ SyncTemp(c) \/ Rename(c)
      PROVE  CallsApart'
  BY <1>6 DEF CreateTemp, WriteTemp, SyncTemp, Rename, Write, CallsApart
<1>7. ASSUME NEW c \in Callers, Publish(c) PROVE CallsApart'
  <2>1. mu = c /\ step[c] # "idle"
    BY <1>7 DEF Publish, Write
  <2>2. ASSUME NEW d \in Callers, step'[d] # "idle", NEW k \in keys'[d]
        PROVE  seenAt'[k] <= at'[d]
    <3>1. d # c /\ step[d] # "idle" /\ keys'[d] = keys[d] /\ at'[d] = at[d]
      BY <1>7, <2>2 DEF Publish, Write, Return
    <3>2. k \in Keys /\ k \notin keys[c] /\ seenAt[k] <= at[d] /\ at[d] \in Nat
      BY <2>1, <2>2, <3>1 DEF CallsApart
    <3>3. next[k] \in {Never, seenAt[k]}
      BY <2>1, <3>2, NextBounds
    <3> QED BY <1>7, <3>1, <3>2, <3>3, TimeFacts DEF Publish
  <2> QED BY <1>7, <2>2 DEF Publish, Write, Return, CallsApart
<1>8. ASSUME NEW c \in Callers, WriteFails(c) PROVE CallsApart'
  BY <1>8 DEF WriteFails, Return, Write, CallsApart
<1> QED BY <1>1, <1>2, <1>3, <1>4, <1>5, <1>6, <1>7, <1>8 DEF Next, Committer

LEMMA NextMapNext ==
    ASSUME TypeOK, TypeOK', WriterTemp, Clocks, NextMap, [Next]_vars PROVE NextMap'
<1> USE NobodyAssumption DEF TypeOK, diskVars, callVars, NextMap
<1>1. CASE Tick \/ EndRun \/ UNCHANGED vars
  BY <1>1 DEF Tick, EndRun, vars, PruneReplay
<1>2. CASE Load \/ Crash \/ PowerLoss
  BY <1>2 DEF Load, Crash, PowerLoss, Down
<1>3. ASSUME NEW c \in Callers, NEW K \in SUBSET Keys, CommitAll(c, K)
      PROVE  NextMap'
  BY <1>3 DEF CommitAll, PruneReplay
<1>4. ASSUME NEW c \in Callers, Lock(c) PROVE NextMap'
  BY <1>4 DEF Lock, PublishLater, Write, PruneReplay
<1>5. ASSUME NEW c \in Callers,
             CreateTemp(c) \/ (\E x \in {"short", "full"} : WriteTemp(c, x))
               \/ SyncTemp(c)
      PROVE  NextMap'
  BY <1>5 DEF CreateTemp, WriteTemp, SyncTemp, Write, PruneReplay
<1>6. ASSUME NEW c \in Callers, Rename(c) PROVE NextMap'
  BY <1>6 DEF Rename, Write, WriterTemp, PruneReplay
<1>7. ASSUME NEW c \in Callers, Publish(c) \/ WriteFails(c) PROVE NextMap'
  BY <1>7 DEF Publish, WriteFails, Return, Write
<1> QED BY <1>1, <1>2, <1>3, <1>4, <1>5, <1>6, <1>7 DEF Next, Committer

LEMMA RecentNext ==
    ASSUME Inv, TypeOK', [Next]_vars PROVE Recent'
<1> USE TimeFacts, NobodyAssumption DEF Inv, diskVars, callVars
<1>0. /\ now \in 0..MaxTime /\ file \in Maps /\ seenAt \in Maps
      /\ \A a \in acked : a[1] \in Keys /\ a[2] \in 0..MaxTime
      /\ \A k \in Keys : seenAt[k] \in Int /\ file[k] \in Int
      /\ \A k \in Keys : next[k] \in Int
  BY Values
<1>1. CASE Tick \/ UNCHANGED vars
  BY <1>0, <1>1 DEF Tick, vars, Recent, InWindow
<1>2. CASE Load
  <2>1. \A k \in Keys : seenAt'[k] = IF file[k] < now - TTL THEN Never ELSE file[k]
    BY <1>0, <1>2, PruneFacts DEF Load
  <2> QED BY <1>0, <1>2, <2>1 DEF Load, Recent, InWindow
<1>3. CASE EndRun \/ Crash
  BY <1>3 DEF EndRun, Crash, Down, Recent, InWindow
<1>4. CASE PowerLoss
  BY <1>0, <1>4 DEF PowerLoss, Down, Recent, InWindow, TypeOK, Maps
<1>5. ASSUME NEW c \in Callers, Rename(c) PROVE Recent'
  <2>1. mu = c
    BY <1>5 DEF Rename, Write, TypeOK
  <2>2. file' = next /\ UNCHANGED <<now, running, seenAt, acked>>
    BY <1>5 DEF Rename, Write, WriterTemp
  <2>3. \A k \in Keys : InWindow(seenAt[k]) => next[k] >= seenAt[k]
    BY <2>1, NextBounds
  <2>4. \A a \in acked : InWindow(a[2]) => InWindow(seenAt[a[1]]) /\ seenAt[a[1]] >= a[2]
    BY <1>0, <2>1, NextBounds DEF Recent, InWindow
  <2>5. \A a \in acked : InWindow(a[2]) => next[a[1]] >= a[2]
    BY <1>0, <2>3, <2>4
  <2> QED BY <2>2, <2>3, <2>4, <2>5 DEF Recent, InWindow
<1>6. ASSUME NEW c \in Callers, Publish(c) PROVE Recent'
  <2>1. mu = c /\ file = next
    BY <1>6 DEF Publish, Write, TypeOK, NextMap
  <2>2. /\ seenAt' = next /\ acked' = acked \cup (keys[c] \X {at[c]})
        /\ UNCHANGED <<now, running, file>>
    BY <1>6 DEF Publish, Write
  <2>3. \A k \in Keys : k \in keys[c] => next[k] = at[c]
    BY <2>1, NextBounds
  <2>4. at[c] \in Int /\ keys[c] \subseteq Keys
    BY Values
  <2>5. \A a \in acked' : InWindow(a[2]) => next[a[1]] >= a[2]
    <3>1. \A a \in keys[c] \X {at[c]} : a[1] \in keys[c] /\ a[2] = at[c]
      OBVIOUS
    <3>2. \A a \in keys[c] \X {at[c]} : next[a[1]] >= a[2]
      BY <2>3, <2>4, <3>1
    <3>3. \A a \in acked : InWindow(a[2]) => next[a[1]] >= a[2]
      BY <2>1 DEF Recent
    <3> QED BY <2>2, <3>2, <3>3
  <2>6. \A k \in Keys : next[k] >= next[k]
    BY <1>0
  <2> QED BY <2>1, <2>2, <2>5, <2>6 DEF Recent, InWindow
<1>7. ASSUME NEW c \in Callers,
             \/ \E K \in SUBSET Keys : CommitAll(c, K)
             \/ Lock(c) \/ CreateTemp(c)
             \/ \E x \in {"short", "full"} : WriteTemp(c, x)
             \/ SyncTemp(c) \/ WriteFails(c)
      PROVE  Recent'
  <2>1. UNCHANGED <<now, running, file, seenAt, acked>>
    BY <1>7 DEF CommitAll, Lock, PublishLater, CreateTemp, WriteTemp, SyncTemp, WriteFails,
       Write
  <2> QED BY <2>1 DEF Recent, InWindow
<1> QED BY <1>1, <1>2, <1>3, <1>4, <1>5, <1>6, <1>7 DEF Next, Committer

LEMMA InvInvariant == Spec => []Inv
<1>1. ASSUME Inv, [Next]_vars PROVE Inv'
  <2>1. TypeOK' /\ WriterTemp'
    BY <1>1, TypeNext, WriterTempNext DEF Inv
  <2> QED BY <1>1, <2>1, ClocksNext, CallsApartNext, NextMapNext, RecentNext DEF Inv
<1> QED BY <1>1, InvInit, PTL DEF Spec

----------------------------------------------------------------------------
\* The file at s.path is always a whole one, and a replay that is recognised now
\* is recognised after a crash: neither a failed write nor the order of
\* concurrent commits lets memory run ahead of the disk.
THEOREM DurableInvariant == Spec => []MemoryIsDurable
<1>1. Inv => MemoryIsDurable
  <2> SUFFICES ASSUME Inv PROVE MemoryIsDurable
    OBVIOUS
  <2>1. ASSUME NEW k \in Keys, SeenAny({k}) PROVE InWindow(seenAt[k])
    <3>1. seenAt[k] >= now - TTL
      BY <2>1 DEF SeenAny
    <3> QED BY <3>1, Values, TimeFacts DEF InWindow, Inv
  <2> QED BY <2>1 DEF Inv, WriterTemp, Recent, MemoryIsDurable
<1> QED BY <1>1, InvInvariant, PTL

\* For its whole time to live an identity that CommitAll accepted is recognised
\* as a replay, whatever other commits prune, and by later processes too.
THEOREM WindowInvariant == Spec => []WindowKept
<1>1. Inv => WindowKept
  <2> SUFFICES ASSUME Inv, running, NEW a \in acked, now - a[2] <= TTL
               PROVE  SeenAny({a[1]})
    BY DEF WindowKept
  <2>1. seenAt[a[1]] >= a[2] /\ a[1] \in Keys /\ a[2] \in 0..MaxTime
    BY Values DEF Inv, Recent, InWindow
  <2>2. seenAt[a[1]] >= now - TTL /\ seenAt[a[1]] # Never
    BY <2>1, Values, TimeFacts DEF Inv
  <2> QED BY <2>2 DEF SeenAny
<1> QED BY <1>1, InvInvariant, PTL

\* Every variable keeps its range, and s.mu is held exactly by the caller that is
\* inside WriteJSONAtomic.
THEOREM TypeInvariant == Spec => []TypeOK
BY InvInvariant, PTL DEF Inv
============================================================================
