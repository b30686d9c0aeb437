---------------------------- MODULE ReplayStore ----------------------------
(***************************************************************************)
(* The replay store (internal/store/replay.go) on top of WriteJSONAtomic   *)
(* (internal/persist/json.go), step by step: goroutines commit identities, *)
(* time passes, the process crashes or the machine loses power, and the    *)
(* file is loaded again.                                                   *)
(***************************************************************************)
EXTENDS Integers

CONSTANTS
    Keys,           \* replay identities
    Callers,        \* goroutines that call CommitAll
    TTL,            \* ReplayStore.ttl
    MaxTime,        \* bound: how far the clock runs
    MaxCrashes,     \* bound: crashes and power losses together
    Nobody,         \* s.mu is free
    Torn            \* the content of a file whose data was lost

ASSUME TimeAssumption ==
    TTL \in Nat \ {0} /\ MaxTime \in Nat /\ MaxCrashes \in Nat

ASSUME NobodyAssumption == Nobody \notin Callers

Never == -1 - TTL           \* no entry: older than any cutoff
Times == {Never} \cup 0..MaxTime
Maps == [Keys -> Times]
Empty == [k \in Keys |-> Never]

ASSUME TornAssumption == Torn \notin Maps

VARIABLES
    now,            \* the wall clock
    seenAt,         \* s.seenAt
    file,           \* the content at s.path
    previous,       \* the content before the last rename
    synced,         \* the data of file has reached the disk
    running,        \* a Run has loaded the store
    step,           \* where each caller is in CommitAll
    keys, at,       \* its arguments, and the time it read
    mu,             \* who holds s.mu
    next,           \* the map that is being written
    temp,           \* the temporary file
    crashes,
    acked           \* identities with their time, where CommitAll returned nil

vars == <<now, seenAt, file, previous, synced, running, step, keys, at, mu, next,
          temp, crashes, acked>>
diskVars == <<file, previous, synced>>
callVars == <<keys, at>>

Steps == {"idle", "called", "create", "write", "sync", "rename", "publish"}
Contents == {"none", "empty", "short", "full", "synced"}

TypeOK ==
    /\ now \in 0..MaxTime
    /\ seenAt \in Maps /\ next \in Maps
    /\ file \in Maps \cup {Torn} /\ previous \in Maps
    /\ synced \in BOOLEAN /\ running \in BOOLEAN
    /\ step \in [Callers -> Steps]
    /\ keys \in [Callers -> SUBSET Keys]
    /\ at \in [Callers -> 0..MaxTime]
    /\ mu \in Callers \cup {Nobody}
    /\ \A c \in Callers : step[c] \notin {"idle", "called"} <=> mu = c
    /\ temp \in Contents
    /\ mu = Nobody => temp = "none"
    /\ crashes \in 0..MaxCrashes
    /\ acked \in SUBSET (Keys \X (0..MaxTime))

Init ==
    /\ now = 0
    /\ seenAt = Empty /\ next = Empty /\ file = Empty /\ previous = Empty
    /\ synced = TRUE /\ running = FALSE
    /\ step = [c \in Callers |-> "idle"]
    /\ keys = [c \in Callers |-> {}]
    /\ at = [c \in Callers |-> 0]
    /\ mu = Nobody
    /\ temp = "none"
    /\ crashes = 0
    /\ acked = {}

----------------------------------------------------------------------------
\* Fault: an entry is dropped a moment before SeenAny forgets it.
PruneEarly(m, t) == [k \in Keys |-> IF m[k] <= t - TTL THEN Never ELSE m[k]]

PruneReplay(m, t) == [k \in Keys |-> IF m[k] < t - TTL THEN Never ELSE m[k]]

SeenAny(K) == \E k \in K : seenAt[k] # Never /\ seenAt[k] >= now - TTL

Tick ==
    /\ now < MaxTime
    /\ now' = now + 1
    /\ UNCHANGED <<seenAt, diskVars, running, step, callVars, mu, next, temp,
                   crashes, acked>>

\* Load, at the start of a Run.  A file that cannot be decoded is an error.
Load ==
    /\ ~running /\ mu = Nobody
    /\ file # Torn
    /\ seenAt' = PruneReplay(file, now)
    /\ running' = TRUE
    /\ UNCHANGED <<now, diskVars, step, callVars, mu, next, temp, crashes, acked>>

\* A Run ends only after all its goroutines have returned.
EndRun ==
    /\ running /\ \A c \in Callers : step[c] = "idle"
    /\ running' = FALSE
    /\ UNCHANGED <<now, seenAt, diskVars, step, callVars, mu, next, temp, crashes,
                   acked>>

\* CommitAll reads the clock before it locks.  The dispatcher delivers the
\* messages of a conversation one by one, so no two calls share an identity.
CommitAll(c, K) ==
    /\ running /\ step[c] = "idle"
    /\ K # {}
    /\ \A d \in Callers : step[d] # "idle" => keys[d] \cap K = {}
    /\ step' = [step EXCEPT ![c] = "called"]
    /\ keys' = [keys EXCEPT ![c] = K]
    /\ at' = [at EXCEPT ![c] = now]
    /\ UNCHANGED <<now, seenAt, diskVars, running, mu, next, temp, crashes, acked>>

\* The writer moves on inside WriteJSONAtomic.
Write(c, from, to, content) ==
    /\ step[c] = from
    /\ step' = [step EXCEPT ![c] = to]
    /\ temp' = content
    /\ UNCHANGED <<now, running, crashes>>

\* CommitAll returns and unlocks s.mu; its locals are gone.
Return(c) ==
    /\ mu' = Nobody
    /\ keys' = [keys EXCEPT ![c] = {}]
    /\ at' = [at EXCEPT ![c] = 0]
    /\ next' = Empty

\* Fault: memory is changed before the file.
PublishFirst(m) == seenAt' = m

PublishLater(m) == UNCHANGED seenAt

Lock(c) ==
    LET m == [k \in Keys |-> IF k \in keys[c] THEN at[c]
                             ELSE PruneReplay(seenAt, at[c])[k]]
    IN  /\ mu = Nobody
        /\ mu' = c
        /\ next' = m
        /\ PublishLater(m)
        /\ Write(c, "called", "create", "none")
        /\ UNCHANGED <<diskVars, callVars, acked>>

CreateTemp(c) ==
    /\ Write(c, "create", "write", "empty")
    /\ UNCHANGED <<seenAt, diskVars, callVars, mu, next, acked>>

WholeLength(content) == content = "full"

WriteTemp(c, content) ==
    /\ WholeLength(content)
    /\ Write(c, "write", "sync", content)
    /\ UNCHANGED <<seenAt, diskVars, callVars, mu, next, acked>>

SyncData == IF temp = "full" THEN "synced" ELSE temp

SyncTemp(c) ==
    /\ Write(c, "sync", "rename", SyncData)
    /\ UNCHANGED <<seenAt, diskVars, callVars, mu, next, acked>>

Rename(c) ==
    /\ file' = IF temp = "short" THEN Torn ELSE next
    /\ previous' = IF file = Torn THEN previous ELSE file
    /\ synced' = (temp = "synced")
    /\ Write(c, "rename", "publish", "none")
    /\ UNCHANGED <<seenAt, callVars, mu, next, acked>>

\* s.seenAt = next, and CommitAll returns nil.
Publish(c) ==
    /\ seenAt' = next
    /\ acked' = acked \cup (keys[c] \X {at[c]})
    /\ Write(c, "publish", "idle", "none")
    /\ Return(c)
    /\ UNCHANGED diskVars

TempRemoved == "none"

\* Any step fails: the deferred function removes the temporary file.
WriteFails(c) ==
    /\ step[c] \in {"create", "write", "sync", "rename"}
    /\ Write(c, step[c], "idle", TempRemoved)
    /\ Return(c)
    /\ UNCHANGED <<seenAt, diskVars, acked>>

----------------------------------------------------------------------------
\* The process is gone; a temporary file it leaves has a name of its own.
Down ==
    /\ crashes < MaxCrashes
    /\ crashes' = crashes + 1
    /\ running' = FALSE
    /\ seenAt' = Empty
    /\ step' = [c \in Callers |-> "idle"]
    /\ keys' = [c \in Callers |-> {}]
    /\ at' = [c \in Callers |-> 0]
    /\ mu' = Nobody
    /\ next' = Empty
    /\ temp' = "none"
    /\ UNCHANGED now

Crash == Down /\ UNCHANGED <<diskVars, acked>>

\* The directory may fall back to the file before the last rename, which
\* WriteJSONAtomic does not exclude; data that was not synced is lost.
PowerLoss ==
    /\ Down
    /\ file' \in {previous, IF synced THEN file ELSE Torn}
    /\ previous' = IF file' = Torn THEN previous ELSE file'
    /\ synced' = TRUE
    /\ acked' = {a \in acked : file' # Torn /\ file'[a[1]] = a[2]}

Committer(c) ==
    \/ \E K \in SUBSET Keys : CommitAll(c, K)
    \/ Lock(c) \/ CreateTemp(c)
    \/ \E content \in {"short", "full"} : WriteTemp(c, content)
    \/ SyncTemp(c) \/ Rename(c) \/ Publish(c) \/ WriteFails(c)

Next ==
    \/ Tick \/ Load \/ EndRun \/ Crash \/ PowerLoss
    \/ \E c \in Callers : Committer(c)

Spec == Init /\ [][Next]_vars

----------------------------------------------------------------------------
(***************************************************************************)
(* Properties.                                                             *)
(***************************************************************************)

\* For the whole time to live after CommitAll read the clock, an identity it
\* accepted is recognised, also by a later process and although other commits
\* prune the map and write it again.
WindowKept ==
    running => \A a \in acked : now - a[2] <= TTL => SeenAny({a[1]})

\* The file at its place is always one that was written completely, through
\* crashes, short writes and power losses (WriteJSONAtomic), and memory is never
\* ahead of it: whatever is recognised as a replay will be after a crash too.
MemoryIsDurable ==
    /\ file # Torn
    /\ \A k \in Keys : running /\ SeenAny({k}) => file[k] >= seenAt[k]
============================================================================
