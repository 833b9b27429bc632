------------------------------ MODULE ResultCache ------------------------------
(***************************************************************************)
(* The cache of provider results (pkg/cache) and the provider decorator    *)
(* that uses it (pkg/triage/cached.go).  Several processes may share one   *)
(* directory or one bucket; the lock of a cache is one process's own.      *)
(*                                                                         *)
(* An object is what a rename or an upload installs at once.  Its value is *)
(* the provider's answer: what it answers and when it was given.           *)
(***************************************************************************)
EXTENDS Integers, FiniteSets

CONSTANTS
  Questions,    \* what a provider is asked: operation, model and sanitized prompt
  Oversized,    \* questions whose answer is longer than maxValueBytes
  Clients,      \* goroutines that ask
  Instances,    \* caches constructed over the same store
  InstanceOf,   \* the cache a client uses
  MaxEntries,   \* WithMaxEntries
  TTL,          \* WithDefaultTTL
  MaxClock      \* bound: time

ASSUME ResultCacheAssumption ==
  /\ Questions \subseteq [operation : STRING, model : STRING, prompt : STRING]
  /\ Oversized \subseteq Questions
  /\ IsFiniteSet(Instances) /\ InstanceOf \in [Clients -> Instances]
  /\ "none" \notin Clients
  /\ {MaxEntries, TTL} \subseteq Nat \ {0} /\ MaxClock \in Nat

VARIABLES
  backend,     \* "file" or "remote"
  objects,     \* stored objects, at most one for a digest
  cacheLock,   \* the client that holds the lock of a cache, or none
  asking,      \* where each client is
  cacheClock

cacheVars == <<backend, objects, cacheLock, asking, cacheClock>>

Idle == [pc |-> "idle"]
NoHolder == "none"

\* Fault: answers of different models share a key.
DigestWithoutModel(q) == [operation |-> q.operation, prompt |-> q.prompt]

\* CacheKey.Digest of semanticKey: schema and operation, provider, model and prompt.
Digest(q) == [operation |-> q.operation, model |-> q.model, prompt |-> q.prompt]

CacheInit ==
  /\ backend \in {"file", "remote"}
  /\ objects = {}
  /\ cacheLock = [i \in Instances |-> NoHolder]
  /\ asking = [c \in Clients |-> Idle]
  /\ cacheClock = 0

Now(c, next) == asking' = [asking EXCEPT ![c] = next]
Stored(q) == {o \in objects : o.digest = Digest(q)}
Free(c) == cacheLock[InstanceOf[c]] = NoHolder
Release(c) == cacheLock' = [cacheLock EXCEPT ![InstanceOf[c]] = NoHolder]

-----------------------------------------------------------------------------
(* Reading. *)

\* readEnvelope: what does not open, is not this key's or is too large is corrupt.
Intact(o, q) == o.intact /\ o.digest = Digest(q)

Alive(o) == o.expires > cacheClock

\* Diagnose, Explain: the cache is asked first.  A hit is the answer if it decodes; what is
\* expired or corrupt will be removed.  A request that bypasses the cache neither looks up
\* nor stores, so it is no step.
Lookup(c, q) ==
  /\ asking[c] = Idle
  /\ backend = "file" => Free(c)
  /\ LET hit == {o \in Stored(q) : Intact(o, q) /\ Alive(o)}
     IN  Now(c, CASE hit # {} -> [pc |-> "served", q |-> q, value |-> (CHOOSE o \in hit : TRUE).value, at |-> cacheClock]
                  [] Stored(q) \ hit # {} -> [pc |-> "discard", q |-> q]
                  [] OTHER -> [pc |-> "provider", q |-> q])
  /\ cacheLock' = IF backend = "file" /\ asking'[c].pc = "discard"
                    THEN [cacheLock EXCEPT ![InstanceOf[c]] = c] ELSE cacheLock
  /\ UNCHANGED <<backend, objects, cacheClock>>

\* The store cannot be read, or the lock is not had in time: the provider is asked, and what is
\* stored stays.
LookupFails(c, q) ==
  /\ asking[c] = Idle
  /\ Now(c, [pc |-> "provider", q |-> q])
  /\ UNCHANGED <<backend, objects, cacheLock, cacheClock>>

\* The removal names the object, not the version that was read; its error is ignored.
Discard(c) ==
  /\ asking[c].pc = "discard"
  /\ objects' \in {objects, objects \ Stored(asking[c].q)}
  /\ IF cacheLock[InstanceOf[c]] = c THEN Release(c) ELSE UNCHANGED cacheLock
  /\ Now(c, [pc |-> "provider", q |-> asking[c].q])
  /\ UNCHANGED <<backend, cacheClock>>

-----------------------------------------------------------------------------
(* Writing. *)

\* The provider answers, and the caller has its answer whatever the cache does with it; or
\* it fails and nothing is stored.
ProviderAnswers(c) ==
  /\ asking[c].pc = "provider"
  /\ LET q == asking[c].q
     IN  Now(c, IF q \in Oversized THEN Idle
                ELSE [pc |-> "store", q |-> q, value |-> [answers |-> q, given |-> cacheClock], at |-> cacheClock])
  /\ UNCHANGED <<backend, objects, cacheLock, cacheClock>>

ProviderFails(c) ==
  /\ asking[c].pc = "provider"
  /\ Now(c, Idle)
  /\ UNCHANGED <<backend, objects, cacheLock, cacheClock>>

\* Fault: a full cache takes another entry.
HasRoomAlways(q) == TRUE

\* The limit counts objects, expired ones too; a key that is there is replaced.
HasRoom(q) == Cardinality(objects) < MaxEntries \/ Stored(q) # {}

\* Set under the lock: the objects are counted, and a full cache refuses.
SetCounts(c) ==
  /\ asking[c].pc = "store" /\ Free(c)
  /\ IF HasRoom(asking[c].q)
       THEN /\ cacheLock' = [cacheLock EXCEPT ![InstanceOf[c]] = c]
            /\ Now(c, [asking[c] EXCEPT !.pc = "put"])
       ELSE /\ UNCHANGED cacheLock
            /\ Now(c, Idle)
  /\ UNCHANGED <<backend, objects, cacheClock>>

\* The object is installed, or the write fails.  Its life began when Set was called.
SetPuts(c) ==
  /\ asking[c].pc = "put"
  /\ LET q == asking[c].q
     IN  objects' \in {objects,
                       (objects \ Stored(q)) \cup
                         {[digest |-> Digest(q), value |-> asking[c].value,
                           expires |-> asking[c].at + TTL, intact |-> TRUE]}}
  /\ Release(c)
  /\ Now(c, Idle)
  /\ UNCHANGED <<backend, cacheClock>>

\* The caller goes on with what the cache had.
Served(c) ==
  /\ asking[c].pc = "served"
  /\ Now(c, Idle)
  /\ UNCHANGED <<backend, objects, cacheLock, cacheClock>>

-----------------------------------------------------------------------------
(* Operators and the world. *)

\* Remove of the command line.
RemoveEntry(c, q) ==
  /\ asking[c] = Idle
  /\ backend = "file" => Free(c)
  /\ objects' = objects \ Stored(q)
  /\ UNCHANGED <<backend, cacheLock, asking, cacheClock>>

\* The remote List and Purge refuse to look at more than the limit.
MayScan == backend = "remote" => Cardinality(objects) <= MaxEntries

\* List: what is corrupt or expired goes.
ListEntries(c) ==
  /\ asking[c] = Idle /\ MayScan
  /\ backend = "file" => Free(c)
  /\ objects' = {o \in objects : o.intact /\ Alive(o)}
  /\ UNCHANGED <<backend, cacheLock, asking, cacheClock>>

\* Purge removes what it listed, one by one; it may stop in between.
PurgeEntries(c) ==
  /\ asking[c] = Idle /\ MayScan
  /\ backend = "file" => Free(c)
  /\ objects' \in SUBSET objects
  /\ UNCHANGED <<backend, cacheLock, asking, cacheClock>>

ObjectDamaged ==
  /\ \E o \in objects : o.intact /\ objects' = (objects \ {o}) \cup {[o EXCEPT !.intact = FALSE]}
  /\ UNCHANGED <<backend, cacheLock, asking, cacheClock>>

CacheTick ==
  /\ cacheClock < MaxClock
  /\ cacheClock' = cacheClock + 1
  /\ UNCHANGED <<backend, objects, cacheLock, asking>>

CacheNext ==
  \/ \E c \in Clients :
       \/ \E q \in Questions : Lookup(c, q) \/ LookupFails(c, q)
       \/ Discard(c) \/ ProviderAnswers(c) \/ ProviderFails(c)
       \/ SetCounts(c) \/ SetPuts(c) \/ Served(c)
       \/ \E q \in Questions : RemoveEntry(c, q)
       \/ ListEntries(c) \/ PurgeEntries(c)
  \/ ObjectDamaged
  \/ CacheTick

CacheSpec == CacheInit /\ [][CacheNext]_cacheVars

-----------------------------------------------------------------------------
(* Properties. *)

\* What a client is served from the cache answers its own question and was younger than the
\* TTL when it was read, whatever was damaged, replaced or removed meanwhile
\* (CachedProvider.Diagnose, readEntryLocked, RemoteCache.Get).
ServedIsFresh ==
  \A c \in Clients :
    asking[c].pc = "served" =>
      /\ asking[c].value.answers = asking[c].q
      /\ asking[c].at - asking[c].value.given < TTL

\* Processes that share a store count before they write, each under its own lock: the
\* limit is exceeded by at most one entry for every further process (Set).
NearlyBounded == Cardinality(objects) <= MaxEntries + Cardinality(Instances) - 1
=============================================================================
