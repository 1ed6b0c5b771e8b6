------------------------------- MODULE Caches -------------------------------
(***************************************************************************)
(* The two read-through caches: profiles (UserService.getProfile and       *)
(* updateProfile) and task lists (TaskService.listTasks).  What MongoDB    *)
(* holds under a key is a version number, one more with every write.       *)
(* Between the look into Redis, the read from MongoDB and the write back   *)
(* into Redis a request awaits, and other requests write.  A write of the  *)
(* tasks, and a write of a user by anything but updateProfile, leaves the  *)
(* cache alone.                                                            *)
(***************************************************************************)
EXTENDS Integers

CONSTANTS
    Profiles,       \* users:profile:<id>
    Lists,          \* task_list_cache:<query>
    NoEntryKey,
    Readers,        \* requests that may be in flight
    CacheTTL,
    MaxVersion      \* bound: the versions of one key

CacheKeys == Profiles \cup Lists

ASSUME CachesAssumption ==
    /\ Profiles \cap Lists = {}
    /\ NoEntryKey \notin CacheKeys
    /\ CacheTTL \in Nat \ {0}
    /\ MaxVersion \in Nat

VARIABLES
    version,        \* what MongoDB holds under each key
    entry,          \* what Redis holds: a version and the ticks it has left
    visit,          \* what each request is doing, and the version it holds
    overtaken,      \* history: requests whose version was superseded after
                    \*   they got it
    excused         \* history: keys whose entry may be out of date

cacheVars == <<version, entry, visit, overtaken, excused>>

NoEntry == [version |-> 0, left |-> 0]

NoVisit == [at |-> "none", key |-> NoEntryKey, version |-> 0]

CacheInit ==
    /\ version = [k \in CacheKeys |-> 0]
    /\ entry = [k \in CacheKeys |-> NoEntry]
    /\ visit = [q \in Readers |-> NoVisit]
    /\ overtaken = {}
    /\ excused = {}

Cached(k) == entry[k].left > 0

\* The entry of k is not what MongoDB holds.
Stale(k) == Cached(k) /\ entry[k].version # version[k]

-----------------------------------------------------------------------------
At(q, step) == visit[q].at = step

Go(q, step, k, v) == visit' = [visit EXCEPT ![q] = [at |-> step, key |-> k, version |-> v]]

\* The requests that hold a version of a key in K.
Holders(K) == {q \in Readers : visit[q].at \in {"fill", "tell"} /\ visit[q].key \in K}

\* MongoDB holds new versions under the keys K.
Write(K) ==
    /\ \A k \in K : version[k] < MaxVersion
    /\ version' = [k \in CacheKeys |-> IF k \in K THEN version[k] + 1 ELSE version[k]]
    /\ overtaken' = overtaken \cup Holders(K)

EndVisit(q) ==
    /\ visit' = [visit EXCEPT ![q] = NoVisit]
    /\ overtaken' = overtaken \ {q}

\* Mutant of LookUp: a hit is good for another TTL.
LookUpRenews(q, k) ==
    /\ visit[q] = NoVisit
    /\ IF Cached(k)
         THEN entry' = [entry EXCEPT ![k].left = CacheTTL] /\ UNCHANGED visit
         ELSE Go(q, "load", k, 0) /\ UNCHANGED entry
    /\ UNCHANGED <<version, overtaken, excused>>

\* GET.  When it answers, the request is over; when it answers nothing, or Redis
\* is away, the request goes on to MongoDB.
LookUp(q, k) ==
    /\ visit[q] = NoVisit
    /\ Go(q, "load", k, 0)
    /\ UNCHANGED <<version, entry, overtaken, excused>>

GetProfile(q, k) == LookUp(q, k)

ListTasks(q, k) == LookUp(q, k)

\* The version MongoDB holds when the read arrives there.
Load(q) ==
    /\ At(q, "load")
    /\ Go(q, "fill", visit[q].key, version[visit[q].key])
    /\ UNCHANGED <<version, entry, overtaken, excused>>

\* The write into the cache, SET with the TTL.
Put(q) ==
    LET k == visit[q].key
    IN  /\ visit[q].at \in {"fill", "tell"}
        /\ entry' = [entry EXCEPT ![k] = [version |-> visit[q].version, left |-> CacheTTL]]
        /\ excused' = IF q \in overtaken THEN excused \cup {k} ELSE excused \ {k}
        /\ EndVisit(q)
        /\ UNCHANGED version

\* The request ends without it: Redis is away and set returns without a word,
\* a command throws, or the instance dies.
DropVisit(q) ==
    /\ visit[q] # NoVisit
    /\ excused' = IF At(q, "tell") THEN excused \cup {visit[q].key} ELSE excused
    /\ EndVisit(q)
    /\ UNCHANGED <<version, entry>>

\* Mutant of UpdateProfile: findByIdAndUpdate without { new: true } answers the
\* document as it was.
UpdateProfileOld(q, k) ==
    /\ visit[q] = NoVisit
    /\ Write({k})
    /\ Go(q, "tell", k, version[k])
    /\ UNCHANGED <<entry, excused>>

\* updateProfile: findByIdAndUpdate writes and answers the new document, which
\* the request then puts into the cache.
UpdateProfile(q, k) ==
    /\ visit[q] = NoVisit
    /\ Write({k})
    /\ Go(q, "tell", k, version'[k])
    /\ UNCHANGED <<entry, excused>>

\* A write that leaves the cache alone.
Outdate(K) ==
    /\ Write(K)
    /\ excused' = excused \cup K
    /\ UNCHANGED <<entry, visit>>

\* updateUserStatus, as every save of a user's balance.
OutdateProfile(k) == Outdate({k})

\* createTask, updateTask and softDeleteTask, for the lists that show the task.
OutdateLists(K) == Outdate(K)

\* Time passes; entries expire.
CacheTick ==
    /\ \E k \in CacheKeys : Cached(k)
    /\ entry' = [k \in CacheKeys |->
                   IF entry[k].left > 1 THEN [entry[k] EXCEPT !.left = @ - 1] ELSE NoEntry]
    /\ UNCHANGED <<version, visit, overtaken, excused>>

CacheStep(q) == Load(q) \/ Put(q) \/ DropVisit(q)

CacheNext ==
    \/ \E q \in Readers, k \in Profiles : GetProfile(q, k) \/ UpdateProfile(q, k)
    \/ \E q \in Readers, k \in Lists : ListTasks(q, k)
    \/ \E q \in Readers : CacheStep(q)
    \/ \E k \in Profiles : OutdateProfile(k)
    \/ \E K \in SUBSET Lists \ {{}} : OutdateLists(K)
    \/ CacheTick

CacheSpec == CacheInit /\ [][CacheNext]_cacheVars

\* A request is answered or fails, and time passes.
CacheFairness ==
    /\ WF_cacheVars(CacheTick)
    /\ \A q \in Readers : WF_cacheVars(CacheStep(q))
-----------------------------------------------------------------------------
\* Type invariant: versions, entries and requests.
CacheTypeOK ==
    /\ version \in [CacheKeys -> 0 .. MaxVersion]
    /\ entry \in [CacheKeys -> [version : 0 .. MaxVersion, left : 0 .. CacheTTL]]
    /\ visit \in [Readers -> [at : {"none", "load", "fill", "tell"},
                              key : CacheKeys \cup {NoEntryKey},
                              version : 0 .. MaxVersion]]
    /\ overtaken \in SUBSET Readers
    /\ excused \in SUBSET CacheKeys

\* A cached profile or list that is out of date has a cause: an update that has
\* not reached the cache yet or broke off before it did, a write that leaves
\* the cache alone, or a request that read its version before the write and put
\* it back after.
StaleHasCause ==
    \A k \in CacheKeys :
        Stale(k) => \/ k \in excused
                    \/ \E q \in Readers : At(q, "tell") /\ visit[q].key = k

\* Once the writes stop, what is cached is what is stored, in the end and for
\* good, however often it is read meanwhile.
CachesSettle == <>[](\A k \in CacheKeys : ~ Stale(k))
=============================================================================
