----------------------------- MODULE DnsResolver -----------------------------
(* Name resolution: velxiogw/net/dns.py.  Every bridge has a DnsResolver     *)
(* with a cache of its own; behind them are a cache with a limit and a table *)
(* of lookups under way that the whole process shares.                       *)
(*                                                                           *)
(* A query runs in the websocket handler that delivered it; a lookup is a    *)
(* task that outlives the query which started it.  A step is what a task     *)
(* runs from one await that suspends to the next.  Only A queries are here:  *)
(* others, and the host alias, are answered on the spot and touch no state.  *)
EXTENDS Integers, FiniteSets

CONSTANTS
    Names,       \* host names
    BadNames,    \* those that getaddrinfo cannot encode: it raises
    Addrs,       \* IPv4 addresses
    Global,      \* those the egress policy lets through
    Answers,     \* what a lookup may find; {} also stands for a failed one
    Resolvers,   \* DnsResolver objects, one per bridge
    Queries,     \* websocket handlers, each asking one name at a time
    ResolverOf,  \* the resolver of the bridge a handler delivers to
    Lookups,     \* lookup tasks; its size bounds how many there are at a time
    Ttl,         \* _CACHE_TTL_S, in ticks of a clock
    CacheMax,    \* _CACHE_MAX
    None

ASSUME DnsAssumption ==
    /\ IsFiniteSet(Names) /\ BadNames \subseteq Names
    /\ Global \subseteq Addrs /\ Answers \subseteq SUBSET Addrs
    /\ ResolverOf \in [Queries -> Resolvers]
    /\ Ttl \in Nat \ {0} /\ CacheMax \in Nat \ {0}
    /\ None \notin Lookups \cup Names

VARIABLES
    own,       \* DnsResolver._cache, per resolver
    shared,    \* _shared_cache
    inflight,  \* _inflight: the lookup of a name, or None
    lookup,    \* the lookup tasks
    query,     \* where each handler stands with its query
    reply,     \* the answer sent to a chip in the last step, or None
    since      \* history: ticks since a lookup of a name last ended

dnsVars == <<own, shared, inflight, lookup, query, reply, since>>

(* An entry of the shared cache has `left' ticks to live: its expires less   *)
(* the time.  Addresses are a set, their order being kept but never used.    *)
Entry(a)   == [addrs |-> a, left |-> Ttl]
Expired(e) == e.left < 0

(* The result of a lookup that raised an exception.                          *)
Raised     == {None}

(* A task is free, running or done (its callbacks have not run yet).         *)
Free       == [pc |-> "free", name |-> None, result |-> None]

(* A query waits for a lookup, has been given its result, or was dropped and *)
(* is about to be asked again by the chip.                                   *)
NoQuery    == [pc |-> "idle", name |-> None, on |-> None, result |-> None]
Dropped(n) == [pc |-> "again", name |-> n, on |-> None, result |-> None]

Old        == Ttl + 1

DnsInit ==
    /\ own = [r \in Resolvers |-> [n \in Names |-> None]]
    /\ shared = [n \in Names |-> None]
    /\ inflight = [n \in Names |-> None]
    /\ lookup = [t \in Lookups |-> Free]
    /\ query = [q \in Queries |-> NoQuery]
    /\ reply = None
    /\ since = [n \in Names |-> Old]

-----------------------------------------------------------------------------
(* filter_resolved_ips: the policy is applied to whatever is sent.           *)
Filtered(addrs) == addrs \cap Global

Replies(q, n, addrs) ==
    /\ reply' = [name |-> n, addrs |-> addrs]
    /\ query' = [query EXCEPT ![q] = NoQuery]

(* The chip asks a new name, or asks again for the one it got no answer to.  *)
Asks(q, n) ==
    \/ query[q].pc = "idle"
    \/ query[q].pc = "again" /\ query[q].name = n

Known(q, n) == own[ResolverOf[q]][n]

(* Mutant: the policy is applied to what is new only.                        *)
FromOwnUnfiltered(q, n) == Known(q, n)

FromOwn(q, n) == Filtered(Known(q, n))

(* The resolver has resolved the name before.                                *)
OwnHit(q, n) ==
    /\ Asks(q, n) /\ Known(q, n) # None
    /\ Replies(q, n, FromOwn(q, n))
    /\ UNCHANGED <<own, shared, inflight, lookup, since>>

(* Mutant: an expired entry is given.                                        *)
UsableAlways(n) == shared[n] # None

Usable(n) == shared[n] # None /\ ~Expired(shared[n])

(* Another resolver has, not longer ago than an entry lives.                 *)
SharedHit(q, n) ==
    /\ Asks(q, n) /\ Known(q, n) = None /\ Usable(n)
    /\ own' = [own EXCEPT ![ResolverOf[q]][n] = shared[n].addrs]
    /\ Replies(q, n, Filtered(shared[n].addrs))
    /\ UNCHANGED <<shared, inflight, lookup, since>>

WaitsFor(n, t) == [pc |-> "wait", name |-> n, on |-> t, result |-> None]
GotFor(n, res) == [pc |-> "got", name |-> n, on |-> None, result |-> res]

(* Mutant: an expired entry stays.                                           *)
KeptExpired(n) == shared

WithoutExpired(n) == [shared EXCEPT ![n] = None]

(* Neither cache has it, and an expired entry goes.                          *)
Miss(q, n) ==
    /\ Asks(q, n) /\ Known(q, n) = None /\ ~Usable(n)
    /\ shared' = WithoutExpired(n)
    /\ reply' = None
    /\ UNCHANGED <<own, since>>

(* Mutant: the lookups under way are not asked.                              *)
LooksItself(n) == None

UnderWay(n) == inflight[n]

(* A lookup is under way, or done and not yet taken out of the table.        *)
Joins(q, n) ==
    /\ Miss(q, n) /\ UnderWay(n) # None
    /\ query' = [query EXCEPT ![q] =
         IF lookup[UnderWay(n)].pc = "done"
         THEN GotFor(n, lookup[UnderWay(n)].result)
         ELSE WaitsFor(n, UnderWay(n))]
    /\ UNCHANGED <<inflight, lookup>>

(* Tasks are all alike: any free one stands for a new task.                  *)
NewTasks == {t \in Lookups : lookup[t].pc = "free"}

Starts(q, n) ==
    /\ Miss(q, n) /\ UnderWay(n) = None
    /\ NewTasks # {}
    /\ LET t == CHOOSE u \in NewTasks : TRUE
       IN  /\ lookup' = [lookup EXCEPT ![t] =
                           [pc |-> "running", name |-> n, result |-> None]]
           /\ inflight' = [inflight EXCEPT ![n] = t]
           /\ query' = [query EXCEPT ![q] = WaitsFor(n, t)]

(* The lookup's result came in time: keep it, and answer.                    *)
Resolved(q) ==
    LET n     == query[q].name
        addrs == query[q].result
    IN  /\ query[q].pc = "got" /\ addrs # Raised
        /\ own' = [own EXCEPT ![ResolverOf[q]][n] = addrs]
        /\ Replies(q, n, Filtered(addrs))
        /\ UNCHANGED <<shared, inflight, lookup, since>>

(* The lookup raised: the exception ends the query, and its handler.         *)
Raises(q) ==
    /\ query[q].pc = "got" /\ query[q].result = Raised
    /\ query' = [query EXCEPT ![q] = NoQuery]
    /\ reply' = None
    /\ UNCHANGED <<own, shared, inflight, lookup, since>>

(* Too late: the query is dropped and its lookup, shielded, goes on.  A name *)
(* that cannot be encoded takes no time.                                     *)
TimesOut(q) ==
    /\ query[q].pc \in {"wait", "got"} /\ query[q].name \notin BadNames
    /\ query' = [query EXCEPT ![q] = Dropped(query[q].name)]
    /\ reply' = None
    /\ UNCHANGED <<own, shared, inflight, lookup, since>>

(* The chip gives up asking.                                                 *)
GivesUp(q) ==
    /\ query[q].pc = "again"
    /\ query' = [query EXCEPT ![q] = NoQuery]
    /\ reply' = None
    /\ UNCHANGED <<own, shared, inflight, lookup, since>>

-----------------------------------------------------------------------------
Cached == {n \in Names : shared[n] # None}

ExpiresFirst(S) == {n \in S : \A m \in S : shared[n].left <= shared[m].left}

(* Mutant: nothing is put into the cache.                                    *)
NotPut(n, a) == UNCHANGED shared

(* _cache_put: at the limit one entry makes room.                            *)
Put(n, a) ==
    IF Cardinality(Cached) >= CacheMax
    THEN \E old \in ExpiresFirst(Cached) :
           shared' = [shared EXCEPT ![old] = None,
                                      ![n] = Entry(a)]
    ELSE shared' = [shared EXCEPT ![n] = Entry(a)]

Ends(t, res) ==
    /\ lookup' = [lookup EXCEPT ![t] = [pc |-> "done", name |-> lookup[t].name,
                                        result |-> res]]
    /\ reply' = None
    /\ UNCHANGED <<own, inflight, query>>

(* getaddrinfo returned, or failed, which counts as no address.              *)
LookupEnds(t) ==
    /\ lookup[t].pc = "running" /\ lookup[t].name \notin BadNames
    /\ \E a \in Answers : Put(lookup[t].name, a) /\ Ends(t, a)
    /\ since' = [since EXCEPT ![lookup[t].name] = 0]

(* It raised an exception that is not caught here.                           *)
LookupRaises(t) ==
    /\ lookup[t].pc = "running" /\ lookup[t].name \in BadNames
    /\ Ends(t, Raised)
    /\ UNCHANGED <<shared, since>>

(* The callbacks of a task that is done: out of the table, and its result to *)
(* the queries that still wait for it.                                       *)
CallBack(t) ==
    LET n == lookup[t].name
    IN  /\ lookup[t].pc = "done"
        /\ inflight' = [inflight EXCEPT ![n] = None]
        /\ query' = [q \in Queries |-> IF query[q].on = t
                       THEN GotFor(n, lookup[t].result) ELSE query[q]]
        /\ lookup' = [lookup EXCEPT ![t] = Free]
        /\ reply' = None
        /\ UNCHANGED <<own, shared, since>>

(* Time passes.  A tick is long: no task that is ready is left behind.       *)
Tick ==
    /\ \A t \in Lookups : lookup[t].pc # "done"
    /\ \A q \in Queries : query[q].pc # "got"
    /\ shared' = [n \in Names |->
         IF shared[n] = None THEN None
         ELSE IF Expired(shared[n]) THEN shared[n]
         ELSE [shared[n] EXCEPT !.left = @ - 1]]
    /\ since' = [n \in Names |-> IF since[n] = Old THEN Old ELSE since[n] + 1]
    /\ reply' = None
    /\ UNCHANGED <<own, inflight, lookup, query>>

QueryStep(q) ==
    \/ \E n \in Names : OwnHit(q, n) \/ SharedHit(q, n) \/ Joins(q, n)
                        \/ Starts(q, n)
    \/ Resolved(q) \/ Raises(q) \/ TimesOut(q) \/ GivesUp(q)

LookupStep(t) == LookupEnds(t) \/ LookupRaises(t) \/ CallBack(t)

DnsNext ==
    \/ \E q \in Queries : QueryStep(q)
    \/ \E t \in Lookups : LookupStep(t)
    \/ Tick

DnsSpec == DnsInit /\ [][DnsNext]_dnsVars

(* The chip asks again, until it is answered.                                *)
Retries(q) ==
    /\ query[q].pc = "again"
    /\ \E n \in Names : OwnHit(q, n) \/ SharedHit(q, n) \/ Joins(q, n)
                        \/ Starts(q, n)

RetryHits(q) ==
    query[q].pc = "again" /\ \E n \in Names : SharedHit(q, n)

CalledBack(q) == \E t \in Lookups : query[q].on = t /\ CallBack(t)

(* Lookups end, since getaddrinfo has timeouts of its own, and ready tasks   *)
(* run.  No race is lost for ever: a query against its timeout once the      *)
(* lookup is done, a chip that asks about once a second against an entry     *)
(* that lives for a minute.                                                  *)
DnsFairness ==
    /\ \A t \in Lookups : WF_dnsVars(LookupStep(t))
    /\ \A q \in Queries :
         /\ WF_dnsVars(Raises(q) \/ Retries(q))
         /\ SF_dnsVars(CalledBack(q)) /\ SF_dnsVars(Resolved(q))
         /\ SF_dnsVars(RetryHits(q))

DnsLiveSpec == DnsSpec /\ DnsFairness

-----------------------------------------------------------------------------
(* A name is looked up once at a time, however many chips ask for it and     *)
(* whatever queries were dropped: "shared by everyone asking for this name"  *)
(* (dns.py:194-198, 221).                                                    *)
OneLookup ==
    \A t, u \in Lookups :
        /\ lookup[t].pc = "running" /\ lookup[u].pc = "running"
        /\ lookup[t].name = lookup[u].name
        => t = u

(* No chip is given an address that the policy refuses, also not one that a  *)
(* cache kept (dns.py:181-184).                                              *)
OnlyGlobal == reply # None => reply.addrs \subseteq Global

(* What a resolver learns is not older than an entry may be (dns.py:77-81,   *)
(* 188-191).                                                                 *)
LearnsFresh ==
    [][\A r \in Resolvers, n \in Names :
         own[r][n] = None /\ own'[r][n] # None => since[n] <= Ttl
      ]_dnsVars

(* A name that is being looked up has no entry in the shared cache, however  *)
(* entries expired and queries were dropped meanwhile: so _cache_put, which  *)
(* makes room at the limit without asking whether the name has an entry,     *)
(* never evicts another in vain (dns.py:84-88).                              *)
LookedUpIsNotCached ==
    \A t \in Lookups : lookup[t].pc = "running" => shared[lookup[t].name] = None

(* A chip that keeps asking is answered, although single queries are dropped *)
(* for taking too long: "the client's own retry lands on a warm cache"       *)
(* (dns.py:51-57).                                                           *)
AskedIsAnswered ==
    \A q \in Queries : query[q].pc # "idle" ~> query[q].pc = "idle"
=============================================================================
