------------------------------- MODULE DnsProofs -------------------------------
(* Theorems about DnsResolver, for every number of names, resolvers, queries *)
(* and lookup tasks, every policy and every limit and life of the cache.     *)
EXTENDS DnsResolver, TLAPS

Found   == Answers \cup {Raised}
Entries == [addrs : Answers, left : Int]

DnsTypes ==
    /\ own \in [Resolvers -> [Names -> Found \cup {None}]]
    /\ shared \in [Names -> Entries \cup {None}]
    /\ inflight \in [Names -> Lookups \cup {None}]
    /\ lookup \in [Lookups -> [pc : {"free", "running", "done"},
                               name : Names \cup {None},
                               result : Found \cup {None}]]
    /\ query \in [Queries -> [pc : {"idle", "wait", "got", "again"},
                              name : Names \cup {None},
                              on : Lookups \cup {None},
                              result : Found \cup {None}]]
    /\ since \in [Names -> 0..Old]

(* A task that was started is in the table of lookups under way, at its own  *)
(* name and at no other: so no two are started for one, and a task that ends *)
(* takes only itself out.                                                    *)
InTable ==
    /\ \A t \in Lookups : lookup[t].pc # "free" =>
         lookup[t].name \in Names /\ inflight[lookup[t].name] = t
    /\ \A n \in Names : inflight[n] # None =>
         lookup[inflight[n]].pc # "free" /\ lookup[inflight[n]].name = n

(* An entry lives for as long as its answer may.                             *)
LivesAsLong ==
    \A n \in Names : shared[n] # None =>
        shared[n].left >= -1 /\ since[n] + shared[n].left <= Ttl

(* No time passes between the end of a lookup and the query taking it.       *)
TakenAtOnce ==
    /\ \A t \in Lookups :
         lookup[t].pc = "done" /\ lookup[t].result # Raised =>
            since[lookup[t].name] = 0
    /\ \A q \in Queries :
         query[q].pc = "got" =>
            /\ query[q].name \in Names
            /\ query[q].result # Raised => since[query[q].name] = 0

DnsInv ==
    DnsTypes /\ InTable /\ LookedUpIsNotCached /\ LivesAsLong /\ TakenAtOnce

-----------------------------------------------------------------------------
LEMMA DnsStarts == DnsInit => DnsInv
BY DnsAssumption
   DEF DnsInit, DnsInv, DnsTypes, InTable, LookedUpIsNotCached, LivesAsLong,
       TakenAtOnce, NoQuery, Free, Old

(* What a query does without starting a lookup.                              *)
LEMMA QueryKeeps ==
    ASSUME DnsInv, NEW q \in Queries,
           \/ \E n \in Names : OwnHit(q, n) \/ SharedHit(q, n)
           \/ Resolved(q) \/ Raises(q) \/ TimesOut(q) \/ GivesUp(q)
    PROVE  DnsInv'
PROOF
<1> USE DnsAssumption
<1>0. ResolverOf[q] \in Resolvers
  OBVIOUS
<1>1. ASSUME NEW n \in Names, OwnHit(q, n)
      PROVE  DnsInv'
  BY <1>1 DEF DnsInv, DnsTypes, InTable, LookedUpIsNotCached, LivesAsLong,
              TakenAtOnce, OwnHit, Replies, NoQuery
<1>2. ASSUME NEW n \in Names, SharedHit(q, n)
      PROVE  DnsInv'
  <2>1. shared[n].addrs \in Found
    BY <1>2 DEF SharedHit, Usable, DnsInv, DnsTypes, Entries, Found
  <2>2. own' \in [Resolvers -> [Names -> Found \cup {None}]]
    BY <1>0, <1>2, <2>1 DEF SharedHit, DnsInv, DnsTypes
  <2> QED
    BY <1>2, <2>2 DEF DnsInv, DnsTypes, InTable, LookedUpIsNotCached,
                      LivesAsLong, TakenAtOnce, SharedHit, Replies, NoQuery
<1>3. ASSUME Resolved(q)
      PROVE  DnsInv'
  <2>1. query[q].name \in Names /\ query[q].result \in Found \cup {None}
    BY <1>3 DEF Resolved, DnsInv, DnsTypes, TakenAtOnce
  <2>2. own' \in [Resolvers -> [Names -> Found \cup {None}]]
    BY <1>0, <1>3, <2>1 DEF Resolved, DnsInv, DnsTypes
  <2> QED
    BY <1>3, <2>2 DEF DnsInv, DnsTypes, InTable, LookedUpIsNotCached,
                      LivesAsLong, TakenAtOnce, Resolved, Replies, NoQuery
<1>4. ASSUME Raises(q) \/ TimesOut(q) \/ GivesUp(q)
      PROVE  DnsInv'
  <2> DEFINE again == Dropped(query[q].name)
  <2>2. query' \in {[query EXCEPT ![q] = NoQuery], [query EXCEPT ![q] = again]}
        /\ UNCHANGED <<own, shared, inflight, lookup, since>>
    BY <1>4 DEF Raises, TimesOut, GivesUp
  <2>3. query[q].name \in Names \cup {None}
    BY DEF DnsInv, DnsTypes
  <2>4. PICK to \in {NoQuery, again} : query' = [query EXCEPT ![q] = to]
    BY <2>2
  <2>5. /\ to.pc # "got"
        /\ to \in [pc : {"idle", "wait", "got", "again"},
                   name : Names \cup {None}, on : Lookups \cup {None},
                   result : Found \cup {None}]
    BY <2>3 DEF NoQuery, Dropped
  <2>6. DnsTypes'
    BY <2>2, <2>4, <2>5 DEF DnsInv, DnsTypes
  <2>7. TakenAtOnce'
    BY <2>2, <2>4, <2>5 DEF DnsInv, DnsTypes, TakenAtOnce
  <2> QED
    BY <2>2, <2>6, <2>7 DEF DnsInv, InTable, LookedUpIsNotCached, LivesAsLong
<1> QED
  BY <1>1, <1>2, <1>3, <1>4

(* A query that finds nothing in the caches waits for the lookup under way.  *)
LEMMA JoinsKeeps ==
    ASSUME DnsInv, NEW q \in Queries, NEW n \in Names, Joins(q, n)
    PROVE  DnsInv'
PROOF
<1> USE DnsAssumption
<1> DEFINE t == inflight[n]
<1>1. t \in Lookups /\ shared' = [shared EXCEPT ![n] = None]
  BY DEF Joins, Miss, UnderWay, WithoutExpired, DnsInv, DnsTypes
<1>2. UNCHANGED <<own, since, inflight, lookup>>
  BY DEF Joins, Miss
<1>3. CASE lookup[t].pc = "done"
  <2>1. query' = [query EXCEPT ![q] = GotFor(n, lookup[t].result)]
    BY <1>3 DEF Joins, UnderWay
  <2>2. lookup[t].name = n
    BY <1>3 DEF DnsInv, InTable, Joins, UnderWay
  <2>3. lookup[t].result # Raised => since[n] = 0
    BY <1>1, <1>3, <2>2 DEF DnsInv, TakenAtOnce
  <2>4. GotFor(n, lookup[t].result) \in
          [pc : {"idle", "wait", "got", "again"}, name : Names \cup {None},
           on : Lookups \cup {None}, result : Found \cup {None}]
    BY <1>1 DEF GotFor, DnsInv, DnsTypes
  <2>5. DnsTypes'
    BY <1>1, <1>2, <2>1, <2>4 DEF DnsInv, DnsTypes
  <2>6. InTable' /\ LookedUpIsNotCached' /\ LivesAsLong'
    BY <1>1, <1>2
       DEF DnsInv, DnsTypes, InTable, LookedUpIsNotCached, LivesAsLong
  <2>7. TakenAtOnce'
    BY <1>2, <2>1, <2>3 DEF DnsInv, DnsTypes, TakenAtOnce, GotFor
  <2> QED
    BY <2>5, <2>6, <2>7 DEF DnsInv
<1>4. CASE lookup[t].pc # "done"
  <2>1. query' = [query EXCEPT ![q] = WaitsFor(n, t)]
    BY <1>4 DEF Joins, UnderWay
  <2> QED
    BY <1>1, <1>2, <2>1
       DEF DnsInv, DnsTypes, InTable, LookedUpIsNotCached, LivesAsLong,
           TakenAtOnce, WaitsFor
<1> QED
  BY <1>3, <1>4

(* It starts one when there is none.                                         *)
LEMMA StartsKeeps ==
    ASSUME DnsInv, NEW q \in Queries, NEW n \in Names, Starts(q, n)
    PROVE  DnsInv'
PROOF
<1> USE DnsAssumption
<1> DEFINE t == CHOOSE u \in NewTasks : TRUE
<1>1. t \in Lookups /\ lookup[t].pc = "free"
  BY DEF Starts, NewTasks
<1>2. /\ lookup' = [lookup EXCEPT ![t] =
                      [pc |-> "running", name |-> n, result |-> None]]
      /\ inflight' = [inflight EXCEPT ![n] = t]
      /\ query' = [query EXCEPT ![q] = WaitsFor(n, t)]
      /\ shared' = [shared EXCEPT ![n] = None]
      /\ inflight[n] = None
      /\ UNCHANGED <<own, since>>
  BY DEF Starts, Miss, WithoutExpired, UnderWay
<1>3. DnsTypes'
  BY <1>1, <1>2 DEF DnsInv, DnsTypes, WaitsFor
<1>4. \A u \in Lookups : lookup[u].pc # "free" => lookup[u].name # n
  BY <1>2 DEF DnsInv, InTable
<1>5. InTable'
  <2>1. ASSUME NEW u \in Lookups, lookup'[u].pc # "free"
        PROVE  lookup'[u].name \in Names /\ inflight'[lookup'[u].name] = u
    BY <1>1, <1>2, <1>4, <2>1 DEF DnsInv, DnsTypes, InTable
  <2>2. ASSUME NEW m \in Names, inflight'[m] # None
        PROVE  lookup'[inflight'[m]].pc # "free"
               /\ lookup'[inflight'[m]].name = m
    <3>1. CASE m = n
      BY <1>1, <1>2, <3>1 DEF DnsInv, DnsTypes
    <3>2. CASE m # n
      <4>1. inflight'[m] = inflight[m] /\ inflight[m] \in Lookups
        BY <1>2, <2>2, <3>2 DEF DnsInv, DnsTypes
      <4>2. inflight[m] # t
        BY <1>1, <4>1, <2>2 DEF DnsInv, InTable
      <4> QED
        BY <1>2, <2>2, <4>1, <4>2 DEF DnsInv, DnsTypes, InTable
    <3> QED
      BY <3>1, <3>2
  <2> HIDE DEF t
  <2> QED
    BY <2>1, <2>2 DEF InTable
<1>6. LookedUpIsNotCached'
  BY <1>1, <1>2, <1>4 DEF DnsInv, DnsTypes, InTable, LookedUpIsNotCached
<1>7. LivesAsLong'
  BY <1>2 DEF DnsInv, DnsTypes, LivesAsLong
<1>8. TakenAtOnce'
  BY <1>1, <1>2 DEF DnsInv, DnsTypes, TakenAtOnce, WaitsFor
<1> QED
  BY <1>3, <1>5, <1>6, <1>7, <1>8 DEF DnsInv

(* A lookup ends: only now, when its own name is not cached, is an entry put.*)
LEMMA EndsKeeps ==
    ASSUME DnsInv, NEW t \in Lookups, LookupEnds(t) \/ LookupRaises(t)
    PROVE  DnsInv'
PROOF
<1> USE DnsAssumption
<1> DEFINE n == lookup[t].name
<1>1. /\ n \in Names /\ lookup[t].pc = "running"
      /\ \A u \in Lookups : lookup[u].pc # "free" /\ lookup[u].name = n => u = t
      /\ UNCHANGED <<own, inflight, query>>
  BY DEF LookupEnds, LookupRaises, Ends, DnsInv, InTable
<1>2. CASE LookupEnds(t)
  <2>1. PICK a \in Answers : Put(n, a) /\ Ends(t, a)
    BY <1>2 DEF LookupEnds
  <2>2. since' = [since EXCEPT ![n] = 0]
    BY <1>2 DEF LookupEnds
  <2>3. lookup' = [lookup EXCEPT ![t] =
                     [pc |-> "done", name |-> n, result |-> a]]
    BY <2>1 DEF Ends
  <2>4. /\ shared' \in [Names -> Entries \cup {None}]
        /\ shared'[n] = Entry(a)
        /\ \A m \in Names : m # n => shared'[m] \in {shared[m], None}
    <3>1. Entry(a) \in Entries
      BY DEF Entry, Entries
    <3>2. CASE Cardinality(Cached) >= CacheMax
      <4>1. PICK old \in ExpiresFirst(Cached) :
              shared' = [shared EXCEPT ![old] = None, ![n] = Entry(a)]
        BY <2>1, <3>2 DEF Put
      <4> QED
        BY <1>1, <3>1, <4>1 DEF DnsInv, DnsTypes
    <3>3. CASE ~(Cardinality(Cached) >= CacheMax)
      <4>1. shared' = [shared EXCEPT ![n] = Entry(a)]
        BY <2>1, <3>3 DEF Put
      <4> QED
        BY <1>1, <3>1, <4>1 DEF DnsInv, DnsTypes
    <3> QED
      BY <3>2, <3>3
  <2>5. DnsTypes'
    <3>1. since' \in [Names -> 0..Old]
      BY <1>1, <2>2 DEF DnsInv, DnsTypes, Old
    <3>4. lookup' \in [Lookups -> [pc : {"free", "running", "done"},
                                   name : Names \cup {None},
                                   result : Found \cup {None}]]
      BY <1>1, <2>3 DEF DnsInv, DnsTypes, Found
    <3> QED
      BY <1>1, <2>4, <3>1, <3>4 DEF DnsInv, DnsTypes
  <2>6. InTable' /\ LookedUpIsNotCached'
    BY <1>1, <2>3, <2>4
       DEF DnsInv, DnsTypes, InTable, LookedUpIsNotCached
  <2>7. LivesAsLong'
    BY <1>1, <2>2, <2>4 DEF DnsInv, DnsTypes, LivesAsLong, Entry, Entries
  <2>8. TakenAtOnce'
    BY <1>1, <2>2, <2>3 DEF DnsInv, DnsTypes, InTable, TakenAtOnce
  <2> QED
    BY <2>5, <2>6, <2>7, <2>8 DEF DnsInv
<1>3. CASE LookupRaises(t)
  <2> DEFINE done == [pc |-> "done", name |-> n, result |-> Raised]
  <2>1. UNCHANGED <<shared, since>>
    BY <1>3 DEF LookupRaises
  <2>2. done \in [pc : {"free", "running", "done"}, name : Names \cup {None},
                 result : Found \cup {None}]
    BY <1>1 DEF Found
  <2>3. lookup' = [lookup EXCEPT ![t] = done]
    BY <1>3 DEF LookupRaises, Ends
  <2>4. DnsTypes'
    BY <1>1, <2>1, <2>2, <2>3 DEF DnsInv, DnsTypes
  <2>5. InTable' /\ LookedUpIsNotCached' /\ LivesAsLong'
    BY <1>1, <2>1, <2>3
       DEF DnsInv, DnsTypes, InTable, LookedUpIsNotCached, LivesAsLong
  <2>6. TakenAtOnce'
    BY <1>1, <2>1, <2>3 DEF DnsInv, DnsTypes, TakenAtOnce
  <2> QED
    BY <2>4, <2>5, <2>6 DEF DnsInv
<1> QED
  BY <1>2, <1>3

LEMMA CallBackKeeps ==
    ASSUME DnsInv, NEW t \in Lookups, CallBack(t)
    PROVE  DnsInv'
PROOF
<1> USE DnsAssumption
<1> DEFINE n == lookup[t].name
<1>1. n \in Names /\ lookup[t].pc = "done"
  BY DEF CallBack, DnsInv, InTable
<1>2. /\ inflight' = [inflight EXCEPT ![n] = None]
      /\ query' = [p \in Queries |-> IF query[p].on = t
                     THEN GotFor(n, lookup[t].result) ELSE query[p]]
      /\ lookup' = [lookup EXCEPT ![t] = Free]
      /\ UNCHANGED <<own, shared, since>>
  BY DEF CallBack
<1>3. DnsTypes'
  BY <1>1, <1>2 DEF DnsInv, DnsTypes, GotFor, Free
<1>4. InTable' /\ LookedUpIsNotCached'
  BY <1>1, <1>2 DEF DnsInv, DnsTypes, InTable, LookedUpIsNotCached, Free
<1>5. TakenAtOnce'
  BY <1>1, <1>2 DEF DnsInv, DnsTypes, TakenAtOnce, GotFor, Free
<1> QED
  BY <1>2, <1>3, <1>4, <1>5 DEF DnsInv, LivesAsLong

LEMMA TickKeeps ==
    ASSUME DnsInv, Tick
    PROVE  DnsInv'
PROOF
<1> USE DnsAssumption
<1>1. \A m \in Names : shared[m] # None => shared[m] \in Entries
  BY DEF DnsInv, DnsTypes
<1>2. /\ shared' \in [Names -> Entries \cup {None}]
      /\ \A m \in Names : shared[m] = None => shared'[m] = None
      /\ \A m \in Names : shared[m] # None =>
           shared'[m].left = IF shared[m].left < 0 THEN shared[m].left
                             ELSE shared[m].left - 1
  <2> SUFFICES ASSUME NEW m \in Names
      PROVE  /\ shared'[m] \in Entries \cup {None}
             /\ shared[m] = None => shared'[m] = None
             /\ shared[m] # None =>
                  shared'[m].left = IF shared[m].left < 0 THEN shared[m].left
                                    ELSE shared[m].left - 1
    BY DEF Tick
  <2>1. CASE shared[m] = None
    BY <1>1, <2>1 DEF Tick
  <2>2. CASE shared[m] # None /\ shared[m].left < 0
    BY <1>1, <2>2 DEF Tick, Expired
  <2>3. CASE shared[m] # None /\ ~(shared[m].left < 0)
    <3> DEFINE e == [addrs |-> shared[m].addrs, left |-> shared[m].left - 1]
    <3>1. shared'[m] = [shared[m] EXCEPT !.left = @ - 1]
      BY <2>3 DEF Tick, Expired
    <3>2. shared[m] \in Entries
      BY <1>1, <2>3
    <3>3. shared'[m] = e
      BY <3>1, <3>2 DEF Entries
    <3>4. e \in Entries /\ e.left = shared[m].left - 1
      BY <3>2 DEF Entries
    <3> QED
      BY <2>3, <3>3, <3>4
  <2> QED
    BY <2>1, <2>2, <2>3
<1>3. \A m \in Names : since'[m] = IF since[m] = Old THEN Old ELSE since[m] + 1
  BY DEF Tick
<1>4. DnsTypes'
  <2>1. since' \in [Names -> 0..Old]
    <3>1. DOMAIN since' = Names /\ since' = [m \in Names |-> since'[m]]
      BY DEF Tick
    <3>2. \A m \in Names : since'[m] \in 0..Old
      <4> SUFFICES ASSUME NEW m \in Names
                   PROVE  since'[m] \in 0..Old
        OBVIOUS
      <4>1. since[m] \in 0..Old /\ Old = Ttl + 1 /\ Ttl \in Nat
        BY DEF DnsInv, DnsTypes, Old
      <4> HIDE DEF Old
      <4> QED
        BY <1>3, <4>1
    <3> QED
      BY <3>1, <3>2
  <2>2. UNCHANGED <<own, inflight, lookup, query>>
    BY DEF Tick
  <2> QED
    BY <1>2, <2>1, <2>2 DEF DnsInv, DnsTypes
<1>5. LivesAsLong'
  <2> SUFFICES ASSUME NEW m \in Names, shared'[m] # None
               PROVE  shared'[m].left >= -1
                      /\ since'[m] + shared'[m].left <= Ttl
    BY DEF LivesAsLong
  <2>1. shared[m] # None
    BY <1>2
  <2>2. shared[m].left \in Int /\ shared[m].left >= -1
        /\ since[m] + shared[m].left <= Ttl
    BY <1>1, <2>1 DEF DnsInv, LivesAsLong, Entries
  <2>3. since[m] \in 0..Old /\ Old = Ttl + 1
    BY DEF DnsInv, DnsTypes, Old
  <2>4. shared'[m].left = IF shared[m].left < 0 THEN shared[m].left
                          ELSE shared[m].left - 1
    BY <1>2, <2>1
  <2> QED
    BY <1>3, <2>2, <2>3, <2>4
<1>6. InTable' /\ LookedUpIsNotCached' /\ TakenAtOnce'
  BY <1>2 DEF Tick, DnsInv, InTable, LookedUpIsNotCached, TakenAtOnce
<1> QED
  BY <1>4, <1>5, <1>6 DEF DnsInv

LEMMA DnsStep == DnsInv /\ [DnsNext]_dnsVars => DnsInv'
PROOF
<1> SUFFICES ASSUME DnsInv, [DnsNext]_dnsVars
             PROVE  DnsInv'
  OBVIOUS
<1>1. CASE UNCHANGED dnsVars
  BY <1>1 DEF dnsVars, DnsInv, DnsTypes, InTable, LookedUpIsNotCached,
              LivesAsLong, TakenAtOnce
<1>2. ASSUME NEW q \in Queries, QueryStep(q)
      PROVE  DnsInv'
  BY <1>2, QueryKeeps, JoinsKeeps, StartsKeeps DEF QueryStep
<1>3. ASSUME NEW t \in Lookups, LookupStep(t)
      PROVE  DnsInv'
  BY <1>3, EndsKeeps, CallBackKeeps DEF LookupStep
<1> QED
  BY <1>1, <1>2, <1>3, TickKeeps DEF DnsNext

LEMMA DnsInvariant == DnsSpec => []DnsInv
BY DnsStarts, DnsStep, PTL DEF DnsSpec

-----------------------------------------------------------------------------
(* A name is looked up once at a time (dns.py:194-198, 221).                 *)
THEOREM LookedUpOnce == DnsSpec => []OneLookup
PROOF
<1>1. DnsInv => OneLookup
  BY DEF DnsInv, InTable, OneLookup
<1> QED
  BY <1>1, DnsInvariant, PTL

(* While it is, the shared cache has no entry of it (dns.py:84-88).          *)
THEOREM NotCachedMeanwhile == DnsSpec => []LookedUpIsNotCached
PROOF
<1>1. DnsInv => LookedUpIsNotCached
  BY DEF DnsInv
<1> QED
  BY <1>1, DnsInvariant, PTL

(* What a resolver learns was looked up not longer ago than an entry may     *)
(* live (dns.py:77-81, 188-191).                                             *)
THEOREM LearnedIsFresh == DnsSpec => LearnsFresh
PROOF
<1>1. DnsInv /\ [DnsNext]_dnsVars =>
        [\A r \in Resolvers, n \in Names :
           own[r][n] = None /\ own'[r][n] # None => since[n] <= Ttl]_dnsVars
  <2> SUFFICES ASSUME DnsInv, DnsNext,
                      NEW r \in Resolvers, NEW n \in Names,
                      own[r][n] = None, own'[r][n] # None
               PROVE  since[n] <= Ttl
    OBVIOUS
  <2> USE DnsAssumption
  <2>1. PICK q \in Queries :
          \/ \E m \in Names : SharedHit(q, m)
          \/ Resolved(q)
    BY DEF DnsNext, QueryStep, LookupStep, OwnHit, Joins, Starts, Miss, Raises,
           TimesOut, GivesUp, LookupEnds, LookupRaises, Ends, CallBack, Tick
  <2>2. ASSUME NEW m \in Names, SharedHit(q, m)
        PROVE  since[n] <= Ttl
    <3>1. n = m
      BY <2>2 DEF SharedHit, DnsInv, DnsTypes
    <3>2. shared[n] \in Entries /\ shared[n] # None /\ ~(shared[n].left < 0)
      BY <2>2, <3>1 DEF SharedHit, Usable, Expired, DnsInv, DnsTypes
    <3> QED
      BY <3>2 DEF DnsInv, DnsTypes, LivesAsLong, Entries, Old
  <2>3. CASE Resolved(q)
    <3>1. n = query[q].name
      BY <2>3 DEF Resolved, DnsInv, DnsTypes, TakenAtOnce
    <3> QED
      BY <2>3, <3>1 DEF Resolved, DnsInv, TakenAtOnce
  <2> QED
    BY <2>1, <2>2, <2>3
<1> QED
  BY <1>1, DnsInvariant, PTL DEF DnsSpec, LearnsFresh

(* No address that the policy refuses is sent (dns.py:181-184).              *)
THEOREM RefusedIsNotSent == DnsSpec => []OnlyGlobal
PROOF
<1>1. DnsInit => OnlyGlobal
  BY DEF DnsInit, OnlyGlobal
<1>2. OnlyGlobal /\ [DnsNext]_dnsVars => OnlyGlobal'
  <2> SUFFICES ASSUME OnlyGlobal, [DnsNext]_dnsVars
               PROVE  OnlyGlobal'
    OBVIOUS
  <2>1. ASSUME NEW q \in Queries, NEW n, NEW a, Replies(q, n, a \cap Global)
        PROVE  OnlyGlobal'
    BY <2>1 DEF Replies, OnlyGlobal
  <2>2. ASSUME NEW q \in Queries, NEW n \in Names,
               OwnHit(q, n) \/ SharedHit(q, n)
        PROVE  OnlyGlobal'
    BY <2>1, <2>2 DEF OwnHit, SharedHit, FromOwn, Filtered
  <2>3. ASSUME NEW q \in Queries, Resolved(q)
        PROVE  OnlyGlobal'
    BY <2>1, <2>3 DEF Resolved, Filtered
  <2>4. CASE reply' = None \/ UNCHANGED reply
    BY <2>4 DEF OnlyGlobal
  <2> QED
    BY <2>2, <2>3, <2>4
       DEF DnsNext, dnsVars, QueryStep, LookupStep, Joins, Starts, Miss, Raises,
           TimesOut, GivesUp, LookupEnds, LookupRaises, Ends, CallBack, Tick
<1> QED
  BY <1>1, <1>2, PTL DEF DnsSpec
=============================================================================
