-------------------------- MODULE MediaCacheProofs --------------------------
(***************************************************************************)
(* Proofs about MediaCache, for any requests, media, capacities and number *)
(* of workers: identical media are built once at a time, a builder never   *)
(* outlives the request whose stack it uses, a prompt has every payload it *)
(* asked for, and the live payloads stay within their limit.               *)
(***************************************************************************)
EXTENDS MediaCache, FiniteSetTheorems, TLAPS

Stages == {"none", "enqueue", "dropped", "queued", "build", "claimed", "full", "built", "stored", "done", "over"}
Places == {"permit", "begin", "enqueue", "abandon", "await", "tokenize", "prompt", "done", "failed"}
Items == [flight : Flights, hit : BOOLEAN]

TypeOK ==
    /\ pc \in [Requests -> Places] /\ at \in [Requests -> Nat \ {0}]
    /\ pending \in [Requests -> Seq(Items)] /\ stopped \in [Requests -> BOOLEAN]
    /\ cancelled \in [Requests -> BOOLEAN] /\ expired \in [Requests -> BOOLEAN]
    /\ ready \in [Keys -> Flights \cup {None}] /\ inflight \in [Keys -> Flights \cup {None}]
    /\ queue \in Seq(Flights) /\ stage \in [Flights -> Stages]
    /\ broken \in [Flights -> BOOLEAN] /\ built \in SUBSET Flights

(* The flight has a payload that it or the cache hands out.                *)
Good(f) == f \in built /\ ~broken[f] /\ stage[f] \in {"stored", "done", "over"}

(* The part the request begins has no flight yet, nor have the later ones. *)
Fresh(r, i) ==
    \/ pc[r] = "permit" \/ (pc[r] = "begin" /\ i >= at[r])
    \/ pc[r] \in {"enqueue", "abandon"} /\ i > at[r]

(* What a request has begun, part by part, and what it awaited.            *)
BegunOK(r) ==
    /\ \A i \in 1..Len(Parts[r]) : Fresh(r, i) => stage[<<r, i>>] = "none"
    /\ pc[r] = "permit" => at[r] = 1 /\ pending[r] = <<>>
    /\ pc[r] \in {"begin", "enqueue", "abandon"} =>
        Len(pending[r]) = at[r] - 1 /\ at[r] <= Len(Parts[r]) + 1
    /\ pc[r] \in {"enqueue", "abandon"} =>
        /\ at[r] <= Len(Parts[r])
        /\ stage[<<r, at[r]>>] = IF pc[r] = "enqueue" THEN "enqueue" ELSE "dropped"
    /\ (pc[r] = "await" /\ ~stopped[r]) \/ pc[r] \in {"tokenize", "prompt"} =>
        Len(pending[r]) = Len(Parts[r])

HeldOK(r) ==
    \A i \in 1..Len(pending[r]) :
        /\ i <= Len(Parts[r]) /\ KeyOf(pending[r][i].flight) = Parts[r][i]
        /\ stage[pending[r][i].flight] # "none"
        /\ pending[r][i].hit => Good(pending[r][i].flight)
        /\ (pc[r] = "await" /\ ~stopped[r] /\ i < at[r]) \/ pc[r] \in {"tokenize", "prompt"} =>
            Good(pending[r][i].flight)

(* While a builder is at a flight its request holds it and has not awaited *)
(* it; before, the request's own thread has it.                            *)
Building(f) == stage[f] \in {"queued", "build", "claimed", "full", "built", "stored"}

OwnerOK(f) ==
    /\ stage[f] = "enqueue" => pc[f[1]] = "enqueue" /\ at[f[1]] = f[2]
    /\ stage[f] = "dropped" => pc[f[1]] = "abandon" /\ at[f[1]] = f[2]
    /\ Building(f) =>
        /\ InProcess(f[1]) /\ f[2] <= Len(pending[f[1]])
        /\ pending[f[1]][f[2]] = [flight |-> f, hit |-> FALSE]
        /\ pc[f[1]] = "await" => at[f[1]] <= f[2]

(* A flight under way is the one its key names, and a payload is there     *)
(* from its allocation on, unless the flight broke.                        *)
BuildOK(f) ==
    /\ stage[f] \notin {"none", "over"} => inflight[KeyOf(f)] = f
    /\ f \in built => stage[f] \in {"built", "stored", "done", "over"}
    /\ stage[f] = "built" => f \in built
    /\ stage[f] \in {"stored", "done", "over"} /\ ~broken[f] => f \in built
    /\ stage[f] = "dropped" => broken[f]
    /\ stage[f] \in {"none", "enqueue", "queued", "build", "claimed", "full", "built"} => ~broken[f]

(* What the cache and inflight name.                                       *)
KeyOK(k) ==
    /\ inflight[k] # None => KeyOf(inflight[k]) = k /\ stage[inflight[k]] \notin {"none", "over"}
    /\ ready[k] # None => KeyOf(ready[k]) = k /\ Good(ready[k])

(* No task of the list is there twice.                                     *)
Once(s) == \A i, j \in 1..Len(s) : s[i] = s[j] => i = j

(* A task waits once, and no worker has it.                                *)
QueueOK ==
    /\ \A i \in 1..Len(queue) : stage[queue[i]] = "queued"
    /\ Once(queue)

(* The inductive invariant.                                                *)
IInv ==
    /\ TypeOK /\ live <= LiveLimit
    /\ \A r \in Requests : BegunOK(r) /\ HeldOK(r)
    /\ \A f \in Flights : OwnerOK(f) /\ BuildOK(f)
    /\ \A k \in Keys : KeyOK(k)
    /\ QueueOK

-----------------------------------------------------------------------------
(* Flights and lists.                                                      *)

(* No flight is <<>>.                                                      *)
LEMMA PairIsNotEmpty ==
  ASSUME NEW a, NEW b
  PROVE  <<a, b>> # <<>>
  <1>1. Len(<<a, b>>) = 2 /\ Len(<<>>) = 0
    BY Zenon
  <1> QED
    BY <1>1, Zenon

(* A flight is a request and one of its parts.                             *)
LEMMA FlightFacts ==
  ASSUME NEW f \in Flights
  PROVE  /\ f[1] \in Requests /\ f[2] \in 1..Len(Parts[f[1]]) /\ f = <<f[1], f[2]>>
         /\ f[2] \in Nat /\ KeyOf(f) \in Keys /\ f # None
  <1>1. PICK r \in Requests : f \in {r} \X (1..Len(Parts[r]))
    BY Zenon DEF Flights
  <1>2. f = <<f[1], f[2]>> /\ f[1] = r /\ f[2] \in 1..Len(Parts[r])
    BY <1>1
  <1>3. Parts[r] \in Seq(Keys)
    BY ConfigAssumption, Zenon
  <1>4. f[2] \in Nat /\ Parts[r][f[2]] \in Keys
    BY <1>2, <1>3
  <1>5. f # None
    BY <1>2, PairIsNotEmpty, Zenon DEF None
  <1> QED
    BY <1>2, <1>4, <1>5, Zenon DEF KeyOf

(* The flight a request may start for one of its parts.                    *)
LEMMA FlightOf ==
  ASSUME NEW r \in Requests, NEW i \in 1..Len(Parts[r])
  PROVE  /\ <<r, i>> \in Flights /\ <<r, i>>[1] = r /\ <<r, i>>[2] = i
         /\ KeyOf(<<r, i>>) = Parts[r][i] /\ Parts[r][i] \in Keys
  <1>1. Parts[r] \in Seq(Keys)
    BY ConfigAssumption, Zenon
  <1>2. Parts[r][i] \in Keys
    BY <1>1
  <1>3. <<r, i>> \in Flights
    BY DEF Flights
  <1> QED
    BY <1>2, <1>3, Zenon DEF KeyOf

(* A request has a number of parts.                                        *)
LEMMA PartsLength ==
  ASSUME NEW r \in Requests
  PROVE  Len(Parts[r]) \in Nat
  BY ConfigAssumption

(* One more item.                                                          *)
LEMMA OneMore ==
  ASSUME NEW A, NEW s \in Seq(A), NEW x \in A
  PROVE  /\ Append(s, x) \in Seq(A) /\ Len(Append(s, x)) = Len(s) + 1 /\ Len(s) \in Nat
         /\ \A i \in 1..Len(s) : Append(s, x)[i] = s[i]
         /\ Append(s, x)[Len(s) + 1] = x
  OBVIOUS

(* What an item holds.                                                     *)
LEMMA ItemOf ==
  ASSUME NEW s \in Seq(Items), NEW i \in 1..Len(s)
  PROVE  s[i] \in Items /\ s[i].flight \in Flights /\ s[i].hit \in BOOLEAN
  <1>1. s[i] \in Items
    OBVIOUS
  <1> QED
    BY <1>1, Zenon DEF Items

-----------------------------------------------------------------------------
(* What a step leaves alone.                                               *)

(* The request's own variables do not change.                              *)
Rests(r) == pc'[r] = pc[r] /\ at'[r] = at[r] /\ pending'[r] = pending[r] /\ stopped'[r] = stopped[r]

(* For a request, a flight only gets on: its own are begun and handed to   *)
(* the pool by nobody else, and a payload stays.                           *)
Advances(f, r) ==
    /\ stage[f] # "none" => stage'[f] # "none"
    /\ f[1] = r /\ stage[f] \in {"none", "enqueue", "dropped"} => stage'[f] = stage[f]
    /\ Good(f) => Good(f)'

(* A request that rests is as before when the flights get on.              *)
LEMMA RequestKept ==
  ASSUME IInv, NEW r \in Requests, Rests(r), \A f \in Flights : Advances(f, r)
  PROVE  BegunOK(r)' /\ HeldOK(r)'
  <1>1. BegunOK(r) /\ HeldOK(r) /\ pending[r] \in Seq(Items) /\ at[r] \in Nat \ {0}
    BY Zenon DEF IInv, TypeOK
  <1>2. BegunOK(r)'
    <2>1. ASSUME NEW i \in 1..Len(Parts[r]), Fresh(r, i)'
          PROVE  stage'[<<r, i>>] = "none"
      <3>1. Fresh(r, i)
        BY <2>1, Zenon DEF Fresh, Rests
      <3> QED
        BY <1>1, <3>1, FlightOf, Zenon DEF BegunOK, Advances
    <2>2. ASSUME pc'[r] \in {"enqueue", "abandon"}
          PROVE  /\ at'[r] <= Len(Parts[r])
                 /\ stage'[<<r, at'[r]>>] = IF pc'[r] = "enqueue" THEN "enqueue" ELSE "dropped"
      <3>1. /\ pc[r] \in {"enqueue", "abandon"} /\ at[r] <= Len(Parts[r])
            /\ stage[<<r, at[r]>>] = IF pc[r] = "enqueue" THEN "enqueue" ELSE "dropped"
        BY <1>1, <2>2, Zenon DEF BegunOK, Rests
      <3>2. at[r] \in 1..Len(Parts[r])
        BY <1>1, <3>1, PartsLength
      <3>3. <<r, at[r]>> \in Flights /\ <<r, at[r]>>[1] = r
        BY <3>2, FlightOf, Zenon
      <3>4. stage'[<<r, at[r]>>] = stage[<<r, at[r]>>]
        BY <3>1, <3>3, Zenon DEF Advances
      <3> QED
        BY <3>1, <3>4, Zenon DEF Rests
    <2> QED
      BY <1>1, <2>1, <2>2, Zenon DEF BegunOK, Rests
  <1>3. HeldOK(r)'
    <2>1. ASSUME NEW i \in 1..Len(pending[r]), NEW g \in Flights, g = pending[r][i].flight
          PROVE  /\ i <= Len(Parts[r]) /\ KeyOf(g) = Parts[r][i]
                 /\ stage'[g] # "none" /\ (pending[r][i].hit => Good(g)')
                 /\ (pc[r] = "await" /\ ~stopped[r] /\ i < at[r]) \/ pc[r] \in {"tokenize", "prompt"} => Good(g)'
      <3>1. Advances(g, r)
        BY Zenon
      <3>2. /\ i <= Len(Parts[r]) /\ KeyOf(g) = Parts[r][i]
            /\ stage[g] # "none" /\ (pending[r][i].hit => Good(g))
            /\ (pc[r] = "await" /\ ~stopped[r] /\ i < at[r]) \/ pc[r] \in {"tokenize", "prompt"} => Good(g)
        BY <1>1, <2>1, Zenon DEF HeldOK
      <3> QED
        BY <3>1, <3>2, Zenon DEF Advances
    <2>2. \A i \in 1..Len(pending[r]) : pending[r][i].flight \in Flights
      BY <1>1, ItemOf, Zenon
    <2> QED
      BY <2>1, <2>2, ZenonT(60) DEF HeldOK, Rests, Good, KeyOf
  <1> QED
    BY <1>2, <1>3, Zenon

(* A flight's request and stage stay.                                      *)
LEMMA OwnerKept ==
  ASSUME IInv, NEW f \in Flights, Rests(f[1]), stage'[f] = stage[f]
  PROVE  OwnerOK(f)'
  BY Zenon DEF IInv, OwnerOK, Rests, Building, InProcess

(* A flight's payload stays.                                               *)
LEMMA BuildKept ==
  ASSUME IInv, NEW f \in Flights, stage'[f] = stage[f], broken'[f] = broken[f],
         f \in built' <=> f \in built,
         stage[f] \notin {"none", "over"} => inflight'[KeyOf(f)] = inflight[KeyOf(f)]
  PROVE  BuildOK(f)'
  BY Zenon DEF IInv, BuildOK, KeyOf
-----------------------------------------------------------------------------
(* The account of live bytes.                                              *)

(* A family of sets over a finite set is finite.                           *)
LEMMA FamilyFinite ==
  ASSUME NEW S, IsFiniteSet(S), NEW g, g = [x \in S |-> g[x]]
  PROVE  IsFiniteSet({g[x] : x \in S})
  <1>1. PICK T : T = {g[x] : x \in S}
    BY Zenon
  <1>2. g \in Surjection(S, T)
    BY <1>1, Zenon DEF Surjection
  <1> QED
    BY <1>1, <1>2, FS_Surjection, Zenon

(* There are finitely many flights.                                        *)
LEMMA FlightsFinite == IsFiniteSet(Flights)
  <1>1. PICK g : g = [r \in Requests |-> {r} \X (1..Len(Parts[r]))]
    BY Zenon
  <1>2. IsFiniteSet({g[r] : r \in Requests})
    <2>1. g = [r \in Requests |-> g[r]]
      BY <1>1, Zenon
    <2> QED
      BY <2>1, ConfigAssumption, FamilyFinite, ZenonT(60)
  <1>3. ASSUME NEW r \in Requests
        PROVE  IsFiniteSet({r} \X (1..Len(Parts[r])))
    <2>1. Len(Parts[r]) \in Int /\ 1 \in Int
      BY PartsLength
    <2>2. IsFiniteSet(1..Len(Parts[r])) /\ IsFiniteSet({r})
      BY <2>1, FS_Interval, FS_Singleton, Zenon
    <2> QED
      BY <2>2, FS_Product, Zenon
  <1>4. \A T \in {g[r] : r \in Requests} : IsFiniteSet(T)
    BY <1>1, <1>3, Zenon
  <1>5. IsFiniteSet(UNION {g[r] : r \in Requests})
    BY <1>2, <1>4, FS_UNION, Zenon
  <1>6. {g[r] : r \in Requests} = {{r} \X (1..Len(Parts[r])) : r \in Requests}
    BY <1>1, Zenon
  <1> QED
    BY <1>5, <1>6, Zenon DEF Flights

(* The bytes of one payload.                                               *)
LEMMA OneFlightsBytes ==
  ASSUME NEW f \in Flights
  PROVE  /\ IsFiniteSet({f} \X (1..Bytes[KeyOf(f)]))
         /\ Cardinality({f} \X (1..Bytes[KeyOf(f)])) = Bytes[KeyOf(f)]
         /\ Bytes[KeyOf(f)] \in Nat
  <1>1. PICK n : n = Bytes[KeyOf(f)]
    BY Zenon
  <1>2. n \in Nat \ {0}
    BY <1>1, FlightFacts, ConfigAssumption, Zenon
  <1>3. n \in Int /\ 1 \in Int /\ n \in Nat
    BY <1>2
  <1>4. IsFiniteSet(1..n) /\ Cardinality(1..n) = IF 1 > n THEN 0 ELSE n - 1 + 1
    BY <1>3, FS_Interval, Zenon
  <1>5. Cardinality(1..n) = n
    BY <1>2, <1>4
  <1>6. IsFiniteSet({f}) /\ Cardinality({f}) = 1
    BY FS_Singleton, Zenon
  <1>7. IsFiniteSet({f} \X (1..n)) /\ Cardinality({f} \X (1..n)) = Cardinality({f}) * Cardinality(1..n)
    BY <1>4, <1>6, FS_Product, Zenon
  <1>8. Cardinality({f} \X (1..n)) = n
    BY <1>3, <1>5, <1>6, <1>7
  <1> QED
    BY <1>1, <1>3, <1>7, <1>8, Zenon

(* Byte by byte, what a set of payloads takes.                             *)
Pool(S) == UNION {{f} \X (1..Bytes[KeyOf(f)]) : f \in S}

(* It is finite.                                                           *)
LEMMA PoolFinite ==
  ASSUME NEW S \in SUBSET Flights
  PROVE  IsFiniteSet(Pool(S)) /\ BytesOf(S) = Cardinality(Pool(S)) /\ BytesOf(S) \in Nat
  <1>1. PICK g : g = [f \in S |-> {f} \X (1..Bytes[KeyOf(f)])]
    BY Zenon
  <1>2. IsFiniteSet(S)
    BY FlightsFinite, FS_Subset, Zenon
  <1>3. IsFiniteSet({g[f] : f \in S})
    <2>1. g = [f \in S |-> g[f]]
      BY <1>1, Zenon
    <2> QED
      BY <1>2, <2>1, FamilyFinite, Zenon
  <1>4. \A T \in {g[f] : f \in S} : IsFiniteSet(T)
    BY <1>1, OneFlightsBytes, Zenon
  <1>5. IsFiniteSet(UNION {g[f] : f \in S})
    BY <1>3, <1>4, FS_UNION, Zenon
  <1>6. {g[f] : f \in S} = {{f} \X (1..Bytes[KeyOf(f)]) : f \in S}
    BY <1>1, Zenon
  <1>7. IsFiniteSet(Pool(S))
    BY <1>5, <1>6, Zenon DEF Pool
  <1>8. BytesOf(S) = Cardinality(Pool(S))
    BY Zenon DEF BytesOf, Pool
  <1> QED
    BY <1>7, <1>8, FS_CardinalityType, Zenon

(* Fewer payloads take no more bytes.                                      *)
LEMMA FewerBytes ==
  ASSUME NEW T \in SUBSET Flights, NEW S \in SUBSET T
  PROVE  BytesOf(S) <= BytesOf(T)
  <1>1. Pool(S) \in SUBSET Pool(T) /\ S \in SUBSET Flights
    BY Zenon DEF Pool
  <1> QED
    BY <1>1, PoolFinite, FS_Subset, ZenonT(60)

(* One more payload takes no more than its bytes.                          *)
LEMMA OneMorePayload ==
  ASSUME NEW S \in SUBSET Flights, NEW f \in Flights
  PROVE  BytesOf(S \cup {f}) <= BytesOf(S) + Bytes[KeyOf(f)]
  <1>1. PICK P : P = {f} \X (1..Bytes[KeyOf(f)])
    BY Zenon
  <1>2. IsFiniteSet(P) /\ Cardinality(P) = Bytes[KeyOf(f)] /\ Bytes[KeyOf(f)] \in Nat
    BY <1>1, OneFlightsBytes, Zenon
  <1>3. Pool(S \cup {f}) = Pool(S) \cup P
    BY <1>1 DEF Pool
  <1>4. IsFiniteSet(Pool(S)) /\ BytesOf(S) = Cardinality(Pool(S)) /\ BytesOf(S) \in Nat
    BY PoolFinite, Zenon
  <1>5. S \cup {f} \in SUBSET Flights
    BY Zenon
  <1>6. BytesOf(S \cup {f}) = Cardinality(Pool(S) \cup P)
    BY <1>3, <1>5, PoolFinite, Zenon
  <1>7. Cardinality(Pool(S) \cup P) = Cardinality(Pool(S)) + Cardinality(P) - Cardinality(Pool(S) \cap P)
    BY <1>2, <1>4, FS_Union, Zenon
  <1>8. Cardinality(Pool(S) \cap P) \in Nat
    BY <1>4, FS_Intersection, FS_CardinalityType, Zenon
  <1> QED
    BY <1>2, <1>4, <1>6, <1>7, <1>8

(* When no payload comes into use the account stays within its limit.      *)
LEMMA LiveKept ==
  ASSUME IInv, \A f \in Flights : InUse(f)' => InUse(f)
  PROVE  (live <= LiveLimit)'
  <1>1. PICK U : U = {f \in Flights : InUse(f)}
    BY Zenon
  <1>2. PICK V : V = {f \in Flights : InUse(f)'}
    BY Zenon
  <1>3. live = BytesOf(U)
    BY <1>1, Zenon DEF live
  <1>4. live' = BytesOf(V)
    BY <1>2, Zenon DEF live, BytesOf, KeyOf
  <1>5. U \in SUBSET Flights /\ V \in SUBSET U /\ V \in SUBSET Flights
    BY <1>1, <1>2, Zenon
  <1>6. BytesOf(V) <= BytesOf(U) /\ BytesOf(V) \in Nat /\ BytesOf(U) \in Nat
    BY <1>5, FewerBytes, PoolFinite, Zenon
  <1>7. BytesOf(U) <= LiveLimit /\ LiveLimit \in Nat
    BY <1>3, ConfigAssumption, Zenon DEF IInv
  <1>8. BytesOf(V) <= LiveLimit
    BY <1>6, <1>7
  <1> QED
    BY <1>4, <1>8, Zenon

(* What keeps a payload from coming into use.                              *)
LEMMA UseKept ==
  ASSUME NEW f \in Flights, f \in built' => f \in built,
         f \in built' /\ stage'[f] \in {"built", "stored", "done"} => InUse(f),
         f \in built' /\ ready'[KeyOf(f)] = f => InUse(f),
         \A r \in Requests : f \in built' /\ f \in Refers(r)' => InUse(f)
  PROVE  InUse(f)' => InUse(f)
  BY Zenon DEF InUse, KeyOf

(* A request that rests refers to what it did.                             *)
LEMMA RefersKept ==
  ASSUME NEW r \in Requests, Rests(r)
  PROVE  Refers(r)' = Refers(r)
  BY Zenon DEF Refers, Rests

(* The entries of a key, named by what they hold.                          *)
LEMMA KeyFrom ==
  ASSUME TypeOK', NEW k \in Keys,
         \A f \in Flights : inflight'[k] = f => KeyOf(f) = k /\ stage'[f] \notin {"none", "over"},
         \A f \in Flights : ready'[k] = f => KeyOf(f) = k /\ Good(f)'
  PROVE  KeyOK(k)'
  <1>1. inflight'[k] \in Flights \cup {None} /\ ready'[k] \in Flights \cup {None}
    BY Zenon DEF TypeOK
  <1> QED
    BY <1>1, Zenon DEF KeyOK, KeyOf, Good

-----------------------------------------------------------------------------
(* A request's own steps.                                                  *)

(* The step changes nothing of a flight, and no other request.             *)
Quiet(r) ==
    /\ inflight' = inflight /\ ready' = ready /\ queue' = queue
    /\ stage' = stage /\ broken' = broken /\ built' = built
    /\ \A q \in Requests \ {r} : Rests(q)

(* What a request's own step must keep.                                    *)
LEMMA QuietStep ==
  ASSUME IInv, NEW r \in Requests, Quiet(r), TypeOK', BegunOK(r)', HeldOK(r)',
         \A f \in Flights : f[1] = r => OwnerOK(f)',
         \A f \in Flights : f \in built /\ f \in Refers(r)' => InUse(f)
  PROVE  IInv'
  <1>1. ASSUME NEW q \in Requests
        PROVE  BegunOK(q)' /\ HeldOK(q)'
    <2>1. CASE q = r
      BY <2>1, Zenon
    <2>2. CASE q # r
      <3>1. Rests(q)
        BY <2>2, Zenon DEF Quiet
      <3>2. \A f \in Flights : Advances(f, q)
        BY Zenon DEF Advances, Quiet, Good
      <3> QED
        BY <3>1, <3>2, RequestKept, Zenon
    <2> QED
      BY <2>1, <2>2, Zenon
  <1>2. ASSUME NEW f \in Flights
        PROVE  OwnerOK(f)' /\ BuildOK(f)'
    <2>1. f[1] \in Requests
      BY FlightFacts, Zenon
    <2>2. CASE f[1] = r
      BY <2>2, BuildKept, Zenon DEF Quiet
    <2>3. CASE f[1] # r
      <3>1. Rests(f[1]) /\ stage'[f] = stage[f]
        BY <2>1, <2>3, Zenon DEF Quiet
      <3> QED
        BY <3>1, OwnerKept, BuildKept, Zenon DEF Quiet
    <2> QED
      BY <2>2, <2>3
  <1>3. \A k \in Keys : KeyOK(k)'
    BY Zenon DEF IInv, KeyOK, Quiet, Good, KeyOf
  <1>4. QueueOK'
    BY Zenon DEF IInv, QueueOK, Quiet, Once
  <1>5. ASSUME NEW f \in Flights
        PROVE  InUse(f)' => InUse(f)
    <2>1. f \in built /\ stage[f] \in {"built", "stored", "done"} => InUse(f)
      BY Zenon DEF InUse
    <2>2. f \in built /\ ready[KeyOf(f)] = f => InUse(f)
      BY Zenon DEF InUse
    <2>3. ASSUME NEW q \in Requests, f \in built, f \in Refers(q)'
          PROVE  InUse(f)
      <3>1. CASE q = r
        BY <2>3, <3>1, Zenon
      <3>2. CASE q # r
        <4>1. Refers(q)' = Refers(q)
          BY <3>2, RefersKept, Zenon DEF Quiet
        <4> QED
          BY <2>3, <4>1, Zenon DEF InUse
      <3> QED
        BY <3>1, <3>2
    <2> QED
      BY <2>1, <2>2, <2>3, UseKept, Zenon DEF Quiet
  <1>6. (live <= LiveLimit)'
    BY <1>5, LiveKept, Zenon
  <1> QED
    BY <1>1, <1>2, <1>3, <1>4, <1>6, Zenon DEF IInv

(* One value of a function changes.                                        *)
LEMMA SetAt ==
  ASSUME NEW S, NEW T, NEW g \in [S -> T], NEW x \in S, NEW v \in T
  PROVE  /\ [g EXCEPT ![x] = v] \in [S -> T]
         /\ [g EXCEPT ![x] = v][x] = v
         /\ \A y \in S : y # x => [g EXCEPT ![x] = v][y] = g[y]
  BY Zenon

(* One flag is set.                                                        *)
LEMMA SetTrue ==
  ASSUME NEW S, NEW g \in [S -> BOOLEAN], NEW x \in S
  PROVE  /\ [g EXCEPT ![x] = TRUE] \in [S -> BOOLEAN]
         /\ [g EXCEPT ![x] = TRUE][x]
         /\ \A y \in S : y # x => [g EXCEPT ![x] = TRUE][y] = g[y]
  BY Zenon

(* No thread is at a flight of a request that has begun nothing, has       *)
(* awaited everything, or is past its preparation.                         *)
LEMMA NobodyBuilds ==
  ASSUME IInv, NEW r \in Requests,
         pc[r] \in {"permit", "tokenize", "prompt"} \/ (pc[r] = "await" /\ at[r] > Len(pending[r]))
  PROVE  \A f \in Flights : f[1] = r => ~Building(f) /\ stage[f] \notin {"enqueue", "dropped"}
  <1> SUFFICES ASSUME NEW f \in Flights, f[1] = r
               PROVE  ~Building(f) /\ stage[f] \notin {"enqueue", "dropped"}
    BY Zenon
  <1>1. OwnerOK(f) /\ f[2] \in Nat /\ at[r] \in Nat /\ pending[r] \in Seq(Items)
    BY FlightFacts, Zenon DEF IInv, TypeOK
  <1>2. Len(pending[r]) \in Nat
    BY <1>1
  <1>3. stage[f] \notin {"enqueue", "dropped"}
    BY <1>1, Zenon DEF OwnerOK
  <1>4. ASSUME Building(f)
        PROVE  FALSE
    <2>1. InProcess(r) /\ f[2] <= Len(pending[r]) /\ (pc[r] = "await" => at[r] <= f[2])
      BY <1>1, <1>4, Zenon DEF OwnerOK
    <2>2. pc[r] = "await" /\ at[r] > Len(pending[r])
      BY <2>1, Zenon DEF InProcess
    <2> QED
      BY <1>1, <1>2, <2>1, <2>2
  <1> QED
    BY <1>3, <1>4, Zenon

(* The request is over, and refers to nothing.                             *)
Leaves(r, x) ==
    /\ pc' = [pc EXCEPT ![r] = x] /\ pending' = [pending EXCEPT ![r] = <<>>]
    /\ UNCHANGED <<at, stopped, cancelled, expired, cache, flight>>

(* It may be once nobody builds for it.                                    *)
LEMMA LeavesOK ==
  ASSUME IInv, NEW r \in Requests, NEW x \in {"failed", "done"}, Leaves(r, x),
         pc[r] \in {"permit", "tokenize", "prompt"} \/ (pc[r] = "await" /\ at[r] > Len(pending[r]))
  PROVE  IInv'
  <1>1. TypeOK /\ x \in Places /\ <<>> \in Seq(Items)
    BY DEF IInv, Places
  <1>2. /\ pc' \in [Requests -> Places] /\ pc'[r] = x /\ \A q \in Requests : q # r => pc'[q] = pc[q]
        /\ pending' \in [Requests -> Seq(Items)] /\ pending'[r] = <<>>
        /\ \A q \in Requests : q # r => pending'[q] = pending[q]
    BY <1>1, SetAt, Zenon DEF TypeOK, Leaves
  <1>3. TypeOK'
    BY <1>1, <1>2, Zenon DEF TypeOK, Leaves, cache, flight
  <1>4. Quiet(r)
    BY <1>2, Zenon DEF Quiet, Rests, Leaves, cache, flight
  <1>5. BegunOK(r)'
    BY <1>2, Zenon DEF BegunOK, Fresh
  <1>6. HeldOK(r)'
    <2>1. 1..Len(pending'[r]) = {}
      BY <1>2
    <2> QED
      BY <2>1, Zenon DEF HeldOK
  <1>7. \A f \in Flights : f[1] = r => OwnerOK(f)'
    BY <1>4, NobodyBuilds, Zenon DEF OwnerOK, Building, Quiet
  <1>8. Refers(r)' = {}
    BY <1>2 DEF Refers
  <1> QED
    BY <1>3, <1>4, <1>5, <1>6, <1>7, <1>8, QuietStep, ZenonT(60)

(* The request goes on, with what it has.                                  *)
Proceeds(r, x) ==
    /\ pc' = [pc EXCEPT ![r] = x]
    /\ UNCHANGED <<at, pending, stopped, cancelled, expired, cache, flight>>

(* What that leaves to show.                                               *)
LEMMA ProceedsOK ==
  ASSUME IInv, NEW r \in Requests, NEW x \in {"begin", "tokenize", "prompt"}, Proceeds(r, x),
         pc[r] \in {"permit", "tokenize", "prompt"} \/ (pc[r] = "await" /\ at[r] > Len(pending[r])),
         BegunOK(r)', HeldOK(r)'
  PROVE  IInv'
  <1>1. TypeOK /\ x \in Places
    BY Zenon DEF IInv, Places
  <1>2. pc' \in [Requests -> Places] /\ pc'[r] = x /\ \A q \in Requests : q # r => pc'[q] = pc[q]
    BY <1>1, SetAt, Zenon DEF TypeOK, Proceeds
  <1>3. TypeOK'
    BY <1>1, <1>2, Zenon DEF TypeOK, Proceeds, cache, flight
  <1>4. Quiet(r)
    BY <1>2, Zenon DEF Quiet, Rests, Proceeds, cache, flight
  <1>5. \A f \in Flights : f[1] = r => OwnerOK(f)'
    BY <1>4, NobodyBuilds, Zenon DEF OwnerOK, Building, Quiet
  <1>6. \A f \in Flights : f \in built /\ f \in Refers(r)' => InUse(f)
    BY Zenon DEF Refers, InUse, Proceeds
  <1> QED
    BY <1>3, <1>4, <1>5, <1>6, QuietStep, Zenon

(* A permit is taken, or the request leaves without one.                   *)
LEMMA AcquireOK ==
  ASSUME IInv, NEW r \in Requests, acquire_request(r)
  PROVE  IInv'
  <1>1. pc[r] = "permit" /\ TypeOK /\ BegunOK(r)
    BY Zenon DEF acquire_request, IInv
  <1>2. CASE Fail(r)
    <2>1. Leaves(r, "failed")
      BY <1>2, Zenon DEF acquire_request, Fail, Leaves
    <2> QED
      BY <1>1, <2>1, LeavesOK, Zenon
  <1>3. CASE ~Fail(r)
    <2>1. Proceeds(r, "begin")
      BY <1>3, Zenon DEF acquire_request, Proceeds
    <2>2. /\ pc'[r] = "begin" /\ at'[r] = 1 /\ pending'[r] = <<>> /\ stage' = stage
          /\ Len(Parts[r]) \in Nat
      BY <1>1, <2>1, PartsLength, Zenon DEF TypeOK, BegunOK, Proceeds, flight
    <2>3. BegunOK(r)'
      <3>1. \A i \in 1..Len(Parts[r]) : stage'[<<r, i>>] = "none"
        BY <1>1, <2>2, Zenon DEF BegunOK, Fresh
      <3>2. Len(pending'[r]) = at'[r] - 1 /\ at'[r] <= Len(Parts[r]) + 1
        BY <2>2
      <3> QED
        BY <2>2, <3>1, <3>2, Zenon DEF BegunOK
    <2>4. HeldOK(r)'
      <3>1. 1..Len(pending'[r]) = {}
        BY <2>2
      <3> QED
        BY <3>1, Zenon DEF HeldOK
    <2> QED
      BY <1>1, <2>1, <2>3, <2>4, ProceedsOK, Zenon
  <1> QED
    BY <1>2, <1>3

(* All parts are awaited.                                                  *)
LEMMA AwaitedOK ==
  ASSUME IInv, NEW r \in Requests, awaited(r)
  PROVE  IInv'
  <1>1. pc[r] = "await" /\ at[r] > Len(pending[r]) /\ TypeOK /\ BegunOK(r) /\ HeldOK(r)
    BY Zenon DEF awaited, IInv
  <1>2. CASE stopped[r]
    <2>1. Leaves(r, "failed")
      BY <1>2, Zenon DEF awaited, Fail, Leaves
    <2> QED
      BY <1>1, <2>1, LeavesOK, Zenon
  <1>3. CASE ~stopped[r]
    <2>1. Proceeds(r, "tokenize")
      BY <1>3, Zenon DEF awaited, Proceeds
    <2>2. pc'[r] = "tokenize"
      BY <1>1, <2>1, Zenon DEF TypeOK, Proceeds
    <2>3. BegunOK(r)'
      BY <1>1, <1>3, <2>1, <2>2, Zenon DEF BegunOK, Fresh, Proceeds
    <2>4. at[r] \in Nat /\ Len(pending[r]) \in Nat
      BY <1>1 DEF TypeOK
    <2>5. \A i \in 1..Len(pending[r]) : i < at[r]
      BY <1>1, <2>4
    <2>6. HeldOK(r)'
      BY <1>1, <1>3, <2>1, <2>5, Zenon DEF HeldOK, Proceeds, Good, KeyOf, flight
    <2> QED
      BY <1>1, <2>1, <2>3, <2>6, ProceedsOK, Zenon
  <1> QED
    BY <1>2, <1>3

(* The prompt is tokenized.                                                *)
LEMMA TokenizeOK ==
  ASSUME IInv, NEW r \in Requests, tokenize(r)
  PROVE  IInv'
  <1>1. pc[r] = "tokenize" /\ TypeOK /\ BegunOK(r) /\ HeldOK(r)
    BY Zenon DEF tokenize, IInv
  <1>2. CASE Fail(r)
    <2>1. Leaves(r, "failed")
      BY <1>2, Zenon DEF tokenize, Fail, Leaves
    <2> QED
      BY <1>1, <2>1, LeavesOK, Zenon
  <1>3. CASE ~Fail(r)
    <2>1. Proceeds(r, "prompt")
      BY <1>3, Zenon DEF tokenize, Proceeds
    <2>2. pc'[r] = "prompt"
      BY <1>1, <2>1, Zenon DEF TypeOK, Proceeds
    <2>3. BegunOK(r)'
      BY <1>1, <2>1, <2>2, Zenon DEF BegunOK, Fresh, Proceeds
    <2>4. HeldOK(r)'
      BY <1>1, <2>1, Zenon DEF HeldOK, Proceeds, Good, KeyOf, flight
    <2> QED
      BY <1>1, <2>1, <2>3, <2>4, ProceedsOK, Zenon
  <1> QED
    BY <1>2, <1>3, Zenon

(* The engine is done with the prompt.                                     *)
LEMMA ReleaseOK ==
  ASSUME IInv, NEW r \in Requests, release(r)
  PROVE  IInv'
  <1>1. pc[r] = "prompt" /\ Leaves(r, "done")
    BY Zenon DEF release, Leaves
  <1> QED
    BY <1>1, LeavesOK, Zenon

(* The client cancels, or the deadline passes.                             *)
LEMMA SignalOK ==
  ASSUME IInv, NEW r \in Requests, cancel(r) \/ expire(r)
  PROVE  IInv'
  <1>1. TypeOK /\ TRUE \in BOOLEAN
    BY Zenon DEF IInv
  <1>2. cancelled' \in [Requests -> BOOLEAN] /\ expired' \in [Requests -> BOOLEAN]
    BY <1>1, SetAt, ZenonT(60) DEF TypeOK, cancel, expire
  <1>3. UNCHANGED <<request, cache, flight>>
    BY Zenon DEF cancel, expire
  <1>4. TypeOK'
    BY <1>1, <1>2, <1>3, Zenon DEF TypeOK, request, cache, flight
  <1>5. Quiet(r) /\ Rests(r)
    BY <1>3, Zenon DEF Quiet, Rests, request, cache, flight
  <1>6. BegunOK(r)' /\ HeldOK(r)'
    <2>1. \A f \in Flights : Advances(f, r)
      BY <1>5, Zenon DEF Advances, Quiet, Good
    <2> QED
      BY <1>5, <2>1, RequestKept, Zenon
  <1>7. \A f \in Flights : f[1] = r => OwnerOK(f)'
    BY <1>5, OwnerKept, Zenon DEF Quiet
  <1>8. \A f \in Flights : f \in built /\ f \in Refers(r)' => InUse(f)
    BY <1>5, RefersKept, Zenon DEF InUse
  <1> QED
    BY <1>4, <1>5, <1>6, <1>7, <1>8, QuietStep, ZenonT(60)

(* A flight only gets on.                                                  *)
GetsOn(f) == (stage[f] # "none" => stage'[f] # "none") /\ (Good(f) => Good(f)')

(* A request turns to awaiting what it has begun.                          *)
LEMMA AwaitRequest ==
  ASSUME IInv, NEW r \in Requests, NEW e \in BOOLEAN, Await(r, e), \A f \in Flights : GetsOn(f),
         e \/ Len(pending[r]) = Len(Parts[r])
  PROVE  /\ pc' \in [Requests -> Places] /\ at' \in [Requests -> Nat \ {0}]
         /\ pending' = pending /\ stopped' \in [Requests -> BOOLEAN]
         /\ \A q \in Requests \ {r} : Rests(q)
         /\ pc'[r] = "await" /\ at'[r] = 1 /\ BegunOK(r)' /\ HeldOK(r)'
  <1>1. TypeOK /\ HeldOK(r) /\ pending[r] \in Seq(Items) /\ "await" \in Places /\ 1 \in Nat \ {0}
    BY DEF IInv, TypeOK, Places
  <1>2. pending' = pending
    BY Zenon DEF Await
  <1>3. pc' \in [Requests -> Places] /\ pc'[r] = "await" /\ \A q \in Requests : q # r => pc'[q] = pc[q]
    BY <1>1, SetAt, Zenon DEF TypeOK, Await
  <1>4. at' \in [Requests -> Nat \ {0}] /\ at'[r] = 1 /\ \A q \in Requests : q # r => at'[q] = at[q]
    BY <1>1, SetAt, Zenon DEF TypeOK, Await
  <1>5. stopped' \in [Requests -> BOOLEAN] /\ stopped'[r] = e /\ \A q \in Requests : q # r => stopped'[q] = stopped[q]
    BY <1>1, SetAt, ZenonT(60) DEF TypeOK, Await
  <1>6. BegunOK(r)'
    BY <1>2, <1>3, <1>5, Zenon DEF BegunOK, Fresh
  <1>7. HeldOK(r)'
    <2>1. ASSUME NEW i \in 1..Len(pending[r]), NEW g \in Flights, g = pending[r][i].flight
          PROVE  /\ i <= Len(Parts[r]) /\ KeyOf(g) = Parts[r][i]
                 /\ stage'[g] # "none" /\ (pending[r][i].hit => Good(g)')
                 /\ ~(i < 1)
      <3>1. i <= Len(Parts[r]) /\ KeyOf(g) = Parts[r][i] /\ stage[g] # "none" /\ (pending[r][i].hit => Good(g))
        BY <1>1, <2>1, Zenon DEF HeldOK
      <3>2. ~(i < 1)
        BY <1>1
      <3> QED
        BY <3>1, <3>2, Zenon DEF GetsOn
    <2>2. \A i \in 1..Len(pending[r]) : pending[r][i].flight \in Flights
      BY <1>1, ItemOf, Zenon
    <2>3. pc'[r] \notin {"tokenize", "prompt"}
      BY <1>3, Zenon
    <2>4. \A i \in 1..Len(pending[r]) : ~(i < at'[r])
      BY <1>4, <2>1, <2>2, Zenon
    <2> QED
      BY <1>2, <2>1, <2>2, <2>3, <2>4, ZenonT(60) DEF HeldOK, Good, KeyOf
  <1> QED
    BY <1>2, <1>3, <1>4, <1>5, <1>6, <1>7, ZenonT(60) DEF Rests

(* The next item has its number.                                           *)
LEMMA NextItem ==
  ASSUME NEW s \in Seq(Items), NEW n \in Nat \ {0}, Len(s) = n - 1, NEW m \in Nat, n <= m
  PROVE  /\ n \in 1..m /\ Len(s) + 1 = n /\ n + 1 \in Nat \ {0} /\ n + 1 <= m + 1
         /\ Len(s) + 1 = (n + 1) - 1
         /\ \A i \in 1..(Len(s) + 1) : i \in 1..Len(s) \/ i = n
         /\ \A i \in 1..m : i >= n + 1 => i > n /\ i >= n
  OBVIOUS

(* A request has begun one more part.                                      *)
LEMMA BegunRequest ==
  ASSUME IInv, NEW r \in Requests, NEW g \in Flights, NEW h \in BOOLEAN, Begun(r, g, h),
         pc[r] \in {"begin", "enqueue"}, at[r] <= Len(Parts[r]),
         \A f \in Flights : GetsOn(f), KeyOf(g) = Parts[r][at[r]], stage'[g] # "none", h => Good(g)',
         \A i \in 1..Len(Parts[r]) : i > at[r] => stage'[<<r, i>>] = stage[<<r, i>>]
  PROVE  /\ pc' \in [Requests -> Places] /\ at' \in [Requests -> Nat \ {0}]
         /\ pending' \in [Requests -> Seq(Items)] /\ stopped' = stopped
         /\ \A q \in Requests \ {r} : Rests(q)
         /\ pc'[r] = "begin" /\ BegunOK(r)' /\ HeldOK(r)'
         /\ at[r] = Len(pending[r]) + 1 /\ Len(pending'[r]) = at[r]
         /\ \A i \in 1..Len(pending[r]) : pending'[r][i] = pending[r][i]
         /\ pending'[r][at[r]] = [flight |-> g, hit |-> h]
  <1> DEFINE item == [flight |-> g, hit |-> h]
  <1>1. /\ TypeOK /\ HeldOK(r) /\ BegunOK(r) /\ pending[r] \in Seq(Items) /\ "begin" \in Places
        /\ at[r] \in Nat \ {0} /\ item \in Items /\ Len(pending[r]) = at[r] - 1
    BY ZenonT(60) DEF IInv, TypeOK, Places, Items, BegunOK
  <1> HIDE DEF item
  <1>2. /\ at[r] \in 1..Len(Parts[r]) /\ Len(pending[r]) + 1 = at[r] /\ at[r] + 1 \in Nat \ {0}
        /\ at[r] + 1 <= Len(Parts[r]) + 1 /\ Len(pending[r]) + 1 = (at[r] + 1) - 1
        /\ \A i \in 1..(Len(pending[r]) + 1) : i \in 1..Len(pending[r]) \/ i = at[r]
        /\ \A i \in 1..Len(Parts[r]) : i >= at[r] + 1 => i > at[r] /\ i >= at[r]
    <2>1. PICK s \in Seq(Items) : s = pending[r]
      BY <1>1, Zenon
    <2>2. PICK n \in Nat \ {0} : n = at[r]
      BY <1>1, Zenon
    <2>3. PICK m \in Nat : m = Len(Parts[r])
      BY PartsLength, Zenon
    <2>4. Len(s) = n - 1 /\ n <= m
      BY <1>1, <2>1, <2>2, <2>3, Zenon
    <2>5. /\ n \in 1..m /\ Len(s) + 1 = n /\ n + 1 \in Nat \ {0} /\ n + 1 <= m + 1
          /\ Len(s) + 1 = (n + 1) - 1
          /\ \A i \in 1..(Len(s) + 1) : i \in 1..Len(s) \/ i = n
          /\ \A i \in 1..m : i >= n + 1 => i > n /\ i >= n
      BY <2>4, NextItem
    <2> QED
      BY <2>1, <2>2, <2>3, <2>5, Zenon
  <1>3. /\ Append(pending[r], item) \in Seq(Items) /\ Len(Append(pending[r], item)) = Len(pending[r]) + 1
        /\ \A i \in 1..Len(pending[r]) : Append(pending[r], item)[i] = pending[r][i]
        /\ Append(pending[r], item)[Len(pending[r]) + 1] = item
    <2>1. PICK s \in Seq(Items) : s = pending[r]
      BY <1>1, Zenon
    <2>2. PICK x \in Items : x = item
      BY <1>1, Zenon
    <2>3. /\ Append(s, x) \in Seq(Items) /\ Len(Append(s, x)) = Len(s) + 1
          /\ \A i \in 1..Len(s) : Append(s, x)[i] = s[i]
          /\ Append(s, x)[Len(s) + 1] = x
      BY OneMore
    <2> QED
      BY <2>1, <2>2, <2>3, Zenon
  <1>4. pc' \in [Requests -> Places] /\ pc'[r] = "begin" /\ \A q \in Requests : q # r => pc'[q] = pc[q]
    BY <1>1, SetAt, Zenon DEF TypeOK, Begun
  <1>5. at' \in [Requests -> Nat \ {0}] /\ at'[r] = at[r] + 1 /\ \A q \in Requests : q # r => at'[q] = at[q]
    BY <1>1, <1>2, SetAt, ZenonT(60) DEF TypeOK, Begun
  <1>6. /\ pending' \in [Requests -> Seq(Items)] /\ pending'[r] = Append(pending[r], item)
        /\ \A q \in Requests : q # r => pending'[q] = pending[q]
    BY <1>1, <1>3, SetAt, ZenonT(60) DEF TypeOK, Begun, item
  <1>7. BegunOK(r)'
    <2>1. ASSUME NEW i \in 1..Len(Parts[r]), i >= at[r] + 1
          PROVE  stage'[<<r, i>>] = "none"
      <3>1. i > at[r] /\ i >= at[r]
        BY <1>2, <2>1, Zenon
      <3> QED
        BY <1>1, <3>1, Zenon DEF BegunOK, Fresh
    <2>2. Len(pending'[r]) = at'[r] - 1 /\ at'[r] <= Len(Parts[r]) + 1
      BY <1>2, <1>3, <1>5, <1>6, Zenon
    <2> QED
      BY <1>4, <1>5, <2>1, <2>2, Zenon DEF BegunOK, Fresh
  <1>8. HeldOK(r)'
    <2>1. ASSUME NEW i \in 1..Len(pending[r]), NEW f \in Flights, f = pending[r][i].flight
          PROVE  /\ i <= Len(Parts[r]) /\ KeyOf(f) = Parts[r][i]
                 /\ stage'[f] # "none" /\ (pending[r][i].hit => Good(f)')
      <3>1. i <= Len(Parts[r]) /\ KeyOf(f) = Parts[r][i] /\ stage[f] # "none" /\ (pending[r][i].hit => Good(f))
        BY <1>1, <2>1, Zenon DEF HeldOK
      <3> QED
        BY <3>1, Zenon DEF GetsOn
    <2>2. ASSUME NEW i \in 1..Len(pending'[r]), NEW f \in Flights, f = pending'[r][i].flight
          PROVE  /\ i <= Len(Parts[r]) /\ KeyOf(f) = Parts[r][i]
                 /\ stage'[f] # "none" /\ (pending'[r][i].hit => Good(f)')
      <3>1. i \in 1..Len(pending[r]) \/ i = at[r]
        BY <1>2, <1>3, <1>6, Zenon
      <3>2. CASE i \in 1..Len(pending[r])
        <4>1. pending'[r][i] = pending[r][i]
          BY <1>3, <1>6, <3>2, ZenonT(60)
        <4>2. f = pending[r][i].flight
          BY <2>2, <4>1, Zenon
        <4> QED
          BY <2>1, <3>2, <4>1, <4>2, Zenon
      <3>3. CASE i = at[r]
        <4>1. pending'[r][i] = item
          BY <1>2, <1>3, <1>6, <3>3, ZenonT(60)
        <4>2. f = g /\ pending'[r][i].hit = h
          BY <2>2, <4>1 DEF item
        <4> QED
          BY <3>3, <4>2, Zenon
      <3> QED
        BY <3>1, <3>2, <3>3, Zenon
    <2>3. \A i \in 1..Len(pending'[r]) : pending'[r][i].flight \in Flights
      <3>1. pending'[r] \in Seq(Items)
        BY <1>6, Zenon
      <3> QED
        BY <3>1, ItemOf, Zenon
    <2> QED
      BY <1>4, <2>2, <2>3, ZenonT(60) DEF HeldOK, Good, KeyOf
  <1>9. stopped' = stopped
    BY Zenon DEF Begun
  <1>10. Len(pending'[r]) = at[r] /\ pending'[r][at[r]] = item
    BY <1>2, <1>3, <1>6, Zenon
  <1> QED
    BY <1>2, <1>3, <1>4, <1>5, <1>6, <1>7, <1>8, <1>9, <1>10, ZenonT(60) DEF Rests, item

(* Turning to await, no flight changes.                                    *)
LEMMA AwaitQuiet ==
  ASSUME IInv, NEW r \in Requests, NEW e \in BOOLEAN, pc[r] = "begin", Await(r, e),
         e \/ Len(pending[r]) = Len(Parts[r]), UNCHANGED <<cancelled, expired, cache, flight>>
  PROVE  IInv'
  <1>1. stage' = stage /\ broken' = broken /\ built' = built /\ queue' = queue /\ inflight' = inflight /\ ready' = ready
    BY Zenon DEF cache, flight
  <1>2. \A f \in Flights : GetsOn(f)
    BY <1>1, Zenon DEF GetsOn, Good
  <1>3. /\ pc' \in [Requests -> Places] /\ at' \in [Requests -> Nat \ {0}]
        /\ pending' = pending /\ stopped' \in [Requests -> BOOLEAN]
        /\ \A q \in Requests \ {r} : Rests(q)
        /\ pc'[r] = "await" /\ at'[r] = 1 /\ BegunOK(r)' /\ HeldOK(r)'
    BY <1>2, AwaitRequest, Zenon
  <1>4. TypeOK'
    BY <1>1, <1>3, Zenon DEF IInv, TypeOK
  <1>5. ASSUME NEW f \in Flights, f[1] = r
        PROVE  OwnerOK(f)'
    <2>1. OwnerOK(f) /\ f[2] \in 1..Len(Parts[f[1]])
      BY FlightFacts, Zenon DEF IInv
    <2>2. 1 <= f[2]
      BY <2>1
    <2>3. stage[f] # "enqueue" /\ stage[f] # "dropped"
      BY <1>5, <2>1, Zenon DEF OwnerOK
    <2> QED
      BY <1>1, <1>3, <1>5, <2>1, <2>2, <2>3, ZenonT(60) DEF OwnerOK, Building, InProcess
  <1>6. \A f \in Flights : f \in built /\ f \in Refers(r)' => InUse(f)
    BY <1>3, Zenon DEF Refers, InUse
  <1>7. Quiet(r)
    BY <1>1, <1>3, Zenon DEF Quiet
  <1> QED
    BY <1>3, <1>4, <1>5, <1>6, <1>7, QuietStep, ZenonT(60)

(* All parts are begun.                                                    *)
LEMMA BegunAllOK ==
  ASSUME IInv, NEW r \in Requests, begun(r)
  PROVE  IInv'
  <1>1. pc[r] = "begin" /\ at[r] > Len(Parts[r]) /\ Await(r, FALSE) /\ UNCHANGED <<cancelled, expired, cache, flight>>
    BY Zenon DEF begun
  <1>2. /\ Len(pending[r]) = at[r] - 1 /\ at[r] <= Len(Parts[r]) + 1 /\ at[r] \in Nat
        /\ Len(Parts[r]) \in Nat
    BY <1>1, PartsLength, ZenonT(60) DEF IInv, TypeOK, BegunOK
  <1>3. Len(pending[r]) = Len(Parts[r])
    BY <1>1, <1>2
  <1> QED
    BY <1>1, <1>3, AwaitQuiet, Zenon

(* A part of which a payload or a flight was found.                        *)
LEMMA BegunQuiet ==
  ASSUME IInv, NEW r \in Requests, NEW g \in Flights, NEW h \in BOOLEAN, Begun(r, g, h),
         pc[r] = "begin", at[r] <= Len(Parts[r]), KeyOf(g) = Parts[r][at[r]], stage[g] # "none",
         h => Good(g), g \in built => InUse(g),
         UNCHANGED <<cancelled, expired, ready, inflight, flight>>
  PROVE  IInv'
  <1>1. stage' = stage /\ broken' = broken /\ built' = built /\ queue' = queue /\ inflight' = inflight /\ ready' = ready
    BY Zenon DEF flight
  <1>2. /\ \A f \in Flights : GetsOn(f)
        /\ stage'[g] # "none" /\ (h => Good(g)')
        /\ \A i \in 1..Len(Parts[r]) : i > at[r] => stage'[<<r, i>>] = stage[<<r, i>>]
    BY <1>1, Zenon DEF GetsOn, Good
  <1>3. /\ pc' \in [Requests -> Places] /\ at' \in [Requests -> Nat \ {0}]
        /\ pending' \in [Requests -> Seq(Items)] /\ stopped' = stopped
        /\ \A q \in Requests \ {r} : Rests(q)
        /\ pc'[r] = "begin" /\ BegunOK(r)' /\ HeldOK(r)'
        /\ at[r] = Len(pending[r]) + 1 /\ Len(pending'[r]) = at[r]
        /\ \A i \in 1..Len(pending[r]) : pending'[r][i] = pending[r][i]
        /\ pending'[r][at[r]] = [flight |-> g, hit |-> h]
    BY <1>2, BegunRequest, Zenon
  <1>4. TypeOK'
    BY <1>1, <1>3, ZenonT(60) DEF IInv, TypeOK
  <1>5. pending[r] \in Seq(Items) /\ Len(pending[r]) \in Nat /\ at[r] \in Nat
    BY DEF IInv, TypeOK
  <1>6. ASSUME NEW f \in Flights, f[1] = r
        PROVE  OwnerOK(f)'
    <2>1. OwnerOK(f) /\ f[2] \in 1..Len(Parts[f[1]])
      BY FlightFacts, Zenon DEF IInv
    <2>2. stage[f] # "enqueue" /\ stage[f] # "dropped"
      BY <1>6, <2>1, Zenon DEF OwnerOK
    <2>3. ASSUME Building(f)
          PROVE  f[2] <= Len(pending'[r]) /\ pending'[r][f[2]] = [flight |-> f, hit |-> FALSE]
      <3>1. f[2] <= Len(pending[r]) /\ pending[r][f[2]] = [flight |-> f, hit |-> FALSE]
        BY <1>6, <2>1, <2>3, ZenonT(60) DEF OwnerOK
      <3>2. f[2] \in 1..Len(pending[r]) /\ f[2] <= at[r]
        BY <1>3, <1>5, <2>1, <3>1
      <3> QED
        BY <1>3, <3>1, <3>2, Zenon
    <2> QED
      BY <1>1, <1>3, <1>6, <2>2, <2>3, Zenon DEF OwnerOK, Building, InProcess
  <1>7. ASSUME NEW f \in Flights, f \in built, f \in Refers(r)'
        PROVE  InUse(f)
    <2>1. PICK i \in 1..Len(pending'[r]) : f = pending'[r][i].flight
      BY <1>7, Zenon DEF Refers
    <2>2. i \in 1..Len(pending[r]) \/ i = at[r]
      BY <1>3, <1>5
    <2>3. CASE i \in 1..Len(pending[r])
      BY <1>3, <1>7, <2>1, <2>3, Zenon DEF Refers, InUse
    <2>4. CASE i = at[r]
      <3>1. f = g
        BY <1>3, <2>1, <2>4
      <3> QED
        BY <1>7, <3>1, ZenonT(60)
    <2> QED
      BY <2>2, <2>3, <2>4, Zenon
  <1>8. Quiet(r)
    BY <1>1, <1>3, Zenon DEF Quiet
  <1> QED
    BY <1>3, <1>4, <1>6, <1>7, <1>8, QuietStep, Zenon

(* A request waits for one part.                                           *)
LEMMA AwaitStepOK ==
  ASSUME IInv, NEW r \in Requests, await(r)
  PROVE  IInv'
  <1>1. /\ pc[r] = "await" /\ at[r] <= Len(pending[r]) /\ UNCHANGED <<pc, pending, cancelled, expired, cache, flight>>
        /\ TypeOK /\ BegunOK(r) /\ HeldOK(r) /\ at[r] \in Nat \ {0} /\ pending[r] \in Seq(Items)
        /\ at[r] + 1 \in Nat \ {0} /\ stopped[r] \in BOOLEAN
    BY DEF await, IInv, TypeOK
  <1>2. PICK p : p = pending[r][at[r]]
    BY Zenon
  <1>3. at[r] \in 1..Len(pending[r])
    BY <1>1
  <1>4. p \in Items /\ p.flight \in Flights /\ p.hit \in BOOLEAN
    BY <1>1, <1>2, <1>3, ItemOf, Zenon
  <1>5. stage' = stage /\ broken' = broken /\ built' = built /\ queue' = queue /\ inflight' = inflight /\ ready' = ready
    BY <1>1, Zenon DEF cache, flight
  <1>6. ASSUME NEW a \in Nat \ {0}, NEW s \in BOOLEAN,
               at' = [at EXCEPT ![r] = a], stopped' = [stopped EXCEPT ![r] = s],
               ~s => ~stopped[r],
               \A i \in 1..Len(pending[r]) : i < a /\ ~s => Good(pending[r][i].flight),
               \A f \in Flights : f[1] = r /\ Building(f) => a <= f[2]
        PROVE  IInv'
    <2>1. /\ at' \in [Requests -> Nat \ {0}] /\ at'[r] = a /\ \A q \in Requests : q # r => at'[q] = at[q]
          /\ stopped' \in [Requests -> BOOLEAN] /\ stopped'[r] = s
          /\ \A q \in Requests : q # r => stopped'[q] = stopped[q]
      BY <1>1, <1>6, SetAt, ZenonT(60) DEF TypeOK
    <2>2. TypeOK'
      BY <1>1, <1>5, <2>1, Zenon DEF TypeOK
    <2>3. Quiet(r)
      BY <1>1, <1>5, <2>1, Zenon DEF Quiet, Rests
    <2>4. BegunOK(r)'
      BY <1>1, <1>6, <2>1, Zenon DEF BegunOK, Fresh
    <2>5. HeldOK(r)'
      BY <1>1, <1>5, <1>6, <2>1, ZenonT(60) DEF HeldOK, Good, KeyOf
    <2>6. ASSUME NEW f \in Flights, f[1] = r
          PROVE  OwnerOK(f)'
      <3>1. OwnerOK(f) /\ pc' = pc /\ pending' = pending /\ (Building(f) => a <= f[2])
        BY <1>1, <1>6, <2>6, Zenon DEF IInv
      <3>2. stage[f] # "enqueue" /\ stage[f] # "dropped"
        BY <1>1, <2>6, <3>1, Zenon DEF OwnerOK
      <3> QED
        BY <1>5, <2>1, <2>6, <3>1, <3>2, Zenon DEF OwnerOK, Building, InProcess
    <2>7. \A f \in Flights : f \in built /\ f \in Refers(r)' => InUse(f)
      BY <1>1, Zenon DEF Refers, InUse
    <2> QED
      BY <2>2, <2>3, <2>4, <2>5, <2>6, <2>7, QuietStep, ZenonT(60)
  <1>7. \A f \in Flights : f[1] = r /\ Building(f) =>
            at[r] <= f[2] /\ f[2] \in Nat /\ pending[r][f[2]] = [flight |-> f, hit |-> FALSE]
    BY <1>1, FlightFacts, Zenon DEF IInv, OwnerOK
  <1>8. CASE ~stopped[r] /\ Stops(r) /\ stopped' = [stopped EXCEPT ![r] = TRUE] /\ UNCHANGED at
    <2>1. at' = [at EXCEPT ![r] = at[r]]
      BY <1>1, <1>8 DEF TypeOK
    <2> QED
      BY <1>1, <1>6, <1>7, <1>8, <2>1, ZenonT(60)
  <1>9. CASE /\ Arrived(r, p)
             /\ stopped' = [stopped EXCEPT ![r] = @ \/ Rethrows(p) \/ OverBudget(r)]
             /\ at' = [at EXCEPT ![r] = @ + 1]
    <2>1. PICK s \in BOOLEAN : s = (stopped[r] \/ Rethrows(p) \/ OverBudget(r))
      BY Zenon
    <2>2. ~s => ~stopped[r] /\ ~Rethrows(p)
      BY <2>1, Zenon
    <2>3. ASSUME NEW i \in 1..Len(pending[r]), i < at[r] + 1, ~s
          PROVE  Good(pending[r][i].flight)
      <3>1. i < at[r] \/ i = at[r]
        BY <1>1, <2>3
      <3>2. CASE i < at[r]
        BY <1>1, <2>2, <2>3, <3>2, ZenonT(60) DEF HeldOK
      <3>3. CASE i = at[r]
        <4>1. CASE p.hit
          BY <1>1, <1>2, <3>3, <4>1, ZenonT(60) DEF HeldOK
        <4>2. CASE ~p.hit
          <5>1. done(p.flight) /\ ~broken[p.flight]
            BY <1>9, <2>2, <2>3, <4>2, ZenonT(60) DEF Arrived, Rethrows
          <5>2. BuildOK(p.flight)
            BY <1>4, Zenon DEF IInv
          <5>3. Good(p.flight)
            BY <5>1, <5>2, ZenonT(60) DEF BuildOK, Good, done
          <5> QED
            BY <1>2, <3>3, <5>3, ZenonT(60)
        <4> QED
          BY <4>1, <4>2
      <3> QED
        BY <3>1, <3>2, <3>3, ZenonT(60)
    <2>4. ASSUME NEW f \in Flights, f[1] = r, Building(f)
          PROVE  at[r] + 1 <= f[2]
      <3>1. at[r] # f[2]
        <4> SUFFICES ASSUME at[r] = f[2] PROVE FALSE
          BY Zenon
        <4>1. p = [flight |-> f, hit |-> FALSE]
          BY <1>2, <1>7, <2>4, ZenonT(60)
        <4>2. p.flight = f /\ ~p.hit
          BY <4>1
        <4>3. done(f)
          BY <1>9, <4>2, Zenon DEF Arrived
        <4> QED
          BY <2>4, <4>3, Zenon DEF done, Building
      <3>2. at[r] <= f[2] /\ f[2] \in Nat
        BY <1>7, <2>4, Zenon
      <3> QED
        BY <1>1, <3>1, <3>2
    <2>5. at' = [at EXCEPT ![r] = at[r] + 1] /\ stopped' = [stopped EXCEPT ![r] = s]
      BY <1>9, <2>1, Zenon
    <2> QED
      BY <1>1, <1>6, <2>2, <2>3, <2>4, <2>5, ZenonT(60)
  <1> QED
    BY <1>2, <1>8, <1>9, ZenonT(60) DEF await

-----------------------------------------------------------------------------
(* A request's steps on a flight of its own.                               *)

(* The step is the request's, on its flight for the part it begins.        *)
OwnFlight(r, f, t) ==
    /\ stage' = [stage EXCEPT ![f] = t] /\ built' = built /\ ready' = ready
    /\ UNCHANGED <<cancelled, expired>> /\ \A q \in Requests \ {r} : Rests(q)
    /\ \A g \in Flights : g # f => broken'[g] = broken[g]
    /\ \A k \in Keys : k # KeyOf(f) => inflight'[k] = inflight[k]

(* What such a step must keep.                                             *)
LEMMA OwnFlightStep ==
  ASSUME IInv, NEW r \in Requests, NEW f \in Flights, f[1] = r, NEW t \in Stages, OwnFlight(r, f, t),
         inflight[KeyOf(f)] \in {None, f}, stage[f] \in {"none", "enqueue", "dropped"}, t # "none",
         TypeOK', BegunOK(r)', HeldOK(r)', OwnerOK(f)', BuildOK(f)', QueueOK',
         inflight'[KeyOf(f)] \in {None, f}, inflight'[KeyOf(f)] = f => t \notin {"none", "over"},
         \A g \in Flights : g # f /\ g[1] = r => OwnerOK(g)',
         \A g \in Flights : g \in built /\ g \in Refers(r)' => g = f \/ InUse(g)
  PROVE  IInv'
  <1>1. TypeOK /\ BuildOK(f)
    BY Zenon DEF IInv
  <1>2. stage'[f] = t /\ \A g \in Flights : g # f => stage'[g] = stage[g]
    <2>1. stage \in [Flights -> Stages] /\ stage' = [stage EXCEPT ![f] = t]
      BY <1>1, Zenon DEF TypeOK, OwnFlight
    <2> QED
      BY <2>1, SetAt, Zenon
  <1>3. f \notin built
    BY <1>1, Zenon DEF BuildOK
  <1>4. ASSUME NEW g \in Flights, Good(g)
        PROVE  g # f /\ Good(g)'
    <2>1. g # f
      BY <1>3, <1>4, Zenon DEF Good
    <2>2. stage'[g] = stage[g] /\ broken'[g] = broken[g] /\ built' = built
      BY <1>2, <2>1, ZenonT(60) DEF OwnFlight
    <2> QED
      BY <1>4, <2>1, <2>2, Zenon DEF Good
  <1>5. ASSUME NEW q \in Requests
        PROVE  BegunOK(q)' /\ HeldOK(q)'
    <2>1. CASE q = r
      BY <2>1, Zenon
    <2>2. CASE q # r
      <3>1. Rests(q)
        BY <2>2, Zenon DEF OwnFlight
      <3>2. \A g \in Flights : Advances(g, q)
        BY <1>2, <1>4, <2>2, Zenon DEF Advances
      <3> QED
        BY <3>1, <3>2, RequestKept, Zenon
    <2> QED
      BY <2>1, <2>2
  <1>6. ASSUME NEW g \in Flights, g # f, stage[g] \notin {"none", "over"}
        PROVE  KeyOf(g) # KeyOf(f)
    <2>1. inflight[KeyOf(g)] = g /\ g # None
      BY <1>6, FlightFacts, Zenon DEF IInv, BuildOK
    <2> QED
      BY <1>6, <2>1, Zenon
  <1>7. ASSUME NEW g \in Flights
        PROVE  OwnerOK(g)' /\ BuildOK(g)'
    <2>1. CASE g = f
      BY <2>1, Zenon
    <2>2. CASE g # f
      <3>1. stage'[g] = stage[g] /\ broken'[g] = broken[g] /\ (g \in built' <=> g \in built)
        BY <1>2, <2>2, Zenon DEF OwnFlight
      <3>2. stage[g] \notin {"none", "over"} => inflight'[KeyOf(g)] = inflight[KeyOf(g)]
        BY <1>6, <2>2, FlightFacts, Zenon DEF OwnFlight
      <3>3. BuildOK(g)'
        BY <3>1, <3>2, BuildKept, Zenon
      <3>4. g[1] \in Requests
        BY FlightFacts, Zenon
      <3>5. g[1] # r => Rests(g[1])
        BY <3>4, Zenon DEF OwnFlight
      <3>6. OwnerOK(g)'
        BY <2>2, <3>1, <3>5, OwnerKept, ZenonT(60)
      <3> QED
        BY <3>3, <3>6
    <2> QED
      BY <2>1, <2>2, Zenon
  <1>8. ASSUME NEW k \in Keys
        PROVE  KeyOK(k)'
    <2>1. KeyOK(k)
      BY Zenon DEF IInv
    <2>2. ASSUME NEW g \in Flights, inflight'[k] = g
          PROVE  KeyOf(g) = k /\ stage'[g] \notin {"none", "over"}
      <3>1. g # None
        BY FlightFacts, Zenon
      <3>2. CASE k = KeyOf(f)
        BY <1>2, <2>2, <3>1, <3>2, ZenonT(60)
      <3>3. CASE k # KeyOf(f)
        <4>1. inflight[k] = g
          BY <2>2, <3>3, ZenonT(60) DEF OwnFlight
        <4>2. KeyOf(g) = k /\ stage[g] \notin {"none", "over"}
          BY <2>1, <3>1, <4>1, ZenonT(60) DEF KeyOK
        <4> QED
          BY <1>2, <3>3, <4>2, ZenonT(60)
      <3> QED
        BY <3>2, <3>3
    <2>3. ASSUME NEW g \in Flights, ready'[k] = g
          PROVE  KeyOf(g) = k /\ Good(g)'
      <3>1. g # None /\ ready[k] = g
        BY <2>3, FlightFacts, Zenon DEF OwnFlight
      <3> QED
        BY <1>4, <2>1, <3>1, ZenonT(60) DEF KeyOK
    <2> QED
      BY <2>2, <2>3, KeyFrom, Zenon
  <1>9. ASSUME NEW g \in Flights
        PROVE  InUse(g)' => InUse(g)
    <2>1. g \in built' => g \in built /\ g # f
      BY <1>3, Zenon DEF OwnFlight
    <2>2. g \in built' /\ stage'[g] \in {"built", "stored", "done"} => InUse(g)
      BY <1>2, <2>1, Zenon DEF InUse
    <2>3. g \in built' /\ ready'[KeyOf(g)] = g => InUse(g)
      BY <2>1, Zenon DEF InUse, OwnFlight
    <2>4. ASSUME NEW q \in Requests, g \in built', g \in Refers(q)'
          PROVE  InUse(g)
      <3>1. CASE q = r
        BY <2>1, <2>4, <3>1, ZenonT(60)
      <3>2. CASE q # r
        <4>1. Refers(q)' = Refers(q)
          BY <3>2, RefersKept, Zenon DEF OwnFlight
        <4> QED
          BY <2>1, <2>4, <4>1, Zenon DEF InUse
      <3> QED
        BY <3>1, <3>2
    <2> QED
      BY <2>1, <2>2, <2>3, <2>4, UseKept, ZenonT(60)
  <1>10. (live <= LiveLimit)'
    BY <1>9, LiveKept, Zenon
  <1> QED
    BY <1>5, <1>7, <1>8, <1>10, ZenonT(60) DEF IInv

(* The other flights of a request that is at one of its parts.             *)
LEMMA OthersKept ==
  ASSUME IInv, NEW r \in Requests, pc[r] \in {"begin", "enqueue", "abandon"},
         NEW g \in Flights, g[1] = r, g # <<r, at[r]>>, stage'[g] = stage[g], InProcess(r)',
         \A i \in 1..Len(pending[r]) : i <= Len(pending'[r]) /\ pending'[r][i] = pending[r][i],
         pc'[r] = "await" => at'[r] = 1
  PROVE  OwnerOK(g)'
  <1>1. OwnerOK(g) /\ g = <<r, g[2]>> /\ g[2] \in 1..Len(Parts[r]) /\ g[2] \in Nat
    BY FlightFacts, Zenon DEF IInv
  <1>2. stage[g] # "enqueue" /\ stage[g] # "dropped"
    BY <1>1, Zenon DEF OwnerOK
  <1>3. ASSUME Building(g)
        PROVE  g[2] <= Len(pending'[r]) /\ pending'[r][g[2]] = [flight |-> g, hit |-> FALSE]
    <2>1. g[2] <= Len(pending[r]) /\ pending[r][g[2]] = [flight |-> g, hit |-> FALSE]
      BY <1>1, <1>3, Zenon DEF OwnerOK
    <2>2. pending[r] \in Seq(Items)
      BY Zenon DEF IInv, TypeOK
    <2>3. g[2] \in 1..Len(pending[r])
      BY <1>1, <2>1, <2>2
    <2> QED
      BY <2>1, <2>3, Zenon
  <1>4. 1 <= g[2]
    BY <1>1
  <1> QED
    BY <1>2, <1>3, <1>4, Zenon DEF OwnerOK, Building, InProcess

(* What a request holds while it is at a part of its own.                  *)
LEMMA HeldKept ==
  ASSUME IInv, NEW r \in Requests, pending'[r] = pending[r], pc'[r] \in {"enqueue", "abandon"},
         \A f \in Flights : GetsOn(f)
  PROVE  HeldOK(r)'
  <1>1. HeldOK(r) /\ pending[r] \in Seq(Items)
    BY DEF IInv, TypeOK
  <1>2. ASSUME NEW i \in 1..Len(pending[r]), NEW g \in Flights, g = pending[r][i].flight
        PROVE  /\ i <= Len(Parts[r]) /\ KeyOf(g) = Parts[r][i]
               /\ stage'[g] # "none" /\ (pending[r][i].hit => Good(g)')
    <2>1. i <= Len(Parts[r]) /\ KeyOf(g) = Parts[r][i] /\ stage[g] # "none" /\ (pending[r][i].hit => Good(g))
      BY <1>1, <1>2, Zenon DEF HeldOK
    <2> QED
      BY <2>1, Zenon DEF GetsOn
  <1>3. \A i \in 1..Len(pending[r]) : pending[r][i].flight \in Flights
    BY <1>1, ItemOf, Zenon
  <1>4. pc'[r] # "await" /\ pc'[r] \notin {"tokenize", "prompt"}
    BY Zenon
  <1> QED
    BY <1>2, <1>3, <1>4, ZenonT(60) DEF HeldOK, Good, KeyOf

(* The flight of the part a request is at.                                 *)
LEMMA FlightAt ==
  ASSUME IInv, NEW r \in Requests, pc[r] \in {"begin", "enqueue", "abandon"}, at[r] <= Len(Parts[r])
  PROVE  /\ <<r, at[r]>> \in Flights /\ <<r, at[r]>>[1] = r /\ <<r, at[r]>>[2] = at[r]
         /\ KeyOf(<<r, at[r]>>) = Parts[r][at[r]] /\ Parts[r][at[r]] \in Keys
         /\ (pc[r] = "begin" => stage[<<r, at[r]>>] = "none") /\ (pc[r] = "enqueue" => stage[<<r, at[r]>>] = "enqueue")
         /\ pc[r] = "abandon" => stage[<<r, at[r]>>] = "dropped"
         /\ at[r] \in 1..Len(Parts[r])
         /\ \A i \in 1..Len(Parts[r]) : i > at[r] => <<r, i>> \in Flights /\ <<r, i>> # <<r, at[r]>> /\ stage[<<r, i>>] = "none"
  <1>1. at[r] \in Nat \ {0} /\ Len(Parts[r]) \in Nat /\ BegunOK(r)
    BY PartsLength, Zenon DEF IInv, TypeOK
  <1>2. at[r] \in 1..Len(Parts[r]) /\ at[r] >= at[r]
    BY <1>1
  <1>3. /\ <<r, at[r]>> \in Flights /\ <<r, at[r]>>[1] = r /\ <<r, at[r]>>[2] = at[r]
        /\ KeyOf(<<r, at[r]>>) = Parts[r][at[r]] /\ Parts[r][at[r]] \in Keys
    BY <1>2, FlightOf, Zenon
  <1>4. /\ (pc[r] = "begin" => stage[<<r, at[r]>>] = "none") /\ (pc[r] = "enqueue" => stage[<<r, at[r]>>] = "enqueue")
        /\ pc[r] = "abandon" => stage[<<r, at[r]>>] = "dropped"
    <2>1. CASE pc[r] = "begin"
      BY <1>1, <1>2, <2>1, Zenon DEF BegunOK, Fresh
    <2>2. CASE pc[r] = "enqueue"
      BY <1>1, <2>2, ZenonT(60) DEF BegunOK
    <2>3. CASE pc[r] = "abandon"
      BY <1>1, <2>3 DEF BegunOK
    <2> QED
      BY <2>1, <2>2, <2>3, Zenon
  <1>5. ASSUME NEW i \in 1..Len(Parts[r]), i > at[r]
        PROVE  <<r, i>> \in Flights /\ <<r, i>> # <<r, at[r]>> /\ stage[<<r, i>>] = "none"
    <2>1. i # at[r] /\ i >= at[r]
      BY <1>1, <1>5
    <2>2. Fresh(r, i)
      BY <1>5, <2>1, Zenon DEF Fresh
    <2>3. <<r, i>> # <<r, at[r]>>
      BY <2>1, Zenon
    <2> QED
      BY <1>1, <2>2, <2>3, FlightOf, ZenonT(60) DEF BegunOK
  <1> QED
    BY <1>2, <1>3, <1>4, <1>5, ZenonT(60)

(* A flight that is not built yet changes.                                 *)
LEMMA OwnGetsOn ==
  ASSUME IInv, NEW r \in Requests, NEW f \in Flights, NEW t \in Stages, OwnFlight(r, f, t),
         stage[f] \in {"none", "enqueue", "dropped"}, t # "none"
  PROVE  /\ stage' \in [Flights -> Stages] /\ stage'[f] = t /\ \A g \in Flights : g # f => stage'[g] = stage[g]
         /\ f \notin built /\ \A g \in Flights : GetsOn(g)
  <1>1. BuildOK(f) /\ stage \in [Flights -> Stages] /\ stage' = [stage EXCEPT ![f] = t]
    BY Zenon DEF IInv, TypeOK, OwnFlight
  <1>2. stage' \in [Flights -> Stages] /\ stage'[f] = t /\ \A g \in Flights : g # f => stage'[g] = stage[g]
    BY <1>1, SetAt, Zenon
  <1>3. f \notin built
    BY <1>1, Zenon DEF BuildOK
  <1>4. ASSUME NEW g \in Flights
        PROVE  GetsOn(g)
    <2>1. CASE g = f
      BY <1>2, <1>3, <2>1, ZenonT(60) DEF GetsOn, Good
    <2>2. CASE g # f
      <3>1. stage'[g] = stage[g] /\ broken'[g] = broken[g] /\ built' = built
        BY <1>2, <2>2, Zenon DEF OwnFlight
      <3> QED
        BY <3>1, Zenon DEF GetsOn, Good
    <2> QED
      BY <2>1, <2>2
  <1> QED
    BY <1>2, <1>3, <1>4

(* The queue has none of the flights its requests still have.              *)
LEMMA QueueKept ==
  ASSUME IInv, NEW f \in Flights, stage[f] # "queued", queue' = queue,
         \A g \in Flights : g # f => stage'[g] = stage[g]
  PROVE  QueueOK'
  <1>1. QueueOK /\ \A i \in 1..Len(queue) : queue[i] \in Flights
    BY DEF IInv, TypeOK
  <1> QED
    BY <1>1, ZenonT(60) DEF QueueOK, Once

(* The entries of a key's flight, as its request finds them.               *)
LEMMA InflightOwn ==
  ASSUME IInv, NEW f \in Flights, stage[f] \in {"enqueue", "dropped"}
  PROVE  inflight[KeyOf(f)] = f
  BY Zenon DEF IInv, BuildOK

(* A request starts a flight.                                              *)
LEMMA StartOK ==
  ASSUME IInv, NEW r \in Requests, NEW f, f = <<r, at[r]>>, pc[r] = "begin", at[r] <= Len(Parts[r]),
         inflight[KeyOf(f)] = None, inflight' = [inflight EXCEPT ![KeyOf(f)] = f],
         stage' = [stage EXCEPT ![f] = "enqueue"], pc' = [pc EXCEPT ![r] = "enqueue"],
         UNCHANGED <<at, pending, stopped, cancelled, expired, ready, queue, broken, built>>
  PROVE  IInv'
  <1>1. /\ f \in Flights /\ f[1] = r /\ f[2] = at[r] /\ KeyOf(f) \in Keys /\ stage[f] = "none"
        /\ \A i \in 1..Len(Parts[r]) : i > at[r] => <<r, i>> \in Flights /\ <<r, i>> # f /\ stage[<<r, i>>] = "none"
    BY FlightAt
  <1>2. TypeOK /\ BegunOK(r) /\ BuildOK(f) /\ "enqueue" \in Places /\ "enqueue" \in Stages
    BY <1>1, Zenon DEF IInv, Places, Stages
  <1>3. pc' \in [Requests -> Places] /\ pc'[r] = "enqueue" /\ \A q \in Requests : q # r => pc'[q] = pc[q]
    BY <1>2, SetAt, ZenonT(60) DEF TypeOK
  <1>4. /\ inflight' \in [Keys -> Flights \cup {None}] /\ inflight'[KeyOf(f)] = f
        /\ \A k \in Keys : k # KeyOf(f) => inflight'[k] = inflight[k]
    <2>1. inflight \in [Keys -> Flights \cup {None}] /\ f \in Flights \cup {None}
      BY <1>1, <1>2, ZenonT(60) DEF TypeOK
    <2> QED
      BY <1>1, <2>1, SetAt, ZenonT(60)
  <1>5. OwnFlight(r, f, "enqueue")
    BY <1>3, <1>4, Zenon DEF OwnFlight, Rests
  <1>6. /\ stage' \in [Flights -> Stages] /\ stage'[f] = "enqueue" /\ \A g \in Flights : g # f => stage'[g] = stage[g]
        /\ f \notin built /\ \A g \in Flights : GetsOn(g)
    BY <1>1, <1>2, <1>5, OwnGetsOn, ZenonT(60)
  <1>7. TypeOK'
    BY <1>2, <1>3, <1>4, <1>6, ZenonT(60) DEF TypeOK
  <1>8. BegunOK(r)'
    <2>1. \A i \in 1..Len(Parts[r]) : i > at[r] => stage'[<<r, i>>] = "none"
      BY <1>1, <1>6, Zenon
    <2>2. Len(pending[r]) = at[r] - 1 /\ at[r] <= Len(Parts[r]) + 1
      BY <1>2, Zenon DEF BegunOK
    <2> QED
      BY <1>3, <1>6, <2>1, <2>2, ZenonT(60) DEF BegunOK, Fresh
  <1>9. HeldOK(r)'
    BY <1>3, <1>6, HeldKept, Zenon
  <1>10. OwnerOK(f)'
    BY <1>1, <1>3, <1>6, ZenonT(60) DEF OwnerOK, Building
  <1>11. BuildOK(f)'
    BY <1>1, <1>2, <1>4, <1>6, ZenonT(60) DEF BuildOK, KeyOf
  <1>12. QueueOK'
    BY <1>1, <1>6, QueueKept, ZenonT(60)
  <1>13. ASSUME NEW g \in Flights, g # f, g[1] = r
         PROVE  OwnerOK(g)'
    <2>1. InProcess(r)'
      BY <1>3, Zenon DEF InProcess
    <2>2. pending[r] \in Seq(Items)
      BY <1>2, ZenonT(60) DEF TypeOK
    <2>3. \A i \in 1..Len(pending[r]) : i <= Len(pending[r])
      BY <2>2
    <2> QED
      BY <1>3, <1>6, <1>13, <2>1, <2>3, OthersKept, ZenonT(60)
  <1>14. \A g \in Flights : g \in built /\ g \in Refers(r)' => g = f \/ InUse(g)
    BY Zenon DEF Refers, InUse
  <1> QED
    BY <1>1, <1>2, <1>4, <1>5, <1>7, <1>8, <1>9, <1>10, <1>11, <1>12, <1>13, <1>14, OwnFlightStep, ZenonT(60)

(* A request begins a part: it stops, finds a payload, joins a flight or   *)
(* starts one.                                                             *)
LEMMA BeginOK ==
  ASSUME IInv, NEW r \in Requests, begin_prepare(r)
  PROVE  IInv'
  <1>1. pc[r] = "begin" /\ at[r] <= Len(Parts[r]) /\ UNCHANGED <<cancelled, expired, queue, broken, built>>
    BY Zenon DEF begin_prepare
  <1>2. PICK k \in Keys : k = Parts[r][at[r]]
    BY <1>1, FlightAt, ZenonT(60)
  <1>3. PICK f : f = <<r, at[r]>>
    BY Zenon
  <1>4. f \in Flights /\ KeyOf(f) = k
    BY <1>1, <1>2, <1>3, FlightAt, ZenonT(60)
  <1>5. TypeOK /\ KeyOK(k)
    BY Zenon DEF IInv
  <1>6. CASE Await(r, TRUE) /\ UNCHANGED <<cache, stage>>
    <2>1. UNCHANGED <<cancelled, expired, cache, flight>>
      BY <1>1, <1>6, ZenonT(60) DEF flight
    <2> QED
      BY <1>1, <1>6, <2>1, AwaitQuiet, ZenonT(60)
  <1>7. CASE ready[k] # None /\ Begun(r, ready[k], TRUE) /\ UNCHANGED <<ready, inflight, stage>>
    <2>1. PICK g \in Flights : g = ready[k]
      BY <1>5, <1>7, ZenonT(60) DEF TypeOK
    <2>2. KeyOf(g) = k /\ Good(g)
      BY <1>5, <1>7, <2>1, ZenonT(60) DEF KeyOK
    <2>3. stage[g] # "none" /\ InUse(g)
      BY <2>1, <2>2, ZenonT(60) DEF Good, InUse
    <2>4. UNCHANGED <<cancelled, expired, ready, inflight, flight>>
      BY <1>1, <1>7, ZenonT(60) DEF flight
    <2> QED
      BY <1>1, <1>2, <1>7, <2>1, <2>2, <2>3, <2>4, BegunQuiet, ZenonT(60)
  <1>8. CASE Joins(k) /\ Begun(r, inflight[k], FALSE) /\ UNCHANGED <<cache, stage>>
    <2>1. PICK g \in Flights : g = inflight[k]
      BY <1>5, <1>8, ZenonT(60) DEF TypeOK, Joins
    <2>2. KeyOf(g) = k /\ stage[g] \notin {"none", "over"}
      BY <1>5, <1>8, <2>1, ZenonT(60) DEF KeyOK, Joins
    <2>3. BuildOK(g) /\ stage[g] # "none"
      BY <2>2, Zenon DEF IInv
    <2>4. g \in built => InUse(g)
      BY <2>2, <2>3, ZenonT(60) DEF BuildOK, InUse
    <2>5. UNCHANGED <<cancelled, expired, ready, inflight, flight>>
      BY <1>1, <1>8, ZenonT(60) DEF flight, cache
    <2> QED
      BY <1>1, <1>2, <1>8, <2>1, <2>2, <2>3, <2>4, <2>5, BegunQuiet, ZenonT(60)
  <1>9. CASE /\ ~Joins(k) /\ inflight' = [inflight EXCEPT ![k] = f]
             /\ stage' = [stage EXCEPT ![f] = "enqueue"] /\ pc' = [pc EXCEPT ![r] = "enqueue"]
             /\ UNCHANGED <<lru, ready, at, pending, stopped>>
    <2>1. inflight[KeyOf(f)] = None /\ inflight' = [inflight EXCEPT ![KeyOf(f)] = f]
      BY <1>4, <1>9, ZenonT(60) DEF Joins
    <2>2. UNCHANGED <<at, pending, stopped, cancelled, expired, ready, queue, broken, built>>
      BY <1>1, <1>9, ZenonT(60)
    <2> QED
      BY <1>1, <1>3, <1>9, <2>1, <2>2, StartOK, ZenonT(60)
  <1> QED
    BY <1>2, <1>3, <1>6, <1>7, <1>8, <1>9, ZenonT(60) DEF begin_prepare

(* The deadline passes before there is room for the task.                  *)
LEMMA DropOK ==
  ASSUME IInv, NEW r \in Requests, NEW f, f = <<r, at[r]>>, pc[r] = "enqueue",
         stage' = [stage EXCEPT ![f] = "dropped"], broken' = [broken EXCEPT ![f] = TRUE],
         pc' = [pc EXCEPT ![r] = "abandon"],
         UNCHANGED <<at, pending, stopped, queue, cancelled, expired, ready, inflight, built>>
  PROVE  IInv'
  <1>1. BegunOK(r) /\ at[r] <= Len(Parts[r])
    BY ZenonT(60) DEF IInv, BegunOK
  <1>2. /\ f \in Flights /\ f[1] = r /\ f[2] = at[r] /\ KeyOf(f) \in Keys /\ stage[f] = "enqueue"
        /\ \A i \in 1..Len(Parts[r]) : i > at[r] => <<r, i>> \in Flights /\ <<r, i>> # f /\ stage[<<r, i>>] = "none"
    BY <1>1, FlightAt
  <1>3. TypeOK /\ BuildOK(f) /\ "abandon" \in Places /\ "dropped" \in Stages /\ TRUE \in BOOLEAN
    BY <1>2, Zenon DEF IInv, Places, Stages
  <1>4. pc' \in [Requests -> Places] /\ pc'[r] = "abandon" /\ \A q \in Requests : q # r => pc'[q] = pc[q]
    BY <1>3, SetAt, Zenon DEF TypeOK
  <1>5. /\ broken' \in [Flights -> BOOLEAN] /\ broken'[f]
        /\ \A g \in Flights : g # f => broken'[g] = broken[g]
    <2>1. broken \in [Flights -> BOOLEAN]
      BY <1>3, Zenon DEF TypeOK
    <2> QED
      BY <1>2, <2>1, SetTrue, ZenonT(60)
  <1>6. OwnFlight(r, f, "dropped")
    BY <1>4, <1>5, Zenon DEF OwnFlight, Rests
  <1>7. /\ stage' \in [Flights -> Stages] /\ stage'[f] = "dropped" /\ \A g \in Flights : g # f => stage'[g] = stage[g]
        /\ f \notin built /\ \A g \in Flights : GetsOn(g)
    BY <1>2, <1>3, <1>6, OwnGetsOn, ZenonT(60)
  <1>8. TypeOK'
    BY <1>3, <1>4, <1>5, <1>7, ZenonT(60) DEF TypeOK
  <1>9. BegunOK(r)'
    <2>1. \A i \in 1..Len(Parts[r]) : i > at[r] => stage'[<<r, i>>] = "none"
      BY <1>2, <1>7, ZenonT(60)
    <2>2. Len(pending[r]) = at[r] - 1 /\ at[r] <= Len(Parts[r]) + 1
      BY <1>1, ZenonT(60) DEF BegunOK
    <2> QED
      BY <1>1, <1>4, <1>7, <2>1, <2>2, ZenonT(60) DEF BegunOK, Fresh
  <1>10. HeldOK(r)'
    BY <1>4, <1>7, HeldKept, ZenonT(60)
  <1>11. OwnerOK(f)'
    BY <1>2, <1>4, <1>7, ZenonT(60) DEF OwnerOK, Building
  <1>12. BuildOK(f)' /\ inflight[KeyOf(f)] = f
    <2>1. inflight[KeyOf(f)] = f
      BY <1>2, InflightOwn, Zenon
    <2> QED
      BY <1>5, <1>7, <2>1, ZenonT(60) DEF BuildOK, KeyOf
  <1>13. QueueOK'
    BY <1>2, <1>7, QueueKept, ZenonT(60)
  <1>14. ASSUME NEW g \in Flights, g # f, g[1] = r
         PROVE  OwnerOK(g)'
    <2>1. InProcess(r)'
      BY <1>4, Zenon DEF InProcess
    <2>2. pending[r] \in Seq(Items)
      BY <1>3, ZenonT(60) DEF TypeOK
    <2>3. \A i \in 1..Len(pending[r]) : i <= Len(pending[r])
      BY <2>2
    <2> QED
      BY <1>4, <1>7, <1>14, <2>1, <2>3, OthersKept, ZenonT(60)
  <1>15. \A g \in Flights : g \in built /\ g \in Refers(r)' => g = f \/ InUse(g)
    BY Zenon DEF Refers, InUse
  <1> QED
    BY <1>2, <1>3, <1>6, <1>8, <1>9, <1>10, <1>11, <1>12, <1>13, <1>14, <1>15, OwnFlightStep, ZenonT(60)

(* A queue without repetitions gets a new task.                            *)
LEMMA AppendNew ==
  ASSUME NEW s \in Seq(Flights), NEW x \in Flights, \A i \in 1..Len(s) : s[i] # x, Once(s)
  PROVE  /\ Once(Append(s, x)) /\ Append(s, x) \in Seq(Flights)
         /\ \A i \in 1..Len(Append(s, x)) :
                Append(s, x)[i] = x \/ (i \in 1..Len(s) /\ Append(s, x)[i] = s[i])
  BY DEF Once

(* The task is queued, and the request goes on to the next part.           *)
LEMMA QueuedOK ==
  ASSUME IInv, NEW r \in Requests, NEW f, f = <<r, at[r]>>, pc[r] = "enqueue",
         queue' = Append(queue, f), stage' = [stage EXCEPT ![f] = "queued"], Begun(r, f, FALSE),
         UNCHANGED <<cancelled, expired, ready, inflight, broken, built>>
  PROVE  IInv'
  <1>1. BegunOK(r) /\ at[r] <= Len(Parts[r])
    BY ZenonT(60) DEF IInv, BegunOK
  <1>2. /\ f \in Flights /\ f[1] = r /\ f[2] = at[r] /\ KeyOf(f) = Parts[r][at[r]] /\ stage[f] = "enqueue"
        /\ \A i \in 1..Len(Parts[r]) : i > at[r] => <<r, i>> \in Flights /\ <<r, i>> # f /\ stage[<<r, i>>] = "none"
    BY <1>1, FlightAt
  <1>3. /\ TypeOK /\ BuildOK(f) /\ "queued" \in Stages /\ FALSE \in BOOLEAN /\ QueueOK
        /\ queue \in Seq(Flights) /\ pending[r] \in Seq(Items) /\ at[r] \in Nat
    BY <1>2, Zenon DEF IInv, TypeOK, Stages
  <1>4. stage' \in [Flights -> Stages] /\ stage'[f] = "queued" /\ \A g \in Flights : g # f => stage'[g] = stage[g]
    <2>1. stage \in [Flights -> Stages]
      BY <1>3, Zenon DEF TypeOK
    <2> QED
      BY <1>2, <1>3, <2>1, SetAt, ZenonT(60)
  <1>5. f \notin built
    BY <1>2, <1>3, ZenonT(60) DEF BuildOK
  <1>6. ASSUME NEW g \in Flights
        PROVE  GetsOn(g)
    <2>1. CASE g = f
      BY <1>4, <1>5, <2>1, ZenonT(60) DEF GetsOn, Good
    <2>2. CASE g # f
      BY <1>4, <2>2, Zenon DEF GetsOn, Good
    <2> QED
      BY <2>1, <2>2
  <1>7. stage'[f] # "none" /\ \A i \in 1..Len(Parts[r]) : i > at[r] => stage'[<<r, i>>] = stage[<<r, i>>]
    BY <1>2, <1>4, Zenon
  <1>8. /\ pc' \in [Requests -> Places] /\ at' \in [Requests -> Nat \ {0}]
        /\ pending' \in [Requests -> Seq(Items)] /\ stopped' = stopped
        /\ \A q \in Requests \ {r} : Rests(q)
        /\ pc'[r] = "begin" /\ BegunOK(r)' /\ HeldOK(r)'
        /\ at[r] = Len(pending[r]) + 1 /\ Len(pending'[r]) = at[r]
        /\ \A i \in 1..Len(pending[r]) : pending'[r][i] = pending[r][i]
        /\ pending'[r][at[r]] = [flight |-> f, hit |-> FALSE]
    BY <1>1, <1>2, <1>3, <1>6, <1>7, BegunRequest, ZenonT(60)
  <1>9. OwnFlight(r, f, "queued")
    BY <1>8, Zenon DEF OwnFlight
  <1>10. /\ Once(queue') /\ queue' \in Seq(Flights)
         /\ \A i \in 1..Len(queue') : queue'[i] = f \/ (i \in 1..Len(queue) /\ queue'[i] = queue[i])
    <2>1. Once(queue) /\ \A i \in 1..Len(queue) : queue[i] # f
      BY <1>2, <1>3, Zenon DEF QueueOK
    <2> QED
      BY <1>2, <1>3, <2>1, AppendNew, ZenonT(60)
  <1>11. QueueOK'
    <2>1. ASSUME NEW i \in 1..Len(queue')
          PROVE  stage'[queue'[i]] = "queued"
      <3>1. CASE queue'[i] = f
        BY <1>4, <3>1, Zenon
      <3>2. CASE queue'[i] # f
        <4>1. i \in 1..Len(queue) /\ queue'[i] = queue[i]
          BY <1>10, <3>2, ZenonT(60)
        <4>2. queue[i] \in Flights
          BY <1>3, <4>1
        <4> QED
          BY <1>3, <1>4, <3>2, <4>1, <4>2, ZenonT(60) DEF QueueOK
      <3> QED
        BY <3>1, <3>2
    <2> QED
      BY <1>10, <2>1, ZenonT(60) DEF QueueOK, Once
  <1>12. TypeOK'
    BY <1>3, <1>4, <1>8, <1>10, ZenonT(60) DEF TypeOK
  <1>13. OwnerOK(f)'
    <2>1. at[r] <= at[r]
      BY <1>3
    <2> QED
      BY <1>2, <1>4, <1>8, <2>1, ZenonT(60) DEF OwnerOK, Building, InProcess
  <1>14. inflight[KeyOf(f)] = f
    BY <1>2, InflightOwn, ZenonT(60)
  <1>15. BuildOK(f)'
    BY <1>2, <1>3, <1>4, <1>5, <1>14, ZenonT(60) DEF BuildOK, KeyOf
  <1>16. Len(pending[r]) \in Nat /\ \A i \in 1..Len(pending[r]) : i <= at[r]
    BY <1>3, <1>8
  <1>17. ASSUME NEW g \in Flights, g # f, g[1] = r
         PROVE  OwnerOK(g)'
    <2>1. InProcess(r)' /\ pc'[r] # "await"
      BY <1>8, Zenon DEF InProcess
    <2>2. \A i \in 1..Len(pending[r]) : i <= Len(pending'[r]) /\ pending'[r][i] = pending[r][i]
      BY <1>8, <1>16, Zenon
    <2>3. g # <<r, at[r]>> /\ stage'[g] = stage[g]
      BY <1>4, <1>17, ZenonT(60)
    <2> QED
      BY <1>17, <2>1, <2>2, <2>3, OthersKept, ZenonT(60)
  <1>18. ASSUME NEW g \in Flights, g \in built, g \in Refers(r)'
         PROVE  g = f \/ InUse(g)
    <2>1. PICK i \in 1..Len(pending'[r]) : g = pending'[r][i].flight
      BY <1>18, ZenonT(60) DEF Refers
    <2>2. i \in 1..Len(pending[r]) \/ i = at[r]
      BY <1>8, <1>16
    <2>3. CASE i \in 1..Len(pending[r])
      BY <1>8, <1>18, <2>1, <2>3, ZenonT(60) DEF Refers, InUse
    <2>4. CASE i = at[r]
      <3>1. pending'[r][at[r]] = [flight |-> f, hit |-> FALSE]
        BY <1>8, ZenonT(60)
      <3>2. pending'[r][i].flight = f
        BY <3>1, <2>4
      <3> QED
        BY <2>1, <3>2, Zenon
    <2> QED
      BY <2>2, <2>3, <2>4, ZenonT(60)
  <1> QED
    BY <1>2, <1>3, <1>8, <1>9, <1>11, <1>12, <1>13, <1>14, <1>15, <1>17, <1>18, OwnFlightStep, ZenonT(60)

(* HostWorkerPool::enqueue.                                                *)
LEMMA EnqueueOK ==
  ASSUME IInv, NEW r \in Requests, enqueue(r)
  PROVE  IInv'
  <1>1. PICK f : f = <<r, at[r]>>
    BY Zenon
  <1>2. pc[r] = "enqueue" /\ UNCHANGED <<cancelled, expired, ready, inflight, built>>
    BY Zenon DEF enqueue, cache
  <1>3. CASE /\ stage' = [stage EXCEPT ![f] = "dropped"] /\ broken' = [broken EXCEPT ![f] = TRUE]
             /\ pc' = [pc EXCEPT ![r] = "abandon"] /\ UNCHANGED <<at, pending, stopped, queue>>
    BY <1>1, <1>2, <1>3, DropOK, ZenonT(60)
  <1>4. CASE /\ queue' = Append(queue, f) /\ stage' = [stage EXCEPT ![f] = "queued"]
             /\ Begun(r, f, FALSE) /\ UNCHANGED broken
    BY <1>1, <1>2, <1>4, QueuedOK, ZenonT(60)
  <1> QED
    BY <1>1, <1>3, <1>4, ZenonT(60) DEF enqueue

(* The flight that was not queued is taken off inflight.                   *)
LEMMA AbandonOK ==
  ASSUME IInv, NEW r \in Requests, abandon(r)
  PROVE  IInv'
  <1>1. PICK f : f = <<r, at[r]>>
    BY Zenon
  <1>2. /\ pc[r] = "abandon" /\ inflight' = [inflight EXCEPT ![KeyOf(f)] = None]
        /\ stage' = [stage EXCEPT ![f] = "over"] /\ Await(r, TRUE)
        /\ UNCHANGED <<cancelled, expired, ready, queue, broken, built>>
    BY <1>1, Zenon DEF abandon
  <1>3. BegunOK(r) /\ at[r] <= Len(Parts[r])
    BY <1>2, ZenonT(60) DEF IInv, BegunOK
  <1>4. f \in Flights /\ f[1] = r /\ f[2] = at[r] /\ KeyOf(f) \in Keys /\ stage[f] = "dropped"
    BY <1>1, <1>2, <1>3, FlightAt
  <1>5. TypeOK /\ BuildOK(f) /\ "over" \in Stages /\ TRUE \in BOOLEAN /\ pending[r] \in Seq(Items)
    BY <1>4, Zenon DEF IInv, TypeOK, Stages
  <1>6. stage' \in [Flights -> Stages] /\ stage'[f] = "over" /\ \A g \in Flights : g # f => stage'[g] = stage[g]
    <2>1. stage \in [Flights -> Stages]
      BY <1>5, Zenon DEF TypeOK
    <2> QED
      BY <1>2, <1>4, <1>5, <2>1, SetAt, ZenonT(60)
  <1>7. f \notin built /\ broken[f]
    BY <1>4, <1>5, Zenon DEF BuildOK
  <1>8. ASSUME NEW g \in Flights
        PROVE  GetsOn(g)
    <2>1. CASE g = f
      BY <1>6, <1>7, <2>1, ZenonT(60) DEF GetsOn, Good
    <2>2. CASE g # f
      BY <1>2, <1>6, <2>2, ZenonT(60) DEF GetsOn, Good
    <2> QED
      BY <2>1, <2>2, Zenon
  <1>9. /\ inflight' \in [Keys -> Flights \cup {None}] /\ inflight'[KeyOf(f)] = None
        /\ \A k \in Keys : k # KeyOf(f) => inflight'[k] = inflight[k]
    <2>1. inflight \in [Keys -> Flights \cup {None}] /\ None \in Flights \cup {None}
      BY <1>5, Zenon DEF TypeOK
    <2> QED
      BY <1>2, <1>4, <2>1, SetAt, ZenonT(60)
  <1>10. /\ pc' \in [Requests -> Places] /\ at' \in [Requests -> Nat \ {0}]
         /\ pending' = pending /\ stopped' \in [Requests -> BOOLEAN]
         /\ \A q \in Requests \ {r} : Rests(q)
         /\ pc'[r] = "await" /\ at'[r] = 1 /\ BegunOK(r)' /\ HeldOK(r)'
    BY <1>2, <1>5, <1>8, AwaitRequest, ZenonT(60)
  <1>11. OwnFlight(r, f, "over")
    BY <1>2, <1>9, <1>10, ZenonT(60) DEF OwnFlight
  <1>12. TypeOK'
    BY <1>2, <1>5, <1>6, <1>9, <1>10, ZenonT(60) DEF TypeOK
  <1>13. OwnerOK(f)'
    BY <1>6, Zenon DEF OwnerOK, Building
  <1>14. BuildOK(f)'
    BY <1>2, <1>6, <1>7, ZenonT(60) DEF BuildOK
  <1>15. QueueOK'
    BY <1>2, <1>4, <1>6, QueueKept, ZenonT(60)
  <1>16. ASSUME NEW g \in Flights, g # f, g[1] = r
         PROVE  OwnerOK(g)'
    <2>1. InProcess(r)'
      BY <1>10, ZenonT(60) DEF InProcess
    <2>2. \A i \in 1..Len(pending[r]) : i <= Len(pending[r])
      BY <1>5
    <2>3. g # <<r, at[r]>> /\ stage'[g] = stage[g]
      BY <1>1, <1>6, <1>16, ZenonT(60)
    <2> QED
      BY <1>2, <1>10, <1>16, <2>1, <2>2, <2>3, OthersKept, ZenonT(60)
  <1>17. \A g \in Flights : g \in built /\ g \in Refers(r)' => g = f \/ InUse(g)
    BY <1>10, Zenon DEF Refers, InUse
  <1>18. inflight[KeyOf(f)] = f
    BY <1>4, InflightOwn, ZenonT(60)
  <1>19. inflight'[KeyOf(f)] # f
    BY <1>4, <1>9, FlightFacts, ZenonT(60)
  <1> QED
    BY <1>4, <1>5, <1>9, <1>10, <1>11, <1>12, <1>13, <1>14, <1>15, <1>16, <1>17, <1>18, <1>19, OwnFlightStep, ZenonT(60)

-----------------------------------------------------------------------------
(* The workers' steps.                                                     *)

(* A worker's step on the flight, which gets to stage t.                   *)
Works(f, t) ==
    /\ stage' = [stage EXCEPT ![f] = t] /\ UNCHANGED <<request, cancelled, expired>>
    /\ \A g \in Flights : g # f => broken'[g] = broken[g] /\ (g \in built' <=> g \in built)
    /\ \A k \in Keys : k # KeyOf(f) => inflight'[k] = inflight[k]
    /\ \A k \in Keys : \/ ready'[k] \in {ready[k], None}
                       \/ ready'[k] = f /\ KeyOf(f) = k /\ Good(f)'

(* A payload of the flight is in use from its allocation on.               *)
LEMMA WorksInUse ==
  ASSUME IInv, NEW f \in Flights, stage[f] # "over", f \in built
  PROVE  InUse(f)
  BY ZenonT(60) DEF IInv, BuildOK, InUse

(* A worker brings no other payload into use.                              *)
LEMMA WorksUse ==
  ASSUME IInv, NEW f \in Flights, NEW t \in Stages, Works(f, t), stage[f] # "over",
         NEW g \in Flights, InUse(g)'
  PROVE  InUse(g) \/ (g = f /\ f \notin built)
  <1>1. stage \in [Flights -> Stages] /\ stage' = [stage EXCEPT ![f] = t] /\ UNCHANGED request
    BY Zenon DEF IInv, TypeOK, Works
  <1>2. CASE g = f
    BY <1>2, WorksInUse, ZenonT(60)
  <1>3. CASE g # f
    <2>1. stage'[g] = stage[g]
      BY <1>1, <1>3, SetAt, ZenonT(60)
    <2>2. g \in built' <=> g \in built
      BY <1>3, Zenon DEF Works
    <2>3. g # None /\ KeyOf(g) \in Keys
      BY FlightFacts, Zenon
    <2>4. ready'[KeyOf(g)] = g => ready[KeyOf(g)] = g
      BY <1>3, <2>3, ZenonT(60) DEF Works
    <2>5. \A r \in Requests : Refers(r)' = Refers(r)
      BY <1>1, Zenon DEF Refers, request
    <2>6. g \in built' /\ stage'[g] \in {"built", "stored", "done"} => InUse(g)
      BY <2>1, <2>2, ZenonT(60) DEF InUse
    <2>7. g \in built' /\ ready'[KeyOf(g)] = g => InUse(g)
      BY <2>2, <2>4, ZenonT(60) DEF InUse
    <2>8. \A r \in Requests : g \in built' /\ g \in Refers(r)' => InUse(g)
      BY <2>2, <2>5, ZenonT(60) DEF InUse
    <2> QED
      BY <2>2, <2>6, <2>7, <2>8, UseKept, ZenonT(60)
  <1> QED
    BY <1>2, <1>3

(* Bytes are reserved while there is room for them: what is live stays     *)
(* within the limit, whoever else took references.                         *)
LEMMA WorksLive ==
  ASSUME IInv, NEW f \in Flights, NEW t \in Stages, Works(f, t), stage[f] # "over",
         f \in built' => f \in built \/ Reservable(f)
  PROVE  (live <= LiveLimit)'
  <1>1. CASE f \in built' => f \in built
    <2>1. ASSUME NEW g \in Flights, InUse(g)'
          PROVE  InUse(g)
      <3>1. g \in built'
        BY <2>1, Zenon DEF InUse
      <3> QED
        BY <1>1, <2>1, <3>1, WorksUse, ZenonT(60)
    <2> QED
      BY <2>1, LiveKept, Zenon
  <1>2. CASE Reservable(f)
    <2>1. PICK U : U = {g \in Flights : InUse(g)}
      BY Zenon
    <2>2. PICK V : V = {g \in Flights : InUse(g)'}
      BY Zenon
    <2>3. live = BytesOf(U)
      BY <2>1, Zenon DEF live
    <2>4. live' = BytesOf(V)
      BY <2>2, Zenon DEF live, BytesOf, KeyOf
    <2>5. U \in SUBSET Flights /\ U \cup {f} \in SUBSET Flights
      BY <2>1, Zenon
    <2>6. V \in SUBSET (U \cup {f}) /\ V \in SUBSET Flights
      BY <2>1, <2>2, WorksUse, ZenonT(60)
    <2>7. /\ BytesOf(V) <= BytesOf(U \cup {f}) /\ BytesOf(V) \in Nat
          /\ BytesOf(U) \in Nat /\ BytesOf(U \cup {f}) \in Nat
      BY <2>5, <2>6, FewerBytes, PoolFinite, ZenonT(60)
    <2>8. BytesOf(U \cup {f}) <= BytesOf(U) + Bytes[KeyOf(f)] /\ Bytes[KeyOf(f)] \in Nat
      BY <2>5, OneMorePayload, OneFlightsBytes, ZenonT(60)
    <2>9. BytesOf(U) + Bytes[KeyOf(f)] <= LiveLimit /\ LiveLimit \in Nat
      BY <1>2, <2>3, ConfigAssumption, ZenonT(60) DEF Reservable
    <2>10. BytesOf(V) <= LiveLimit
      BY <2>7, <2>8, <2>9
    <2> QED
      BY <2>4, <2>10, Zenon
  <1> QED
    BY <1>1, <1>2

(* What a worker's step must keep.                                         *)
LEMMA WorkStep ==
  ASSUME IInv, NEW f \in Flights, NEW t \in Stages, Works(f, t),
         stage[f] = "queued" \/ Working(f), t \notin {"none", "enqueue", "dropped"},
         stage[f] = "done" => t = "over", t # "queued",
         Good(f) => Good(f)', TypeOK', BuildOK(f)', QueueOK',
         inflight'[KeyOf(f)] = IF t = "over" THEN None ELSE inflight[KeyOf(f)],
         f \in built' => f \in built \/ Reservable(f)
  PROVE  IInv'
  <1>1. /\ stage \in [Flights -> Stages] /\ stage' = [stage EXCEPT ![f] = t] /\ UNCHANGED request
        /\ OwnerOK(f) /\ BuildOK(f) /\ stage[f] \notin {"none", "over", "enqueue", "dropped"}
    BY Zenon DEF IInv, TypeOK, Works, Working
  <1>2. stage'[f] = t /\ \A g \in Flights : g # f => stage'[g] = stage[g]
    BY <1>1, SetAt, ZenonT(60)
  <1>3. \A r \in Requests : Rests(r)
    BY <1>1, Zenon DEF Rests, request
  <1>4. inflight[KeyOf(f)] = f
    BY <1>1, ZenonT(60) DEF BuildOK
  <1>5. ASSUME NEW g \in Flights
        PROVE  /\ Good(g) => Good(g)'
               /\ \A r \in Requests : Advances(g, r)
    <2>1. CASE g = f
      BY <1>1, <1>2, <2>1, ZenonT(60) DEF Advances
    <2>2. CASE g # f
      <3>1. stage'[g] = stage[g] /\ broken'[g] = broken[g] /\ (g \in built' <=> g \in built)
        BY <1>2, <2>2, Zenon DEF Works
      <3> QED
        BY <3>1, Zenon DEF Advances, Good
    <2> QED
      BY <2>1, <2>2
  <1>6. \A r \in Requests : BegunOK(r)' /\ HeldOK(r)'
    BY <1>3, <1>5, RequestKept, ZenonT(60)
  <1>7. ASSUME NEW g \in Flights
        PROVE  OwnerOK(g)' /\ BuildOK(g)'
    <2>0. g[1] \in Requests /\ KeyOf(g) \in Keys /\ g # None
      BY FlightFacts, Zenon
    <2>1. CASE g = f
      <3>1. Building(f)' => Building(f)
        BY <1>1, <1>2, Zenon DEF Building, Working
      <3>2. UNCHANGED <<pc, at, pending>>
        BY <1>1, Zenon DEF request
      <3>3. OwnerOK(f)'
        BY <1>1, <1>2, <3>1, <3>2, ZenonT(60) DEF OwnerOK, InProcess
      <3> QED
        BY <2>1, <3>3, ZenonT(60)
    <2>2. CASE g # f
      <3>1. stage'[g] = stage[g] /\ broken'[g] = broken[g] /\ (g \in built' <=> g \in built)
        BY <1>2, <2>2, Zenon DEF Works
      <3>2. ASSUME stage[g] \notin {"none", "over"}
            PROVE  inflight'[KeyOf(g)] = inflight[KeyOf(g)]
        <4>1. inflight[KeyOf(g)] = g
          BY <3>2, Zenon DEF IInv, BuildOK
        <4>2. KeyOf(g) # KeyOf(f)
          BY <1>4, <2>2, <4>1, ZenonT(60)
        <4> QED
          BY <2>0, <4>2, ZenonT(60) DEF Works
      <3> QED
        BY <1>3, <2>0, <3>1, <3>2, OwnerKept, BuildKept, ZenonT(60)
    <2> QED
      BY <2>1, <2>2
  <1>8. ASSUME NEW k \in Keys
        PROVE  KeyOK(k)'
    <2>1. KeyOK(k)
      BY ZenonT(60) DEF IInv
    <2>2. ASSUME NEW g \in Flights, inflight'[k] = g
          PROVE  KeyOf(g) = k /\ stage'[g] \notin {"none", "over"}
      <3>1. g # None
        BY FlightFacts, Zenon
      <3>2. CASE k = KeyOf(f)
        <4>1. t # "over" /\ g = f
          BY <1>4, <2>2, <3>1, <3>2, ZenonT(60)
        <4> QED
          BY <1>2, <3>2, <4>1, ZenonT(60)
      <3>3. CASE k # KeyOf(f)
        <4>1. inflight[k] = g
          BY <2>2, <3>3, ZenonT(60) DEF Works
        <4>2. KeyOf(g) = k /\ stage[g] \notin {"none", "over"}
          BY <2>1, <3>1, <4>1, ZenonT(60) DEF KeyOK
        <4> QED
          BY <1>2, <3>3, <4>2, ZenonT(60)
      <3> QED
        BY <3>2, <3>3
    <2>3. ASSUME NEW g \in Flights, ready'[k] = g
          PROVE  KeyOf(g) = k /\ Good(g)'
      <3>1. g # None
        BY FlightFacts, Zenon
      <3>2. CASE ready[k] = g
        BY <1>5, <2>1, <3>1, <3>2, ZenonT(60) DEF KeyOK
      <3>3. CASE ready[k] # g
        <4>1. ready'[k] = f /\ KeyOf(f) = k /\ Good(f)'
          BY <2>3, <3>1, <3>3, ZenonT(60) DEF Works
        <4> QED
          BY <2>3, <4>1, ZenonT(60)
      <3> QED
        BY <3>2, <3>3
    <2> QED
      BY <2>2, <2>3, KeyFrom, ZenonT(60)
  <1>9. (live <= LiveLimit)'
    BY <1>1, WorksLive, ZenonT(60)
  <1> QED
    BY <1>6, <1>7, <1>8, <1>9, ZenonT(60) DEF IInv

(* The values a worker sets.                                               *)
LEMMA StageSet ==
  ASSUME IInv, NEW f \in Flights, NEW t \in Stages, stage' = [stage EXCEPT ![f] = t]
  PROVE  stage' \in [Flights -> Stages] /\ stage'[f] = t /\ \A g \in Flights : g # f => stage'[g] = stage[g]
  <1>1. stage \in [Flights -> Stages]
    BY Zenon DEF IInv, TypeOK
  <1> QED
    BY <1>1, SetAt, ZenonT(60)

(* flight->error is set.                                                   *)
LEMMA BrokenSet ==
  ASSUME IInv, NEW f \in Flights, Break(f)
  PROVE  /\ broken' \in [Flights -> BOOLEAN] /\ broken'[f] /\ \A g \in Flights : g # f => broken'[g] = broken[g]
         /\ stage' = [stage EXCEPT ![f] = "stored"] /\ stage'[f] = "stored" /\ "stored" \in Stages
  <1>1. broken \in [Flights -> BOOLEAN] /\ "stored" \in Stages
    BY DEF IInv, TypeOK, Stages
  <1>2. /\ broken' = [broken EXCEPT ![f] = TRUE]
        /\ stage' = [stage EXCEPT ![f] = "stored"]
    BY Zenon DEF Break
  <1>3. broken' \in [Flights -> BOOLEAN] /\ broken'[f] /\ \A g \in Flights : g # f => broken'[g] = broken[g]
    BY <1>1, <1>2, SetTrue, ZenonT(60)
  <1> QED
    BY <1>1, <1>2, <1>3, StageSet, ZenonT(60)

(* A step of a worker in the middle of a flight.                           *)
LEMMA WorkAction ==
  ASSUME IInv, NEW f \in Flights, NEW t \in Stages, stage[f] \in {"build", "claimed", "full", "built", "stored"},
         t \in {"claimed", "full", "built", "stored", "done"}, stage' = [stage EXCEPT ![f] = t],
         UNCHANGED <<request, cancelled, expired, inflight, queue>>,
         broken' \in [Flights -> BOOLEAN], \A g \in Flights : g # f => broken'[g] = broken[g],
         built' \in {built, built \cup {f}, built \ {f}}, ready' \in [Keys -> Flights \cup {None}],
         \A k \in Keys : ready'[k] \in {ready[k], None} \/ (ready'[k] = f /\ KeyOf(f) = k /\ Good(f)'),
         Good(f) => Good(f)', BuildOK(f)', f \in built' => f \in built \/ Reservable(f)
  PROVE  IInv'
  <1>1. stage' \in [Flights -> Stages] /\ stage'[f] = t /\ \A g \in Flights : g # f => stage'[g] = stage[g]
    BY StageSet, Zenon
  <1>2. TypeOK /\ built' \in SUBSET Flights /\ \A g \in Flights : g # f => (g \in built' <=> g \in built)
    BY Zenon DEF IInv, TypeOK
  <1>3. TypeOK'
    BY <1>1, <1>2, ZenonT(60) DEF TypeOK, request
  <1>4. stage[f] # "queued" /\ queue' = queue
    OBVIOUS
  <1>5. QueueOK'
    BY <1>1, <1>4, QueueKept, ZenonT(60)
  <1>6. Works(f, t)
    BY <1>2, ZenonT(60) DEF Works
  <1>7. /\ stage[f] = "queued" \/ Working(f)
        /\ t \notin {"none", "enqueue", "dropped"} /\ stage[f] # "done" /\ t # "queued" /\ t # "over"
    BY Zenon DEF Working
  <1>8. inflight'[KeyOf(f)] = IF t = "over" THEN None ELSE inflight[KeyOf(f)]
    BY <1>7, ZenonT(60)
  <1> QED
    BY <1>3, <1>5, <1>6, <1>7, <1>8, WorkStep, ZenonT(60)

(* The cache is as it was.                                                 *)
LEMMA ReadyKept ==
  ASSUME IInv, NEW f \in Flights, ready' = ready
  PROVE  /\ ready' \in [Keys -> Flights \cup {None}]
         /\ \A k \in Keys : ready'[k] \in {ready[k], None} \/ (ready'[k] = f /\ KeyOf(f) = k /\ Good(f)')
  BY Zenon DEF IInv, TypeOK

(* Decoding and the claim.                                                 *)
LEMMA ClaimOK ==
  ASSUME IInv, NEW f \in Flights, claim(f)
  PROVE  IInv'
  <1>1. stage[f] = "build" /\ UNCHANGED <<request, cancelled, expired, inflight, ready, queue, built>>
    BY ZenonT(60) DEF claim, cache
  <1>2. BuildOK(f) /\ "claimed" \in Stages /\ broken \in [Flights -> BOOLEAN]
    BY DEF IInv, TypeOK, Stages
  <1>3. f \notin built /\ inflight[KeyOf(f)] = f /\ ~broken[f] /\ ~Good(f)
    BY <1>1, <1>2, ZenonT(60) DEF BuildOK, Good
  <1>4. CASE Break(f)
    <2>1. /\ broken' \in [Flights -> BOOLEAN] /\ broken'[f] /\ \A g \in Flights : g # f => broken'[g] = broken[g]
          /\ stage' = [stage EXCEPT ![f] = "stored"] /\ stage'[f] = "stored" /\ "stored" \in Stages
      BY <1>4, BrokenSet, ZenonT(60)
    <2>2. BuildOK(f)'
      BY <1>1, <1>3, <2>1, ZenonT(60) DEF BuildOK, KeyOf
    <2> QED
      BY <1>1, <1>3, <2>1, <2>2, ReadyKept, WorkAction, ZenonT(60)
  <1>5. CASE stage' = [stage EXCEPT ![f] = "claimed"] /\ UNCHANGED broken
    <2>1. stage'[f] = "claimed"
      BY <1>2, <1>5, StageSet, ZenonT(60)
    <2>2. BuildOK(f)'
      BY <1>1, <1>3, <1>5, <2>1, ZenonT(60) DEF BuildOK, KeyOf
    <2> QED
      BY <1>1, <1>2, <1>3, <1>5, <2>2, ReadyKept, WorkAction, ZenonT(60)
  <1> QED
    BY <1>4, <1>5, ZenonT(60) DEF claim

(* The reservation.                                                        *)
LEMMA ReserveOK ==
  ASSUME IInv, NEW f \in Flights, try_reserve(f)
  PROVE  IInv'
  <1>1. stage[f] = "claimed" /\ UNCHANGED <<request, cancelled, expired, inflight, ready, queue>>
    BY ZenonT(60) DEF try_reserve, cache
  <1>2. BuildOK(f) /\ "built" \in Stages /\ "full" \in Stages /\ broken \in [Flights -> BOOLEAN]
    BY DEF IInv, TypeOK, Stages
  <1>3. f \notin built /\ inflight[KeyOf(f)] = f /\ ~broken[f] /\ ~Good(f)
    BY <1>1, <1>2, ZenonT(60) DEF BuildOK, Good
  <1>4. CASE Break(f) /\ UNCHANGED built
    <2>1. /\ broken' \in [Flights -> BOOLEAN] /\ broken'[f] /\ \A g \in Flights : g # f => broken'[g] = broken[g]
          /\ stage' = [stage EXCEPT ![f] = "stored"] /\ stage'[f] = "stored" /\ "stored" \in Stages
      BY <1>4, BrokenSet, ZenonT(60)
    <2>2. BuildOK(f)'
      BY <1>1, <1>3, <1>4, <2>1, ZenonT(60) DEF BuildOK, KeyOf
    <2> QED
      BY <1>1, <1>3, <1>4, <2>1, <2>2, ReadyKept, WorkAction, ZenonT(60)
  <1>5. CASE Reservable(f) /\ built' = built \cup {f} /\ stage' = [stage EXCEPT ![f] = "built"] /\ UNCHANGED broken
    <2>1. stage'[f] = "built" /\ f \in built'
      BY <1>2, <1>5, StageSet, ZenonT(60)
    <2>2. BuildOK(f)'
      BY <1>1, <1>3, <1>5, <2>1, ZenonT(60) DEF BuildOK, KeyOf
    <2> QED
      BY <1>1, <1>2, <1>3, <1>5, <2>2, ReadyKept, WorkAction, ZenonT(60)
  <1>6. CASE stage' = [stage EXCEPT ![f] = "full"] /\ UNCHANGED <<built, broken>>
    <2>1. stage'[f] = "full"
      BY <1>2, <1>6, StageSet, ZenonT(60)
    <2>2. BuildOK(f)'
      BY <1>1, <1>3, <1>6, <2>1, ZenonT(60) DEF BuildOK, KeyOf
    <2> QED
      BY <1>1, <1>2, <1>3, <1>6, <2>2, ReadyKept, WorkAction, ZenonT(60)
  <1> QED
    BY <1>4, <1>5, <1>6, ZenonT(60) DEF try_reserve

(* The cache gives up an entry.                                            *)
LEMMA EvictOK ==
  ASSUME IInv, NEW f \in Flights, evict_one(f)
  PROVE  IInv'
  <1>1. /\ stage[f] = "full" /\ stage' = [stage EXCEPT ![f] = "claimed"]
        /\ UNCHANGED <<request, cancelled, expired, inflight, queue, broken, built>>
    BY ZenonT(60) DEF evict_one
  <1>2. /\ BuildOK(f) /\ "claimed" \in Stages /\ broken \in [Flights -> BOOLEAN]
        /\ ready \in [Keys -> Flights \cup {None}]
    BY DEF IInv, TypeOK, Stages
  <1>3. f \notin built /\ inflight[KeyOf(f)] = f /\ ~broken[f] /\ ~Good(f)
    BY <1>1, <1>2, ZenonT(60) DEF BuildOK, Good
  <1>4. stage'[f] = "claimed"
    BY <1>1, <1>2, StageSet, ZenonT(60)
  <1>5. BuildOK(f)'
    BY <1>1, <1>3, <1>4, ZenonT(60) DEF BuildOK, KeyOf
  <1>6. ready' \in [Keys -> Flights \cup {None}] /\ \A k \in Keys : ready'[k] \in {ready[k], None}
    <2>1. PICK x : x = lru[Len(lru)]
      OBVIOUS
    <2>2. ready' = ready \/ ready' = [ready EXCEPT ![x] = None]
      BY <2>1, ZenonT(60) DEF evict_one
    <2> QED
      BY <1>2, <2>2, ZenonT(60)
  <1> QED
    BY <1>1, <1>2, <1>3, <1>5, <1>6, WorkAction, ZenonT(60)

(* The payload is kept, or the builder stops.                              *)
LEMMA StoreOK ==
  ASSUME IInv, NEW f \in Flights, store(f)
  PROVE  IInv'
  <1>1. stage[f] = "built" /\ UNCHANGED <<request, cancelled, expired, inflight, queue>>
    BY ZenonT(60) DEF store
  <1>2. /\ BuildOK(f) /\ "stored" \in Stages /\ broken \in [Flights -> BOOLEAN] /\ built \in SUBSET Flights
        /\ ready \in [Keys -> Flights \cup {None}]
    BY DEF IInv, TypeOK, Stages
  <1>3. f \in built /\ inflight[KeyOf(f)] = f /\ ~broken[f] /\ ~Good(f)
    BY <1>1, <1>2, ZenonT(60) DEF BuildOK, Good
  <1>4. CASE Break(f) /\ built' \in {built, built \ {f}} /\ UNCHANGED <<lru, ready>>
    <2>1. /\ broken' \in [Flights -> BOOLEAN] /\ broken'[f] /\ \A g \in Flights : g # f => broken'[g] = broken[g]
          /\ stage' = [stage EXCEPT ![f] = "stored"] /\ stage'[f] = "stored" /\ "stored" \in Stages
      BY <1>4, BrokenSet, ZenonT(60)
    <2>2. BuildOK(f)'
      BY <1>1, <1>3, <2>1, ZenonT(60) DEF BuildOK, KeyOf
    <2> QED
      BY <1>1, <1>3, <1>4, <2>1, <2>2, ReadyKept, WorkAction, ZenonT(60)
  <1>5. CASE ~Halts(f) /\ stage' = [stage EXCEPT ![f] = "stored"] /\ UNCHANGED <<broken, built>>
    <2>1. stage'[f] = "stored"
      BY <1>2, <1>5, StageSet, ZenonT(60)
    <2>2. BuildOK(f)' /\ Good(f)'
      BY <1>1, <1>3, <1>5, <2>1, ZenonT(60) DEF BuildOK, KeyOf, Good
    <2>3. PICK k \in Keys : k = KeyOf(f)
      BY FlightFacts, ZenonT(60)
    <2>4. PICK K : K = Range(Kept(k))
      BY Zenon
    <2>5. ASSUME ready' = [q \in Keys |->
                        CASE q = k /\ ready[k] = None -> f
                          [] q = k /\ ready[k] # None -> ready[k]
                          [] q # k -> IF q \in K THEN ready[q] ELSE None]
          PROVE  /\ ready' \in [Keys -> Flights \cup {None}]
                 /\ \A q \in Keys : ready'[q] \in {ready[q], None} \/ (ready'[q] = f /\ q = k)
      <3>1. ASSUME NEW q \in Keys
            PROVE  /\ ready'[q] \in {ready[q], None} \/ (ready'[q] = f /\ q = k)
                   /\ ready'[q] \in Flights \cup {None}
        <4>1. CASE q = k /\ ready[k] = None
          BY <2>5, <4>1, ZenonT(60)
        <4>2. CASE q = k /\ ready[k] # None
          BY <1>2, <2>5, <4>2, ZenonT(60)
        <4>3. CASE q # k
          BY <1>2, <2>5, <4>3, ZenonT(60)
        <4> QED
          BY <4>1, <4>2, <4>3
      <3>2. ready' = [q \in Keys |-> ready'[q]]
        BY <2>5, ZenonT(60)
      <3> QED
        BY <3>1, <3>2, ZenonT(60)
    <2>6. /\ ready' \in [Keys -> Flights \cup {None}]
          /\ \A q \in Keys : ready'[q] \in {ready[q], None} \/ (ready'[q] = f /\ KeyOf(f) = q /\ Good(f)')
      <3>1. CASE ready' = ready
        BY <3>1, ReadyKept, ZenonT(60)
      <3>2. CASE ready' # ready
        <4>1. ready' = [q \in Keys |->
                        CASE q = k /\ ready[k] = None -> f
                          [] q = k /\ ready[k] # None -> ready[k]
                          [] q # k -> IF q \in K THEN ready[q] ELSE None]
          BY <1>5, <2>3, <2>4, <3>2, ZenonT(60) DEF store
        <4> QED
          BY <2>2, <2>3, <2>5, <4>1, ZenonT(60)
      <3> QED
        BY <3>1, <3>2
    <2> QED
      BY <1>1, <1>2, <1>3, <1>5, <2>2, <2>6, WorkAction, ZenonT(60)
  <1> QED
    BY <1>4, <1>5, ZenonT(60) DEF store

(* The result is published.                                                *)
LEMMA PublishOK ==
  ASSUME IInv, NEW f \in Flights, publish(f)
  PROVE  IInv'
  <1>1. /\ stage[f] = "stored" /\ stage' = [stage EXCEPT ![f] = "done"]
        /\ UNCHANGED <<request, cancelled, expired, inflight, ready, queue, broken, built>>
    BY ZenonT(60) DEF publish, cache
  <1>2. BuildOK(f) /\ "done" \in Stages /\ broken \in [Flights -> BOOLEAN]
    BY DEF IInv, TypeOK, Stages
  <1>3. stage'[f] = "done"
    BY <1>1, <1>2, StageSet, ZenonT(60)
  <1>4. BuildOK(f)' /\ (Good(f) => Good(f)')
    BY <1>1, <1>2, <1>3, ZenonT(60) DEF BuildOK, KeyOf, Good
  <1> QED
    BY <1>1, <1>2, <1>4, ReadyKept, WorkAction, ZenonT(60)

(* The flight is taken off inflight.                                       *)
LEMMA EraseOK ==
  ASSUME IInv, NEW f \in Flights, erase(f)
  PROVE  IInv'
  <1>1. /\ stage[f] = "done" /\ stage' = [stage EXCEPT ![f] = "over"]
        /\ inflight' = [inflight EXCEPT ![KeyOf(f)] = None]
        /\ UNCHANGED <<request, cancelled, expired, ready, queue, broken, built>>
    BY ZenonT(60) DEF erase, Landed
  <1>2. /\ TypeOK /\ BuildOK(f) /\ "over" \in Stages /\ KeyOf(f) \in Keys
        /\ inflight \in [Keys -> Flights \cup {None}] /\ None \in Flights \cup {None}
    BY FlightFacts DEF IInv, TypeOK, Stages
  <1>3. stage' \in [Flights -> Stages] /\ stage'[f] = "over" /\ \A g \in Flights : g # f => stage'[g] = stage[g]
    BY <1>1, <1>2, StageSet, ZenonT(60)
  <1>4. /\ inflight' \in [Keys -> Flights \cup {None}] /\ inflight'[KeyOf(f)] = None
        /\ \A k \in Keys : k # KeyOf(f) => inflight'[k] = inflight[k]
    BY <1>1, <1>2, SetAt, ZenonT(60)
  <1>5. TypeOK'
    BY <1>1, <1>2, <1>3, <1>4, ZenonT(60) DEF TypeOK, request
  <1>6. BuildOK(f)' /\ (Good(f) => Good(f)')
    BY <1>1, <1>2, <1>3, ZenonT(60) DEF BuildOK, KeyOf, Good
  <1>7. QueueOK'
    BY <1>1, <1>3, QueueKept, ZenonT(60)
  <1>8. Works(f, "over") /\ Working(f)
    BY <1>1, <1>4, ZenonT(60) DEF Works, Working
  <1>9. inflight'[KeyOf(f)] = IF "over" = "over" THEN None ELSE inflight[KeyOf(f)]
    BY <1>4, ZenonT(60)
  <1> QED
    BY <1>1, <1>2, <1>5, <1>6, <1>7, <1>8, <1>9, WorkStep, ZenonT(60)

(* The oldest task leaves the queue.                                       *)
LEMMA HeadTail ==
  ASSUME NEW s \in Seq(Flights), s # <<>>, Once(s)
  PROVE  /\ Head(s) \in Flights /\ 1 \in 1..Len(s) /\ s[1] = Head(s)
         /\ Tail(s) \in Seq(Flights) /\ Once(Tail(s))
         /\ \A i \in 1..Len(Tail(s)) :
                i + 1 \in 1..Len(s) /\ Tail(s)[i] = s[i + 1] /\ Tail(s)[i] # Head(s) /\ Tail(s)[i] \in Flights
  BY DEF Once

(* A worker takes a task.                                                  *)
LEMMA TakeOK ==
  ASSUME IInv, take
  PROVE  IInv'
  <1>1. /\ queue # <<>> /\ stage' = [stage EXCEPT ![Head(queue)] = "build"] /\ queue' = Tail(queue)
        /\ UNCHANGED <<request, cancelled, expired, lru, ready, inflight, broken, built>>
    BY ZenonT(60) DEF take, cache
  <1>2. TypeOK /\ QueueOK /\ queue \in Seq(Flights) /\ Once(queue) /\ "build" \in Stages
    BY ZenonT(60) DEF IInv, TypeOK, QueueOK, Stages
  <1>3. /\ Head(queue) \in Flights /\ 1 \in 1..Len(queue) /\ queue[1] = Head(queue)
        /\ Tail(queue) \in Seq(Flights) /\ Once(Tail(queue))
        /\ \A i \in 1..Len(Tail(queue)) :
               /\ i + 1 \in 1..Len(queue) /\ Tail(queue)[i] = queue[i + 1]
               /\ Tail(queue)[i] # Head(queue) /\ Tail(queue)[i] \in Flights
    BY <1>1, <1>2, HeadTail, ZenonT(60)
  <1>4. PICK f \in Flights : f = Head(queue)
    BY <1>3, ZenonT(60)
  <1>5. stage[f] = "queued" /\ BuildOK(f)
    BY <1>2, <1>3, <1>4, ZenonT(60) DEF QueueOK, IInv
  <1>6. stage' \in [Flights -> Stages] /\ stage'[f] = "build" /\ \A g \in Flights : g # f => stage'[g] = stage[g]
    BY <1>1, <1>2, <1>4, StageSet, ZenonT(60)
  <1>7. TypeOK'
    BY <1>1, <1>2, <1>3, <1>6, ZenonT(60) DEF TypeOK, request
  <1>8. QueueOK'
    <2>1. ASSUME NEW i \in 1..Len(Tail(queue))
          PROVE  stage'[Tail(queue)[i]] = "queued"
      <3>1. /\ i + 1 \in 1..Len(queue) /\ Tail(queue)[i] = queue[i + 1]
            /\ Tail(queue)[i] # f /\ Tail(queue)[i] \in Flights
        BY <1>3, <1>4, <2>1, ZenonT(60)
      <3>2. stage[queue[i + 1]] = "queued"
        BY <1>2, <3>1, ZenonT(60) DEF QueueOK
      <3> QED
        BY <1>6, <3>1, <3>2, ZenonT(60)
    <2> QED
      BY <1>1, <1>3, <2>1, ZenonT(60) DEF QueueOK, Once
  <1>9. BuildOK(f)' /\ ~Good(f)
    BY <1>1, <1>5, <1>6, ZenonT(60) DEF BuildOK, KeyOf, Good
  <1>10. Works(f, "build")
    BY <1>1, <1>4, ZenonT(60) DEF Works
  <1>11. inflight'[KeyOf(f)] = IF "build" = "over" THEN None ELSE inflight[KeyOf(f)]
    BY <1>1
  <1>12. f \in built' => f \in built
    BY <1>1, ZenonT(60)
  <1> QED
    BY <1>2, <1>5, <1>7, <1>8, <1>9, <1>10, <1>11, <1>12, WorkStep, ZenonT(60)

-----------------------------------------------------------------------------
(* The invariant, and what follows from it.                                *)

(* It holds before the first request.                                      *)
LEMMA Starts ==
  ASSUME Init
  PROVE  IInv
  <1>1. TypeOK
    <2>1. <<>> \in Seq(Items) /\ <<>> \in Seq(Flights) /\ "permit" \in Places /\ "none" \in Stages /\ 1 \in Nat \ {0}
      BY DEF Places, Stages
    <2> QED
      BY <2>1, ZenonT(60) DEF Init, TypeOK
  <1>2. ASSUME NEW r \in Requests
        PROVE  BegunOK(r) /\ HeldOK(r)
    <2>1. pc[r] = "permit" /\ at[r] = 1 /\ pending[r] = <<>>
      BY Zenon DEF Init
    <2>2. \A i \in 1..Len(Parts[r]) : stage[<<r, i>>] = "none"
      BY FlightOf, ZenonT(60) DEF Init
    <2>3. 1..Len(pending[r]) = {}
      BY <2>1
    <2> QED
      BY <2>1, <2>2, <2>3, ZenonT(60) DEF BegunOK, HeldOK
  <1>3. ASSUME NEW f \in Flights
        PROVE  OwnerOK(f) /\ BuildOK(f) /\ ~InUse(f)
    <2>1. stage[f] = "none" /\ ~broken[f] /\ f \notin built
      BY Zenon DEF Init
    <2> QED
      BY <2>1, ZenonT(60) DEF OwnerOK, BuildOK, Building, InUse
  <1>4. \A k \in Keys : KeyOK(k)
    BY ZenonT(60) DEF Init, KeyOK
  <1>5. QueueOK
    BY DEF Init, QueueOK, Once
  <1>6. live <= LiveLimit
    <2>1. {f \in Flights : InUse(f)} = {}
      BY <1>3, ZenonT(60)
    <2>2. UNION {{f} \X (1..Bytes[KeyOf(f)]) : f \in {}} = {}
      BY Zenon
    <2>3. live = 0
      BY <2>1, <2>2, FS_EmptySet, ZenonT(60) DEF live, BytesOf
    <2> QED
      BY <2>3, ConfigAssumption
  <1> QED
    BY <1>1, <1>2, <1>3, <1>4, <1>5, <1>6, ZenonT(60) DEF IInv

(* Every step keeps it.                                                    *)
LEMMA Inductive ==
  ASSUME IInv, [Next]_vars
  PROVE  IInv'
  <1>1. CASE UNCHANGED vars
    <2>1. /\ UNCHANGED <<pc, at, pending, stopped, cancelled, expired>>
          /\ UNCHANGED <<ready, inflight, queue, stage, broken, built>>
      BY <1>1, ZenonT(60) DEF vars, request, cache, flight
    <2>2. TypeOK'
      BY <2>1, ZenonT(60) DEF IInv, TypeOK
    <2>3. \A r \in Requests : BegunOK(r)' /\ HeldOK(r)'
      BY <2>1, RequestKept, ZenonT(60) DEF Rests, Advances, Good
    <2>4. \A f \in Flights : OwnerOK(f)' /\ BuildOK(f)'
      BY <2>1, FlightFacts, OwnerKept, BuildKept, ZenonT(60) DEF Rests
    <2>5. (\A k \in Keys : KeyOK(k)') /\ QueueOK'
      BY <2>1, ZenonT(60) DEF IInv, KeyOK, QueueOK, Good, KeyOf, Once
    <2>6. (live <= LiveLimit)'
      BY <2>1, LiveKept, Zenon DEF InUse, Refers, KeyOf
    <2> QED
      BY <2>2, <2>3, <2>4, <2>5, <2>6, ZenonT(60) DEF IInv
  <1>2. ASSUME NEW r \in Requests, RequestStep(r)
        PROVE  IInv'
    BY <1>2, AcquireOK, BeginOK, BegunAllOK, EnqueueOK, AbandonOK, AwaitStepOK, AwaitedOK, TokenizeOK, ReleaseOK,
       Zenon DEF RequestStep
  <1>3. ASSUME NEW r \in Requests, cancel(r) \/ expire(r)
        PROVE  IInv'
    BY <1>3, SignalOK, ZenonT(60)
  <1>4. ASSUME NEW f \in Flights, WorkerStep(f)
        PROVE  IInv'
    BY <1>4, ClaimOK, ReserveOK, EvictOK, StoreOK, PublishOK, EraseOK, ZenonT(60) DEF WorkerStep
  <1>5. CASE take
    BY <1>5, TakeOK, ZenonT(60)
  <1>6. CASE rest
    BY <1>1, <1>6, ZenonT(60) DEF rest
  <1> QED
    BY <1>1, <1>2, <1>3, <1>4, <1>5, <1>6, ZenonT(60) DEF Next

(* The invariant holds throughout.                                         *)
LEMMA Always == Spec => []IInv
  <1>1. Init => IInv
    BY Starts, ZenonT(60)
  <1>2. IInv /\ [Next]_vars => IInv'
    BY Inductive, ZenonT(60)
  <1> QED
    BY <1>1, <1>2, PTL DEF Spec

(* Identical media are built once at a time: MediaPreprocessCache's        *)
(* inflight names every flight under way, for any number of requests and   *)
(* workers, also while flights fail, are dropped or are abandoned.         *)
THEOREM OneFlightPerKey == Spec => []SingleFlight
  <1>1. IInv => SingleFlight
    BY ZenonT(60) DEF IInv, BuildOK, SingleFlight
  <1> QED
    BY <1>1, Always, PTL

(* process does not return while a builder uses its stack, whichever part  *)
(* failed, whoever cancelled and whenever the deadline passed.             *)
THEOREM BuildersEndFirst == Spec => []BuilderWithinRequest
  <1>1. IInv => BuilderWithinRequest
    BY ZenonT(60) DEF IInv, OwnerOK, Building, BuilderWithinRequest
  <1> QED
    BY <1>1, Always, PTL

(* --media-live-mib bounds the payloads that are referred to: a reservation *)
(* is the only step that adds to them, also when entries are evicted, and   *)
(* handed out again, in between.                                            *)
THEOREM LiveStaysBounded == Spec => []LiveWithinLimit
  <1>1. IInv => LiveWithinLimit
    BY Zenon DEF IInv, LiveWithinLimit
  <1> QED
    BY <1>1, Always, PTL

(* A prompt that gets to tokenization has a payload of each of its media,   *)
(* found, joined or built, and none that broke.                             *)
THEOREM NothingMissing == Spec => []PromptsComplete
  <1>1. ASSUME IInv
        PROVE  PromptsComplete
    <2> SUFFICES ASSUME NEW r \in Requests, pc[r] \in {"tokenize", "prompt"}
                 PROVE  /\ Len(pending[r]) = Len(Parts[r])
                        /\ \A i \in 1..Len(Parts[r]) :
                             /\ pending[r][i].flight \in built /\ ~broken[pending[r][i].flight]
                             /\ KeyOf(pending[r][i].flight) = Parts[r][i]
      BY Zenon DEF PromptsComplete
    <2>1. BegunOK(r) /\ HeldOK(r)
      BY <1>1, ZenonT(60) DEF IInv
    <2>2. Len(pending[r]) = Len(Parts[r])
      BY <2>1, Zenon DEF BegunOK
    <2> QED
      BY <2>1, <2>2, ZenonT(60) DEF HeldOK, Good
  <1> QED
    BY <1>1, Always, PTL

=============================================================================
