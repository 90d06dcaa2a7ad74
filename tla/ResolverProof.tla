--------------------------- MODULE ResolverProof ---------------------------
(***************************************************************************)
(* Proofs about Resolver, for any number of calls, names, repeats and      *)
(* queries: a repeat timer finds the pending lookup it uses, no caller is  *)
(* forgotten, and a promise that was resolved is not settled again.        *)
(***************************************************************************)
EXTENDS Resolver, SequenceTheorems, FiniteSetTheorems, TLAPS

-----------------------------------------------------------------------------
(* The inductive invariant.                                                  *)

Positions == 1..Len(timers)

\* A result of name n is in the cache and its answer is not.
Unfinished(n) == cache[n] # None /\ ~cache[n].done

\* Each timer that runs is the only one of a query that is pending.
TimersPending ==
    /\ \A k \in Positions : pending[timers[k]] # None
    /\ \A k, l \in Positions : timers[k] = timers[l] => k = l

\* Query ids are fresh, an unfinished result has one, and no two share one.
IdsUsed ==
    /\ \A i \in Id : pending[i] # None => i <= ids
    /\ \A n \in Name : Unfinished(n) => cache[n].id \in Id /\ cache[n].id <= ids
    /\ \A m, n \in Name : Unfinished(m) /\ Unfinished(n) /\ cache[m].id = cache[n].id => m = n

\* A pending lookup whose result is alive is the lookup of the unfinished
\* result of its name, and the lookup of an unfinished result is for its name.
ResultsAgree ==
    /\ \A i \in Id : pending[i] # None /\ pending[i].result =>
           Unfinished(pending[i].name) /\ cache[pending[i].name].id = i
    /\ \A n \in Name : Unfinished(n) /\ pending[cache[n].id] # None => pending[cache[n].id].name = n

\* Of the timers for a name with an unfinished result, the timer of that
\* result's own query fires last, and when that query is gone there is none.
OwnTimerLast ==
    \A n \in Name, l \in Positions : Unfinished(n) /\ pending[timers[l]].name = n =>
        /\ pending[cache[n].id] # None
        /\ \A k \in Positions : timers[k] = cache[n].id => l <= k

QueriesInv == TimersPending /\ IdsUsed /\ ResultsAgree /\ OwnTimerLast

Joined(n, p) == system[n] # None /\ Contains(system[n].waiting, p)

\* A query that can still settle its promise: its timer runs or its answer is
\* awaited.
Active(i) == pending[i] # None /\ (Contains(timers, i) \/ (i \in wire /\ pending[i].result))

\* A finalized resolution has settled its promises; without a socket there is
\* nothing on the wire.
NothingLeft ==
    /\ \A n \in Name : system[n] # None /\ system[n].finalized => system[n].waiting = <<>>
    /\ ~socket => wire = {}

\* The promise of a call that was not made is untouched; the handler of a
\* promise is that of a call that got it.
PromisesOwned ==
    /\ \A c \in Call : returned[c] = None => promise[c].settled = "no"
    /\ \A p \in Call : promise[p].handler # None => returned[promise[p].handler] = p
    /\ \A i \in Id : pending[i] # None => returned[pending[i].promise] # None
    /\ \A n \in Name, p \in Call : Joined(n, p) => returned[p] # None

\* Whoever can still settle a promise is alone in it, and it is not resolved.
SettledByOne ==
    /\ \A i, j \in Id : pending[i] # None /\ pending[j] # None /\ pending[i].promise = pending[j].promise => i = j
    /\ \A m, n \in Name, p \in Call : Joined(m, p) /\ Joined(n, p) => m = n
    /\ \A n \in Name, p \in Call : Joined(n, p) => promise[p].settled # "resolved"
    /\ \A i \in Id : Active(i) =>
           /\ promise[pending[i].promise].settled # "resolved"
           /\ \A n \in Name : ~Joined(n, pending[i].promise)

PromisesInv == NothingLeft /\ PromisesOwned /\ SettledByOne /\ NoneForgotten

ResolverInv == TypeOK /\ QueriesInv /\ PromisesInv

-----------------------------------------------------------------------------
(* Sequences.                                                                *)

\* What a sequence of calls contains when one is appended, and when it is short.
LEMMA ContainsFacts ==
    ASSUME NEW S
    PROVE  /\ \A x : ~Contains(<<>>, x)
           /\ \A x, y : Contains(<<y>>, x) <=> x = y
           /\ \A s \in Seq(S), y \in S : \A x : Contains(Append(s, y), x) <=> Contains(s, x) \/ x = y
<1>1. \A x : ~Contains(<<>>, x)
  BY DEF Contains
<1>2. \A x, y : Contains(<<y>>, x) <=> x = y
  BY DEF Contains
<1>3. ASSUME NEW s \in Seq(S), NEW y \in S, NEW x PROVE Contains(Append(s, y), x) <=> Contains(s, x) \/ x = y
  <2>1. /\ Len(s) \in Nat /\ Len(Append(s, y)) = Len(s) + 1
        /\ \A k \in 1..Len(s) : Append(s, y)[k] = s[k]
        /\ Append(s, y)[Len(s) + 1] = y
    BY AppendProperties, LenProperties
  <2> HIDE DEF Contains
  <2>2. ASSUME Contains(s, x) \/ x = y PROVE Contains(Append(s, y), x)
    BY <2>1, <2>2 DEF Contains
  <2>3. ASSUME Contains(Append(s, y), x), x # y PROVE Contains(s, x)
    <3>1. PICK k \in 1..(Len(s) + 1) : Append(s, y)[k] = x
      BY <2>1, <2>3 DEF Contains
    <3>2. k \in 1..Len(s)
      BY <2>1, <2>3, <3>1
    <3> QED BY <2>1, <3>1, <3>2 DEF Contains
  <2> QED BY <2>2, <2>3
<1> QED BY <1>1, <1>2, <1>3

LEMMA Alone ==
    ASSUME NEW p \in Call
    PROVE  /\ <<p>> \in Seq(Call) /\ \A x : Contains(<<p>>, x) <=> x = p
           /\ <<>> \in Seq(Call) /\ \A x : ~Contains(<<>>, x)
<1>1. <<p>> \in Seq(Call) /\ <<>> \in Seq(Call)
  OBVIOUS
<1> QED BY <1>1, ContainsFacts

\* t is timers with some left out.
Thinned(t) ==
    /\ t \in Seq(Id)
    /\ \E f \in [1..Len(t) -> Positions] :
           /\ \A k \in 1..Len(t) : t[k] = timers[f[k]]
           /\ \A k, l \in 1..Len(t) : k < l => f[k] < f[l]

LEMMA ThinnedSame ==
    ASSUME TypeOK
    PROVE  Thinned(timers)
<1>1. timers \in Seq(Id) /\ Len(timers) \in Nat
  BY LenProperties DEF TypeOK
<1> DEFINE f == [k \in Positions |-> k]
<1>2. /\ f \in [1..Len(timers) -> Positions]
      /\ \A k \in 1..Len(timers) : timers[k] = timers[f[k]]
      /\ \A k, l \in 1..Len(timers) : k < l => f[k] < f[l]
  BY <1>1 DEF Positions
<1> QED BY <1>1, <1>2 DEF Thinned

\* A timer that fires is the first, and gone afterwards.
LEMMA ThinnedTail ==
    ASSUME TypeOK, TimersPending, timers # <<>>
    PROVE  /\ Head(timers) \in Id /\ pending[Head(timers)] # None
           /\ 1 \in Positions /\ Head(timers) = timers[1]
           /\ Thinned(Tail(timers))
           /\ ~Contains(Tail(timers), Head(timers))
<1> DEFINE t == Tail(timers)
<1>1. /\ timers \in Seq(Id) /\ Len(timers) \in Nat \ {0}
      /\ t \in Seq(Id) /\ Len(t) = Len(timers) - 1
      /\ \A k \in 1..Len(t) : t[k] = timers[k + 1]
      /\ Head(timers) = timers[1] /\ Head(timers) \in Id
  BY HeadTailProperties, LenProperties, EmptySeq DEF TypeOK
<1>2. 1 \in Positions /\ pending[Head(timers)] # None
  BY <1>1 DEF Positions, TimersPending
<1> DEFINE f == [k \in 1..Len(t) |-> k + 1]
<1> HIDE DEF t
<1>3. /\ f \in [1..Len(t) -> Positions]
      /\ \A k \in 1..Len(t) : t[k] = timers[f[k]]
      /\ \A k, l \in 1..Len(t) : k < l => f[k] < f[l]
  BY <1>1 DEF Positions
<1>4. ~Contains(t, Head(timers))
  BY <1>1, <1>2 DEF Contains, TimersPending, Positions
<1> QED BY <1>1, <1>2, <1>3, <1>4 DEF Thinned, t

\* The timer of a query whose answer has come is gone afterwards.
LEMMA ThinnedStopped ==
    ASSUME TypeOK, TimersPending, NEW i \in Id
    PROVE  Thinned(Stopped(i)) /\ ~Contains(Stopped(i), i)
<1>1. CASE ~Contains(timers, i)
  BY <1>1, ThinnedSame DEF Stopped
<1>2. CASE Contains(timers, i)
  <2> DEFINE j == CHOOSE k \in 1..Len(timers) : timers[k] = i
             a == SubSeq(timers, 1, j - 1)
             b == SubSeq(timers, j + 1, Len(timers))
             t == a \o b
  <2>1. timers \in Seq(Id) /\ Len(timers) \in Nat /\ \A k \in 1..Len(timers) : timers[k] \in Id
    BY LenProperties, ElementOfSeq DEF TypeOK
  <2>2. j \in 1..Len(timers) /\ timers[j] = i
    BY <1>2 DEF Contains
  <2>3. Stopped(i) = t
    BY <1>2 DEF Stopped, RemoveAt
  <2> HIDE DEF j
  <2>4. /\ a \in Seq(Id) /\ Len(a) = j - 1
        /\ \A k \in 1..(j - 1) : a[k] = timers[k]
    <3>1. 1 \in Int /\ j - 1 \in Int /\ \A k \in 1..(j - 1) : timers[k] \in Id
      BY <2>1, <2>2
    <3>2. /\ a \in Seq(Id) /\ Len(a) = IF 1 <= j - 1 THEN (j - 1) - 1 + 1 ELSE 0
          /\ \A k \in 1..((j - 1) - 1 + 1) : a[k] = timers[1 + k - 1]
      BY <3>1, SubSeqProperties
    <3> HIDE DEF a
    <3> QED BY <2>2, <3>2
  <2>5. /\ b \in Seq(Id) /\ Len(b) = Len(timers) - j
        /\ \A k \in 1..(Len(timers) - j) : b[k] = timers[j + k]
    <3>1. j + 1 \in Int /\ Len(timers) \in Int /\ \A k \in (j + 1)..Len(timers) : timers[k] \in Id
      BY <2>1, <2>2
    <3>2. /\ b \in Seq(Id) /\ Len(b) = IF j + 1 <= Len(timers) THEN Len(timers) - (j + 1) + 1 ELSE 0
          /\ \A k \in 1..(Len(timers) - (j + 1) + 1) : b[k] = timers[j + 1 + k - 1]
      BY <3>1, SubSeqProperties
    <3> HIDE DEF b
    <3> QED BY <2>1, <2>2, <3>2
  <2>6. /\ t \in Seq(Id) /\ Len(t) = Len(timers) - 1
        /\ \A k \in 1..Len(t) : t[k] = IF k < j THEN timers[k] ELSE timers[k + 1]
    <3>1. /\ t \in Seq(Id) /\ Len(t) = Len(a) + Len(b)
          /\ \A k \in 1..(Len(a) + Len(b)) : t[k] = IF k <= Len(a) THEN a[k] ELSE b[k - Len(a)]
      BY <2>4, <2>5, ConcatProperties
    <3> HIDE DEF a, b, t
    <3>2. Len(t) = Len(timers) - 1
      BY <2>1, <2>2, <2>4, <2>5, <3>1
    <3>3. ASSUME NEW k \in 1..Len(t), k < j PROVE t[k] = timers[k]
      BY <2>1, <2>2, <2>4, <2>5, <3>1, <3>3
    <3>4. ASSUME NEW k \in 1..Len(t), ~(k < j) PROVE t[k] = timers[k + 1]
      <4>1. k - Len(a) \in 1..(Len(timers) - j) /\ j + (k - Len(a)) = k + 1
        BY <2>1, <2>2, <2>4, <3>2, <3>4
      <4>2. t[k] = b[k - Len(a)]
        BY <2>1, <2>2, <2>4, <2>5, <3>1, <3>4
      <4> QED BY <2>5, <4>1, <4>2
    <3> QED BY <3>1, <3>2, <3>3, <3>4
  <2> HIDE DEF t
  <2> DEFINE f == [k \in 1..Len(t) |-> IF k < j THEN k ELSE k + 1]
  <2>7. /\ f \in [1..Len(t) -> Positions]
        /\ \A k \in 1..Len(t) : t[k] = timers[f[k]]
        /\ \A k, l \in 1..Len(t) : k < l => f[k] < f[l]
    BY <2>1, <2>2, <2>6 DEF Positions
  <2>8. ~Contains(t, i)
    BY <2>1, <2>2, <2>6 DEF Contains, TimersPending, Positions
  <2> QED BY <2>3, <2>6, <2>7, <2>8 DEF Thinned
<1> QED BY <1>1, <1>2

-----------------------------------------------------------------------------
(* Queries.                                                                  *)

\* flush_cache() keeps a result that is unfinished, and its id; what it leaves
\* is a result or nothing.
LEMMA FlushedFacts ==
    ASSUME TypeOK
    PROVE  /\ Flushed \in [Name -> Results \cup {None}]
           /\ \A n \in Name : Flushed[n] # None => Flushed[n].id = cache[n].id /\ Flushed[n].done = cache[n].done
           /\ \A n \in Name : Unfinished(n) <=> Flushed[n] # None /\ ~Flushed[n].done
           /\ \A n \in Name : Unfinished(n) => Flushed[n].id = cache[n].id
<1> SUFFICES ASSUME NEW n \in Name
             PROVE  /\ Flushed[n] \in Results \cup {None}
                    /\ Flushed[n] # None => cache[n] # None /\ Flushed[n].id = cache[n].id /\ Flushed[n].done = cache[n].done
                    /\ Unfinished(n) => Flushed[n] # None
  BY DEF Flushed, Unfinished
<1>1. CASE cache[n] = None
  BY <1>1 DEF Flushed, Unfinished
<1>2. CASE cache[n] # None
  <2> DEFINE r == cache[n]
             kept == IF r.valid THEN r.records \ r.expired ELSE r.records
             valid == r.valid /\ ~(kept = {} /\ r.done)
             new == [r EXCEPT !.records = kept, !.expired = @ \cap kept, !.valid = valid]
  <2>1. r \in Results
    BY <1>2 DEF TypeOK
  <2>2. Flushed[n] = IF ~valid /\ r.done THEN None ELSE new
    BY <1>2 DEF Flushed
  <2>3. kept \in SUBSET Type /\ valid \in BOOLEAN
    BY <2>1 DEF Results
  <2>4. new \in Results /\ new.id = r.id /\ new.done = r.done
    <3> HIDE DEF kept, valid
    <3> QED BY <2>1, <2>3 DEF Results
  <2>5. new # None
    BY <2>4, ResolverAssumption
  <2> HIDE DEF new, valid
  <2> QED BY <1>2, <2>2, <2>4, <2>5 DEF Unfinished
<1> QED BY <1>1, <1>2

\* A step that starts no query keeps the invariant of the queries.
LEMMA QueriesKept ==
    ASSUME TypeOK, QueriesInv, Thinned(timers'), ids' = ids,
           \A n \in Name : Unfinished(n)' => Unfinished(n) /\ cache'[n].id = cache[n].id,
           \A i \in Id : pending'[i] # None =>
               /\ pending[i] # None /\ pending'[i].name = pending[i].name
               /\ pending'[i].result => pending[i].result /\ Unfinished(pending[i].name)',
           \A i \in Id : pending[i] # None /\ pending'[i] = None =>
               /\ ~Contains(timers', i)
               /\ \A n \in Name : Unfinished(n)' /\ cache[n].id = i =>
                      \A k \in 1..Len(timers') : pending[timers'[k]].name # n
    PROVE  QueriesInv'
<1>1. PICK f \in [1..Len(timers') -> Positions] :
          /\ \A k \in 1..Len(timers') : timers'[k] = timers[f[k]]
          /\ \A k, l \in 1..Len(timers') : k < l => f[k] < f[l]
  BY DEF Thinned
<1>2. /\ timers' \in Seq(Id) /\ Len(timers') \in Nat /\ Len(timers) \in Nat
      /\ \A k \in 1..Len(timers') : timers'[k] \in Id
      /\ \A k \in Positions : timers[k] \in Id
  BY LenProperties, ElementOfSeq DEF Thinned, TypeOK, Positions
<1>3. \A i \in Id : pending[i] \in Lookups \cup {None}
  BY DEF TypeOK
<1>4. \A i \in Id : pending[i] # None => pending[i].name \in Name
  BY <1>3 DEF Lookups
<1> USE DEF QueriesInv
<1>5. TimersPending'
  <2>1. ASSUME NEW k \in Positions' PROVE pending'[timers'[k]] # None
    <3>1. pending[timers'[k]] # None
      BY <1>1 DEF Positions, TimersPending
    <3> QED BY <1>2, <3>1 DEF Contains, Positions
  <2>2. ASSUME NEW k \in Positions', NEW l \in Positions', timers'[k] = timers'[l] PROVE k = l
    <3>1. f[k] = f[l]
      BY <1>1, <2>2 DEF Positions, TimersPending
    <3>2. f[k] \in Nat /\ f[l] \in Nat /\ k \in Nat /\ l \in Nat
      BY <1>1 DEF Positions
    <3>3. ~(k < l) /\ ~(l < k)
      BY <1>1, <3>1, <3>2 DEF Positions
    <3> QED BY <3>2, <3>3
  <2> QED BY <2>1, <2>2 DEF TimersPending
<1>6. IdsUsed'
  BY DEF IdsUsed
<1>7. ResultsAgree'
  <2>1. ASSUME NEW i \in Id, pending'[i] # None, pending'[i].result
        PROVE  Unfinished(pending[i].name)' /\ cache'[pending'[i].name].id = i
    <3>1. /\ pending[i] # None /\ pending[i].result /\ pending'[i].name = pending[i].name
          /\ Unfinished(pending[i].name)' /\ pending[i].name \in Name
      BY <1>4, <2>1
    <3>2. cache'[pending[i].name].id = cache[pending[i].name].id
      BY <3>1
    <3> QED BY <3>1, <3>2 DEF ResultsAgree
  <2>2. ASSUME NEW n \in Name, Unfinished(n)', pending'[cache'[n].id] # None
        PROVE  pending'[cache'[n].id].name = n
    <3>1. Unfinished(n) /\ cache'[n].id = cache[n].id /\ cache[n].id \in Id
      BY <2>2 DEF IdsUsed
    <3>2. pending[cache[n].id] # None /\ pending'[cache[n].id].name = pending[cache[n].id].name
      BY <2>2, <3>1
    <3> QED BY <3>1, <3>2 DEF ResultsAgree
  <2> QED BY <2>1, <2>2 DEF ResultsAgree
<1>8. OwnTimerLast'
  <2> SUFFICES ASSUME NEW n \in Name, NEW l \in Positions', Unfinished(n)', pending'[timers'[l]].name = n
               PROVE  /\ pending'[cache'[n].id] # None
                      /\ \A k \in Positions' : timers'[k] = cache'[n].id => l <= k
    BY DEF OwnTimerLast
  <2>1. Unfinished(n) /\ cache'[n].id = cache[n].id /\ cache[n].id \in Id
    BY DEF IdsUsed
  <2>2. pending[timers'[l]] # None /\ pending[timers'[l]].name = n
    BY <1>2, <1>5 DEF TimersPending, Positions
  <2>3. /\ pending[cache[n].id] # None
        /\ \A k \in Positions : timers[k] = cache[n].id => f[l] <= k
    BY <1>1, <2>1, <2>2 DEF OwnTimerLast, Positions
  <2>4. pending'[cache'[n].id] # None
    BY <2>1, <2>2, <2>3 DEF Positions
  <2>5. ASSUME NEW k \in Positions', timers'[k] = cache'[n].id PROVE l <= k
    <3>1. f[l] <= f[k] /\ f[l] \in Nat /\ f[k] \in Nat /\ k \in Nat /\ l \in Nat
      BY <1>1, <2>1, <2>3, <2>5 DEF Positions
    <3>2. ~(k < l)
      BY <1>1, <3>1 DEF Positions
    <3> QED BY <3>1, <3>2
  <2> QED BY <2>4, <2>5
<1> QED BY <1>5, <1>6, <1>7, <1>8

-----------------------------------------------------------------------------
(* Promises.                                                                 *)

\* What ResolvedOnce says of a step.
ResolvedKept ==
    \A p \in Call : promise[p].settled = "resolved" =>
        /\ promise'[p].settled = "resolved"
        /\ promise[p].handler # None => heard'[promise[p].handler] = heard[promise[p].handler]

\* The promises in S, none of them resolved, have been settled.
Told(S, how) ==
    /\ promise' \in [Call -> Promises]
    /\ returned' \in [Call -> Call \cup {None}]
    /\ heard' \in [Call -> Nat]
    /\ \A p \in Call : promise'[p].settled = IF Contains(S, p) THEN how ELSE promise[p].settled
    /\ \A p \in Call : promise'[p].handler # None => returned'[promise'[p].handler] = p
    /\ ResolvedKept

LEMMA SettledFacts ==
    ASSUME TypeOK, NEW S \in Seq(Call), NEW how \in {"no", "resolved", "rejected"}
    PROVE  /\ Settled(S, how) \in [Call -> Promises]
           /\ \A p \in Call : /\ Settled(S, how)[p].settled = IF Contains(S, p) THEN how ELSE promise[p].settled
                              /\ Settled(S, how)[p].handler = promise[p].handler
<1> SUFFICES ASSUME NEW p \in Call
             PROVE  /\ Settled(S, how)[p] \in Promises
                    /\ Settled(S, how)[p].settled = IF Contains(S, p) THEN how ELSE promise[p].settled
                    /\ Settled(S, how)[p].handler = promise[p].handler
  BY DEF Settled
<1>1. promise[p] \in Promises
  BY DEF TypeOK
<1>2. Settled(S, how)[p] = IF Contains(S, p) THEN [promise[p] EXCEPT !.settled = how] ELSE promise[p]
  BY DEF Settled, Contains
<1> QED BY <1>1, <1>2 DEF Promises

LEMMA SettleFacts ==
    ASSUME TypeOK, PromisesOwned, NEW S \in Seq(Call), NEW how \in {"no", "resolved", "rejected"},
           \A p \in Call : Contains(S, p) => promise[p].settled # "resolved",
           Settle(S, how)
    PROVE  Told(S, how) /\ returned' = returned
<1>1. promise' = Settled(S, how) /\ returned' = returned
  BY DEF Settle
<1>2. /\ promise' \in [Call -> Promises]
      /\ \A p \in Call : /\ promise'[p].settled = IF Contains(S, p) THEN how ELSE promise[p].settled
                         /\ promise'[p].handler = promise[p].handler
  BY <1>1, SettledFacts
<1> DEFINE own(c) == {i \in 1..Len(S) : promise[S[i]].handler = c}
<1>3. heard' = [c \in Call |-> heard[c] + Cardinality(own(c))]
  BY DEF Settle
<1>4. ASSUME NEW c \in Call PROVE Cardinality(own(c)) \in Nat
  <2>1. Len(S) \in Nat /\ own(c) \subseteq 1..Len(S)
    BY LenProperties
  <2>2. IsFiniteSet(1..Len(S))
    BY <2>1, FS_Interval
  <2>3. IsFiniteSet(own(c))
    BY <2>1, <2>2, FS_Subset
  <2> QED BY <2>3, FS_CardinalityType
<1>5. heard' \in [Call -> Nat]
  <2> HIDE DEF own
  <2> QED BY <1>3, <1>4 DEF TypeOK
<1>6. ASSUME NEW p \in Call, promise[p].settled = "resolved"
      PROVE  /\ promise'[p].settled = "resolved"
             /\ promise[p].handler # None => heard'[promise[p].handler] = heard[promise[p].handler]
  <2>1. ~Contains(S, p)
    BY <1>6
  <2>2. ASSUME promise[p].handler # None PROVE heard'[promise[p].handler] = heard[promise[p].handler]
    <3> DEFINE h == promise[p].handler
    <3>1. h \in Call /\ returned[h] = p
      BY <2>2 DEF TypeOK, Promises, PromisesOwned
    <3>2. ASSUME NEW k \in 1..Len(S) PROVE promise[S[k]].handler # h
      <4>1. S[k] \in Call /\ S[k] # p
        BY <2>1, ElementOfSeq DEF Contains
      <4> QED BY <2>2, <3>1, <4>1 DEF PromisesOwned
    <3>3. own(h) = {}
      BY <3>2
    <3>4. Cardinality(own(h)) = 0
      BY <3>3, FS_EmptySet
    <3>5. heard'[h] = heard[h] + Cardinality(own(h))
      BY <1>3, <3>1
    <3>6. heard[h] \in Nat
      BY <3>1 DEF TypeOK
    <3> QED BY <3>4, <3>5, <3>6
  <2> QED BY <1>2, <1>6, <2>1, <2>2
<1>7. ResolvedKept
  BY <1>6 DEF ResolvedKept
<1> QED BY <1>1, <1>2, <1>5, <1>7 DEF Told, TypeOK, PromisesOwned

LEMMA ReturnFacts ==
    ASSUME TypeOK, PromisesOwned, NEW S \in Seq(Call), NEW how \in {"no", "resolved", "rejected"},
           \A p \in Call : Contains(S, p) => promise[p].settled # "resolved",
           NEW c \in Call, NEW q \in Call, returned[c] = None, Return(c, q, Settled(S, how))
    PROVE  Told(S, how) /\ returned' = [returned EXCEPT ![c] = q]
<1> DEFINE P == Settled(S, how)
<1>1. /\ promise' = [P EXCEPT ![q].handler = c]
      /\ returned' = [returned EXCEPT ![c] = q]
      /\ heard' = [heard EXCEPT ![c] = IF P[q].settled = "no" THEN @ ELSE @ + 1]
  BY DEF Return
<1>2. /\ P \in [Call -> Promises]
      /\ \A p \in Call : /\ P[p].settled = IF Contains(S, p) THEN how ELSE promise[p].settled
                         /\ P[p].handler = promise[p].handler
  BY SettledFacts
<1> HIDE DEF P
<1>3. /\ promise' \in [Call -> Promises]
      /\ \A p \in Call : /\ promise'[p].settled = IF Contains(S, p) THEN how ELSE promise[p].settled
                         /\ promise'[p].handler = IF p = q THEN c ELSE promise[p].handler
  BY <1>1, <1>2 DEF Promises
<1>4. heard' \in [Call -> Nat] /\ returned' \in [Call -> Call \cup {None}]
  BY <1>1 DEF TypeOK
<1>5. \A p \in Call : promise[p].handler # None => promise[p].handler \in Call /\ promise[p].handler # c
  BY ResolverAssumption DEF TypeOK, Promises, PromisesOwned
<1>6. \A p \in Call : promise'[p].handler # None => returned'[promise'[p].handler] = p
  <2>1. ASSUME NEW p \in Call, p # q, promise'[p].handler # None PROVE returned'[promise'[p].handler] = p
    <3>1. promise'[p].handler = promise[p].handler /\ promise[p].handler \in Call \ {c}
      BY <1>3, <1>5, <2>1
    <3> QED BY <1>1, <2>1, <3>1 DEF TypeOK, PromisesOwned
  <2>2. promise'[q].handler = c /\ returned'[c] = q
    BY <1>1, <1>3 DEF TypeOK
  <2> QED BY <2>1, <2>2
<1>7. ResolvedKept
  BY <1>1, <1>3, <1>5 DEF ResolvedKept, TypeOK
<1> QED BY <1>1, <1>3, <1>4, <1>6, <1>7 DEF Told

\* A step keeps the invariant of the promises when it settles what it stops,
\* and when what it starts, a query or a wait, has its promise for itself.
LEMMA PromisesKept ==
    ASSUME TypeOK, PromisesInv, NEW S, NEW how, Told(S, how), NothingLeft',
           \A p \in Call : Contains(S, p) => how # "no" /\ returned'[p] # None,
           \A c \in Call : returned[c] # None => returned'[c] = returned[c],
           \A c \in Call : returned[c] = None /\ returned'[c] # None =>
               \/ promise'[returned'[c]].settled # "no"
               \/ \E i \in Id : pending'[i] # None /\ pending'[i].promise = returned'[c]
               \/ \E n \in Name : Joined(n, returned[c])',
           \A i \in Id : pending[i] # None =>
               /\ pending[i].promise \in Call
               /\ pending'[i] # None => pending'[i].promise = pending[i].promise
               /\ pending'[i] = None => Contains(S, pending[i].promise),
           \A i \in Id : pending[i] = None /\ pending'[i] # None =>
               /\ returned'[pending'[i].promise] # None
               /\ \A j \in Id : pending'[j] # None /\ pending'[j].promise = pending'[i].promise => j = i,
           \A n \in Name, p \in Call : Joined(n, p) /\ ~Joined(n, p)' => Contains(S, p),
           \A n \in Name, p \in Call : ~Joined(n, p) /\ Joined(n, p)' =>
               /\ returned'[p] # None /\ promise'[p].settled # "resolved"
               /\ \A m \in Name : Joined(m, p)' => m = n
               /\ \A i \in Id : Active(i)' => pending'[i].promise # p,
           \A i \in Id : ~Active(i) /\ Active(i)' =>
               /\ promise'[pending'[i].promise].settled # "resolved"
               /\ \A n \in Name : ~Joined(n, pending[i].promise)',
           how = "resolved" => \A p \in Call : Contains(S, p) =>
               /\ \A n \in Name : ~Joined(n, p)'
               /\ \A i \in Id : Active(i)' => pending'[i].promise # p
    PROVE  PromisesInv'
<1>0. /\ \A c \in Call : returned[c] # None => returned[c] \in Call
      /\ \A c \in Call : returned'[c] # None => returned'[c] \in Call
  BY DEF TypeOK, Told
<1> USE DEF PromisesInv
<1>1. PromisesOwned'
  <2>1. \A c \in Call : returned'[c] = None => promise'[c].settled = "no"
    BY DEF Told, PromisesOwned
  <2>2. \A i \in Id : pending'[i] # None => returned'[pending'[i].promise] # None
    BY DEF PromisesOwned
  <2>3. \A n \in Name, p \in Call : Joined(n, p)' => returned'[p] # None
    BY DEF PromisesOwned
  <2> QED BY <2>1, <2>2, <2>3 DEF PromisesOwned, Told
<1>2. SettledByOne'
  <2>1. ASSUME NEW i \in Id, NEW j \in Id, pending'[i] # None, pending'[j] # None,
               pending'[i].promise = pending'[j].promise
        PROVE  i = j
    BY <2>1 DEF SettledByOne
  <2>2. ASSUME NEW m \in Name, NEW n \in Name, NEW p \in Call, Joined(m, p)', Joined(n, p)' PROVE m = n
    BY <2>2 DEF SettledByOne
  <2>3. ASSUME NEW n \in Name, NEW p \in Call, Joined(n, p)' PROVE promise'[p].settled # "resolved"
    BY <2>3 DEF SettledByOne, Told
  <2>4. ASSUME NEW i \in Id, Active(i)'
        PROVE  /\ promise'[pending'[i].promise].settled # "resolved"
               /\ \A n \in Name : ~Joined(n, pending[i].promise)'
    <3>1. CASE ~Active(i)
      BY <2>4, <3>1
    <3>2. CASE Active(i)
      <4>1. /\ pending[i] # None /\ pending'[i] # None
            /\ pending'[i].promise = pending[i].promise /\ pending[i].promise \in Call
        BY <2>4, <3>2 DEF Active
      <4>2. /\ promise[pending[i].promise].settled # "resolved"
            /\ \A n \in Name : ~Joined(n, pending[i].promise)
        BY <3>2 DEF SettledByOne
      <4>3. promise'[pending'[i].promise].settled # "resolved"
        BY <2>4, <4>1, <4>2 DEF Told
      <4>4. ASSUME NEW n \in Name, Joined(n, pending[i].promise)' PROVE FALSE
        BY <2>4, <4>1, <4>2, <4>4
      <4> QED BY <4>3, <4>4
    <3> QED BY <3>1, <3>2
  <2> QED BY <2>1, <2>2, <2>3, <2>4 DEF SettledByOne
<1>3. NoneForgotten'
  <2> SUFFICES ASSUME NEW c \in Call, returned'[c] # None, promise'[returned'[c]].settled = "no"
               PROVE  \/ \E i \in Id : pending'[i] # None /\ pending'[i].promise = returned'[c]
                      \/ \E n \in Name : Joined(n, returned[c])'
    BY DEF NoneForgotten, Joined
  <2>1. CASE returned[c] = None
    BY <2>1
  <2>2. CASE returned[c] # None
    <3>1. returned'[c] = returned[c] /\ returned[c] \in Call
      BY <1>0, <2>2
    <3>2. ~Contains(S, returned[c]) /\ promise[returned[c]].settled = "no"
      BY <3>1 DEF Told
    <3>3. CASE \E i \in Id : pending[i] # None /\ pending[i].promise = returned[c]
      BY <3>1, <3>2, <3>3
    <3>4. CASE \E n \in Name : Joined(n, returned[c])
      BY <3>1, <3>2, <3>4
    <3> QED BY <2>2, <3>2, <3>3, <3>4 DEF NoneForgotten, Joined
  <2> QED BY <2>1, <2>2
<1> QED BY <1>1, <1>2, <1>3

-----------------------------------------------------------------------------
(* lookup().                                                                 *)

LEMMA PendingTyped ==
    ASSUME TypeOK, NEW i \in Id, pending[i] # None
    PROVE  /\ pending[i] \in Lookups
           /\ pending[i].name \in Name \ Local /\ pending[i].promise \in Call
           /\ pending[i].repeated \in 0..MaxRepeats /\ pending[i].result \in BOOLEAN
<1>1. pending[i] \in Lookups
  BY DEF TypeOK
<1> QED BY <1>1 DEF Lookups

\* The caller's promise, or the timer's, is not resolved, and there is no
\* query with it but the timer's.
LEMMA LookUpFacts ==
    ASSUME ResolverInv, NEW n \in Name, NEW p \in Call, NEW i \in Id \cup {0}, MayLookUp(n, p, i)
    PROVE  /\ Thinned(Unfired(i))
           /\ promise[p].settled # "resolved"
           /\ \A m \in Name : ~Joined(m, p)
           /\ \A j \in Id : pending[j] # None /\ pending[j].promise = p => j = i
           /\ i = 0 => returned[p] = None /\ promise[p].settled = "no"
           /\ i # 0 => /\ i \in Id /\ pending[i] # None /\ pending[i].name = n /\ pending[i].promise = p
                       /\ ~Contains(Unfired(i), i) /\ pending[i].repeated < MaxRepeats
                       /\ returned[p] # None
                       /\ 1 \in Positions /\ timers[1] = i
<1> USE DEF ResolverInv, QueriesInv, PromisesInv
<1>1. CASE i = 0
  <2>1. Unfired(i) = timers /\ returned[p] = None
    BY <1>1 DEF Unfired, MayLookUp
  <2>2. Thinned(timers)
    BY ThinnedSame
  <2>3. promise[p].settled = "no"
    BY <2>1 DEF PromisesOwned
  <2>4. \A m \in Name : ~Joined(m, p)
    BY <2>1 DEF PromisesOwned
  <2>5. \A j \in Id : pending[j] # None => pending[j].promise # p
    BY <2>1 DEF PromisesOwned
  <2> QED BY <1>1, <2>1, <2>2, <2>3, <2>4, <2>5
<1>2. CASE i # 0
  <2>1. /\ i \in Id /\ timers # <<>> /\ Head(timers) = i /\ Unfired(i) = Tail(timers)
        /\ pending[i].name = n /\ pending[i].promise = p /\ pending[i].repeated < MaxRepeats
    BY <1>2 DEF MayLookUp, Unfired
  <2>2. /\ pending[i] # None /\ 1 \in Positions /\ timers[1] = i
        /\ Thinned(Unfired(i)) /\ ~Contains(Unfired(i), i)
    BY <2>1, ThinnedTail
  <2>3. Active(i)
    BY <2>2 DEF Active, Contains, Positions
  <2>4. promise[p].settled # "resolved" /\ \A m \in Name : ~Joined(m, p)
    BY <2>1, <2>3 DEF SettledByOne
  <2>5. returned[p] # None
    BY <2>1, <2>2 DEF PromisesOwned
  <2>6. \A j \in Id : pending[j] # None /\ pending[j].promise = p => j = i
    BY <2>1, <2>2 DEF SettledByOne
  <2> QED BY <1>2, <2>1, <2>2, <2>4, <2>5, <2>6
<1> QED BY <1>1, <1>2

\* lookup() settles its own promise or none, and returns a promise to a caller.
LEMMA FinishFacts ==
    ASSUME ResolverInv, NEW n \in Name, NEW p \in Call, NEW i \in Id \cup {0}, MayLookUp(n, p, i),
           NEW S \in Seq(Call), \A x \in Call : Contains(S, x) => x = p,
           NEW how \in {"no", "resolved", "rejected"}, NEW q \in Call, Finish(p, i, S, how, q)
    PROVE  /\ Told(S, how)
           /\ returned' = IF i = 0 THEN [returned EXCEPT ![p] = q] ELSE returned
           /\ \A c \in Call : returned[c] # None => returned'[c] = returned[c]
           /\ \A c \in Call : returned[c] = None /\ returned'[c] # None => i = 0 /\ c = p /\ returned'[c] = q
           /\ returned'[p] # None
<1>3. promise[p].settled # "resolved" /\ (i = 0 => returned[p] = None) /\ (i # 0 => returned[p] # None)
  BY LookUpFacts
<1>4. TypeOK /\ PromisesOwned
  BY DEF ResolverInv, PromisesInv
<1>5. CASE i = 0
  <2>1. Return(p, q, Settled(S, how))
    BY <1>5 DEF Finish
  <2>2. Told(S, how) /\ returned' = [returned EXCEPT ![p] = q]
    BY <1>3, <1>4, <1>5, <2>1, ReturnFacts
  <2> QED BY <1>3, <1>4, <1>5, <2>2, ResolverAssumption DEF TypeOK
<1>6. CASE i # 0
  <2>1. Settle(S, how)
    BY <1>6 DEF Finish
  <2>2. Told(S, how) /\ returned' = returned
    BY <1>3, <1>4, <2>1, SettleFacts
  <2> QED BY <1>3, <1>6, <2>2
<1> QED BY <1>5, <1>6

\* lookup() that starts no query keeps the invariant of the queries.
LEMMA LookUpKeepsQueries ==
    ASSUME ResolverInv, cache' = Flushed, pending' = pending, ids' = ids, Thinned(timers')
    PROVE  QueriesInv'
<1>1. TypeOK /\ QueriesInv
  BY DEF ResolverInv
<1>2. \A n \in Name : Unfinished(n)' <=> Unfinished(n)
  <2>1. \A n \in Name : Unfinished(n)' <=> Flushed[n] # None /\ ~Flushed[n].done
    BY DEF Unfinished
  <2> QED BY <1>1, <2>1, FlushedFacts
<1>3. \A n \in Name : Unfinished(n) => cache'[n].id = cache[n].id
  BY <1>1, FlushedFacts
<1>4. \A i \in Id : pending'[i] # None =>
          /\ pending[i] # None /\ pending'[i].name = pending[i].name
          /\ pending'[i].result => pending[i].result /\ Unfinished(pending[i].name)'
  <2> SUFFICES ASSUME NEW i \in Id, pending[i] # None, pending[i].result
               PROVE  Unfinished(pending[i].name)'
    OBVIOUS
  <2>1. pending[i].name \in Name /\ Unfinished(pending[i].name)
    BY <1>1, PendingTyped DEF QueriesInv, ResultsAgree
  <2> QED BY <1>2, <2>1
<1> QED BY <1>1, <1>2, <1>3, <1>4, QueriesKept

LEMMA ThinnedContains ==
    ASSUME NEW t, Thinned(t), NEW i \in Id, Contains(t, i)
    PROVE  Contains(timers, i)
<1>1. PICK k \in 1..Len(t) : t[k] = i
  BY DEF Contains
<1>2. PICK l \in Positions : t[k] = timers[l]
  BY DEF Thinned
<1> QED BY <1>1, <1>2 DEF Contains, Positions

\* lookup() that starts no query keeps the invariant of the promises: it may
\* settle its own promise or let it join the resolution of its name.
LEMMA LookUpKeepsPromises ==
    ASSUME ResolverInv, NEW n \in Name, NEW p \in Call, NEW i \in Id \cup {0}, MayLookUp(n, p, i),
           NEW S \in Seq(Call), \A x \in Call : Contains(S, x) => x = p,
           NEW how \in {"no", "resolved", "rejected"}, NEW q \in Call, Finish(p, i, S, how, q),
           Contains(S, p) => how # "no",
           pending' = pending, wire' = wire, timers' = Unfired(i), NothingLeft',
           \/ promise'[q].settled # "no"
           \/ \E j \in Id : pending[j] # None /\ pending[j].promise = q
           \/ \E m \in Name : Joined(m, q)',
           NEW joins \in BOOLEAN, joins => ~Contains(S, p) /\ wire = {},
           \A m \in Name, x \in Call : Joined(m, x)' <=> Joined(m, x) \/ (joins /\ m = n /\ x = p),
           how = "resolved" /\ i # 0 => wire = {} \/ ~pending[i].result
    PROVE  PromisesInv' /\ ResolvedKept
<1>1. TypeOK /\ PromisesInv /\ QueriesInv
  BY DEF ResolverInv
<1>2. /\ Thinned(timers')
      /\ promise[p].settled # "resolved" /\ \A m \in Name : ~Joined(m, p)
      /\ \A j \in Id : pending[j] # None /\ pending[j].promise = p => j = i
      /\ i # 0 => ~Contains(timers', i)
  BY LookUpFacts
<1>3. /\ Told(S, how)
      /\ \A c \in Call : returned[c] # None => returned'[c] = returned[c]
      /\ \A c \in Call : returned[c] = None /\ returned'[c] # None => i = 0 /\ c = p /\ returned'[c] = q
      /\ returned'[p] # None
  BY FinishFacts
<1>5. \A j \in Id : Active(j)' => Active(j) /\ (Contains(timers', j) \/ (j \in wire /\ pending[j].result))
  BY <1>2, ThinnedContains DEF Active
<1>6. ASSUME NEW j \in Id, Active(j)', pending'[j].promise = p
      PROVE  j = i /\ i # 0 /\ i \in wire /\ pending[i].result
  <2>1. pending[j] # None /\ j = i /\ i # 0
    BY <1>2, <1>5, <1>6 DEF Active, Id
  <2> QED BY <1>2, <1>5, <1>6, <2>1
<1>7. \A j \in Id : pending[j] # None => pending[j].promise \in Call
  BY <1>1, PendingTyped
<1>8. ASSUME NEW c \in Call, returned[c] = None, returned'[c] # None
      PROVE  \/ promise'[returned'[c]].settled # "no"
             \/ \E j \in Id : pending'[j] # None /\ pending'[j].promise = returned'[c]
             \/ \E m \in Name : Joined(m, returned[c])'
  <2>1. returned'[c] = q
    BY <1>3, <1>8
  <2>2. \A m \in Name : Joined(m, q)' <=> Joined(m, returned[c])'
    BY <2>1 DEF Joined
  <2> QED BY <2>1, <2>2
<1>9. ASSUME NEW m \in Name, NEW x \in Call, ~Joined(m, x), Joined(m, x)'
      PROVE  /\ returned'[x] # None /\ promise'[x].settled # "resolved"
             /\ \A l \in Name : Joined(l, x)' => l = m
             /\ \A j \in Id : Active(j)' => pending'[j].promise # x
  <2>1. joins /\ m = n /\ x = p /\ ~Contains(S, p) /\ wire = {}
    BY <1>9
  <2>2. promise'[p].settled # "resolved"
    BY <1>2, <1>3, <2>1 DEF Told
  <2> QED BY <1>2, <1>3, <1>6, <2>1, <2>2
<1>10. ASSUME how = "resolved", NEW x \in Call, Contains(S, x)
       PROVE  /\ \A m \in Name : ~Joined(m, x)'
              /\ \A j \in Id : Active(j)' => pending'[j].promise # x
  <2>1. x = p /\ ~joins
    BY <1>10
  <2> QED BY <1>2, <1>6, <1>10, <2>1
<1>11. PromisesInv'
  BY <1>1, <1>3, <1>5, <1>7, <1>8, <1>9, <1>10, PromisesKept
<1> QED BY <1>3, <1>11 DEF Told

LEMMA StepLookupLocal ==
    ASSUME ResolverInv, NEW n \in Name, NEW c \in Call, LookupLocal(n, c)
    PROVE  ResolverInv' /\ ResolvedKept
<1> USE DEF LookupLocal, network
<1>1. TypeOK /\ MayLookUp(n, c, 0) /\ Finish(c, 0, <<c>>, "resolved", c) /\ 0 \in Id \cup {0}
  BY DEF ResolverInv, Finish
<1>2. timers' = Unfired(0) /\ Thinned(timers')
  BY <1>1, ThinnedSame DEF Unfired
<1>3. QueriesInv'
  BY <1>2, LookUpKeepsQueries
<1>4. Told(<<c>>, "resolved")
  BY <1>1, Alone, FinishFacts
<1>5. TypeOK'
  BY <1>1, <1>4, FlushedFacts DEF TypeOK, Told
<1>6. NothingLeft'
  BY DEF NothingLeft, ResolverInv, PromisesInv
<1>7. promise'[c].settled # "no"
  BY <1>4, Alone DEF Told
<1>8. \A m \in Name, x \in Call : Joined(m, x)' <=> Joined(m, x) \/ (FALSE /\ m = n /\ x = c)
  BY DEF Joined
<1>9. PromisesInv' /\ ResolvedKept
  <2> DEFINE S == <<c>>
  <2>1. S \in Seq(Call) /\ (\A x \in Call : Contains(S, x) => x = c) /\ Finish(c, 0, S, "resolved", c)
    BY <1>1, Alone
  <2> HIDE DEF S
  <2> QED BY <1>1, <1>2, <1>6, <1>7, <1>8, <2>1, LookUpKeepsPromises
<1> QED BY <1>3, <1>5, <1>9 DEF ResolverInv

LEMMA StepLookupCached ==
    ASSUME ResolverInv, NEW n \in Name, NEW p \in Call, NEW i \in Id \cup {0}, LookupCached(n, p, i)
    PROVE  ResolverInv' /\ ResolvedKept
<1> USE DEF LookupCached, network
<1>1. TypeOK /\ MayLookUp(n, p, i) /\ Finish(p, i, <<p>>, "resolved", p)
  BY DEF ResolverInv
<1>2. timers' = Unfired(i) /\ Thinned(timers')
  BY <1>1, LookUpFacts
<1>3. QueriesInv'
  BY <1>2, LookUpKeepsQueries
<1>4. Told(<<p>>, "resolved")
  BY <1>1, Alone, FinishFacts
<1>5. TypeOK'
  BY <1>1, <1>2, <1>4, FlushedFacts DEF TypeOK, Told, Thinned
<1>6. NothingLeft'
  BY DEF NothingLeft, ResolverInv, PromisesInv
<1>7. promise'[p].settled # "no"
  BY <1>4, Alone DEF Told
<1>8. \A m \in Name, x \in Call : Joined(m, x)' <=> Joined(m, x) \/ (FALSE /\ m = n /\ x = p)
  BY DEF Joined
<1>9. i # 0 => ~pending[i].result
  <2>1. ~Unfinished(n)
    BY <1>1, FlushedFacts DEF Hit
  <2>2. i # 0 => i \in Id /\ pending[i] # None /\ pending[i].name = n
    BY <1>1, LookUpFacts
  <2> QED BY <2>1, <2>2 DEF ResolverInv, QueriesInv, ResultsAgree
<1>10. PromisesInv' /\ ResolvedKept
  <2> DEFINE S == <<p>>
  <2>1. S \in Seq(Call) /\ (\A x \in Call : Contains(S, x) => x = p) /\ Finish(p, i, S, "resolved", p)
    BY <1>1, Alone
  <2> HIDE DEF S
  <2> QED BY <1>1, <1>2, <1>6, <1>7, <1>8, <1>9, <2>1, LookUpKeepsPromises
<1> QED BY <1>3, <1>5, <1>10 DEF ResolverInv

LEMMA StepLookupSystem ==
    ASSUME ResolverInv, NEW n \in Name, NEW p \in Call, NEW i \in Id \cup {0}, LookupSystem(n, p, i)
    PROVE  ResolverInv' /\ ResolvedKept
<1> USE DEF LookupSystem, network
<1>1. TypeOK /\ MayLookUp(n, p, i) /\ wire = {} /\ wire' = wire /\ pending' = pending /\ cache' = Flushed
  BY DEF ResolverInv, PromisesInv, NothingLeft
<1>2. timers' = Unfired(i) /\ Thinned(timers')
  BY <1>1, LookUpFacts
<1>3. QueriesInv'
  BY <1>2, LookUpKeepsQueries
<1>4. ASSUME promise' \in [Call -> Promises], returned' \in [Call -> Call \cup {None}], heard' \in [Call -> Nat],
             system' \in [Name -> Resolutions \cup {None}],
             \A m \in Name : system'[m] # None => system'[m].records \subseteq system'[m].completed
      PROVE  TypeOK'
  BY <1>1, <1>2, <1>4, FlushedFacts DEF TypeOK, Thinned
<1>5. system[n] # None => system[n] \in Resolutions
  BY <1>1 DEF TypeOK
<1>6. NothingLeft
  BY DEF ResolverInv, PromisesInv
<1>7. ASSUME NEW s \in Resolutions, system' = [system EXCEPT ![n] = s], Finish(p, i, <<>>, "no", p),
             s.records \subseteq s.completed, ~s.finalized,
             \A x \in Call : Contains(s.waiting, x) <=> Joined(n, x) \/ x = p
      PROVE  ResolverInv' /\ ResolvedKept
  <2>1. s # None
    BY ResolverAssumption
  <2>2. Told(<<>>, "no")
    BY <1>1, <1>7, Alone, FinishFacts
  <2>3. TypeOK'
    BY <1>1, <1>4, <1>7, <2>2 DEF TypeOK, Told
  <2>4. NothingLeft'
    BY <1>1, <1>6, <1>7 DEF NothingLeft, TypeOK
  <2>5. \A m \in Name, x \in Call : Joined(m, x)' <=> Joined(m, x) \/ (TRUE /\ m = n /\ x = p)
    BY <1>1, <1>7, <2>1 DEF Joined, TypeOK
  <2>6. PromisesInv' /\ ResolvedKept
    <3> DEFINE S == <<>>
    <3>1. S \in Seq(Call) /\ (\A x \in Call : Contains(S, x) => x = p) /\ ~Contains(S, p) /\ Finish(p, i, S, "no", p)
      BY <1>7, Alone
    <3>2. \E m \in Name : Joined(m, p)'
      BY <2>5
    <3> HIDE DEF S
    <3> QED BY <1>1, <1>2, <2>4, <2>5, <3>1, <3>2, LookUpKeepsPromises
  <2> QED BY <1>3, <2>3, <2>6 DEF ResolverInv
<1>8. CASE system[n] = None
  <2> DEFINE s == [records |-> {}, completed |-> {}, finalized |-> FALSE, grace |-> FALSE, waiting |-> <<p>>]
  <2>1. s \in Resolutions
    BY Alone DEF Resolutions
  <2>2. \A x \in Call : Contains(s.waiting, x) <=> Joined(n, x) \/ x = p
    BY <1>8, Alone DEF Joined
  <2>3. system' = [system EXCEPT ![n] = s] /\ Finish(p, i, <<>>, "no", p)
    BY <1>8
  <2>4. s.records \subseteq s.completed /\ ~s.finalized
    OBVIOUS
  <2> HIDE DEF s
  <2> QED BY <1>7, <2>1, <2>2, <2>3, <2>4
<1>9. CASE system[n] # None /\ ~system[n].finalized
  <2> DEFINE s == [system[n] EXCEPT !.waiting = Append(@, p)]
  <2>1. s \in Resolutions /\ s.records = system[n].records /\ s.completed = system[n].completed
        /\ ~s.finalized /\ s.waiting = Append(system[n].waiting, p) /\ system[n].waiting \in Seq(Call)
    BY <1>5, <1>9, AppendProperties DEF Resolutions
  <2>2. \A x \in Call : Contains(s.waiting, x) <=> Joined(n, x) \/ x = p
    BY <1>9, <2>1, ContainsFacts DEF Joined
  <2>3. system' = [system EXCEPT ![n] = s] /\ Finish(p, i, <<>>, "no", p)
    BY <1>1, <1>9 DEF TypeOK
  <2>4. s.records \subseteq s.completed
    BY <1>1, <1>9, <2>1 DEF TypeOK
  <2> HIDE DEF s
  <2> QED BY <1>7, <2>1, <2>2, <2>3, <2>4
<1>10. CASE system[n] # None /\ system[n].finalized
  <2> DEFINE how == IF system[n].records = {} THEN "rejected" ELSE "resolved"
  <2>1. Finish(p, i, <<p>>, how, p) /\ system' = system /\ how \in {"no", "resolved", "rejected"} /\ how # "no"
    BY <1>10
  <2> HIDE DEF how
  <2>2. Told(<<p>>, how)
    <3> DEFINE S == <<p>>
    <3>1. S \in Seq(Call) /\ (\A x \in Call : Contains(S, x) => x = p) /\ Finish(p, i, S, how, p)
      BY <2>1, Alone
    <3> HIDE DEF S
    <3>2. Told(S, how)
      BY <1>1, <2>1, <3>1, FinishFacts
    <3> QED BY <3>2 DEF S
  <2>3. TypeOK'
    BY <1>1, <1>4, <2>1, <2>2 DEF TypeOK, Told
  <2>4. NothingLeft'
    BY <1>1, <1>6, <2>1 DEF NothingLeft
  <2>5. \A m \in Name, x \in Call : Joined(m, x)' <=> Joined(m, x) \/ (FALSE /\ m = n /\ x = p)
    BY <2>1 DEF Joined
  <2>6. promise'[p].settled # "no"
    BY <2>1, <2>2, Alone DEF Told
  <2>7. PromisesInv' /\ ResolvedKept
    <3> DEFINE S == <<p>>
    <3>1. S \in Seq(Call) /\ (\A x \in Call : Contains(S, x) => x = p) /\ Finish(p, i, S, how, p)
      BY <2>1, Alone
    <3> HIDE DEF S
    <3> QED BY <1>1, <1>2, <2>1, <2>4, <2>5, <2>6, <3>1, LookUpKeepsPromises
  <2> QED BY <1>3, <2>3, <2>7 DEF ResolverInv
<1> QED BY <1>8, <1>9, <1>10

LEMMA StepLookupPending ==
    ASSUME ResolverInv, NEW n \in Name, NEW p \in Call, NEW i \in Id \cup {0}, LookupPending(n, p, i)
    PROVE  ResolverInv' /\ ResolvedKept
<1> USE DEF LookupPending
<1> DEFINE q == pending[Flushed[n].id].promise
<1>1. TypeOK /\ MayLookUp(n, p, i) /\ Finish(p, i, <<>>, "no", q)
  BY DEF ResolverInv
<1>2. timers' = Unfired(i) /\ Thinned(timers')
  BY <1>1, LookUpFacts
<1>3. QueriesInv'
  BY <1>2, LookUpKeepsQueries
<1>4. Flushed[n].id \in Id /\ pending[Flushed[n].id] # None /\ q \in Call
  <2>1. Unfinished(n) /\ Flushed[n].id = cache[n].id
    BY <1>1, FlushedFacts DEF Hit
  <2>2. Flushed[n].id \in Id
    BY <2>1 DEF ResolverInv, QueriesInv, IdsUsed
  <2> QED BY <1>1, <2>2, PendingTyped
<1>5. \E j \in Id : pending[j] # None /\ pending[j].promise = q
  BY <1>4
<1> HIDE DEF q
<1>6. Told(<<>>, "no")
  BY <1>1, <1>4, Alone, FinishFacts
<1>7. TypeOK'
  BY <1>1, <1>2, <1>6, FlushedFacts DEF TypeOK, Told, Thinned
<1>8. NothingLeft'
  BY DEF NothingLeft, ResolverInv, PromisesInv
<1>9. \A m \in Name, x \in Call : Joined(m, x)' <=> Joined(m, x) \/ (FALSE /\ m = n /\ x = p)
  BY DEF Joined
<1>10. PromisesInv' /\ ResolvedKept
  <2> DEFINE S == <<>>
  <2>1. S \in Seq(Call) /\ (\A x \in Call : Contains(S, x) => x = p) /\ ~Contains(S, p) /\ Finish(p, i, S, "no", q)
    BY <1>1, Alone
  <2> HIDE DEF S
  <2> QED BY <1>1, <1>2, <1>4, <1>5, <1>8, <1>9, <2>1, LookUpKeepsPromises
<1> QED BY <1>3, <1>7, <1>10 DEF ResolverInv

-----------------------------------------------------------------------------
(* Timers, answers and workers: a query or a wait ends.                      *)

\* PromisesKept for a step that starts nothing.
LEMMA PromisesEnd ==
    ASSUME ResolverInv, NEW S, NEW how, Told(S, how), NothingLeft', returned' = returned,
           \A p \in Call : Contains(S, p) => how # "no" /\ returned[p] # None,
           \A i \in Id : pending'[i] # None => pending[i] # None /\ pending'[i].promise = pending[i].promise,
           \A i \in Id : pending[i] # None /\ pending'[i] = None => Contains(S, pending[i].promise),
           \A n \in Name, p \in Call : Joined(n, p)' => Joined(n, p),
           \A n \in Name, p \in Call : Joined(n, p) /\ ~Joined(n, p)' => Contains(S, p),
           \A i \in Id : Active(i)' => Active(i),
           how = "resolved" => \A p \in Call : Contains(S, p) =>
               /\ \A n \in Name : ~Joined(n, p)'
               /\ \A i \in Id : Active(i)' => pending'[i].promise # p
    PROVE  PromisesInv' /\ ResolvedKept
<1>1. TypeOK /\ PromisesInv
  BY DEF ResolverInv
<1>2. \A i \in Id : pending[i] # None => pending[i].promise \in Call
  BY <1>1, PendingTyped
<1>3. PromisesInv'
  BY <1>1, <1>2, PromisesKept
<1> QED BY <1>3 DEF Told

LEMMA Untold ==
    ASSUME ResolverInv, UNCHANGED callers
    PROVE  Told(<<>>, "no") /\ returned' = returned
<1>1. \A p \in Call : ~Contains(<<>>, p)
  BY ContainsFacts
<1> QED BY <1>1 DEF Told, callers, ResolvedKept, ResolverInv, PromisesInv, PromisesOwned, TypeOK

LEMMA StepRepeatTimedOut ==
    ASSUME ResolverInv, NEW i \in Id, RepeatTimedOut(i)
    PROVE  ResolverInv' /\ ResolvedKept
<1> USE DEF RepeatTimedOut, network
<1> DEFINE q == pending[i].promise
           S == <<q>>
<1>1. TypeOK /\ QueriesInv /\ PromisesInv
  BY DEF ResolverInv
<1>2. /\ pending[i] # None /\ 1 \in Positions /\ timers[1] = i
      /\ Thinned(timers') /\ ~Contains(timers', i)
  BY <1>1, ThinnedTail DEF QueriesInv
<1>3. q \in Call /\ S \in Seq(Call) /\ \A x \in Call : Contains(S, x) <=> x = q
  BY <1>1, <1>2, PendingTyped, Alone
<1>4. Active(i)
  BY <1>2 DEF Active, Contains, Positions
<1>5. promise[q].settled # "resolved" /\ returned[q] # None
  BY <1>1, <1>2, <1>4 DEF PromisesInv, SettledByOne, PromisesOwned
<1>6. Settle(S, "rejected")
  OBVIOUS
<1> HIDE DEF S
<1>7. Told(S, "rejected") /\ returned' = returned
  BY <1>1, <1>3, <1>5, <1>6, SettleFacts DEF PromisesInv
<1>8. TypeOK'
  BY <1>1, <1>2, <1>7, FlushedFacts DEF TypeOK, Told, Thinned
<1>9. /\ pending'[i] = None
      /\ \A j \in Id : j # i => pending'[j] = pending[j]
  BY <1>1 DEF TypeOK
<1>10. QueriesInv'
  <2>1. \A n \in Name : Unfinished(n)' <=> Flushed[n] # None /\ ~Flushed[n].done
    BY DEF Unfinished
  <2>2. \A n \in Name : Unfinished(n)' <=> Unfinished(n)
    BY <1>1, <2>1, FlushedFacts
  <2>3. \A n \in Name : Unfinished(n) => cache'[n].id = cache[n].id
    BY <1>1, FlushedFacts
  <2>4. ASSUME NEW j \in Id, pending'[j] # None
        PROVE  /\ pending[j] # None /\ pending'[j].name = pending[j].name
               /\ pending'[j].result => pending[j].result /\ Unfinished(pending[j].name)'
    <3>1. j # i /\ pending'[j] = pending[j] /\ pending[j].name \in Name
      BY <1>1, <1>9, <2>4, PendingTyped
    <3> QED BY <1>1, <2>2, <2>4, <3>1 DEF QueriesInv, ResultsAgree
  <2>5. ASSUME NEW n \in Name, Unfinished(n)', cache[n].id = i, NEW k \in 1..Len(timers'),
               pending[timers'[k]].name = n
        PROVE  FALSE
    <3>1. PICK l \in Positions : timers'[k] = timers[l]
      BY <1>2 DEF Thinned
    <3>2. l <= 1
      BY <1>1, <1>2, <2>2, <2>5, <3>1 DEF QueriesInv, OwnTimerLast
    <3>3. l = 1
      BY <3>2 DEF Positions
    <3> QED BY <1>2, <3>1, <3>3 DEF Contains
  <2>6. ids' = ids
    OBVIOUS
  <2> QED BY <1>1, <1>2, <1>9, <2>2, <2>3, <2>4, <2>5, <2>6, QueriesKept
<1>11. NothingLeft'
  BY <1>1 DEF NothingLeft, PromisesInv
<1>12. \A n \in Name, p \in Call : Joined(n, p)' <=> Joined(n, p)
  BY DEF Joined
<1>13. \A j \in Id : Active(j)' => Active(j)
  BY <1>2, <1>9, ThinnedContains DEF Active
<1>14. PromisesInv' /\ ResolvedKept
  BY <1>2, <1>3, <1>5, <1>7, <1>9, <1>11, <1>12, <1>13, PromisesEnd
<1> QED BY <1>8, <1>10, <1>14 DEF ResolverInv

\* A step that touches no more than the network keeps the invariant when it
\* takes from the wire.
LEMMA StepNetwork ==
    ASSUME ResolverInv, UNCHANGED <<lookups, callers>>, wire' \subseteq wire, socket' \in BOOLEAN, ~socket' => wire' = {}
    PROVE  ResolverInv' /\ ResolvedKept
<1> USE DEF lookups
<1>1. TypeOK /\ QueriesInv /\ PromisesInv
  BY DEF ResolverInv
<1>2. TypeOK'
  BY <1>1 DEF TypeOK, callers
<1>3. QueriesInv'
  BY <1>1 DEF QueriesInv, TimersPending, IdsUsed, ResultsAgree, OwnTimerLast, Unfinished, Positions
<1>4. Told(<<>>, "no") /\ returned' = returned
  BY Untold
<1>5. NothingLeft'
  BY <1>1 DEF PromisesInv, NothingLeft
<1>6. \A n \in Name, p \in Call : Joined(n, p)' <=> Joined(n, p)
  BY DEF Joined
<1>7. \A j \in Id : Active(j)' => Active(j)
  BY DEF Active
<1>8. \A x \in Call : ~Contains(<<>>, x)
  BY ContainsFacts
<1>9. PromisesInv' /\ ResolvedKept
  <2> DEFINE S == <<>>
  <2>1. Told(S, "no") /\ \A x \in Call : ~Contains(S, x)
    BY <1>4, <1>8
  <2> HIDE DEF S
  <2> QED BY <1>4, <1>5, <1>6, <1>7, <2>1, PromisesEnd
<1> QED BY <1>2, <1>3, <1>9 DEF ResolverInv

LEMMA StepReceive ==
    ASSUME ResolverInv, NEW i \in Id, NEW T \in SUBSET Type, Receive(i, T)
    PROVE  ResolverInv' /\ ResolvedKept
<1> DEFINE n == pending[i].name
           q == pending[i].promise
           S == <<q>>
<1>1. TypeOK /\ QueriesInv /\ PromisesInv
  BY DEF ResolverInv
<1>2. socket /\ i \in wire /\ wire' = wire \ {i} /\ socket' = socket /\ system' = system /\ ids' = ids
  BY DEF Receive
<1>3. CASE pending[i] = None \/ ~pending[i].result
  <2>1. UNCHANGED <<lookups, callers>>
    BY <1>2, <1>3 DEF Receive, lookups
  <2> QED BY <1>1, <1>2, <2>1, StepNetwork DEF TypeOK
<1>4. CASE pending[i] # None /\ pending[i].result
  <2>1. /\ cache' = [cache EXCEPT ![n].records = @ \cup T, ![n].valid = @ \/ T # {}, ![n].done = TRUE]
        /\ Settle(S, "resolved")
        /\ pending' = [pending EXCEPT ![i] = None]
        /\ timers' = Stopped(i)
    BY <1>4 DEF Receive
  <2>2. n \in Name /\ q \in Call /\ S \in Seq(Call) /\ \A x \in Call : Contains(S, x) <=> x = q
    BY <1>1, <1>4, PendingTyped, Alone
  <2>3. Unfinished(n) /\ cache[n].id = i
    BY <1>1, <1>4 DEF QueriesInv, ResultsAgree
  <2>4. Active(i)
    BY <1>2, <1>4 DEF Active
  <2>5. promise[q].settled # "resolved" /\ returned[q] # None /\ \A m \in Name : ~Joined(m, q)
    BY <1>1, <1>4, <2>4 DEF PromisesInv, SettledByOne, PromisesOwned
  <2> HIDE DEF S
  <2>6. Told(S, "resolved") /\ returned' = returned
    BY <1>1, <2>1, <2>2, <2>5, SettleFacts DEF PromisesInv
  <2>7. Thinned(timers') /\ ~Contains(timers', i)
    BY <1>1, <2>1, ThinnedStopped DEF QueriesInv
  <2>8. /\ pending'[i] = None
        /\ \A j \in Id : j # i => pending'[j] = pending[j]
    BY <1>1, <2>1 DEF TypeOK
  <2>9. /\ cache' \in [Name -> Results \cup {None}]
        /\ cache'[n].done
        /\ \A m \in Name : m # n => cache'[m] = cache[m]
    <3>1. cache[n] \in Results
      BY <1>1, <2>2, <2>3 DEF TypeOK, Unfinished
    <3> HIDE DEF n
    <3> QED BY <1>1, <2>1, <2>2, <3>1 DEF TypeOK, Results
  <2>10. TypeOK'
    BY <1>1, <1>2, <2>1, <2>6, <2>7, <2>9 DEF TypeOK, Told, Thinned
  <2> HIDE DEF n
  <2>11. QueriesInv'
    <3>1. \A m \in Name : Unfinished(m)' => m # n /\ Unfinished(m) /\ cache'[m].id = cache[m].id
      BY <2>9 DEF Unfinished
    <3>2. \A m \in Name : m # n /\ Unfinished(m) => Unfinished(m)'
      BY <2>9 DEF Unfinished
    <3>3. ASSUME NEW j \in Id, pending'[j] # None
          PROVE  /\ pending[j] # None /\ pending'[j].name = pending[j].name
                 /\ pending'[j].result => pending[j].result /\ Unfinished(pending[j].name)'
      <4>1. j # i /\ pending'[j] = pending[j] /\ pending[j].name \in Name
        BY <1>1, <2>8, <3>3, PendingTyped
      <4>2. pending[j].result => Unfinished(pending[j].name) /\ cache[pending[j].name].id = j
        BY <1>1, <3>3, <4>1 DEF QueriesInv, ResultsAgree
      <4> QED BY <2>3, <3>2, <3>3, <4>1, <4>2
    <3>4. \A m \in Name : Unfinished(m)' => cache[m].id # i
      BY <1>1, <2>2, <2>3, <3>1 DEF QueriesInv, IdsUsed
    <3> QED BY <1>1, <1>2, <2>7, <2>8, <3>1, <3>3, <3>4, QueriesKept
  <2>12. NothingLeft'
    BY <1>1, <1>2 DEF NothingLeft, PromisesInv
  <2>13. \A m \in Name, p \in Call : Joined(m, p)' <=> Joined(m, p)
    BY <1>2 DEF Joined
  <2>14. \A j \in Id : Active(j)' => j # i /\ Active(j)
    BY <1>2, <2>7, <2>8, ThinnedContains DEF Active
  <2>15. \A j \in Id : Active(j)' => pending'[j].promise # q
    BY <1>1, <1>4, <2>8, <2>14 DEF PromisesInv, SettledByOne, Active
  <2> HIDE DEF q
  <2>16. PromisesInv' /\ ResolvedKept
    BY <1>4, <2>2, <2>5, <2>6, <2>8, <2>12, <2>13, <2>14, <2>15, PromisesEnd DEF q
  <2> QED BY <2>10, <2>11, <2>16 DEF ResolverInv
<1> QED BY <1>3, <1>4

\* Finalizing the resolution of n settles the promises that wait for it, once.
LEMMA FinalizeFacts ==
    ASSUME ResolverInv, NEW n \in Name, system[n] # None, NEW s, s.waiting = system[n].waiting,
           s.finalized = system[n].finalized, Finalize(s)
    PROVE  \E S \in Seq(Call), how \in {"no", "resolved", "rejected"} :
               /\ Told(S, how) /\ returned' = returned
               /\ \A p \in Call : Contains(S, p) => how # "no"
               /\ \A p \in Call : Contains(S, p) <=> Joined(n, p)
<1>1. TypeOK /\ PromisesInv
  BY DEF ResolverInv
<1>2. system[n] \in Resolutions
  BY <1>1 DEF TypeOK
<1>3. s.waiting \in Seq(Call) /\ s.finalized \in BOOLEAN
  BY <1>2 DEF Resolutions
<1>4. \A p \in Call : Contains(s.waiting, p) <=> Joined(n, p)
  BY DEF Joined
<1>5. CASE s.finalized
  <2>1. UNCHANGED callers
    BY <1>5 DEF Finalize
  <2>2. s.waiting = <<>>
    BY <1>1, <1>5 DEF PromisesInv, NothingLeft
  <2>3. Told(<<>>, "no") /\ returned' = returned
    BY <2>1, Untold
  <2>4. Told(s.waiting, "no") /\ \A p \in Call : ~Contains(s.waiting, p)
    BY <2>2, <2>3, ContainsFacts
  <2> QED BY <1>3, <1>4, <2>3, <2>4
<1>6. CASE ~s.finalized
  <2> DEFINE how == IF s.records = {} THEN "rejected" ELSE "resolved"
  <2>1. Settle(s.waiting, how) /\ how \in {"no", "resolved", "rejected"} /\ how # "no"
    BY <1>6 DEF Finalize
  <2> HIDE DEF how
  <2>2. \A p \in Call : Contains(s.waiting, p) => promise[p].settled # "resolved"
    BY <1>1, <1>4 DEF PromisesInv, SettledByOne
  <2>3. Told(s.waiting, how) /\ returned' = returned
    BY <1>1, <1>3, <2>1, <2>2, SettleFacts DEF PromisesInv
  <2> QED BY <1>3, <1>4, <2>1, <2>3
<1> QED BY <1>3, <1>5, <1>6

\* The wait for n ends; the promises that waited may not be settled by others.
LEMMA WaitEnds ==
    ASSUME ResolverInv, NEW n \in Name, NEW S \in Seq(Call), NEW how \in {"no", "resolved", "rejected"},
           Told(S, how), returned' = returned,
           \A p \in Call : Contains(S, p) => how # "no",
           \A p \in Call : Contains(S, p) <=> Joined(n, p),
           NothingLeft',
           \A p \in Call : ~Joined(n, p)',
           \A m \in Name \ {n}, p \in Call : Joined(m, p)' <=> Joined(m, p),
           \A i \in Id : pending'[i] # None <=> pending[i] # None,
           \A i \in Id : pending[i] # None => pending'[i].promise = pending[i].promise,
           \A i \in Id : Active(i)' => Active(i)
    PROVE  PromisesInv' /\ ResolvedKept
<1>1. TypeOK /\ PromisesInv
  BY DEF ResolverInv
<1>2. \A p \in Call : Contains(S, p) => returned[p] # None
  BY <1>1 DEF PromisesInv, PromisesOwned
<1>3. \A m \in Name, p \in Call : Joined(m, p)' => Joined(m, p)
  OBVIOUS
<1>4. \A m \in Name, p \in Call : Joined(m, p) /\ ~Joined(m, p)' => Contains(S, p)
  OBVIOUS
<1>5. ASSUME NEW p \in Call, Contains(S, p), NEW m \in Name PROVE ~Joined(m, p)'
  BY <1>1, <1>3, <1>5 DEF PromisesInv, SettledByOne
<1>6. ASSUME NEW p \in Call, Contains(S, p), NEW i \in Id, Active(i)' PROVE pending'[i].promise # p
  <2>1. Active(i) /\ pending[i] # None /\ pending'[i].promise = pending[i].promise
    BY <1>6 DEF Active
  <2> QED BY <1>1, <1>6, <2>1 DEF PromisesInv, SettledByOne
<1> QED BY <1>2, <1>3, <1>4, <1>5, <1>6, PromisesEnd

LEMMA StepWorkerCompletes ==
    ASSUME ResolverInv, NEW n \in Name, NEW t \in Type, NEW found \in BOOLEAN, WorkerCompletes(n, t, found)
    PROVE  ResolverInv' /\ ResolvedKept
<1> DEFINE s == [system[n] EXCEPT !.completed = @ \cup {t}, !.records = IF found THEN @ \cup {t} ELSE @]
<1>1. TypeOK /\ QueriesInv /\ PromisesInv
  BY DEF ResolverInv
<1>2. system[n] # None /\ timers' = timers /\ ids' = ids /\ wire' = wire /\ socket' = socket
  BY DEF WorkerCompletes, network
<1>3. system[n] \in Resolutions /\ system[n].records \subseteq system[n].completed
  BY <1>1, <1>2 DEF TypeOK
<1>4. /\ s \in Resolutions /\ s.records \subseteq s.completed /\ s.records \subseteq Type
      /\ s.waiting = system[n].waiting /\ s.finalized = system[n].finalized
  BY <1>3 DEF Resolutions
<1>5. Thinned(timers)
  BY <1>1, ThinnedSame
<1>6. CASE s.completed = Type
  <2> DEFINE r == [NewResult(0) EXCEPT !.records = s.records, !.valid = s.records # {}, !.done = TRUE]
  <2>1. /\ cache' = [cache EXCEPT ![n] = r]
        /\ pending' = Purged(n)
        /\ system' = [system EXCEPT ![n] = None]
        /\ Finalize(s)
    BY <1>6 DEF WorkerCompletes
  <2>2. r \in Results /\ r.done
    <3>1. 0 \in 0..MaxQueries
      BY ResolverAssumption
    <3> HIDE DEF s
    <3> QED BY <1>4, <3>1 DEF NewResult, Results
  <2> HIDE DEF r, s
  <2>3. ASSUME NEW i \in Id \cup {0}
        PROVE  /\ pending'[i] \in Lookups \cup {None}
               /\ pending'[i] # None <=> pending[i] # None
               /\ pending[i] # None =>
                      /\ pending'[i].promise = pending[i].promise /\ pending'[i].name = pending[i].name
                      /\ pending'[i].result => pending[i].result /\ pending[i].name # n
    <3>1. pending[i] \in Lookups \cup {None}
      BY <1>1 DEF TypeOK
    <3>2. pending'[i] = IF pending[i] # None /\ pending[i].name = n
                        THEN [pending[i] EXCEPT !.result = FALSE] ELSE pending[i]
      BY <1>1, <2>1 DEF Purged, TypeOK
    <3>3. CASE pending[i] # None /\ pending[i].name = n
      <4>1. /\ [pending[i] EXCEPT !.result = FALSE] \in Lookups
            /\ [pending[i] EXCEPT !.result = FALSE].name = pending[i].name
            /\ [pending[i] EXCEPT !.result = FALSE].promise = pending[i].promise
            /\ [pending[i] EXCEPT !.result = FALSE].result = FALSE
        BY <3>1, <3>3 DEF Lookups
      <4> QED BY <3>2, <3>3, <4>1, ResolverAssumption
    <3>4. CASE ~(pending[i] # None /\ pending[i].name = n)
      BY <3>1, <3>2, <3>4
    <3> QED BY <3>3, <3>4
  <2>4. PICK S \in Seq(Call), how \in {"no", "resolved", "rejected"} :
            /\ Told(S, how) /\ returned' = returned
            /\ \A p \in Call : Contains(S, p) => how # "no"
            /\ \A p \in Call : Contains(S, p) <=> Joined(n, p)
    BY <1>2, <1>4, <2>1, FinalizeFacts
  <2>5. TypeOK'
    <3>1. pending' \in [Id \cup {0} -> Lookups \cup {None}]
      BY <1>1, <2>1, <2>3 DEF Purged, TypeOK
    <3>2. cache' \in [Name -> Results \cup {None}]
      BY <1>1, <2>1, <2>2 DEF TypeOK
    <3>3. /\ system' \in [Name -> Resolutions \cup {None}]
          /\ \A m \in Name : system'[m] # None => system'[m].records \subseteq system'[m].completed
      BY <1>1, <2>1 DEF TypeOK
    <3> QED BY <1>1, <1>2, <2>4, <3>1, <3>2, <3>3 DEF TypeOK, Told
  <2>6. QueriesInv'
    <3>1. /\ \A m \in Name : Unfinished(m)' => Unfinished(m) /\ cache'[m].id = cache[m].id
          /\ \A m \in Name : m # n /\ Unfinished(m) => Unfinished(m)'
      BY <1>1, <2>1, <2>2 DEF Unfinished, TypeOK
    <3>2. ASSUME NEW j \in Id, pending'[j] # None
          PROVE  /\ pending[j] # None /\ pending'[j].name = pending[j].name
                 /\ pending'[j].result => pending[j].result /\ Unfinished(pending[j].name)'
      <4>1. /\ pending[j] # None /\ pending'[j].name = pending[j].name /\ pending[j].name \in Name
            /\ pending'[j].result => pending[j].result /\ pending[j].name # n
        BY <1>1, <2>3, <3>2, PendingTyped
      <4>2. pending[j].result => Unfinished(pending[j].name)
        BY <1>1, <4>1 DEF QueriesInv, ResultsAgree
      <4> QED BY <3>1, <4>1, <4>2
    <3> QED BY <1>1, <1>2, <1>5, <2>3, <3>1, <3>2, QueriesKept
  <2>7. NothingLeft'
    BY <1>1, <1>2, <2>1 DEF NothingLeft, PromisesInv, TypeOK
  <2>8. \A p \in Call : ~Joined(n, p)'
    BY <1>1, <2>1 DEF Joined, TypeOK
  <2>9. \A m \in Name \ {n}, p \in Call : Joined(m, p)' <=> Joined(m, p)
    BY <1>1, <2>1 DEF Joined, TypeOK
  <2>10. \A i \in Id : Active(i)' => Active(i)
    BY <1>2, <2>3 DEF Active
  <2>11. PromisesInv' /\ ResolvedKept
    BY <2>3, <2>4, <2>7, <2>8, <2>9, <2>10, WaitEnds
  <2> QED BY <2>5, <2>6, <2>11 DEF ResolverInv
<1>7. CASE s.completed # Type
  <2> DEFINE z == [s EXCEPT !.grace = found]
  <2>1. system' = [system EXCEPT ![n] = z] /\ UNCHANGED <<cache, pending, callers>>
    BY <1>7 DEF WorkerCompletes
  <2> HIDE DEF s
  <2>2. /\ z \in Resolutions /\ z.records \subseteq z.completed
        /\ z.waiting = system[n].waiting /\ z.finalized = system[n].finalized
    BY <1>4 DEF Resolutions
  <2>3. z # None
    BY <2>2, ResolverAssumption
  <2> HIDE DEF z
  <2>4. TypeOK'
    BY <1>1, <1>2, <2>1, <2>2 DEF TypeOK, callers
  <2>5. QueriesInv'
    BY <1>1, <1>2, <2>1 DEF QueriesInv, TimersPending, IdsUsed, ResultsAgree, OwnTimerLast, Unfinished, Positions
  <2>6. NothingLeft'
    BY <1>1, <1>2, <2>1, <2>2 DEF NothingLeft, PromisesInv, TypeOK
  <2>7. \A m \in Name, p \in Call : Joined(m, p)' <=> Joined(m, p)
    BY <1>1, <1>2, <2>1, <2>2, <2>3 DEF Joined, TypeOK
  <2>8. \A i \in Id : Active(i)' <=> Active(i)
    BY <1>2, <2>1 DEF Active
  <2>9. PromisesInv' /\ ResolvedKept
    <3> DEFINE S == <<>>
    <3>1. Told(S, "no") /\ returned' = returned /\ \A x \in Call : ~Contains(S, x)
      BY <2>1, Untold, ContainsFacts
    <3> HIDE DEF S
    <3> QED BY <2>1, <2>6, <2>7, <2>8, <3>1, PromisesEnd
  <2> QED BY <2>4, <2>5, <2>9 DEF ResolverInv
<1> QED BY <1>6, <1>7

LEMMA StepGraceTimeout ==
    ASSUME ResolverInv, NEW n \in Name, GraceTimeout(n)
    PROVE  ResolverInv' /\ ResolvedKept
<1> DEFINE z == [system[n] EXCEPT !.grace = FALSE, !.finalized = TRUE, !.waiting = <<>>]
<1>1. TypeOK /\ QueriesInv /\ PromisesInv
  BY DEF ResolverInv
<1>2. /\ system[n] # None /\ Finalize(system[n]) /\ cache' = cache /\ pending' = pending
      /\ timers' = timers /\ ids' = ids /\ wire' = wire /\ socket' = socket
  BY DEF GraceTimeout, network
<1>3. system[n] \in Resolutions /\ system[n].records \subseteq system[n].completed
  BY <1>1, <1>2 DEF TypeOK
<1>4. system' = [system EXCEPT ![n] = z]
  BY <1>1 DEF GraceTimeout, TypeOK
<1>5. z \in Resolutions /\ z.records \subseteq z.completed /\ z.waiting = <<>>
  <2>1. <<>> \in Seq(Call)
    OBVIOUS
  <2> QED BY <1>3, <2>1 DEF Resolutions
<1> HIDE DEF z
<1>6. PICK S \in Seq(Call), how \in {"no", "resolved", "rejected"} :
          /\ Told(S, how) /\ returned' = returned
          /\ \A p \in Call : Contains(S, p) => how # "no"
          /\ \A p \in Call : Contains(S, p) <=> Joined(n, p)
  BY <1>2, FinalizeFacts
<1>7. TypeOK'
  BY <1>1, <1>2, <1>4, <1>5, <1>6 DEF TypeOK, Told
<1>8. QueriesInv'
  BY <1>1, <1>2 DEF QueriesInv, TimersPending, IdsUsed, ResultsAgree, OwnTimerLast, Unfinished, Positions
<1>9. NothingLeft'
  BY <1>1, <1>2, <1>4, <1>5 DEF NothingLeft, PromisesInv, TypeOK
<1>10. \A p \in Call : ~Joined(n, p)'
  BY <1>1, <1>4, <1>5, ContainsFacts DEF Joined, TypeOK
<1>11. \A m \in Name \ {n}, p \in Call : Joined(m, p)' <=> Joined(m, p)
  BY <1>1, <1>4 DEF Joined, TypeOK
<1>12. \A i \in Id : Active(i)' => Active(i)
  BY <1>2 DEF Active
<1>13. PromisesInv' /\ ResolvedKept
  BY <1>2, <1>6, <1>9, <1>10, <1>11, <1>12, WaitEnds
<1> QED BY <1>7, <1>8, <1>13 DEF ResolverInv

LEMMA StepExpire ==
    ASSUME ResolverInv, NEW n \in Name, NEW t \in Type, Expire(n, t)
    PROVE  ResolverInv' /\ ResolvedKept
<1> USE DEF Expire, network
<1>1. TypeOK /\ QueriesInv /\ PromisesInv
  BY DEF ResolverInv
<1>2. cache[n] \in Results
  BY <1>1 DEF TypeOK
<1> DEFINE r == [cache[n] EXCEPT !.expired = @ \cup {t}]
<1>3. r \in Results /\ r.done = cache[n].done /\ r.id = cache[n].id
  BY <1>2 DEF Results
<1>4. r # None
  BY <1>3, ResolverAssumption
<1>5. cache' = [cache EXCEPT ![n] = r]
  BY <1>1 DEF TypeOK
<1> HIDE DEF r
<1>6. TypeOK'
  BY <1>1, <1>3, <1>5 DEF TypeOK, callers
<1>7. \A m \in Name : (Unfinished(m)' <=> Unfinished(m)) /\ (Unfinished(m) => cache'[m].id = cache[m].id)
  BY <1>1, <1>3, <1>4, <1>5 DEF Unfinished, TypeOK
<1>8. QueriesInv'
  <2>1. ASSUME NEW j \in Id, pending[j] # None, pending[j].result
        PROVE  Unfinished(pending[j].name)'
    BY <1>1, <1>7, <2>1, PendingTyped DEF QueriesInv, ResultsAgree
  <2>2. Thinned(timers')
    BY <1>1, ThinnedSame
  <2> QED BY <1>1, <1>7, <2>1, <2>2, QueriesKept
<1>9. NothingLeft'
  BY <1>1 DEF NothingLeft, PromisesInv
<1>10. \A m \in Name, p \in Call : Joined(m, p)' <=> Joined(m, p)
  BY DEF Joined
<1>11. \A j \in Id : Active(j)' => Active(j)
  BY DEF Active
<1>12. PromisesInv' /\ ResolvedKept
  <2> DEFINE S == <<>>
  <2>1. Told(S, "no") /\ returned' = returned /\ \A x \in Call : ~Contains(S, x)
    BY Untold, ContainsFacts
  <2> HIDE DEF S
  <2> QED BY <1>9, <1>10, <1>11, <2>1, PromisesEnd
<1> QED BY <1>6, <1>8, <1>12 DEF ResolverInv

-----------------------------------------------------------------------------
(* A query is started, or sent again.                                        *)

QueryId(n, i) == IF Flushed[n] # None THEN Flushed[n].id ELSE IF i # 0 THEN i ELSE ids + 1

LEMMA LookupQueryFacts ==
    ASSUME ResolverInv, NEW n \in Name, NEW p \in Call, NEW i \in Id \cup {0}, NEW written \in BOOLEAN,
           LookupQuery(n, p, i, written), NEW id, id = QueryId(n, i)
    PROVE  /\ id \in Id /\ ids' \in 0..MaxQueries /\ ids <= ids' /\ id <= ids'
           /\ ~Contains(Unfired(i), id)
           /\ pending' \in [Id \cup {0} -> Lookups \cup {None}]
           /\ pending'[id] # None /\ pending'[id].name = n /\ pending'[id].promise = p
           /\ \A j \in Id : j # id => pending'[j] = pending[j]
           /\ pending[id] # None <=> i # 0
           /\ pending[id] # None => i = id
           /\ cache' \in [Name -> Results \cup {None}]
           /\ Unfinished(n)' /\ cache'[n].id = id
           /\ \A m \in Name : m # n =>
                  /\ Unfinished(m)' <=> Unfinished(m)
                  /\ Unfinished(m) => cache'[m].id = cache[m].id /\ cache[m].id # id
           /\ Unfinished(n) => cache[n].id = id
           /\ Unfinished(n) => i = 0
<1> DEFINE cached == Flushed[n] # None
<1>1. TypeOK /\ QueriesInv /\ MayLookUp(n, p, i) /\ n \notin Local
  BY DEF ResolverInv, LookupQuery
<1>2. /\ ~Hit(n) /\ (cached => i = 0 /\ pending[id] = None) /\ id <= MaxQueries
      /\ ids' = IF cached \/ i # 0 THEN ids ELSE id
      /\ cache' = [Flushed EXCEPT ![n] = IF cached THEN @ ELSE NewResult(id)]
      /\ pending' = IF i = 0
                    THEN [pending EXCEPT ![id] = [name |-> n, result |-> TRUE, promise |-> p, repeated |-> 0]]
                    ELSE [pending EXCEPT ![i].repeated = @ + 1]
  BY DEF LookupQuery, QueryId
<1>3. /\ Flushed \in [Name -> Results \cup {None}]
      /\ \A m \in Name : Unfinished(m) <=> Flushed[m] # None /\ ~Flushed[m].done
      /\ \A m \in Name : Unfinished(m) => Flushed[m].id = cache[m].id
  BY <1>1, FlushedFacts
<1>4. cached <=> Unfinished(n)
  BY <1>2, <1>3 DEF Hit
<1>5. ids \in 0..MaxQueries /\ MaxQueries \in Nat
  BY <1>1, ResolverAssumption DEF TypeOK
<1>6. /\ i # 0 => /\ i \in Id /\ pending[i] # None /\ pending[i].name = n /\ pending[i].promise = p
                  /\ ~Contains(Unfired(i), i) /\ pending[i].repeated < MaxRepeats
      /\ Thinned(Unfired(i))
  BY <1>1, LookUpFacts
<1>7. /\ id \in Id /\ ids' \in 0..MaxQueries /\ ids <= ids' /\ id <= ids'
      /\ pending[id] # None <=> i # 0
      /\ pending[id] # None => i = id
      /\ Unfinished(n) => cache[n].id = id
  <2>1. CASE cached
    <3>1. id = cache[n].id /\ id \in Id /\ id <= ids
      BY <1>1, <1>3, <1>4, <2>1 DEF QueryId, QueriesInv, IdsUsed
    <3> QED BY <1>2, <1>5, <2>1, <3>1
  <2>2. CASE ~cached /\ i = 0
    <3>1. id = ids + 1 /\ ids' = id
      BY <1>2, <2>2 DEF QueryId
    <3>2. id \in Id
      BY <1>2, <1>5, <3>1 DEF Id
    <3>3. pending[id] = None
      BY <1>1, <1>5, <3>1, <3>2 DEF QueriesInv, IdsUsed
    <3> QED BY <1>2, <1>4, <1>5, <2>2, <3>1, <3>2, <3>3
  <2>3. CASE ~cached /\ i # 0
    <3>1. id = i /\ ids' = ids
      BY <1>2, <2>3 DEF QueryId
    <3>2. id <= ids
      BY <1>1, <1>6, <2>3, <3>1 DEF QueriesInv, IdsUsed
    <3> QED BY <1>4, <1>5, <1>6, <2>3, <3>1, <3>2
  <2> QED BY <2>1, <2>2, <2>3
<1> HIDE DEF cached
<1>8. ~Contains(Unfired(i), id)
  <2>1. CASE i # 0
    BY <1>6, <1>7, <2>1
  <2>2. CASE i = 0
    <3>1. pending[id] = None /\ Unfired(i) = timers
      BY <1>7, <2>2 DEF Unfired
    <3> QED BY <1>1, <3>1 DEF Contains, QueriesInv, TimersPending, Positions
  <2> QED BY <2>1, <2>2
<1>9. /\ pending' \in [Id \cup {0} -> Lookups \cup {None}]
      /\ pending'[id] # None /\ pending'[id].name = n /\ pending'[id].promise = p
      /\ \A j \in Id : j # id => pending'[j] = pending[j]
  <2>1. CASE i = 0
    <3> DEFINE new == [name |-> n, result |-> TRUE, promise |-> p, repeated |-> 0]
    <3>1. new \in Lookups /\ new.name = n /\ new.promise = p
      BY <1>1, ResolverAssumption DEF Lookups
    <3>2. pending' = [pending EXCEPT ![id] = new] /\ new # None
      BY <1>2, <2>1, <3>1, ResolverAssumption
    <3> HIDE DEF new
    <3> QED BY <1>1, <1>7, <3>1, <3>2 DEF TypeOK
  <2>2. CASE i # 0
    <3> DEFINE new == [pending[i] EXCEPT !.repeated = @ + 1]
    <3>1. i = id /\ pending[i] \in Lookups /\ pending[i].repeated \in 0..MaxRepeats /\ MaxRepeats \in Nat
      BY <1>1, <1>6, <1>7, <2>2, PendingTyped, ResolverAssumption
    <3>2. pending[i].repeated + 1 \in 0..MaxRepeats
      BY <1>6, <2>2, <3>1
    <3>3. new \in Lookups /\ new.name = n /\ new.promise = p
      BY <1>6, <2>2, <3>1, <3>2 DEF Lookups
    <3>4. pending' = [pending EXCEPT ![id] = new] /\ new # None
      BY <1>1, <1>2, <2>2, <3>1, <3>3, ResolverAssumption DEF TypeOK
    <3> HIDE DEF new
    <3> QED BY <1>1, <1>7, <3>3, <3>4 DEF TypeOK
  <2> QED BY <2>1, <2>2
<1>10. /\ cache' \in [Name -> Results \cup {None}]
       /\ Unfinished(n)' /\ cache'[n].id = id
       /\ \A m \in Name : m # n => cache'[m] = Flushed[m]
  <2> DEFINE new == IF cached THEN Flushed[n] ELSE NewResult(id)
  <2>1. cache' = [Flushed EXCEPT ![n] = new]
    BY <1>2, <1>3
  <2>2. NewResult(id) \in Results /\ ~NewResult(id).done /\ NewResult(id).id = id
    BY <1>5, <1>7 DEF NewResult, Results, Id
  <2>3. new \in Results /\ ~new.done /\ new.id = id
    BY <1>3, <1>4, <1>7, <2>2 DEF cached
  <2>4. new # None
    BY <2>3, ResolverAssumption
  <2> HIDE DEF new
  <2> QED BY <1>3, <2>1, <2>3, <2>4 DEF Unfinished
<1>11. ASSUME NEW m \in Name, m # n
       PROVE  /\ Unfinished(m)' <=> Unfinished(m)
              /\ Unfinished(m) => cache'[m].id = cache[m].id /\ cache[m].id # id
  <2>1. cache'[m] = Flushed[m]
    BY <1>10, <1>11
  <2>2. Unfinished(m)' <=> Flushed[m] # None /\ ~Flushed[m].done
    BY <2>1 DEF Unfinished
  <2>3. Unfinished(m)' <=> Unfinished(m)
    BY <1>3, <2>2
  <2>4. ASSUME Unfinished(m) PROVE cache[m].id # id
    <3>1. CASE cached
      BY <1>1, <1>4, <1>7, <1>11, <2>4, <3>1 DEF QueriesInv, IdsUsed
    <3>2. CASE ~cached /\ i = 0
      <4>1. id = ids + 1
        BY <3>2 DEF QueryId, cached
      <4>2. cache[m].id <= ids /\ cache[m].id \in Id
        BY <1>1, <2>4 DEF QueriesInv, IdsUsed
      <4> QED BY <1>5, <4>1, <4>2 DEF Id
    <3>3. CASE i # 0
      BY <1>1, <1>6, <1>7, <1>11, <2>4, <3>3 DEF QueriesInv, ResultsAgree
    <3> QED BY <3>1, <3>2, <3>3
  <2> QED BY <1>3, <2>1, <2>3, <2>4
<1>12. Unfinished(n) => i = 0
  BY <1>2, <1>4 DEF cached
<1> QED BY <1>7, <1>8, <1>9, <1>10, <1>11, <1>12

LEMMA LookupQueryKeepsQueries ==
    ASSUME ResolverInv, NEW n \in Name, NEW p \in Call, NEW i \in Id \cup {0}, NEW written \in BOOLEAN,
           LookupQuery(n, p, i, written)
    PROVE  QueriesInv' /\ timers' \in Seq(Id)
<1> DEFINE id == QueryId(n, i)
           U == Unfired(i)
<1>1. TypeOK /\ QueriesInv
  BY DEF ResolverInv
<1>2. /\ id \in Id /\ ids \in 0..MaxQueries /\ ids' \in 0..MaxQueries /\ ids <= ids' /\ id <= ids'
      /\ ~Contains(U, id)
      /\ pending'[id] # None /\ pending'[id].name = n
      /\ \A j \in Id : j # id => pending'[j] = pending[j]
      /\ Unfinished(n)' /\ cache'[n].id = id
      /\ \A m \in Name : m # n =>
             /\ Unfinished(m)' <=> Unfinished(m)
             /\ Unfinished(m) => cache'[m].id = cache[m].id /\ cache[m].id # id
      /\ Unfinished(n) => cache[n].id = id
  BY <1>1, LookupQueryFacts DEF TypeOK
<1>3. Thinned(U)
  BY LookUpFacts DEF LookupQuery
<1>4. timers' = IF written THEN Append(U, id) ELSE U
  BY DEF LookupQuery, QueryId
<1> HIDE DEF id, U
<1>5. PICK f \in [1..Len(U) -> Positions] :
          /\ \A k \in 1..Len(U) : U[k] = timers[f[k]]
          /\ \A k, l \in 1..Len(U) : k < l => f[k] < f[l]
  BY <1>3 DEF Thinned
<1>6. /\ U \in Seq(Id) /\ Len(U) \in Nat /\ Len(timers) \in Nat
      /\ \A k \in 1..Len(U) : U[k] \in Id /\ U[k] # id
  BY <1>1, <1>2, <1>3, LenProperties, ElementOfSeq DEF Thinned, TypeOK, Contains
<1>7. /\ timers' \in Seq(Id)
      /\ Len(timers') = Len(U) \/ Len(timers') = Len(U) + 1
      /\ \A k \in 1..Len(U) : timers'[k] = U[k]
      /\ \A k \in Positions' : k \in 1..Len(U) \/ (k = Len(U) + 1 /\ timers'[k] = id)
  <2>1. CASE ~written
    BY <1>4, <1>6, <2>1 DEF Positions
  <2>2. CASE written
    <3>1. /\ timers' \in Seq(Id) /\ Len(timers') = Len(U) + 1
          /\ \A k \in 1..Len(U) : timers'[k] = U[k]
          /\ timers'[Len(U) + 1] = id
      BY <1>2, <1>4, <1>6, <2>2, AppendProperties
    <3> QED BY <1>6, <3>1 DEF Positions
  <2> QED BY <2>1, <2>2
<1>8. \A k \in 1..Len(U) : pending'[timers'[k]] = pending[timers[f[k]]] /\ timers'[k] = timers[f[k]]
  BY <1>2, <1>5, <1>6, <1>7
<1> USE DEF QueriesInv
<1>9. TimersPending'
  <2>1. ASSUME NEW k \in Positions' PROVE pending'[timers'[k]] # None
    BY <1>1, <1>2, <1>5, <1>7, <1>8 DEF TimersPending
  <2>2. ASSUME NEW k \in Positions', NEW l \in Positions', timers'[k] = timers'[l] PROVE k = l
    <3>1. CASE k \in 1..Len(U) /\ l \in 1..Len(U)
      <4>1. f[k] \in Positions /\ f[l] \in Positions /\ timers[f[k]] = timers[f[l]]
        BY <1>5, <1>8, <2>2, <3>1
      <4>2. f[k] = f[l] /\ f[k] \in Nat /\ f[l] \in Nat
        BY <1>1, <4>1 DEF TimersPending, Positions
      <4>3. ~(k < l) /\ ~(l < k)
        BY <1>5, <3>1, <4>2
      <4> QED BY <3>1, <4>3
    <3>2. CASE ~(k \in 1..Len(U) /\ l \in 1..Len(U))
      BY <1>6, <1>7, <2>2, <3>2
    <3> QED BY <3>1, <3>2
  <2> QED BY <2>1, <2>2 DEF TimersPending
<1>10. IdsUsed'
  <2>1. ASSUME NEW j \in Id, pending'[j] # None PROVE j <= ids'
    BY <1>1, <1>2, <2>1 DEF IdsUsed, Id
  <2>2. ASSUME NEW m \in Name, Unfinished(m)' PROVE cache'[m].id \in Id /\ cache'[m].id <= ids'
    BY <1>1, <1>2, <2>2 DEF IdsUsed, Id
  <2>3. ASSUME NEW l \in Name, NEW m \in Name, Unfinished(l)', Unfinished(m)', cache'[l].id = cache'[m].id
        PROVE  l = m
    BY <1>1, <1>2, <2>3 DEF IdsUsed
  <2> QED BY <2>1, <2>2, <2>3 DEF IdsUsed
<1>11. ResultsAgree'
  <2>1. ASSUME NEW j \in Id, pending'[j] # None, pending'[j].result
        PROVE  Unfinished(pending[j].name)' /\ cache'[pending'[j].name].id = j
    <3>1. CASE j = id
      <4>1. pending'[j].name = n
        BY <1>2, <3>1
      <4>2. Unfinished(pending[j].name)' <=> Unfinished(n)'
        BY <4>1 DEF Unfinished
      <4> QED BY <1>2, <3>1, <4>1, <4>2
    <3>2. CASE j # id
      <4>1. pending'[j] = pending[j] /\ pending[j].name \in Name
        BY <1>1, <1>2, <2>1, <3>2, PendingTyped
      <4>2. Unfinished(pending[j].name) /\ cache[pending[j].name].id = j
        BY <1>1, <2>1, <4>1 DEF ResultsAgree
      <4>3. pending[j].name # n
        BY <1>2, <3>2, <4>2
      <4> DEFINE m == pending[j].name
      <4>4. cache'[m].id = j /\ cache'[m] # None /\ ~cache'[m].done
        BY <1>2, <4>1, <4>2, <4>3 DEF Unfinished
      <4> QED BY <4>1, <4>4 DEF Unfinished
    <3> QED BY <3>1, <3>2
  <2>2. ASSUME NEW m \in Name, Unfinished(m)', pending'[cache'[m].id] # None
        PROVE  pending'[cache'[m].id].name = m
    <3>1. CASE m = n
      BY <1>2, <3>1
    <3>2. CASE m # n
      <4>1. Unfinished(m) /\ cache'[m].id = cache[m].id /\ cache[m].id # id /\ cache[m].id \in Id
        BY <1>1, <1>2, <2>2, <3>2 DEF IdsUsed
      <4> QED BY <1>1, <1>2, <2>2, <4>1 DEF ResultsAgree
    <3> QED BY <3>1, <3>2
  <2> QED BY <2>1, <2>2 DEF ResultsAgree
<1>12. OwnTimerLast'
  <2> SUFFICES ASSUME NEW m \in Name, NEW l \in Positions', Unfinished(m)', pending'[timers'[l]].name = m
               PROVE  /\ pending'[cache'[m].id] # None
                      /\ \A k \in Positions' : timers'[k] = cache'[m].id => l <= k
    BY DEF OwnTimerLast
  <2>1. CASE m = n
    BY <1>2, <1>6, <1>7, <2>1
  <2>2. CASE m # n
    <3>1. Unfinished(m) /\ cache'[m].id = cache[m].id /\ cache[m].id # id /\ cache[m].id \in Id
      BY <1>1, <1>2, <2>2 DEF IdsUsed
    <3>2. l \in 1..Len(U)
      BY <1>2, <1>7, <2>2
    <3>3. f[l] \in Positions /\ pending[timers[f[l]]].name = m
      BY <1>5, <1>8, <3>2
    <3>4. /\ pending[cache[m].id] # None
          /\ \A k \in Positions : timers[k] = cache[m].id => f[l] <= k
      BY <1>1, <3>1, <3>3 DEF OwnTimerLast
    <3>5. ASSUME NEW k \in Positions', timers'[k] = cache'[m].id PROVE l <= k
      <4>1. k \in 1..Len(U)
        BY <1>7, <3>1, <3>5
      <4>2. f[l] <= f[k] /\ f[l] \in Nat /\ f[k] \in Nat
        BY <1>5, <1>8, <3>1, <3>3, <3>4, <3>5, <4>1 DEF Positions
      <4>3. ~(k < l)
        BY <1>5, <3>2, <4>1, <4>2
      <4> QED BY <3>2, <4>1, <4>3
    <3> QED BY <1>2, <3>1, <3>4, <3>5
  <2> QED BY <2>1, <2>2
<1> QED BY <1>7, <1>9, <1>10, <1>11, <1>12

LEMMA StepLookupQuery ==
    ASSUME ResolverInv, NEW n \in Name, NEW p \in Call, NEW i \in Id \cup {0}, NEW written \in BOOLEAN,
           LookupQuery(n, p, i, written)
    PROVE  ResolverInv' /\ ResolvedKept
<1> DEFINE id == QueryId(n, i)
           S == IF written THEN <<>> ELSE <<p>>
           how == IF written THEN "no" ELSE "rejected"
<1>1. TypeOK /\ PromisesInv /\ MayLookUp(n, p, i)
  BY DEF ResolverInv, LookupQuery
<1>2. QueriesInv' /\ timers' \in Seq(Id)
  BY LookupQueryKeepsQueries
<1>3. /\ id \in Id /\ ids' \in 0..MaxQueries
      /\ pending' \in [Id \cup {0} -> Lookups \cup {None}]
      /\ pending'[id] # None /\ pending'[id].promise = p
      /\ \A j \in Id : j # id => pending'[j] = pending[j]
      /\ pending[id] # None <=> i # 0
      /\ pending[id] # None => i = id
      /\ cache' \in [Name -> Results \cup {None}]
  <2>1. id = QueryId(n, i)
    OBVIOUS
  <2> HIDE DEF id, S, how
  <2> QED BY <2>1, LookupQueryFacts
<1>4. /\ Thinned(Unfired(i))
      /\ promise[p].settled # "resolved" /\ \A m \in Name : ~Joined(m, p)
      /\ \A j \in Id : pending[j] # None /\ pending[j].promise = p => j = i
      /\ i # 0 => pending[i].promise = p
  BY <1>1, LookUpFacts
<1>5. /\ socket' = TRUE /\ system' = system /\ Finish(p, i, S, how, p)
      /\ timers' = IF written THEN Append(Unfired(i), id) ELSE Unfired(i)
      /\ wire' = IF written THEN wire \cup {id} ELSE wire
  BY DEF LookupQuery, QueryId
<1>6. /\ S \in Seq(Call) /\ (\A x \in Call : Contains(S, x) => x = p)
      /\ how \in {"no", "resolved", "rejected"} /\ how # "resolved" /\ (Contains(S, p) => how # "no")
  BY Alone
<1> HIDE DEF id, S, how
<1>7. /\ Told(S, how)
      /\ \A c \in Call : returned[c] # None => returned'[c] = returned[c]
      /\ \A c \in Call : returned[c] = None /\ returned'[c] # None => i = 0 /\ c = p /\ returned'[c] = p
      /\ returned'[p] # None
  BY <1>1, <1>5, <1>6, FinishFacts
<1>8. TypeOK'
  BY <1>1, <1>2, <1>3, <1>5, <1>7 DEF TypeOK, Told
<1>9. NothingLeft'
  BY <1>1, <1>5 DEF NothingLeft, PromisesInv
<1>10. \A m \in Name, x \in Call : Joined(m, x)' <=> Joined(m, x)
  BY <1>5 DEF Joined
<1>11. ASSUME NEW j \in Id, ~Active(j), Active(j)' PROVE j = id
  <2> SUFFICES ASSUME j # id PROVE FALSE
    OBVIOUS
  <2>1. pending'[j] = pending[j]
    BY <1>3
  <2>2. Contains(timers', j) => Contains(Unfired(i), j)
    BY <1>3, <1>4, <1>5, ContainsFacts DEF Thinned
  <2>3. Contains(timers', j) => Contains(timers, j)
    BY <1>4, <2>2, ThinnedContains
  <2> QED BY <1>5, <1>11, <2>1, <2>3 DEF Active
<1>12. \A j \in Id : pending[j] # None => pending[j].promise \in Call
  BY <1>1, PendingTyped
<1>13. promise'[p].settled # "resolved"
  BY <1>4, <1>6, <1>7 DEF Told
<1>14. \A j \in Id : pending[j] # None => pending'[j] # None /\ pending'[j].promise = pending[j].promise
  BY <1>3, <1>4
<1>15. ASSUME NEW j \in Id, pending[j] = None, pending'[j] # None
       PROVE  /\ returned'[pending'[j].promise] # None
              /\ \A k \in Id : pending'[k] # None /\ pending'[k].promise = pending'[j].promise => k = j
  <2>1. j = id /\ i = 0
    BY <1>3, <1>15
  <2>2. ASSUME NEW k \in Id, pending'[k] # None, pending'[k].promise = p PROVE k = id
    <3> SUFFICES ASSUME k # id PROVE FALSE
      OBVIOUS
    <3>1. pending[k] # None /\ pending[k].promise = p
      BY <1>3, <2>2
    <3>2. k = 0
      BY <1>4, <2>1, <3>1
    <3> QED BY <3>2 DEF Id
  <2> QED BY <1>3, <1>7, <2>1, <2>2
<1>16. ASSUME NEW j \in Id, ~Active(j), Active(j)'
       PROVE  /\ promise'[pending'[j].promise].settled # "resolved"
              /\ \A m \in Name : ~Joined(m, pending[j].promise)'
  <2>1. pending'[j].promise = p
    BY <1>3, <1>11, <1>16
  <2>2. \A m \in Name : Joined(m, pending[j].promise)' <=> Joined(m, p)'
    BY <2>1 DEF Joined
  <2> QED BY <1>4, <1>10, <1>13, <2>1, <2>2
<1>17. PromisesInv'
  BY <1>1, <1>3, <1>6, <1>7, <1>9, <1>10, <1>12, <1>14, <1>15, <1>16, PromisesKept
<1> QED BY <1>2, <1>7, <1>8, <1>17 DEF ResolverInv, Told

-----------------------------------------------------------------------------
(* The theorems.                                                             *)

LEMMA InitResolverInv == Init => ResolverInv
<1> SUFFICES ASSUME Init PROVE ResolverInv
  OBVIOUS
<1> USE DEF Init
<1>1. timers = <<>> /\ <<>> \in Seq(Id) /\ Positions = {}
  BY DEF Positions
<1>2. TypeOK
  <2>1. promise \in [Call -> Promises]
    BY DEF Promises
  <2>2. ids \in 0..MaxQueries
    BY ResolverAssumption
  <2> QED BY <1>1, <2>1, <2>2 DEF TypeOK
<1>3. QueriesInv
  BY <1>1 DEF QueriesInv, TimersPending, IdsUsed, ResultsAgree, OwnTimerLast, Unfinished
<1>4. PromisesInv
  BY DEF PromisesInv, NothingLeft, PromisesOwned, SettledByOne, NoneForgotten, Joined, Active
<1> QED BY <1>2, <1>3, <1>4 DEF ResolverInv

LEMMA ResolverStep == ResolverInv /\ [Next]_vars => ResolverInv' /\ [ResolvedKept]_vars
<1> SUFFICES ASSUME ResolverInv, [Next]_vars PROVE ResolverInv' /\ [ResolvedKept]_vars
  OBVIOUS
<1>1. ASSUME NEW n \in Name, NEW p \in Call, NEW i \in Id \cup {0}, LookUp(n, p, i)
      PROVE  ResolverInv' /\ ResolvedKept
  BY <1>1, StepLookupCached, StepLookupSystem, StepLookupPending, StepLookupQuery DEF LookUp
<1>2. ASSUME NEW i \in Id, RepeatTimeout(i) PROVE ResolverInv' /\ ResolvedKept
  BY <1>1, <1>2, StepRepeatTimedOut DEF RepeatTimeout
<1>3. ASSUME NEW i \in Id, Lose(i) PROVE ResolverInv' /\ ResolvedKept
  BY <1>3, StepNetwork DEF Lose, ResolverInv, TypeOK, PromisesInv, NothingLeft
<1>4. CASE Disconnect
  BY <1>4, StepNetwork DEF Disconnect
<1>5. CASE UNCHANGED vars
  <2>1. ResolverInv'
    BY <1>5, StepNetwork DEF vars, network, ResolverInv, TypeOK, PromisesInv, NothingLeft
  <2> QED BY <1>5, <2>1
<1>6. CASE Next
  <2>1. 0 \in Id \cup {0}
    OBVIOUS
  <2> QED
    BY <1>1, <1>2, <1>3, <1>4, <1>6, <2>1, StepLookupLocal, StepReceive, StepExpire, StepWorkerCompletes,
       StepGraceTimeout DEF Next
<1> QED BY <1>5, <1>6

\* The resolver's maps hold what their types allow and a query is repeated
\* MaxRepeats times at most, whatever the order of answers, timers and workers.
THEOREM ResolverTypeCorrect == Spec => []TypeOK
<1>1. ResolverInv => TypeOK
  BY DEF ResolverInv
<1> QED BY <1>1, InitResolverInv, ResolverStep, PTL DEF Spec

\* A repeat timer that finds an unfinished result finds its pending lookup too:
\* lookup() may use the entry it has searched for without a check.
THEOREM TimersFindTheirLookup == Spec => []EntryFound
<1>1. ResolverInv => EntryFound
  <2> SUFFICES ASSUME ResolverInv, timers # <<>>, NEW n \in Name, n = pending[Head(timers)].name, Unfinished(n)
               PROVE  pending[cache[n].id] # None
    <3>1. ASSUME ResolverInv, timers # <<>> PROVE pending[Head(timers)].name \in Name
      <4>1. Head(timers) \in Id /\ pending[Head(timers)] # None
        BY <3>1, ThinnedTail DEF ResolverInv, QueriesInv
      <4> QED BY <3>1, <4>1, PendingTyped DEF ResolverInv
    <3> QED BY <3>1 DEF EntryFound, Unfinished
  <2>1. 1 \in Positions /\ pending[timers[1]].name = n
    BY ThinnedTail DEF ResolverInv, QueriesInv
  <2> QED BY <2>1 DEF ResolverInv, QueriesInv, OwnTimerLast
<1> QED BY <1>1, InitResolverInv, ResolverStep, PTL DEF Spec

\* No caller of lookup() is forgotten: until its promise is settled, a query or
\* a system resolution has it.
THEOREM CallersAreKept == Spec => []NoneForgotten
<1>1. ResolverInv => NoneForgotten
  BY DEF ResolverInv, PromisesInv
<1> QED BY <1>1, InitResolverInv, ResolverStep, PTL DEF Spec

\* A promise that was resolved is not settled again and its handler does not
\* run again, whichever of an answer, a timer and a worker comes late.
THEOREM ResolvedPromisesAreFinal == Spec => ResolvedOnce
<1>1. ResolverInv /\ [Next]_vars => [ResolvedKept]_vars
  BY ResolverStep
<1>2. Spec => []ResolverInv
  BY InitResolverInv, ResolverStep, PTL DEF Spec
<1>3. ResolverInv /\ [Next]_vars =>
          [\A p \in Call : promise[p].settled = "resolved" =>
               /\ promise'[p].settled = "resolved"
               /\ promise[p].handler # None => heard'[promise[p].handler] = heard[promise[p].handler]]_vars
  BY <1>1 DEF ResolvedKept
<1> QED BY <1>2, <1>3, PTL DEF Spec, ResolvedOnce
=============================================================================
