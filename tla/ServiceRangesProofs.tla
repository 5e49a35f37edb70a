------------------------- MODULE ServiceRangesProofs -------------------------
(***************************************************************************)
(* Proofs about ServiceRanges, for any files and any prefixes in them.     *)
(***************************************************************************)
EXTENDS ServiceRanges, TLAPS, SequenceTheorems, FiniteSetTheorems, NaturalsInduction,
        WellFoundedInduction

Loads == {[provider |-> f.provider, services |-> f.services] : f \in Files}

\* A file that is behind load_all was missing, or its services are in the table.
Settled(p) ==
  files[p].state # Missing =>
    /\ ~ Bad(files[p])
    /\ \E n \in 1 .. Len(calls) : /\ calls[n].provider = files[p].provider
                                  /\ calls[n].services = files[p].services

IInv ==
  /\ files \in [Provider -> Files] /\ calls \in Seq(Loads)
  /\ next \in 1 .. 4
  /\ result = "error" => table = <<>> /\ \E p \in Provider : Bad(files[p])
  /\ result # "error" => \A k \in 1 .. next - 1 : Settled(Names[k])
  /\ result = "ok" => next = 4

\* The names load_all goes through are those of the providers.
LEMMA NamesAreProviders ==
  /\ Len(Names) = 3
  /\ \A k \in 1 .. 3 : Names[k] \in Provider
  /\ \A p \in Provider : \E k \in 1 .. 3 : Names[k] = p
  <1>1. Names[1] = "aws" /\ Names[2] = "azure" /\ Names[3] = "gcp" /\ Len(Names) = 3
    BY DEF Names
  <1>2. \A k \in 1 .. 3 : k = 1 \/ k = 2 \/ k = 3
    OBVIOUS
  <1>3. 1 \in 1 .. 3 /\ 2 \in 1 .. 3 /\ 3 \in 1 .. 3
    OBVIOUS
  <1> QED BY <1>1, <1>2, <1>3, Zenon DEF Provider

\* A load adds one entry to the history and leaves the others.
LEMMA CalledAppends ==
  ASSUME calls \in Seq(Loads), NEW file \in Files,
         calls' = Called(file.provider, file.services)
  PROVE  /\ calls' \in Seq(Loads) /\ Len(calls) \in Nat /\ Len(calls') = Len(calls) + 1
         /\ \A n \in 1 .. Len(calls) : calls'[n] = calls[n]
         /\ calls'[Len(calls) + 1].provider = file.provider
         /\ calls'[Len(calls) + 1].services = file.services
  <1> DEFINE load == [provider |-> file.provider, services |-> file.services]
  <1>1. load \in Loads /\ calls' = Append(calls, load)
    BY DEF Loads, Called
  <1>2. load.provider = file.provider /\ load.services = file.services
    OBVIOUS
  <1> HIDE DEF load
  <1> QED BY <1>1, <1>2, AppendProperties, LenProperties

\* What was settled stays so when the history grows.
LEMMA SettledStays ==
  ASSUME files' = files, Len(calls) \in Nat, Len(calls') \in Nat, Len(calls) <= Len(calls'),
         \A n \in 1 .. Len(calls) : calls'[n] = calls[n],
         NEW p, Settled(p)
  PROVE  Settled(p)'
  BY DEF Settled, Bad

\* Each step keeps the invariant.
LEMMA Inductive == IInv /\ [Next]_vars => IInv'
  <1> SUFFICES ASSUME IInv, [Next]_vars PROVE IInv'
    OBVIOUS
  <1>0. calls \in Seq(Loads) /\ Len(calls) \in Nat /\ next \in 1 .. 4
    BY LenProperties DEF IInv
  <1>1. CASE SkipMissing
    <2>1. /\ next \in 1 .. 3 /\ next' = next + 1 /\ result' = "loading" /\ result = "loading"
          /\ files[Names[next]].state = Missing
          /\ files' = files /\ calls' = calls /\ table' = table
      BY <1>0, <1>1, NamesAreProviders DEF SkipMissing
    <2>2. \A k \in 1 .. next : Settled(Names[k])
      <3> TAKE k \in 1 .. next
      <3>1. CASE k = next
        BY <2>1, <3>1 DEF Settled
      <3>2. CASE k # next
        BY <1>0, <2>1, <3>2 DEF IInv
      <3> QED BY <3>1, <3>2
    <2>3. \A k \in 1 .. next : Settled(Names[k])'
      BY <1>0, <2>1, <2>2, SettledStays
    <2>4. next' - 1 = next /\ next' \in 1 .. 4
      BY <2>1
    <2> QED BY <1>0, <2>1, <2>3, <2>4 DEF IInv
  <1>2. CASE ReadFile
    <2> DEFINE file == files[Names[next]]
    <2>1. /\ next \in 1 .. 3 /\ next' = next + 1 /\ result' = "loading" /\ result = "loading"
          /\ ~ Bad(file) /\ files' = files
          /\ calls' = Called(file.provider, file.services)
      BY <1>0, <1>2, NamesAreProviders DEF ReadFile
    <2>2. file \in Files
      BY <2>1, NamesAreProviders DEF IInv
    <2>3. /\ calls' \in Seq(Loads) /\ Len(calls') = Len(calls) + 1
          /\ \A n \in 1 .. Len(calls) : calls'[n] = calls[n]
          /\ calls'[Len(calls) + 1].provider = file.provider
          /\ calls'[Len(calls) + 1].services = file.services
      BY <1>0, <2>1, <2>2, CalledAppends
    <2>4. \A k \in 1 .. next : Settled(Names[k])'
      <3> TAKE k \in 1 .. next
      <3>1. CASE k = next
        <4>1. Len(calls) + 1 \in 1 .. Len(calls')
          BY <1>0, <2>3
        <4>2. /\ calls'[Len(calls) + 1].provider = files[Names[k]].provider
              /\ calls'[Len(calls) + 1].services = files[Names[k]].services
              /\ ~ Bad(files[Names[k]])
          BY <2>1, <2>3, <3>1
        <4> QED BY <2>1, <4>1, <4>2 DEF Settled, Bad
      <3>2. CASE k # next
        <4>1. Settled(Names[k])
          BY <1>0, <2>1, <3>2 DEF IInv
        <4>2. Len(calls') \in Nat /\ Len(calls) <= Len(calls')
          BY <1>0, <2>3
        <4> QED BY <1>0, <2>1, <2>3, <4>1, <4>2, SettledStays
      <3> QED BY <3>1, <3>2
    <2>5. next' - 1 = next /\ next' \in 1 .. 4
      BY <2>1
    <2> QED BY <2>1, <2>3, <2>4, <2>5 DEF IInv
  <1>3. CASE FailFile
    <2>1. next \in 1 .. 3 /\ Bad(files[Names[next]])
      BY <1>0, <1>3, NamesAreProviders DEF FailFile
    <2>2. \E p \in Provider : Bad(files[p])
      BY <2>1, NamesAreProviders
    <2>3. calls' \in Seq(Loads)
      BY <1>3, EmptySeq DEF FailFile
    <2>4. \E p \in Provider : Bad(files'[p])
      BY <1>3, <2>2 DEF FailFile
    <2> QED BY <1>3, <2>3, <2>4 DEF FailFile, IInv, Bad
  <1>4. CASE Loaded
    <2>1. next = 4
      BY <1>0, <1>4, NamesAreProviders DEF Loaded
    <2> QED BY <1>4, <2>1 DEF Loaded, IInv, Settled, Bad
  <1>5. ASSUME NEW file \in Files, OwnerLoads(file) \/ OwnerMerges(file) PROVE IInv'
    <2>1. /\ result = "ok" /\ result' = "ok" /\ files' = files /\ next' = next
          /\ calls' = Called(file.provider, file.services)
      BY <1>5 DEF OwnerLoads, OwnerMerges
    <2>2. /\ calls' \in Seq(Loads) /\ Len(calls') = Len(calls) + 1
          /\ \A n \in 1 .. Len(calls) : calls'[n] = calls[n]
      BY <1>0, <2>1, CalledAppends
    <2>3. Len(calls') \in Nat /\ Len(calls) <= Len(calls')
      BY <1>0, <2>2
    <2>4. \A k \in 1 .. next - 1 : Settled(Names[k])'
      BY <1>0, <2>1, <2>2, <2>3, SettledStays DEF IInv
    <2> QED BY <2>1, <2>2, <2>4 DEF IInv
  <1>6. CASE UNCHANGED vars
    BY <1>6 DEF vars, IInv, Settled, Bad
  <1> QED BY <1>1, <1>2, <1>3, <1>4, <1>5, <1>6 DEF Next

\* load_all gives a table of all the files there are or none, and no later load
\* or merge takes a file's services away (service_ranges.rs:48-101, 127-134).
THEOREM LoadAllGivesAllOrNothing == Spec => []LoadAllIsWhole
  <1>1. Init => IInv
    BY EmptySeq DEF Init, IInv
  <1>2. IInv => LoadAllIsWhole
    <2> SUFFICES ASSUME IInv PROVE LoadAllIsWhole
      OBVIOUS
    <2>1. ASSUME result = "ok" PROVE \A p \in Provider : Settled(p)
      BY <2>1, NamesAreProviders DEF IInv
    <2>2. DOMAIN calls = 1 .. Len(calls)
      BY LenProperties DEF IInv
    <2> QED BY <2>1, <2>2 DEF IInv, LoadAllIsWhole, Settled
  <1> QED BY <1>1, <1>2, Inductive, PTL DEF Spec
-----------------------------------------------------------------------------
(***************************************************************************)
(* Naturals: least elements and induction, on sets of naturals.            *)
(***************************************************************************)
LessOnNat == {pair \in Nat \X Nat : pair[1] < pair[2]}

\* A set of naturals that is not empty has a least element.
LEMMA LeastNat ==
  ASSUME NEW T \in SUBSET Nat, T # {}
  PROVE  \E x \in T : \A y \in T : x <= y
  <1>1. IsWellFoundedOn(LessOnNat, Nat)
    BY NatLessThanWellFounded, Zenon DEF OpToRel, LessOnNat
  <1>2. PICK x \in T : \A y \in T : ~ (<<y, x>> \in LessOnNat)
    BY <1>1, WFMin, Zenon
  <1>3. ASSUME NEW y \in T PROVE x <= y
    <2>1. ~ (<<y, x>> \in LessOnNat) /\ x \in Nat /\ y \in Nat
      BY <1>2
    <2>2. y < x => <<y, x>> \in LessOnNat
      BY <2>1 DEF LessOnNat
    <2> QED BY <2>1, <2>2
  <1> QED BY <1>3

\* Induction, on a set of naturals.
LEMMA AllNat ==
  ASSUME NEW T \in SUBSET Nat, 0 \in T, \A n \in T : n + 1 \in T
  PROVE  T = Nat
  <1> SUFFICES ASSUME Nat \ T # {} PROVE FALSE
    OBVIOUS
  <1>1. PICK m \in Nat \ T : \A k \in Nat \ T : m <= k
    BY LeastNat
  <1>2. m # 0 /\ m - 1 \in Nat
    OBVIOUS
  <1>3. m - 1 \in T
    BY <1>1, <1>2
  <1> QED BY <1>1, <1>2, <1>3

-----------------------------------------------------------------------------
(***************************************************************************)
(* The table.                                                              *)
(***************************************************************************)
\* The prefixes that the services in some list.
KeysOf(services, some) == UNION {Keys(services[s]) : s \in some}

\* The table behind the calls so far has the prefixes of all of them, and gives
\* each to a service that lists it, of the last call that does.
Tells(t, history) ==
  /\ DOMAIN t = UNION {KeysOf(history[n].services, DOMAIN history[n].services) :
                         n \in 1 .. Len(history)}
  /\ \A key \in DOMAIN t :
       \E n \in 1 .. Len(history) :
          /\ \E s \in DOMAIN history[n].services :
                /\ key \in Keys(history[n].services[s])
                /\ t[key] = ServiceInfo(history[n].provider, s)
          /\ \A m \in 1 .. Len(history) :
                key \in KeysOf(history[m].services, DOMAIN history[m].services) => m <= n

TableTells == Tells(table, calls)

\* u is t with the texts of some services of a load inserted: each of their
\* prefixes belongs to one of them that lists it, and the rest is as in t.
Inserted(u, t, provider, services, some) ==
  /\ DOMAIN u = DOMAIN t \cup KeysOf(services, some)
  /\ \A key \in KeysOf(services, some) :
       \E s \in some : key \in Keys(services[s]) /\ u[key] = ServiceInfo(provider, s)
  /\ \A key \in DOMAIN t \ KeysOf(services, some) : u[key] = t[key]

\* One turn of the loop of load.
LoadTurn(t, provider, services, order, f, n) ==
  IF n = 0 THEN t
  ELSE Insert(f[n - 1], ServiceInfo(provider, order[n]), services[order[n]])

\* The function Load recurs on exists.
LEMMA LoadLoop ==
  ASSUME NEW t, NEW provider, NEW services, NEW order, Len(order) \in Nat
  PROVE  \E f : /\ \A n \in 0 .. Len(order) : f[n] = LoadTurn(t, provider, services, order, f, n)
                /\ Load(t, provider, services, order) = f[Len(order)]
  <1> DEFINE Turn(f, n) == LoadTurn(t, provider, services, order, f, n)
             Loop(m) == \E f : f = [n \in 0 .. m |-> Turn(f, n)]
             Good == {m \in Nat : Loop(m)}
  <1>1. Loop(0)
    <2>1. [n \in 0 .. 0 |-> t] = [n \in 0 .. 0 |-> Turn([k \in 0 .. 0 |-> t], n)]
      BY DEF LoadTurn
    <2> QED BY <2>1
  <1>2. ASSUME NEW m \in Nat, Loop(m) PROVE Loop(m + 1)
    <2>1. PICK f : f = [n \in 0 .. m |-> Turn(f, n)]
      BY <1>2
    <2> DEFINE g == [n \in 0 .. (m + 1) |-> IF n <= m THEN f[n] ELSE Turn(f, m + 1)]
    <2>2. ASSUME NEW n \in 0 .. (m + 1) PROVE g[n] = Turn(g, n)
      <3>1. n # 0 => n - 1 \in 0 .. m /\ g[n - 1] = f[n - 1]
        OBVIOUS
      <3>2. n <= m => f[n] = Turn(f, n)
        BY <2>1
      <3>3. g[n] = Turn(f, n)
        BY <3>2
      <3> QED BY <3>1, <3>3 DEF LoadTurn
    <2>3. g = [n \in 0 .. (m + 1) |-> Turn(g, n)]
      BY <2>2
    <2> QED BY <2>3
  <1> HIDE DEF Loop
  <1>3. Good = Nat
    <2>1. Good \in SUBSET Nat /\ 0 \in Good
      BY <1>1
    <2>2. \A m \in Good : m + 1 \in Good
      BY <1>2
    <2> HIDE DEF Good
    <2> QED BY <2>1, <2>2, AllNat
  <1>4. Loop(Len(order))
    BY <1>3
  <1>5. \E f : /\ f = [n \in 0 .. Len(order) |-> LoadTurn(t, provider, services, order, f, n)]
               /\ Load(t, provider, services, order) = f[Len(order)]
    BY <1>4 DEF Load, LoadTurn, Loop
  <1> QED BY <1>5

\* One more service inserted.
LEMMA InsertOne ==
  ASSUME NEW t, NEW provider, NEW services, NEW some, NEW s, NEW u,
         Inserted(u, t, provider, services, some)
  PROVE  Inserted(Insert(u, ServiceInfo(provider, s), services[s]),
                  t, provider, services, some \cup {s})
  <1> DEFINE new == Insert(u, ServiceInfo(provider, s), services[s])
             K == Keys(services[s])
             owner == ServiceInfo(provider, s)
             old == KeysOf(services, some)
  <1>1. /\ DOMAIN new = K \cup DOMAIN u
        /\ \A key \in K : new[key] = owner
        /\ \A key \in DOMAIN u \ K : new[key] = u[key]
    <2> DEFINE f == [key \in K |-> owner]
    <2>1. DOMAIN f = K /\ \A key \in K : f[key] = owner
      OBVIOUS
    <2>2. new = Over(u, f)
      BY DEF Insert
    <2> HIDE DEF f, K, new, owner
    <2> QED BY <2>1, <2>2 DEF Over
  <1>2. /\ DOMAIN u = DOMAIN t \cup old
        /\ \A key \in old : \E r \in some : key \in Keys(services[r]) /\ u[key] = ServiceInfo(provider, r)
        /\ \A key \in DOMAIN t \ old : u[key] = t[key]
    BY DEF Inserted
  <1>3. KeysOf(services, some \cup {s}) = old \cup K
    BY DEF KeysOf
  <1> HIDE DEF new, K, old, owner
  <1>4. DOMAIN new = DOMAIN t \cup (old \cup K)
    BY <1>1, <1>2
  <1>5. ASSUME NEW key \in old \cup K
        PROVE  \E r \in some \cup {s} : key \in Keys(services[r]) /\ new[key] = ServiceInfo(provider, r)
    <2>1. CASE key \in K
      BY <1>1, <2>1 DEF K, owner
    <2>2. CASE key \notin K
      BY <1>1, <1>2, <2>2
    <2> QED BY <2>1, <2>2
  <1>6. \A key \in DOMAIN t \ (old \cup K) : new[key] = t[key]
    BY <1>1, <1>2
  <1> QED BY <1>3, <1>4, <1>5, <1>6 DEF Inserted, new

\* What a load does, in whatever order the services come.
LEMMA LoadIs ==
  ASSUME NEW t, NEW provider, NEW services, NEW order, Len(order) \in Nat,
         {order[i] : i \in 1 .. Len(order)} = DOMAIN services
  PROVE  Inserted(Load(t, provider, services, order), t, provider, services, DOMAIN services)
  <1>1. PICK f : /\ \A n \in 0 .. Len(order) : f[n] = LoadTurn(t, provider, services, order, f, n)
                 /\ Load(t, provider, services, order) = f[Len(order)]
    BY LoadLoop
  <1> DEFINE first(n) == {order[i] : i \in 1 .. n}
             Good == {n \in Nat : n <= Len(order) =>
                        Inserted(f[n], t, provider, services, first(n))}
  <1>2. 0 \in Good
    <2>1. f[0] = t
      BY <1>1 DEF LoadTurn
    <2>2. first(0) = {} /\ KeysOf(services, {}) = {}
      BY DEF KeysOf
    <2>3. Inserted(t, t, provider, services, {})
      BY <2>2 DEF Inserted
    <2> QED BY <2>1, <2>2, <2>3
  <1>3. ASSUME NEW n \in Good PROVE n + 1 \in Good
    <2>1. n \in Nat /\ (n <= Len(order) => Inserted(f[n], t, provider, services, first(n)))
      OBVIOUS
    <2>2. ASSUME n + 1 <= Len(order)
          PROVE  Inserted(f[n + 1], t, provider, services, first(n + 1))
      <3>1. Inserted(f[n], t, provider, services, first(n)) /\ n + 1 \in 0 .. Len(order)
        BY <2>1, <2>2
      <3>2. f[n + 1] = Insert(f[n], ServiceInfo(provider, order[n + 1]), services[order[n + 1]])
        <4>1. f[n + 1] = LoadTurn(t, provider, services, order, f, n + 1)
          BY <1>1, <3>1
        <4>2. n + 1 # 0 /\ (n + 1) - 1 = n
          BY <2>1
        <4> QED BY <4>1, <4>2 DEF LoadTurn
      <3>3. first(n + 1) = first(n) \cup {order[n + 1]}
        <4>1. \A i : i \in 1 .. (n + 1) <=> i \in 1 .. n \/ i = n + 1
          BY <2>1
        <4> QED BY <4>1
      <3> HIDE DEF first
      <3>4. Inserted(Insert(f[n], ServiceInfo(provider, order[n + 1]), services[order[n + 1]]),
                     t, provider, services, first(n) \cup {order[n + 1]})
        BY <3>1, InsertOne, Zenon
      <3> QED BY <3>2, <3>3, <3>4
    <2> QED BY <2>1, <2>2
  <1>4. Good = Nat
    <2>1. Good \in SUBSET Nat
      OBVIOUS
    <2> HIDE DEF Good
    <2> QED BY <1>2, <1>3, <2>1, AllNat
  <1>5. Inserted(f[Len(order)], t, provider, services, first(Len(order)))
    <2>1. Len(order) \in Good
      <3> HIDE DEF Good
      <3> QED BY <1>4
    <2> HIDE DEF first
    <2> QED BY <2>1
  <1> QED BY <1>1, <1>5

\* An order of a HashMap has all its services.
LEMMA OrdersAll ==
  ASSUME NEW services, IsFiniteSet(DOMAIN services), NEW order \in Orders(services)
  PROVE  Len(order) \in Nat /\ {order[i] : i \in 1 .. Len(order)} = DOMAIN services
  <1> DEFINE D == DOMAIN services
             c == Cardinality(D)
  <1>1. c \in Nat
    BY FS_CardinalityType
  <1>2. order \in [1 .. c -> D] /\ \A i, j \in 1 .. c : i # j => order[i] # order[j]
    BY DEF Orders, SetToSeqs
  <1>3. IsFiniteSet(1 .. c) /\ Cardinality(1 .. c) = c
    BY <1>1, FS_Interval
  <1>4. order \in Injection(1 .. c, D)
    BY <1>2 DEF Injection, IsInjective
  <1>5. order \in Surjection(1 .. c, D)
    BY <1>3, <1>4, FS_Injection
  <1>6. {order[i] : i \in 1 .. c} = D
    BY <1>2, <1>5 DEF Surjection
  <1>7. Len(order) = c
    BY <1>1, <1>2
  <1> QED BY <1>1, <1>6, <1>7

\* A load into a table that is merged does what a load into the table itself
\* does.
LEMMA MergeIs ==
  ASSUME NEW t, NEW provider, NEW services, NEW u,
         Inserted(u, <<>>, provider, services, DOMAIN services)
  PROVE  Inserted(Merge(t, u), t, provider, services, DOMAIN services)
  <1> DEFINE K == KeysOf(services, DOMAIN services)
  <1>1. DOMAIN <<>> = {}
    OBVIOUS
  <1>2. /\ DOMAIN u = K
        /\ \A key \in K : \E s \in DOMAIN services :
              key \in Keys(services[s]) /\ u[key] = ServiceInfo(provider, s)
    BY <1>1 DEF Inserted
  <1> HIDE DEF K
  <1>3. /\ DOMAIN Merge(t, u) = DOMAIN t \cup K
        /\ \A key \in K : Merge(t, u)[key] = u[key]
        /\ \A key \in DOMAIN t \ K : Merge(t, u)[key] = t[key]
    BY <1>2 DEF Merge, Over
  <1> QED BY <1>2, <1>3 DEF Inserted, K

\* A load behind the others takes over what it lists.
LEMMA TellsMore ==
  ASSUME NEW history \in Seq(Loads), NEW t, Tells(t, history),
         NEW load \in Loads, NEW u,
         Inserted(u, t, load.provider, load.services, DOMAIN load.services)
  PROVE  Tells(u, Append(history, load))
  <1> DEFINE more == Append(history, load)
             K(h, n) == KeysOf(h[n].services, DOMAIN h[n].services)
             N == Len(history)
             new == KeysOf(load.services, DOMAIN load.services)
  <1>1. N \in Nat /\ Len(more) = N + 1 /\ more[N + 1] = load
        /\ \A n \in 1 .. N : more[n] = history[n]
    BY AppendProperties, LenProperties
  <1>2. \A n : n \in 1 .. Len(more) <=> n \in 1 .. N \/ n = N + 1
    BY <1>1
  <1> HIDE DEF more
  <1>3. /\ \A n \in 1 .. N : K(more, n) = K(history, n)
        /\ K(more, N + 1) = new
    BY <1>1
  <1>4. DOMAIN t = UNION {K(history, n) : n \in 1 .. N}
    BY DEF Tells
  <1>5. DOMAIN u = DOMAIN t \cup new
    BY DEF Inserted
  <1>6. DOMAIN u = UNION {K(more, n) : n \in 1 .. Len(more)}
    <2> HIDE DEF K, new, N
    <2>1. UNION {K(more, n) : n \in 1 .. Len(more)} = (UNION {K(history, n) : n \in 1 .. N}) \cup new
      BY <1>2, <1>3
    <2> QED BY <1>4, <1>5, <2>1
  <1>7. ASSUME NEW key \in DOMAIN u
        PROVE  \E n \in 1 .. Len(more) :
                  /\ \E s \in DOMAIN more[n].services :
                        /\ key \in Keys(more[n].services[s])
                        /\ u[key] = ServiceInfo(more[n].provider, s)
                  /\ \A m \in 1 .. Len(more) : key \in K(more, m) => m <= n
    <2>1. CASE key \in new
      <3>1. PICK s \in DOMAIN load.services :
              key \in Keys(load.services[s]) /\ u[key] = ServiceInfo(load.provider, s)
        BY <2>1 DEF Inserted
      <3>2. N + 1 \in 1 .. Len(more) /\ \A m \in 1 .. Len(more) : m <= N + 1
        BY <1>1
      <3> QED BY <1>1, <3>1, <3>2
    <2>2. CASE key \notin new
      <3>1. key \in DOMAIN t /\ u[key] = t[key]
        BY <1>5, <2>2 DEF Inserted
      <3>2. PICK n \in 1 .. N :
              /\ \E s \in DOMAIN history[n].services :
                    /\ key \in Keys(history[n].services[s])
                    /\ t[key] = ServiceInfo(history[n].provider, s)
              /\ \A m \in 1 .. N : key \in K(history, m) => m <= n
        BY <3>1 DEF Tells
      <3>3. n \in 1 .. Len(more) /\ more[n] = history[n]
        BY <1>1, <1>2
      <3>4. \A m \in 1 .. Len(more) : key \in K(more, m) => m <= n
        <4> HIDE DEF K, new
        <4> QED BY <1>2, <1>3, <2>2, <3>2
      <3>5. \E s \in DOMAIN more[n].services :
              /\ key \in Keys(more[n].services[s])
              /\ u[key] = ServiceInfo(more[n].provider, s)
        BY <3>1, <3>2, <3>3
      <3> QED BY <3>3, <3>4, <3>5
    <2> QED BY <2>1, <2>2
  <1> QED BY <1>6, <1>7 DEF Tells, more

\* The empty table behind no call.
LEMMA TellsNone == Tells(<<>>, <<>>)
  <1>1. DOMAIN <<>> = {} /\ Len(<<>>) = 0
    OBVIOUS
  <1>2. 1 .. 0 = {}
    OBVIOUS
  <1> QED BY <1>1, <1>2 DEF Tells

\* A load, merged or not, of a file.
LEMMA FileLoads ==
  ASSUME IInv, TableTells, NEW file \in Files, NEW order \in Orders(file.services),
         \/ table' = Load(table, file.provider, file.services, order)
         \/ table' = Merge(table, Load(<<>>, file.provider, file.services, order)),
         calls' = Called(file.provider, file.services)
  PROVE  TableTells'
  <1> DEFINE load == [provider |-> file.provider, services |-> file.services]
  <1>1. /\ load \in Loads /\ calls' = Append(calls, load) /\ calls \in Seq(Loads)
        /\ load.provider = file.provider /\ load.services = file.services
    BY DEF Loads, Called, IInv
  <1> HIDE DEF load
  <1>2. Len(order) \in Nat /\ {order[i] : i \in 1 .. Len(order)} = DOMAIN file.services
    BY OrdersAll, RangesAssumption
  <1>3. Inserted(table', table, file.provider, file.services, DOMAIN file.services)
    BY <1>2, LoadIs, MergeIs
  <1> QED BY <1>1, <1>3, TellsMore DEF TableTells

\* Each step keeps the table in line with the history.
LEMMA TableTellsStep == IInv /\ TableTells /\ [Next]_vars => TableTells'
  <1> SUFFICES ASSUME IInv, TableTells, [Next]_vars PROVE TableTells'
    OBVIOUS
  <1>1. CASE UNCHANGED <<table, calls>>
    BY <1>1 DEF TableTells
  <1>2. CASE ReadFile
    <2>1. files[Names[next]] \in Files
      BY <1>2, NamesAreProviders DEF ReadFile, IInv
    <2> QED BY <1>2, <2>1, FileLoads DEF ReadFile
  <1>3. CASE FailFile
    BY <1>3, TellsNone DEF FailFile, TableTells
  <1>4. ASSUME NEW file \in Files, OwnerLoads(file) \/ OwnerMerges(file) PROVE TableTells'
    BY <1>4, FileLoads DEF OwnerLoads, OwnerMerges
  <1> QED BY <1>1, <1>2, <1>3, <1>4 DEF Next, SkipMissing, Loaded, vars

-----------------------------------------------------------------------------
(***************************************************************************)
(* Lookups.                                                                *)
(***************************************************************************)
\* The prefix of a text.
LEMMA KeyIs ==
  ASSUME NEW text \in Text
  PROVE  /\ Key(text).fam = text.fam /\ Len(Key(text).bits) = text.len
         /\ text.len \in 0 .. Bits[text.fam] /\ text.fam \in Families
         /\ Key(text).bits = [k \in 1 .. text.len |-> text.bits[k]]
  <1>1. /\ text.bits \in Seq({0, 1}) /\ text.len \in Nat /\ text.fam \in Families
        /\ Len(text.bits) = Bits[text.fam] /\ text.len <= Bits[text.fam]
    BY DEF Text
  <1> DEFINE b == text.bits
             n == text.len
             cut == SubSeq(b, 1, n)
  <1>2. b \in Seq({0, 1}) /\ n \in 0 .. Len(b) /\ Bits[text.fam] \in Nat
    BY <1>1, RangesAssumption, LenProperties
  <1> HIDE DEF b, n
  <1>3. SubSeq(b, 1, n) = [k \in 1 .. n |-> b[k]] /\ Len(SubSeq(b, 1, n)) = n
    BY <1>2
  <1>4. cut = [k \in 1 .. n |-> b[k]] /\ Len(cut) = n
    BY <1>3
  <1>5. Key(text).fam = text.fam /\ Key(text).bits = cut
    BY DEF Key, cut, b, n
  <1> QED BY <1>1, <1>4, <1>5 DEF b, n

\* The prefix of a text covers the addresses the text lists.
LEMMA CoversIs ==
  ASSUME NEW text \in Text, text.parses, NEW addr \in IpAddr
  PROVE  Covers(Key(text), addr) <=> Lists(text, addr)
  <1>1. /\ Key(text).fam = text.fam /\ Len(Key(text).bits) = text.len
        /\ text.len \in 0 .. Bits[text.fam] /\ text.fam \in Families
        /\ Key(text).bits = [k \in 1 .. text.len |-> text.bits[k]]
    BY KeyIs
  <1>2. addr.fam \in Families /\ addr.bits \in [1 .. Bits[addr.fam] -> {0, 1}]
        /\ Bits[addr.fam] \in Nat
    BY RangesAssumption DEF IpAddr
  <1> DEFINE p == Key(text).bits
             a == addr.bits
             n == text.len
  <1>3. CASE text.fam = addr.fam
    <2>1. Len(a) = Bits[addr.fam] /\ n \in 0 .. Len(a) /\ Len(p) = n
          /\ a \in Seq({0, 1})
      BY <1>1, <1>2, <1>3
    <2>2. p = [k \in 1 .. n |-> text.bits[k]]
      BY <1>1
    <2> HIDE DEF p, a, n
    <2>3. SubSeq(p, 1, n) = [k \in 1 .. n |-> text.bits[k]]
      BY <2>1, <2>2
    <2>4. SubSeq(a, 1, n) = [k \in 1 .. n |-> a[k]]
      BY <2>1
    <2>5. IsPrefix(p, a) <=> SubSeq(p, 1, n) = SubSeq(a, 1, n)
      BY <2>1 DEF IsPrefix
    <2>6. IsPrefix(p, a) <=> \A k \in 1 .. n : text.bits[k] = a[k]
      BY <2>3, <2>4, <2>5
    <2> QED BY <1>1, <1>3, <2>6 DEF Covers, Lists, p, a, n
  <1>4. CASE text.fam # addr.fam
    BY <1>1, <1>4 DEF Covers, Lists
  <1> QED BY <1>3, <1>4

\* Texts of one length that list an address have one prefix.
LEMMA SameKey ==
  ASSUME NEW text \in Text, NEW other \in Text, text.len = other.len,
         NEW addr, Lists(text, addr), Lists(other, addr)
  PROVE  Key(text) = Key(other)
  <1>1. text.len \in Nat
    BY DEF Text
  <1>2. /\ Key(text).bits = [k \in 1 .. text.len |-> text.bits[k]]
        /\ Key(other).bits = [k \in 1 .. text.len |-> other.bits[k]]
    BY KeyIs
  <1>3. \A k \in 1 .. text.len : text.bits[k] = other.bits[k]
    BY DEF Lists
  <1>4. Key(text).bits = Key(other).bits
    BY <1>2, <1>3
  <1>5. text.fam = other.fam
    BY DEF Lists
  <1> QED BY <1>4, <1>5 DEF Key

\* What is listed in the history, in the pieces the proof uses.
LEMMA ListedTexts ==
  ASSUME calls \in Seq(Loads), NEW n \in 1 .. Len(calls)
  PROVE  /\ DOMAIN calls = 1 .. Len(calls)
         /\ \A s \in DOMAIN calls[n].services : calls[n].services[s] \in Seq(Text)
  <1>1. calls[n] \in Loads
    OBVIOUS
  <1>2. PICK file \in Files : calls[n] = [provider |-> file.provider, services |-> file.services]
    BY <1>1 DEF Loads
  <1>3. calls[n].services = file.services
    BY <1>2
  <1> QED BY <1>3, RangesAssumption

\* A prefix that some text of a list has.
LEMMA KeysAre ==
  ASSUME NEW texts \in Seq(Text), NEW key
  PROVE  key \in Keys(texts) <=>
           \E i \in DOMAIN texts : texts[i] \in Text /\ texts[i].parses /\ key = Key(texts[i])
  <1>1. \A i \in DOMAIN texts : texts[i] \in Text
    OBVIOUS
  <1> QED BY <1>1 DEF Keys

\* A lookup gives a longest prefix that covers the address, if one does.
LEMMA LookupIs ==
  ASSUME NEW t, NEW addr, NEW found, found = {p \in DOMAIN t : Covers(p, addr)},
         \A p \in found : Len(p.bits) \in 0 .. Bits[addr.fam], Bits[addr.fam] \in Nat
  PROVE  /\ IsServiceIp(t, addr) <=> found # {}
         /\ found # {} => \E p \in found : /\ Lookup(t, addr) = <<t[p]>>
                                           /\ \A q \in found : Len(q.bits) <= Len(p.bits)
  <1> DEFINE best(p) == \A q \in found : Len(q.bits) <= Len(p.bits)
             p0 == CHOOSE p \in found : best(p)
  <1>1. CASE found = {}
    <2>1. Lookup(t, addr) = <<>>
      BY <1>1 DEF Lookup
    <2> QED BY <1>1, <2>1 DEF IsServiceIp
  <1>2. CASE found # {}
    <2> DEFINE T == {Bits[addr.fam] - Len(p.bits) : p \in found}
    <2>1. T \in SUBSET Nat /\ T # {}
      BY <1>2
    <2>2. PICK x \in T : \A y \in T : x <= y
      BY <2>1, LeastNat
    <2>3. PICK p \in found : x = Bits[addr.fam] - Len(p.bits)
      BY <2>2
    <2>4. best(p)
      <3>1. ASSUME NEW q \in found PROVE Len(q.bits) <= Len(p.bits)
        <4>1. Bits[addr.fam] - Len(p.bits) <= Bits[addr.fam] - Len(q.bits)
          BY <2>2, <2>3
        <4>2. Len(p.bits) \in Nat /\ Len(q.bits) \in Nat
          OBVIOUS
        <4> QED BY <4>1, <4>2
      <3> QED BY <3>1
    <2> HIDE DEF best
    <2>5. p0 \in found /\ best(p0)
      BY <2>4, Zenon
    <2>6. Lookup(t, addr) = <<t[p0]>>
      BY <1>2 DEF Lookup, best
    <2>7. Lookup(t, addr) # <<>>
      BY <2>6
    <2> HIDE DEF p0
    <2>8. \A q \in found : Len(q.bits) <= Len(p0.bits)
      BY <2>5 DEF best
    <2> QED BY <1>2, <2>5, <2>6, <2>7, <2>8 DEF IsServiceIp
  <1> QED BY <1>1, <1>2

\* The listings of an address are the listings of its longest prefixes.
LEMMA OwnerFollows == IInv /\ TableTells => OwnerIsTheClosestListing
  <1> SUFFICES ASSUME IInv, TableTells, NEW addr \in IpAddr
               PROVE  LET listings == Listings(addr)
                          longest  == {l \in listings : \A m \in listings : m.text.len <= l.text.len}
                          last     == {l \in longest : \A m \in longest : m.call <= l.call}
                      IN /\ IsServiceIp(table, addr) <=> listings # {}
                         /\ IsServiceIp(table, addr) =>
                              \E l \in last :
                                 Lookup(table, addr) =
                                   <<ServiceInfo(calls[l.call].provider, l.service)>>
    BY DEF OwnerIsTheClosestListing
  <1> DEFINE listings == Listings(addr)
             longest  == {l \in listings : \A m \in listings : m.text.len <= l.text.len}
             last     == {l \in longest : \A m \in longest : m.call <= l.call}
             found    == {p \in DOMAIN table : Covers(p, addr)}
             of(n)    == KeysOf(calls[n].services, DOMAIN calls[n].services)
  <1>1. calls \in Seq(Loads) /\ Len(calls) \in Nat /\ DOMAIN calls = 1 .. Len(calls)
    BY LenProperties DEF IInv
  <1>2. \A n \in 1 .. Len(calls) : \A s \in DOMAIN calls[n].services :
           calls[n].services[s] \in Seq(Text)
    BY <1>1, ListedTexts
  \* A listing, taken apart.
  <1>3. ASSUME NEW l \in listings
        PROVE  /\ l.call \in 1 .. Len(calls) /\ l.service \in DOMAIN calls[l.call].services
               /\ l.text \in Text /\ l.text.parses /\ Lists(l.text, addr)
               /\ Key(l.text) \in Keys(calls[l.call].services[l.service])
               /\ Key(l.text) \in of(l.call) /\ Key(l.text) \in found
               /\ Len(Key(l.text).bits) = l.text.len /\ l.text.len \in Nat
    <2>1. PICK n \in 1 .. Len(calls) : l \in EntriesOf(n)
      BY <1>1 DEF Listings
    <2>2. PICK s \in DOMAIN calls[n].services :
            \E i \in DOMAIN calls[n].services[s] :
               l = [call |-> n, service |-> s, text |-> calls[n].services[s][i]]
      BY <2>1 DEF EntriesOf
    <2>3. PICK i \in DOMAIN calls[n].services[s] :
            l = [call |-> n, service |-> s, text |-> calls[n].services[s][i]]
      BY <2>2
    <2>4. l.call = n /\ l.service = s /\ l.text = calls[n].services[s][i]
      BY <2>3
    <2>5. Lists(l.text, addr)
      BY DEF Listings
    <2>6. l.text \in Text /\ l.text.parses
      BY <1>2, <2>4, <2>5 DEF Lists
    <2>7. Key(l.text) \in Keys(calls[n].services[s])
      BY <1>2, <2>4, <2>6, KeysAre
    <2>8. Key(l.text) \in of(n)
      BY <2>7 DEF KeysOf
    <2>9. Key(l.text) \in DOMAIN table
      BY <2>8 DEF TableTells, Tells
    <2>10. Covers(Key(l.text), addr)
      BY <2>5, <2>6, CoversIs
    <2>11. Len(Key(l.text).bits) = l.text.len /\ l.text.len \in Nat
      BY <2>6, KeyIs DEF Text
    <2> QED BY <2>4, <2>5, <2>6, <2>7, <2>8, <2>9, <2>10, <2>11
  \* A prefix that covers the address comes from a listing of the last call
  \* that has it.
  <1>4. ASSUME NEW p \in found
        PROVE  \E l \in listings :
                  /\ p = Key(l.text)
                  /\ table[p] = ServiceInfo(calls[l.call].provider, l.service)
                  /\ \A m \in 1 .. Len(calls) : p \in of(m) => m <= l.call
    <2>1. PICK n \in 1 .. Len(calls) :
            /\ \E s \in DOMAIN calls[n].services :
                  /\ p \in Keys(calls[n].services[s])
                  /\ table[p] = ServiceInfo(calls[n].provider, s)
            /\ \A m \in 1 .. Len(calls) : p \in of(m) => m <= n
      BY DEF TableTells, Tells
    <2>2. PICK s \in DOMAIN calls[n].services :
            p \in Keys(calls[n].services[s]) /\ table[p] = ServiceInfo(calls[n].provider, s)
      BY <2>1
    <2>3. PICK i \in DOMAIN calls[n].services[s] :
            /\ calls[n].services[s][i] \in Text /\ calls[n].services[s][i].parses
            /\ p = Key(calls[n].services[s][i])
      BY <1>2, <2>2, KeysAre
    <2> DEFINE l == [call |-> n, service |-> s, text |-> calls[n].services[s][i]]
    <2>4. l.call = n /\ l.service = s /\ l.text = calls[n].services[s][i]
      OBVIOUS
    <2>5. l \in EntriesOf(n)
      BY DEF EntriesOf
    <2>6. Lists(l.text, addr)
      BY <2>3, <2>4, CoversIs
    <2> HIDE DEF l
    <2>7. l \in listings
      BY <1>1, <2>5, <2>6 DEF Listings
    <2> QED BY <2>1, <2>2, <2>3, <2>4, <2>7
  <1>5. addr.fam \in Families /\ Bits[addr.fam] \in Nat
    BY RangesAssumption DEF IpAddr
  <1>6. \A p \in found : Len(p.bits) \in 0 .. Bits[addr.fam]
    <2> SUFFICES ASSUME NEW p \in found PROVE Len(p.bits) \in 0 .. Bits[addr.fam]
      OBVIOUS
    <2>1. PICK l \in listings : p = Key(l.text)
      BY <1>4
    <2>2. l.text \in Text /\ l.text.fam = addr.fam
      BY <1>3, <2>1 DEF Lists
    <2> QED BY <2>1, <2>2, KeyIs
  <1>7. /\ IsServiceIp(table, addr) <=> found # {}
        /\ found # {} => \E p \in found : /\ Lookup(table, addr) = <<table[p]>>
                                          /\ \A q \in found : Len(q.bits) <= Len(p.bits)
    <2> DEFINE all == found
    <2>1. all = {p \in DOMAIN table : Covers(p, addr)}
      OBVIOUS
    <2>2. \A p \in all : Len(p.bits) \in 0 .. Bits[addr.fam]
      BY <1>6
    <2> HIDE DEF all
    <2>3. /\ IsServiceIp(table, addr) <=> all # {}
          /\ all # {} => \E p \in all : /\ Lookup(table, addr) = <<table[p]>>
                                        /\ \A q \in all : Len(q.bits) <= Len(p.bits)
      BY <1>5, <2>1, <2>2, LookupIs
    <2> QED BY <2>3 DEF all
  <1> HIDE DEF found, listings, of
  <1>8. found # {} <=> listings # {}
    BY <1>3, <1>4
  <1>9. ASSUME found # {}
        PROVE  \E l \in last :
                  Lookup(table, addr) = <<ServiceInfo(calls[l.call].provider, l.service)>>
    <2>1. PICK p \in found : /\ Lookup(table, addr) = <<table[p]>>
                             /\ \A q \in found : Len(q.bits) <= Len(p.bits)
      BY <1>7, <1>9
    <2>2. PICK l \in listings :
            /\ p = Key(l.text)
            /\ table[p] = ServiceInfo(calls[l.call].provider, l.service)
            /\ \A m \in 1 .. Len(calls) : p \in of(m) => m <= l.call
      BY <1>4
    <2>3. \A m \in listings : m.text.len <= l.text.len
      BY <1>3, <2>1, <2>2
    <2>4. l \in longest
      BY <2>3
    <2>5. ASSUME NEW m \in longest PROVE m.call <= l.call
      <3>1. m \in listings /\ l.text.len <= m.text.len
        BY <2>2
      <3>2. l.text.len = m.text.len
        BY <1>3, <2>3, <3>1
      <3>3. Key(m.text) = p
        BY <1>3, <2>2, <3>1, <3>2, SameKey
      <3> QED BY <1>3, <2>2, <3>1, <3>3
    <2>6. l \in last
      BY <2>4, <2>5
    <2> QED BY <2>1, <2>2, <2>6
  <1> QED BY <1>7, <1>8, <1>9 DEF listings

\* A lookup gives the closest listing of the texts loaded so far, of the last
\* call that has it, whatever the order of the HashMaps and however loads and
\* merges follow each other (service_ranges.rs:106-149).
THEOREM LookupGivesTheClosest == Spec => []OwnerIsTheClosestListing
  <1>1. Init => IInv /\ TableTells
    BY EmptySeq, TellsNone DEF Init, IInv, TableTells
  <1> QED BY <1>1, Inductive, TableTellsStep, OwnerFollows, PTL DEF Spec
=============================================================================
