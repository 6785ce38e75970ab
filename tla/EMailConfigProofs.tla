-------------------------- MODULE EMailConfigProofs --------------------------
(***************************************************************************)
(* Proofs about the configuration of EMailAutoCheck, for any number of     *)
(* tasks and accounts, any finite set of threads, intervals and bounds:    *)
(* what is stored is well formed, memory agrees with the file when no      *)
(* update is under way, a checked task waits for its interval, and an      *)
(* update that no other meets changes nothing but its own.                 *)
(***************************************************************************)
EXTENDS EMailAutoCheckProofs, SequenceTheorems, FiniteSetTheorems, WellFoundedInduction

-----------------------------------------------------------------------------
(* The inductive invariant of what is stored *)

\* From this time to that, somebody's interval is over.
Room(ran, next) == \E p \in Posters : next >= ran + Interval[p]
Spaced(e) == e.ran # 0 /\ e.next # 0 => Room(e.ran, e.next)

\* A list has at most one item with an id; at time t, none has run later, and none
\* runs again too early unless that is excused.
Listing(list, ids, t, excused) ==
    /\ list \in Seq(Entry)
    /\ \A i \in DOMAIN list : /\ list[i].id \in ids
                              /\ list[i].ran <= t
                              /\ excused \/ Spaced(list[i])
    /\ \A i, j \in DOMAIN list : list[i].id = list[j].id => i = j

Configuration(c, t, excused) ==
    /\ c = [text |-> c.text, tasks |-> c.tasks, accts |-> c.accts]
    /\ Listing(c.tasks, Tasks, t, excused)
    /\ Listing(c.accts, Accounts, t, excused)

Pointers == [tasks : Arrays, accts : Arrays]
Points(c) == Configuration(Content(c), now, mixed)

\* Memory: the arrays, and who points to them.
Memory ==
    /\ heap \in [Arrays -> Seq(Entry)] /\ heap[0] = <<>>
    /\ config \in Pointers /\ Points(config)
    /\ mine \in [Procs -> Pointers] /\ \A p \in Procs : Points(mine[p])
    /\ known \in [Accounts -> SUBSET Posters]
    /\ loaded => scheduled /\ config # Nil

Files ==
    /\ Configuration(file, now, mixed)
    /\ \A c \in tmp : Configuration(c, now, mixed)
    /\ \A c, d \in tmp : c = d
    /\ data = [p \in Procs |-> data[p]]
    /\ \A p \in Procs : Configuration(data[p], now, mixed)

TaskKinds == {"task", "untask", "run"}
AccountKinds == {"account", "unaccount", "login", "check"}

\* What is posted would not run too early after any run that its poster has seen.
JobFits(j, t, excused) ==
    /\ IsJob(j)
    /\ j.copy \in Entry /\ j.copy.id = j.id /\ j.copy.ran <= t
    /\ excused \/ Spaced(j.copy)
    /\ j.copy.ran = 0 /\ j.copy.next # 0 =>
          \A r \in j.seen : r # 0 => Room(r, j.copy.next)
    /\ j.kind # "task" => j.seen = {}
    /\ j.kind \in TaskKinds => j.id \in Tasks
    /\ j.kind \in AccountKinds => j.id \in Accounts

JobsFit ==
    /\ \A p \in Procs : JobFits(job[p], now, mixed)
    /\ Listing(queue, Tasks, now, mixed)

Places ==
    /\ at = [p \in Procs |-> at[p]]
    /\ \A p \in Procs : /\ mine[p] # Nil => pc[p] \in {"edit", "rest"}
                        /\ at[p] # "closed" => pc[p] = "put"

Clock ==
    /\ Tasks # {}
    /\ now \in 1 .. MaxNow /\ boots \in 0 .. MaxBoots

SInv == Memory /\ Files /\ JobsFit /\ Places /\ Clock

\* An update has changed what memory points to, or the file, and has not loaded it.
Dirty(label) == label \in {"rest", "open", "put", "rename", "reload"}

CleanAgrees ==
    ~clash /\ ~failed /\ loaded /\ (\A p \in Procs : ~Dirty(pc[p])) => Content(config) = file
-----------------------------------------------------------------------------
(* What a filter keeps *)

\* A set of numbers has a least one, which is all the induction there is below: a
\* property of numbers that fails has a least number at which it does.
LEMMA Least ==
    ASSUME NEW T, T \subseteq Nat, T # {}
    PROVE  \E m \in T : \A n \in T : m <= n
<1>1. IsWellFoundedOn(OpToRel(<, Nat), Nat)
  BY NatLessThanWellFounded
<1>2. PICK x \in T : \A y \in T : ~(<<y, x>> \in OpToRel(<, Nat))
  BY <1>1, WFMin
<1>3. \A y \in T : ~(y < x)
  BY <1>2 DEF OpToRel
<1>. QED  BY <1>3

\* The step of the loop in Kept, from what it has kept before.
Taken(g, s, I, n) ==
    IF n = 0 THEN <<>> ELSE IF n \in I THEN Append(g[n - 1], s[n]) ELSE g[n - 1]
Loop(g, s, I, m) == g = [n \in 0 .. m |-> Taken(g, s, I, n)]

LEMMA LoopGoesOn ==
    ASSUME NEW s, NEW I, NEW m \in Nat \ {0}, NEW g, Loop(g, s, I, m - 1)
    PROVE  \E h : Loop(h, s, I, m)
<1>. DEFINE h == [n \in 0 .. m |-> IF n = m THEN Taken(g, s, I, m) ELSE g[n]]
<1>1. ASSUME NEW n \in 0 .. m
      PROVE  h[n] = Taken(h, s, I, n)
  <2>1. CASE n = m
    BY <2>1 DEF Taken
  <2>2. CASE n # m
    <3>1. n \in 0 .. m - 1 /\ h[n] = g[n]
      BY <2>2
    <3>2. n # 0 => h[n - 1] = g[n - 1]
      BY <3>1
    <3>. QED  BY <3>1, <3>2 DEF Taken, Loop
  <2>. QED  BY <2>1, <2>2
<1>. DEFINE k == [n \in 0 .. m |-> Taken(h, s, I, n)]
<1>2. \A n \in 0 .. m : h[n] = k[n]
  BY <1>1
<1>3. h = [n \in 0 .. m |-> h[n]] /\ k = [n \in 0 .. m |-> k[n]]
  OBVIOUS
<1>4. k = [n \in 0 .. m |-> Taken(h, s, I, n)]
  OBVIOUS
<1>. HIDE DEF h, k
<1>5. h = k
  BY <1>2, <1>3
<1>. QED  BY <1>4, <1>5 DEF Loop

LEMMA LoopExists ==
    ASSUME NEW s, NEW I
    PROVE  \A m \in Nat : \E g : Loop(g, s, I, m)
<1>. DEFINE T == {m \in Nat : ~ \E g : Loop(g, s, I, m)}
<1>1. SUFFICES T = {}
  OBVIOUS
<1>2. SUFFICES ASSUME T # {} PROVE FALSE
  OBVIOUS
<1>3. T \subseteq Nat
  OBVIOUS
<1>4. PICK m \in T : \A n \in T : m <= n
  <2>. HIDE DEF T
  <2>. QED  BY <1>2, <1>3, Least
<1>5. 0 \notin T
  <2>. DEFINE g == [n \in 0 .. 0 |-> <<>>]
  <2>1. Loop(g, s, I, 0)
    BY DEF Loop, Taken
  <2>. QED  BY <2>1
<1>6. m \in Nat \ {0} /\ m - 1 \in Nat /\ ~(m <= m - 1)
  BY <1>4, <1>5
<1>7. \E g : Loop(g, s, I, m - 1)
  BY <1>4, <1>6
<1>. QED  BY <1>4, <1>6, <1>7, LoopGoesOn

LEMMA KeptIs ==
    ASSUME NEW s, NEW I, Len(s) \in Nat
    PROVE  \E g : Loop(g, s, I, Len(s)) /\ Kept(s, I) = g[Len(s)]
<1>. DEFINE g == CHOOSE h : Loop(h, s, I, Len(s))
<1>1. Loop(g, s, I, Len(s))
  BY LoopExists
<1>2. Kept(s, I) = g[Len(s)]
  BY DEF Kept, Loop, Taken
<1>. QED  BY <1>1, <1>2

\* A list r whose items stand in s, in the same order, up to its place n.
Within(r, s, n) ==
    \E f \in [DOMAIN r -> 1 .. n] :
        /\ \A i \in DOMAIN r : r[i] = s[f[i]]
        /\ \A i, j \in DOMAIN r : i < j => f[i] < f[j]

LEMMA WithinGrows ==
    ASSUME NEW S, NEW s \in Seq(S), NEW r \in Seq(S), NEW n \in 1 .. Len(s), Within(r, s, n - 1)
    PROVE  Within(r, s, n) /\ Append(r, s[n]) \in Seq(S) /\ Within(Append(r, s[n]), s, n)
<1>1. PICK f \in [DOMAIN r -> 1 .. n - 1] :
        /\ \A i \in DOMAIN r : r[i] = s[f[i]]
        /\ \A i, j \in DOMAIN r : i < j => f[i] < f[j]
  BY DEF Within
<1>2. s[n] \in S /\ Len(s) \in Nat /\ n \in Nat /\ Len(r) \in Nat /\ DOMAIN r = 1 .. Len(r)
  BY ElementOfSeq, LenProperties
<1>3. Within(r, s, n)
  <2>1. f \in [DOMAIN r -> 1 .. n]
    BY <1>2
  <2>. QED  BY <1>1, <2>1 DEF Within
<1>. DEFINE a == Append(r, s[n])
            N == Len(r) + 1
            g == [i \in 1 .. N |-> IF i = N THEN n ELSE f[i]]
<1>4. a \in Seq(S) /\ DOMAIN a = 1 .. N /\ a[N] = s[n] /\ \A i \in 1 .. Len(r) : a[i] = r[i]
  <2>1. a \in Seq(S) /\ Len(a) = N
    BY <1>2, AppendProperties
  <2>2. a[N] = s[n] /\ \A i \in 1 .. Len(r) : a[i] = r[i]
    BY <1>2, AppendProperties
  <2>. QED  BY <2>1, <2>2, LenProperties
<1>5. \A i \in 1 .. N : i # N => i \in 1 .. Len(r) /\ f[i] \in 1 .. n - 1
  <2>1. \A i \in 1 .. N : i # N => i \in 1 .. Len(r)
    BY <1>2
  <2>2. \A i \in 1 .. Len(r) : f[i] \in 1 .. n - 1
    BY <1>1, <1>2
  <2>. QED  BY <2>1, <2>2
<1>6. g \in [1 .. N -> 1 .. n] /\ g[N] = n /\ \A i \in 1 .. N : i # N => g[i] = f[i]
  <2>1. N \in 1 .. N /\ n \in 1 .. n
    BY <1>2
  <2>2. \A i \in 1 .. N : i # N => f[i] \in 1 .. n
    BY <1>2, <1>5
  <2>. HIDE DEF N
  <2>3. g \in [1 .. N -> 1 .. n]
    BY <2>1, <2>2
  <2>. QED  BY <2>1, <2>3
<1>. HIDE DEF a, g
<1>7. \A i \in 1 .. N : a[i] = s[g[i]]
  BY <1>1, <1>2, <1>4, <1>5, <1>6
<1>8. ASSUME NEW i \in 1 .. N, NEW j \in 1 .. N, i < j
      PROVE  g[i] < g[j]
  <2>1. i # N /\ i \in 1 .. Len(r) /\ g[i] = f[i] /\ f[i] \in 1 .. n - 1
    BY <1>2, <1>5, <1>6, <1>8
  <2>2. CASE j = N
    BY <1>2, <1>6, <2>1, <2>2
  <2>3. CASE j # N
    BY <1>1, <1>2, <1>5, <1>6, <1>8, <2>1, <2>3
  <2>. QED  BY <2>2, <2>3
<1>9. Within(a, s, n)
  BY <1>4, <1>6, <1>7, <1>8 DEF Within
<1>. QED  BY <1>3, <1>4, <1>9 DEF a

\* What is kept of a list is a list of some of its items, in their order.
LEMMA KeptWithin ==
    ASSUME NEW S, NEW s \in Seq(S), NEW I
    PROVE  Kept(s, I) \in Seq(S) /\ Within(Kept(s, I), s, Len(s))
<1>1. Len(s) \in Nat
  BY LenProperties
<1>2. PICK g : Loop(g, s, I, Len(s)) /\ Kept(s, I) = g[Len(s)]
  BY <1>1, KeptIs
<1>. DEFINE Good(n) == g[n] \in Seq(S) /\ Within(g[n], s, n)
            T == {n \in 0 .. Len(s) : ~Good(n)}
<1>3. SUFFICES T = {}
  BY <1>1, <1>2
<1>4. SUFFICES ASSUME T # {} PROVE FALSE
  OBVIOUS
<1>5. T \subseteq Nat
  OBVIOUS
<1>6. PICK m \in T : \A n \in T : m <= n
  <2>. HIDE DEF T
  <2>. QED  BY <1>4, <1>5, Least
<1>7. Good(0)
  <2>1. g[0] = <<>>
    BY <1>1, <1>2 DEF Loop, Taken
  <2>2. <<>> \in Seq(S) /\ DOMAIN <<>> = {}
    BY EmptySeq, LenProperties
  <2>3. Within(<<>>, s, 0)
    <3>. DEFINE f == [i \in {} |-> 0]
    <3>1. f \in [{} -> 1 .. 0]
      OBVIOUS
    <3>. QED  BY <2>2, <3>1 DEF Within
  <2>. QED  BY <2>1, <2>2, <2>3
<1>8. m \in 1 .. Len(s) /\ m - 1 \in 0 .. Len(s) /\ m \in 0 .. Len(s) /\ ~(m <= m - 1) /\ m # 0
  <2>1. m \in 0 .. Len(s) /\ m # 0
    BY <1>6, <1>7
  <2>. QED  BY <1>1, <2>1
<1>9. Good(m - 1)
  BY <1>6, <1>8
<1>10. g[m] = IF m \in I THEN Append(g[m - 1], s[m]) ELSE g[m - 1]
  BY <1>2, <1>8 DEF Loop, Taken
<1>11. Good(m)
  BY <1>8, <1>9, <1>10, WithinGrows
<1>. QED  BY <1>6, <1>11

-----------------------------------------------------------------------------
(* Lists and configurations *)

\* What may stand in a list.
Fits(e, ids, t, excused) ==
    e \in Entry /\ e.id \in ids /\ e.ran <= t /\ (excused \/ Spaced(e))

LEMMA EntryFacts ==
    ASSUME NEW e \in Entry
    PROVE  e.ran \in Nat /\ e.next \in Nat /\ e.on \in BOOLEAN /\ e.edit \in Posters
           /\ e.id \in Tasks \union Accounts
           /\ MaxNow \in Nat
BY TimeAssumption DEF Entry

LEMMA RoomAhead ==
    ASSUME NEW p \in Posters, now \in Nat
    PROVE  /\ now + Interval[p] \in Nat /\ now + Interval[p] # 0
           /\ \A r \in Nat : r <= now => Room(r, now + Interval[p])
<1>1. Interval[p] \in Nat /\ Interval[p] # 0
  BY IntervalAssumption DEF Posters
<1>2. ASSUME NEW r \in Nat, r <= now
      PROVE  Room(r, now + Interval[p])
  <2>1. now + Interval[p] >= r + Interval[p]
    BY <1>1, <1>2
  <2>. QED  BY <2>1 DEF Room
<1>. QED  BY <1>1, <1>2

\* An item is one of its fields.
LEMMA EntryIs ==
    ASSUME NEW e
    PROVE  e \in Entry <=>
              /\ e = [id |-> e.id, on |-> e.on, edit |-> e.edit, next |-> e.next, ran |-> e.ran]
              /\ e.id \in Tasks \union Accounts /\ e.on \in BOOLEAN /\ e.edit \in Posters
              /\ e.next \in Nat /\ e.ran \in 0 .. MaxNow
BY DEF Entry

LEMMA ListingFacts ==
    ASSUME NEW list, NEW ids, NEW t, NEW x
    PROVE  Listing(list, ids, t, x) <=>
              /\ list \in Seq(Entry)
              /\ \A i \in 1 .. Len(list) : Fits(list[i], ids, t, x)
              /\ \A i, j \in 1 .. Len(list) : list[i].id = list[j].id => i = j
<1>1. CASE list \in Seq(Entry)
  <2>1. DOMAIN list = 1 .. Len(list) /\ \A i \in 1 .. Len(list) : list[i] \in Entry
    BY <1>1, LenProperties, ElementOfSeq
  <2>. QED  BY <1>1, <2>1 DEF Listing, Fits
<1>. QED  BY <1>1 DEF Listing

LEMMA ListingStays ==
    ASSUME NEW list, NEW ids, NEW t \in Nat, NEW x, NEW u \in Nat, NEW y,
           Listing(list, ids, t, x), t <= u, x => y
    PROVE  Listing(list, ids, u, y)
<1>1. ASSUME NEW i \in 1 .. Len(list), Fits(list[i], ids, t, x)
      PROVE  Fits(list[i], ids, u, y)
  <2>1. list[i].ran \in Nat
    BY <1>1, EntryFacts DEF Fits
  <2>2. list[i].ran <= u
    BY <1>1, <2>1 DEF Fits
  <2>. QED  BY <1>1, <2>2 DEF Fits
<1>. QED  BY <1>1, ListingFacts

LEMMA ConfigurationStays ==
    ASSUME NEW c, NEW t \in Nat, NEW x, NEW u \in Nat, NEW y,
           Configuration(c, t, x), t <= u, x => y
    PROVE  Configuration(c, u, y)
BY ListingStays DEF Configuration

LEMMA EmptyListing ==
    ASSUME NEW ids, NEW t, NEW x
    PROVE  Listing(<<>>, ids, t, x)
<1>1. <<>> \in Seq(Entry) /\ Len(<<>>) = 0
  BY EmptySeq
<1>2. 1 .. Len(<<>>) = {}
  BY <1>1
<1>. QED  BY <1>1, <1>2, ListingFacts

LEMMA KeptListing ==
    ASSUME NEW list, NEW ids, NEW t, NEW x, NEW I, Listing(list, ids, t, x)
    PROVE  Listing(Kept(list, I), ids, t, x)
<1>. DEFINE r == Kept(list, I)
<1>1. list \in Seq(Entry) /\ Len(list) \in Nat
  BY ListingFacts, LenProperties
<1>2. r \in Seq(Entry) /\ Within(r, list, Len(list)) /\ DOMAIN r = 1 .. Len(r) /\ Len(r) \in Nat
  BY <1>1, KeptWithin, LenProperties
<1>. HIDE DEF r
<1>3. PICK f \in [DOMAIN r -> 1 .. Len(list)] :
         /\ \A i \in DOMAIN r : r[i] = list[f[i]]
         /\ \A i, j \in DOMAIN r : i < j => f[i] < f[j]
  BY <1>2 DEF Within
<1>4. \A i \in 1 .. Len(r) : f[i] \in 1 .. Len(list) /\ Fits(r[i], ids, t, x)
  BY <1>2, <1>3, ListingFacts
<1>5. ASSUME NEW i \in 1 .. Len(r), NEW j \in 1 .. Len(r), r[i].id = r[j].id
      PROVE  i = j
  <2>1. f[i] = f[j]
    <3>1. r[i] = list[f[i]] /\ r[j] = list[f[j]]
      BY <1>2, <1>3
    <3>2. f[i] \in 1 .. Len(list) /\ f[j] \in 1 .. Len(list)
      BY <1>4
    <3>3. \A k, l \in 1 .. Len(list) : list[k].id = list[l].id => k = l
      BY ListingFacts
    <3>. QED  BY <1>5, <3>1, <3>2, <3>3
  <2>2. (i < j => f[i] < f[j]) /\ (j < i => f[j] < f[i])
    BY <1>2, <1>3
  <2>3. f[i] \in Nat /\ f[j] \in Nat
    BY <1>1, <1>4
  <2>. QED  BY <1>2, <2>1, <2>2, <2>3
<1>6. Listing(r, ids, t, x)
  BY <1>2, <1>4, <1>5, ListingFacts
<1>. QED  BY <1>6 DEF r

LEMMA PutListing ==
    ASSUME NEW list, NEW ids, NEW t, NEW x, Listing(list, ids, t, x),
           NEW i \in DOMAIN list, NEW e, Fits(e, ids, t, x), e.id = list[i].id
    PROVE  Listing([list EXCEPT ![i] = e], ids, t, x)
<1>. DEFINE r == [list EXCEPT ![i] = e]
<1>1. list \in Seq(Entry) /\ DOMAIN list = 1 .. Len(list)
  BY ListingFacts, LenProperties
<1>2. r \in Seq(Entry) /\ Len(r) = Len(list)
  BY <1>1, ExceptSeq DEF Fits
<1>3. \A j \in 1 .. Len(list) : r[j] = IF j = i THEN e ELSE list[j]
  BY <1>1
<1>. HIDE DEF r
<1>4. \A j \in 1 .. Len(r) : Fits(r[j], ids, t, x) /\ r[j].id = list[j].id
  BY <1>2, <1>3, ListingFacts
<1>5. Listing(r, ids, t, x)
  BY <1>2, <1>4, ListingFacts
<1>. QED  BY <1>5 DEF r

LEMMA AppendListing ==
    ASSUME NEW list, NEW ids, NEW t, NEW x, Listing(list, ids, t, x),
           NEW e, Fits(e, ids, t, x), \A i \in DOMAIN list : list[i].id # e.id
    PROVE  Listing(Append(list, e), ids, t, x)
<1>. DEFINE r == Append(list, e)
<1>1. list \in Seq(Entry) /\ DOMAIN list = 1 .. Len(list) /\ Len(list) \in Nat
  BY ListingFacts, LenProperties
<1>2. r \in Seq(Entry) /\ Len(r) = Len(list) + 1
  BY <1>1, AppendProperties DEF Fits
<1>3. r[Len(list) + 1] = e /\ \A j \in 1 .. Len(list) : r[j] = list[j]
  BY <1>1, AppendProperties DEF Fits
<1>. HIDE DEF r
<1>4. \A j \in 1 .. Len(r) : j = Len(r) \/ j \in 1 .. Len(list)
  BY <1>1, <1>2
<1>5. \A j \in 1 .. Len(r) : Fits(r[j], ids, t, x)
  BY <1>2, <1>3, <1>4, ListingFacts
<1>6. \A i, j \in 1 .. Len(r) : r[i].id = r[j].id => i = j
  <2>1. \A i, j \in 1 .. Len(list) : r[i].id = r[j].id => i = j
    BY <1>3, ListingFacts
  <2>2. \A i \in 1 .. Len(list) : r[i].id # e.id
    BY <1>1, <1>3
  <2>. QED  BY <1>2, <1>3, <1>4, <2>1, <2>2
<1>7. Listing(r, ids, t, x)
  BY <1>2, <1>5, <1>6, ListingFacts
<1>. QED  BY <1>7 DEF r

LEMMA HeadAndTail ==
    ASSUME NEW list, NEW ids, NEW t, NEW x, Listing(list, ids, t, x), list # <<>>
    PROVE  Fits(Head(list), ids, t, x) /\ Listing(Tail(list), ids, t, x)
<1>. DEFINE r == Tail(list)
<1>1. list \in Seq(Entry) /\ Len(list) \in Nat /\ Len(list) # 0
  BY ListingFacts, LenProperties, EmptySeq
<1>2. Head(list) = list[1] /\ 1 \in 1 .. Len(list)
  BY <1>1, HeadTailProperties
<1>3. /\ r \in Seq(Entry) /\ Len(r) = Len(list) - 1
      /\ \A i \in 1 .. Len(r) : r[i] = list[i + 1]
  BY <1>1, HeadTailProperties
<1>. HIDE DEF r
<1>4. \A i \in 1 .. Len(r) : i + 1 \in 1 .. Len(list)
  BY <1>1, <1>3
<1>5. \A i \in 1 .. Len(r) : Fits(r[i], ids, t, x)
  BY <1>3, <1>4, ListingFacts
<1>6. ASSUME NEW i \in 1 .. Len(r), NEW j \in 1 .. Len(r), r[i].id = r[j].id
      PROVE  i = j
  <2>1. i + 1 = j + 1
    BY <1>3, <1>4, <1>6, ListingFacts
  <2>. QED  BY <2>1
<1>7. Listing(r, ids, t, x)
  BY <1>3, <1>5, <1>6, ListingFacts
<1>. QED  BY <1>2, <1>7, ListingFacts DEF r

\* A task that gets a next time has not run later than now.
LEMMA DatedFits ==
    ASSUME NEW e, NEW ids, NEW x, Fits(e, ids, now, x), now \in 1 .. MaxNow
    PROVE  Fits(Dated(e), ids, now, x) /\ Dated(e).id = e.id /\ Dated(e).ran = e.ran
<1>1. e \in Entry /\ e.id \in ids /\ e.ran <= now /\ (x \/ Spaced(e))
  BY DEF Fits
<1>2. CASE e.on /\ e.next = 0
  <2>. DEFINE n == NextTime(e)
              d == [e EXCEPT !.next = n]
  <2>1. Dated(e) = d
    BY <1>2 DEF Dated
  <2>2. /\ d.id = e.id /\ d.ran = e.ran /\ d.next = n
        /\ d.on = e.on /\ d.edit = e.edit
        /\ d = [id |-> e.id, on |-> e.on, edit |-> e.edit, next |-> n, ran |-> e.ran]
    BY <1>1, EntryIs
  <2>3. n \in Nat /\ Room(e.ran, n)
    BY <1>1, EntryFacts, RoomAhead DEF NextTime
  <2>. HIDE DEF d, n
  <2>4. d \in Entry
    BY <1>1, <2>2, <2>3, EntryIs
  <2>5. Spaced(d)
    BY <2>2, <2>3 DEF Spaced
  <2>. QED  BY <1>1, <2>1, <2>2, <2>4, <2>5 DEF Fits
<1>3. CASE ~(e.on /\ e.next = 0)
  BY <1>3 DEF Dated
<1>. QED  BY <1>2, <1>3

LEMMA NormalizedFits ==
    ASSUME NEW c, NEW x, Configuration(c, now, x), now \in 1 .. MaxNow
    PROVE  Configuration(Normalized(c), now, x) /\ Normalized(c).text = c.text
<1>. DEFINE r == [i \in DOMAIN c.tasks |-> Dated(c.tasks[i])]
<1>1. Normalized(c) = [text |-> c.text, tasks |-> r, accts |-> c.accts]
  BY DEF Normalized, Configuration
<1>2. Listing(c.tasks, Tasks, now, x) /\ c.tasks \in Seq(Entry)
      /\ DOMAIN c.tasks = 1 .. Len(c.tasks) /\ Len(c.tasks) \in Nat
  BY ListingFacts, LenProperties DEF Configuration
<1>3. \A i \in 1 .. Len(c.tasks) :
         r[i] = Dated(c.tasks[i]) /\ Fits(r[i], Tasks, now, x) /\ r[i].id = c.tasks[i].id
  BY <1>2, DatedFits, ListingFacts
<1>4. r \in Seq(Entry) /\ Len(r) = Len(c.tasks)
  <2>1. DOMAIN r = 1 .. Len(c.tasks) /\ r = [i \in 1 .. Len(c.tasks) |-> r[i]]
    BY <1>2
  <2>2. \A i \in 1 .. Len(c.tasks) : r[i] \in Entry
    BY <1>3 DEF Fits
  <2>. DEFINE n == Len(c.tasks)
  <2>. HIDE DEF r
  <2>3. r \in [1 .. n -> Entry] /\ n \in Nat
    BY <1>2, <2>1, <2>2
  <2>. HIDE DEF n
  <2>4. r \in Seq(Entry) /\ Len(r) = n
    BY <2>3
  <2>. QED  BY <2>4 DEF n
<1>. HIDE DEF r
<1>5. Listing(r, Tasks, now, x)
  BY <1>2, <1>3, <1>4, ListingFacts
<1>. QED  BY <1>1, <1>5 DEF Configuration

-----------------------------------------------------------------------------
(* Arrays *)

Readers == Cardinality(Procs)

LEMMA ReadersFinite == IsFiniteSet(Procs) /\ Readers \in Nat
<1>1. IsFiniteSet({Scheduler}) /\ IsFiniteSet(Threads)
  BY FS_Singleton, ThreadsAssumption
<1>2. IsFiniteSet(Procs)
  BY <1>1, FS_Union DEF Procs
<1>. QED  BY <1>2, FS_CardinalityType DEF Readers

LEMMA ImageSmall ==
    ASSUME NEW f, f = [p \in Procs |-> f[p]]
    PROVE  IsFiniteSet({f[p] : p \in Procs}) /\ Cardinality({f[p] : p \in Procs}) <= Readers
<1>. DEFINE T == {f[p] : p \in Procs}
<1>1. f \in Surjection(Procs, T)
  BY DEF Surjection
<1>. HIDE DEF T
<1>2. IsFiniteSet(T) /\ Cardinality(T) <= Readers
  BY <1>1, ReadersFinite, FS_Surjection DEF Readers
<1>. QED  BY <1>2 DEF T

LEMMA UnionSmall ==
    ASSUME NEW S, NEW T, IsFiniteSet(S), IsFiniteSet(T), NEW m \in Nat, NEW n \in Nat,
           Cardinality(S) <= m, Cardinality(T) <= n
    PROVE  IsFiniteSet(S \union T) /\ Cardinality(S \union T) <= m + n
<1>1. IsFiniteSet(S \intersect T)
  BY FS_Subset
<1>2. Cardinality(S) \in Nat /\ Cardinality(T) \in Nat /\ Cardinality(S \intersect T) \in Nat
  BY <1>1, FS_CardinalityType
<1>3. IsFiniteSet(S \union T)
      /\ Cardinality(S \union T) = Cardinality(S) + Cardinality(T) - Cardinality(S \intersect T)
  BY FS_Union
<1>. QED  BY <1>2, <1>3

LEMMA PairSmall ==
    ASSUME NEW x, NEW y
    PROVE  IsFiniteSet({x, y}) /\ Cardinality({x, y}) <= 2
<1>1. IsFiniteSet({x}) /\ IsFiniteSet({y}) /\ Cardinality({x}) <= 1 /\ Cardinality({y}) <= 1
  <2>1. /\ IsFiniteSet({x}) /\ Cardinality({x}) = 1
        /\ IsFiniteSet({y}) /\ Cardinality({y}) = 1
    BY FS_Singleton
  <2>. QED  BY <2>1
<1>2. IsFiniteSet({x} \union {y}) /\ Cardinality({x} \union {y}) <= 1 + 1
  BY <1>1, UnionSmall
<1>3. {x} \union {y} = {x, y}
  OBVIOUS
<1>. QED  BY <1>2, <1>3

\* However many copies there are, two arrays are left for a load.
LEMMA InUseSmall ==
    ASSUME NEW c, NEW m
    PROVE  IsFiniteSet(InUse(c, m)) /\ Cardinality(InUse(c, m)) <= 2 * Readers + 2
<1>. DEFINE f == [p \in Procs |-> m[p].tasks]
            g == [p \in Procs |-> m[p].accts]
            F == {f[p] : p \in Procs}
            G == {g[p] : p \in Procs}
            P == {c.tasks, c.accts}
<1>1. InUse(c, m) = P \union (F \union G)
  BY DEF InUse, ArraysOf
<1>2. /\ IsFiniteSet(F) /\ Cardinality(F) <= Readers
      /\ IsFiniteSet(G) /\ Cardinality(G) <= Readers
  <2>1. f = [p \in Procs |-> f[p]] /\ g = [p \in Procs |-> g[p]]
    OBVIOUS
  <2>. HIDE DEF f, g
  <2>. QED  BY <2>1, ImageSmall
<1>3. IsFiniteSet(P) /\ Cardinality(P) <= 2
  BY PairSmall
<1>. HIDE DEF F, G, P
<1>4. IsFiniteSet(F \union G) /\ Cardinality(F \union G) <= Readers + Readers
  BY <1>2, ReadersFinite, UnionSmall
<1>5. Readers + Readers \in Nat /\ 2 \in Nat /\ 2 + (Readers + Readers) = 2 * Readers + 2
  BY ReadersFinite
<1>6. IsFiniteSet(P \union (F \union G))
      /\ Cardinality(P \union (F \union G)) <= 2 + (Readers + Readers)
  BY <1>3, <1>4, <1>5, UnionSmall
<1>. QED  BY <1>1, <1>5, <1>6

LEMMA FreshIs ==
    ASSUME NEW taken, IsFiniteSet(taken), Cardinality(taken) <= 2 * Readers + 4
    PROVE  Fresh(taken) \in Arrays \ taken
<1>1. Arrays \subseteq Nat /\ Arrays = 0 .. 2 * Readers + 4 /\ Readers \in Nat
  BY ReadersFinite DEF Arrays, Readers
<1>2. IsFiniteSet(Arrays) /\ Cardinality(Arrays) = 2 * Readers + 5
  <2>1. 0 \in Int /\ 2 * Readers + 4 \in Int /\ ~(0 > 2 * Readers + 4)
    BY <1>1
  <2>2. Cardinality(Arrays) = (2 * Readers + 4) - 0 + 1 /\ IsFiniteSet(Arrays)
    BY <1>1, <2>1, FS_Interval
  <2>. QED  BY <1>1, <2>2
<1>3. Arrays \ taken # {}
  <2>1. SUFFICES ASSUME Arrays \subseteq taken PROVE FALSE
    OBVIOUS
  <2>2. Cardinality(Arrays) <= Cardinality(taken) /\ Cardinality(taken) \in Nat
    BY <2>1, FS_Subset, FS_CardinalityType
  <2>. QED  BY <1>1, <1>2, <2>2
<1>4. \E a \in Arrays \ taken : \A b \in Arrays \ taken : a <= b
  <2>1. Arrays \ taken \subseteq Nat
    BY <1>1
  <2>. QED  BY <1>3, <2>1, Least
<1>. QED  BY <1>4 DEF Fresh

LEMMA NewArrays ==
    /\ NewArray \in Arrays /\ OtherArray \in Arrays /\ NewArray # OtherArray
    /\ NewArray \notin InUse(config, mine) \union {0}
    /\ OtherArray \notin InUse(config, mine) \union {0}
<1>. DEFINE U == InUse(config, mine)
<1>1. IsFiniteSet(U) /\ Cardinality(U) <= 2 * Readers + 2 /\ Readers \in Nat
  BY InUseSmall, ReadersFinite
<1>2. \A a, b : IsFiniteSet({a, b}) /\ Cardinality({a, b}) <= 2
  BY PairSmall
<1>3. 2 * Readers + 2 \in Nat /\ 2 \in Nat /\ (2 * Readers + 2) + 2 = 2 * Readers + 4
  BY <1>1
<1>4. \A a, b : /\ IsFiniteSet(U \union {a, b})
                /\ Cardinality(U \union {a, b}) <= 2 * Readers + 4
  <2>. HIDE DEF U
  <2>1. ASSUME NEW a, NEW b
        PROVE  /\ IsFiniteSet(U \union {a, b})
               /\ Cardinality(U \union {a, b}) <= (2 * Readers + 2) + 2
    BY <1>1, <1>2, <1>3, UnionSmall
  <2>. QED  BY <1>3, <2>1
<1>5. NewArray \in Arrays \ (U \union {0})
  <2>1. U \union {0} = U \union {0, 0}
    OBVIOUS
  <2>. QED  BY <1>4, <2>1, FreshIs DEF NewArray
<1>6. OtherArray \in Arrays \ (U \union {0, NewArray})
  BY <1>4, FreshIs DEF OtherArray
<1>. QED  BY <1>5, <1>6

LEMMA NilPoints == Nil \in Pointers /\ Nil.tasks = 0 /\ Nil.accts = 0
<1>1. 0 \in Arrays
  BY ReadersFinite DEF Arrays, Readers
<1>. QED  BY <1>1 DEF Nil, Pointers

\* The collector takes nothing that is pointed to.
LEMMA CollectedIs ==
    ASSUME NEW h \in [Arrays -> Seq(Entry)], h[0] = <<>>,
           NEW c \in Pointers, NEW m \in [Procs -> Pointers]
    PROVE  /\ Collected(h, c, m) \in [Arrays -> Seq(Entry)]
           /\ Collected(h, c, m)[0] = <<>>
           /\ Collected(h, c, m)[c.tasks] = h[c.tasks]
           /\ Collected(h, c, m)[c.accts] = h[c.accts]
           /\ \A p \in Procs : /\ Collected(h, c, m)[m[p].tasks] = h[m[p].tasks]
                               /\ Collected(h, c, m)[m[p].accts] = h[m[p].accts]
<1>1. <<>> \in Seq(Entry) /\ 0 \in Arrays
  BY EmptySeq, NilPoints DEF Pointers
<1>2. c.tasks \in Arrays /\ c.accts \in Arrays
      /\ \A p \in Procs : m[p].tasks \in Arrays /\ m[p].accts \in Arrays
  BY DEF Pointers
<1>3. {c.tasks, c.accts} \subseteq InUse(c, m)
      /\ \A p \in Procs : {m[p].tasks, m[p].accts} \subseteq InUse(c, m)
  BY DEF InUse, ArraysOf
<1>. QED  BY <1>1, <1>2, <1>3 DEF Collected

-----------------------------------------------------------------------------
(* What becomes of memory *)

\* The pointers c show a sound configuration in the arrays h.
Shows(h, c, t, excused) ==
    c \in Pointers /\ Configuration(Whole(h[c.tasks], h[c.accts]), t, excused)

LEMMA ShowsIs ==
    ASSUME NEW h, NEW c, NEW t, NEW x
    PROVE  Shows(h, c, t, x) <=> /\ c \in Pointers
                                 /\ Listing(h[c.tasks], Tasks, t, x)
                                 /\ Listing(h[c.accts], Accounts, t, x)
BY DEF Shows, Configuration, Whole

LEMMA NilShows ==
    ASSUME NEW h, h[0] = <<>>, NEW t, NEW x
    PROVE  Shows(h, Nil, t, x)
BY NilPoints, EmptyListing, ShowsIs

\* Memory after the collector has been over the arrays h.
LEMMA Remembers ==
    ASSUME NEW h \in [Arrays -> Seq(Entry)], h[0] = <<>>,
           heap' = Collected(h, config', mine'),
           Shows(h, config', now', mixed'),
           mine' \in [Procs -> Pointers], \A p \in Procs : Shows(h, mine'[p], now', mixed'),
           known' \in [Accounts -> SUBSET Posters],
           loaded' => scheduled' /\ config' # Nil
    PROVE  /\ Memory'
           /\ Content(config)' = Whole(h[config'.tasks], h[config'.accts])
           /\ \A p \in Procs : Content(mine[p])' = Whole(h[mine'[p].tasks], h[mine'[p].accts])
<1>1. config' \in Pointers
  BY ShowsIs
<1>2. /\ heap' \in [Arrays -> Seq(Entry)] /\ heap'[0] = <<>>
      /\ heap'[config'.tasks] = h[config'.tasks] /\ heap'[config'.accts] = h[config'.accts]
      /\ \A p \in Procs : /\ heap'[mine'[p].tasks] = h[mine'[p].tasks]
                          /\ heap'[mine'[p].accts] = h[mine'[p].accts]
  BY <1>1, CollectedIs
<1>3. Configuration(Whole(heap'[config'.tasks], heap'[config'.accts]), now', mixed')
  BY <1>2 DEF Shows
<1>4. \A p \in Procs :
         Configuration(Whole(heap'[mine'[p].tasks], heap'[mine'[p].accts]), now', mixed')
  BY <1>2 DEF Shows
<1>. QED  BY <1>1, <1>2, <1>3, <1>4 DEF Memory, Points, Content

\* Memory is the same and nothing gets worse with time.
LEMMA MemoryStays ==
    ASSUME Memory, UNCHANGED <<heap, config, known, loaded, scheduled>>,
           mine' \in [Procs -> Pointers], \A p \in Procs : mine'[p] \in {mine[p], config, Nil},
           now \in Nat, now' \in Nat, now <= now', mixed => mixed'
    PROVE  Memory' /\ Content(config)' = Content(config)
<1>1. \A c \in Pointers : Shows(heap, c, now, mixed) => Shows(heap, c, now', mixed')
  BY ConfigurationStays DEF Shows
<1>2. Shows(heap, config, now, mixed) /\ \A p \in Procs : Shows(heap, mine[p], now, mixed)
  BY DEF Memory, Points, Content, Shows
<1>3. Shows(heap, Nil, now, mixed)
  BY NilShows DEF Memory
<1>4. Shows(heap, config, now', mixed') /\ \A p \in Procs : Shows(heap, mine'[p], now', mixed')
  BY <1>1, <1>2, <1>3 DEF Shows
<1>5. heap' = heap /\ config' = config /\ known' = known /\ loaded' = loaded
      /\ scheduled' = scheduled
  OBVIOUS
<1>6. Points(config)' /\ \A p \in Procs : Points(mine[p])'
  BY <1>4, <1>5 DEF Points, Content, Shows
<1>7. Content(config)' = Content(config)
  BY <1>5 DEF Content
<1>. QED  BY <1>5, <1>6, <1>7 DEF Memory

\* The same after the collector.
LEMMA MemoryCollected ==
    ASSUME Memory, heap' = Collected(heap, config, mine'),
           UNCHANGED <<config, known, loaded, scheduled, now>>, mixed => mixed', now \in Nat,
           mine' \in [Procs -> Pointers], \A p \in Procs : mine'[p] \in {mine[p], Nil}
    PROVE  Memory' /\ Content(config)' = Content(config)
<1>1. \A c \in Pointers : Shows(heap, c, now, mixed) => Shows(heap, c, now, mixed')
  BY ConfigurationStays DEF Shows
<1>2. Shows(heap, config, now, mixed) /\ \A p \in Procs : Shows(heap, mine[p], now, mixed)
  BY DEF Memory, Points, Content, Shows
<1>3. Shows(heap, Nil, now, mixed')
  BY NilShows DEF Memory
<1>4. Shows(heap, config, now, mixed') /\ \A p \in Procs : Shows(heap, mine'[p], now, mixed')
  BY <1>1, <1>2, <1>3 DEF Shows
<1>5. config' = config /\ now' = now /\ known' = known /\ loaded' = loaded
      /\ scheduled' = scheduled
  OBVIOUS
<1>6. /\ heap \in [Arrays -> Seq(Entry)] /\ heap[0] = <<>>
      /\ known \in [Accounts -> SUBSET Posters] /\ (loaded => scheduled /\ config # Nil)
  BY DEF Memory
<1>7. Memory' /\ Content(config)' = Whole(heap[config'.tasks], heap[config'.accts])
  BY <1>4, <1>5, <1>6, Remembers
<1>. QED  BY <1>5, <1>7 DEF Content

\* What a load may leave of the configuration in memory.
Loaded ==
    \/ UNCHANGED <<heap, config, known, loaded, scheduled>>
    \/ loaded' = FALSE /\ UNCHANGED <<heap, config, known, scheduled>>
    \/ loaded' /\ Content(config)' = file

LEMMA ReadConfigDoes ==
    ASSUME Memory, Files, ReadConfig, UNCHANGED <<mine, now, mixed>>, now \in Nat
    PROVE  /\ Memory' /\ Loaded /\ (loaded' => Content(config)' = file)
           /\ \A p \in Procs : Content(mine[p])' = Content(mine[p])
<1>1. CASE ~Parses(file)
  <2>1. loaded' = FALSE /\ UNCHANGED <<heap, config, known, scheduled>>
    BY <1>1 DEF ReadConfig
  <2>2. Points(config)' /\ \A p \in Procs : Points(mine[p])'
    BY <2>1 DEF Memory, Points, Content
  <2>3. \A p \in Procs : Content(mine[p])' = Content(mine[p])
    BY <2>1 DEF Content
  <2>. QED  BY <2>1, <2>2, <2>3 DEF Memory, Loaded
<1>2. CASE Parses(file)
  <2>. DEFINE new == [tasks |-> NewArray, accts |-> OtherArray]
              h == [heap EXCEPT ![new.tasks] = file.tasks, ![new.accts] = file.accts]
  <2>1. /\ config' = new /\ heap' = Collected(h, new, mine)
        /\ known' = [a \in Accounts |-> {e.edit : e \in {i \in ItemsOf(file) : i.id = a}}]
        /\ loaded' = TRUE /\ scheduled' = TRUE
    BY <1>2 DEF ReadConfig
  <2>2. /\ file = [text |-> "whole", tasks |-> file.tasks, accts |-> file.accts]
        /\ Listing(file.tasks, Tasks, now, mixed) /\ Listing(file.accts, Accounts, now, mixed)
        /\ file.tasks \in Seq(Entry) /\ file.accts \in Seq(Entry)
    BY <1>2, ListingFacts DEF Files, Configuration, Parses
  <2>3. /\ NewArray \in Arrays /\ OtherArray \in Arrays /\ NewArray # OtherArray
        /\ NewArray # 0 /\ OtherArray # 0
        /\ \A p \in Procs : {NewArray, OtherArray} \intersect {mine[p].tasks, mine[p].accts} = {}
    BY NewArrays DEF InUse, ArraysOf
  <2>4. /\ heap \in [Arrays -> Seq(Entry)] /\ heap[0] = <<>> /\ mine \in [Procs -> Pointers]
        /\ \A p \in Procs : Shows(heap, mine[p], now, mixed)
    BY DEF Memory, Points, Content, Shows
  <2>5. /\ h \in [Arrays -> Seq(Entry)] /\ h[0] = <<>>
        /\ h[new.tasks] = file.tasks /\ h[new.accts] = file.accts
        /\ \A a \in Arrays : a \notin {NewArray, OtherArray} => h[a] = heap[a]
    <3>1. new.tasks = NewArray /\ new.accts = OtherArray
      OBVIOUS
    <3>. HIDE DEF new
    <3>. DEFINE half == [heap EXCEPT ![NewArray] = file.tasks]
    <3>2. h = [half EXCEPT ![OtherArray] = file.accts]
      BY <3>1
    <3>3. /\ half \in [Arrays -> Seq(Entry)] /\ half[NewArray] = file.tasks
          /\ \A a \in Arrays : a # NewArray => half[a] = heap[a]
      BY <2>2, <2>3, <2>4
    <3>. HIDE DEF half, h
    <3>4. /\ h \in [Arrays -> Seq(Entry)] /\ h[OtherArray] = file.accts
          /\ \A a \in Arrays : a # OtherArray => h[a] = half[a]
      BY <2>2, <2>3, <3>2, <3>3
    <3>5. 0 \in Arrays
      BY NilPoints DEF Pointers
    <3>. QED  BY <2>3, <2>4, <3>1, <3>3, <3>4, <3>5
  <2>6. new \in Pointers /\ new # Nil
    BY <2>3 DEF Pointers, Nil
  <2>. HIDE DEF new, h
  <2>7. Shows(h, new, now, mixed)
    BY <2>2, <2>5, <2>6, ShowsIs
  <2>8. ASSUME NEW p \in Procs
        PROVE  /\ Shows(h, mine[p], now, mixed)
               /\ Whole(h[mine[p].tasks], h[mine[p].accts]) = Content(mine[p])
    <3>1. mine[p].tasks \in Arrays /\ mine[p].accts \in Arrays
      BY <2>4 DEF Pointers
    <3>2. h[mine[p].tasks] = heap[mine[p].tasks] /\ h[mine[p].accts] = heap[mine[p].accts]
      BY <2>3, <2>5, <3>1
    <3>. QED  BY <2>4, <3>2, ShowsIs DEF Content
  <2>9. known' \in [Accounts -> SUBSET Posters]
    <3>1. \A e \in ItemsOf(file) : e \in Entry
      BY <2>2, LenProperties, ElementOfSeq DEF ItemsOf
    <3>2. \A e \in ItemsOf(file) : e.edit \in Posters
      BY <3>1, EntryFacts
    <3>. QED  BY <2>1, <3>2
  <2>10. heap' = Collected(h, config', mine') /\ now' = now /\ mixed' = mixed /\ mine' = mine
    BY <2>1
  <2>11. /\ Memory' /\ Content(config)' = Whole(h[config'.tasks], h[config'.accts])
         /\ \A p \in Procs : Content(mine[p])' = Whole(h[mine'[p].tasks], h[mine'[p].accts])
    BY <2>1, <2>4, <2>5, <2>6, <2>7, <2>8, <2>9, <2>10, Remembers
  <2>12. Content(config)' = file
    BY <2>1, <2>2, <2>5, <2>11 DEF Whole
  <2>13. \A p \in Procs : Content(mine[p])' = Content(mine[p])
    BY <2>8, <2>10, <2>11
  <2>. QED  BY <2>1, <2>11, <2>12, <2>13 DEF Loaded
<1>. QED  BY <1>1, <1>2

LEMMA LoadConfigDoes ==
    ASSUME Memory, Files, NEW force \in BOOLEAN, LoadConfig(force), UNCHANGED <<mine, now, mixed>>,
           now \in Nat
    PROVE  /\ Memory' /\ Loaded /\ (force /\ loaded' => Content(config)' = file)
           /\ \A p \in Procs : Content(mine[p])' = Content(mine[p])
<1>1. CASE ReadConfig
  BY <1>1, ReadConfigDoes
<1>2. CASE ~force /\ UNCHANGED <<memVars, scheduled>>
  <2>1. UNCHANGED <<heap, config, known, loaded, scheduled>>
    BY <1>2 DEF memVars
  <2>2. now <= now' /\ now' \in Nat /\ mine' \in [Procs -> Pointers]
        /\ \A p \in Procs : mine'[p] \in {mine[p], config, Nil}
    BY DEF Memory
  <2>3. Memory'
    BY <2>1, <2>2, MemoryStays
  <2>4. \A p \in Procs : Content(mine[p])' = Content(mine[p])
    BY <2>1 DEF Content
  <2>. QED  BY <1>2, <2>1, <2>3, <2>4 DEF Loaded
<1>. QED  BY <1>1, <1>2 DEF LoadConfig

-----------------------------------------------------------------------------
(* What a change of one item does *)

\* The arrays h become g: in the array a, the item at i becomes e.
Edits(h, a, ids, t, x, i, e, g) ==
    /\ h \in [Arrays -> Seq(Entry)] /\ h[0] = <<>> /\ a \in Arrays /\ ids \in {Tasks, Accounts}
    /\ Listing(h[a], ids, t, x) /\ i \in DOMAIN h[a] /\ Fits(e, ids, t, x)
    /\ e.id = h[a][i].id /\ g = [h EXCEPT ![a] = [h[a] EXCEPT ![i] = e]]

\* An item is changed in every copy that shares its array.  An array of tasks is no
\* array of accounts, so that no list gets what does not belong there.
LEMMA EditKeeps ==
    ASSUME NEW h, NEW a, NEW ids, NEW t, NEW x, NEW i, NEW e, NEW g,
           Edits(h, a, ids, t, x, i, e, g)
    PROVE  /\ g \in [Arrays -> Seq(Entry)] /\ g[0] = <<>>
           /\ Listing(g[a], ids, t, x)
           /\ \A c : Shows(h, c, t, x) => Shows(g, c, t, x)
<1>. /\ h \in [Arrays -> Seq(Entry)] /\ h[0] = <<>> /\ a \in Arrays /\ ids \in {Tasks, Accounts}
     /\ Listing(h[a], ids, t, x) /\ i \in DOMAIN h[a] /\ Fits(e, ids, t, x)
     /\ e.id = h[a][i].id /\ g = [h EXCEPT ![a] = [h[a] EXCEPT ![i] = e]]
  BY DEF Edits
<1>1. Listing([h[a] EXCEPT ![i] = e], ids, t, x) /\ [h[a] EXCEPT ![i] = e] \in Seq(Entry)
  <2>1. Listing([h[a] EXCEPT ![i] = e], ids, t, x)
    BY PutListing
  <2>. QED  BY <2>1, ListingFacts
<1>2. h[a] # <<>> /\ h[a] \in Seq(Entry) /\ i \in 1 .. Len(h[a])
  <2>1. h[a] \in Seq(Entry) /\ DOMAIN h[a] = 1 .. Len(h[a])
    BY LenProperties
  <2>2. Len(<<>>) = 0
    BY EmptySeq
  <2>. QED  BY <2>1, <2>2
<1>3. /\ g \in [Arrays -> Seq(Entry)] /\ g[a] = [h[a] EXCEPT ![i] = e]
      /\ \A b \in Arrays : b # a => g[b] = h[b]
  BY <1>1
<1>4. 0 \in Arrays /\ 0 # a
  BY <1>2, NilPoints DEF Pointers
<1>5. ASSUME NEW b \in Arrays, NEW jds \in {Tasks, Accounts}, Listing(h[b], jds, t, x)
      PROVE  Listing(g[b], jds, t, x)
  <2>1. CASE b # a
    BY <1>3, <1>5, <2>1
  <2>2. CASE b = a
    <3>1. h[a][i].id \in ids /\ h[a][i].id \in jds
      BY <1>2, <1>5, <2>2, ListingFacts DEF Fits
    <3>2. jds = ids
      BY <3>1, IdsAssumption
    <3>. QED  BY <1>1, <1>3, <2>2, <3>2
  <2>. QED  BY <2>1, <2>2
<1>6. ASSUME NEW c, Shows(h, c, t, x)
      PROVE  Shows(g, c, t, x)
  <2>1. c \in Pointers /\ Listing(h[c.tasks], Tasks, t, x) /\ Listing(h[c.accts], Accounts, t, x)
        /\ c.tasks \in Arrays /\ c.accts \in Arrays
    BY <1>6, ShowsIs DEF Pointers
  <2>. QED  BY <1>5, <2>1, ShowsIs
<1>. QED  BY <1>1, <1>3, <1>4, <1>6

StoredKinds == {"task", "run", "account", "check"}

\* What p stores over an old item fits, or is excused by a last run p had not seen.
LEMMA StoredFits ==
    ASSUME NEW p \in Procs, JobFits(job[p], now, mixed), now \in 1 .. MaxNow,
           job[p].kind \in StoredKinds, NEW ids \in {Tasks, Accounts}, NEW old,
           Fits(old, ids, now, mixed), old.id = job[p].id
    PROVE  /\ Fits(Stored(p, old), ids, now, mixed \/ Fills(p, old))
           /\ Stored(p, old).id = old.id
<1>. DEFINE c == job[p].copy
            x == mixed \/ Fills(p, old)
<1>1. /\ c \in Entry /\ c.id = old.id /\ c.ran <= now /\ (mixed \/ Spaced(c))
      /\ c.ran = 0 /\ c.next # 0 => \A r \in job[p].seen : r # 0 => Room(r, c.next)
  BY DEF JobFits
<1>2. old \in Entry /\ old.id \in ids /\ old.ran <= now /\ (mixed \/ Spaced(old))
  BY DEF Fits
<1>3. CASE job[p].kind \in {"run", "account"}
  <2>1. Stored(p, old) = c
    BY <1>3 DEF Stored
  <2>. QED  BY <1>1, <1>2, <2>1 DEF Fits
<1>4. CASE job[p].kind = "check"
  <2>1. Stored(p, old) = old
    BY <1>4 DEF Stored
  <2>. QED  BY <1>2, <2>1 DEF Fits
<1>5. CASE job[p].kind = "task"
  <2>. DEFINE ran == IF c.ran = 0 THEN old.ran ELSE c.ran
              s == [c EXCEPT !.ran = ran]
  <2>1. Stored(p, old) = s
    BY <1>5 DEF Stored
  <2>2. /\ s = [id |-> c.id, on |-> c.on, edit |-> c.edit, next |-> c.next, ran |-> ran]
        /\ s.id = c.id /\ s.on = c.on /\ s.edit = c.edit /\ s.next = c.next /\ s.ran = ran
    BY <1>1, EntryIs
  <2>3. ran \in 0 .. MaxNow /\ ran <= now
    BY <1>1, <1>2, EntryIs
  <2>4. s \in Entry
    <3>. HIDE DEF s, ran
    <3>. QED  BY <1>1, <2>2, <2>3, EntryIs
  <2>5. x \/ Spaced(s)
    <3>1. CASE c.ran # 0
      <4>1. ran = c.ran
        BY <3>1
      <4>. QED  BY <1>1, <2>2, <4>1 DEF Spaced
    <3>2. CASE c.ran = 0 /\ old.ran \in job[p].seen
      <4>1. ran = old.ran
        BY <3>2
      <4>. QED  BY <1>1, <2>2, <3>2, <4>1 DEF Spaced
    <3>3. CASE c.ran = 0 /\ old.ran \notin job[p].seen /\ old.ran # 0
      BY <1>5, <3>3 DEF Fills
    <3>4. CASE c.ran = 0 /\ old.ran = 0
      <4>1. ran = 0
        BY <3>4
      <4>. QED  BY <2>2, <4>1 DEF Spaced
    <3>. QED  BY <3>1, <3>2, <3>3, <3>4
  <2>. HIDE DEF s, ran
  <2>. QED  BY <1>1, <1>2, <2>1, <2>2, <2>3, <2>4, <2>5 DEF Fits
<1>. QED  BY <1>3, <1>4, <1>5 DEF StoredKinds

LEMMA WithTimes ==
    ASSUME NEW e \in Entry, NEW n, NEW r
    PROVE  [e EXCEPT !.next = n, !.ran = r]
           = [id |-> e.id, on |-> e.on, edit |-> e.edit, next |-> n, ran |-> r]
<1>. DEFINE half == [e EXCEPT !.next = n]
<1>1. half = [id |-> e.id, on |-> e.on, edit |-> e.edit, next |-> n, ran |-> e.ran]
  BY EntryIs
<1>2. [e EXCEPT !.next = n, !.ran = r] = [half EXCEPT !.ran = r]
  OBVIOUS
<1>. HIDE DEF half
<1>3. [half EXCEPT !.ran = r] = [id |-> e.id, on |-> e.on, edit |-> e.edit, next |-> n, ran |-> r]
  BY <1>1
<1>. QED  BY <1>2, <1>3

Replaced(e, b, q, n, r) == [e EXCEPT !.on = b, !.edit = q, !.next = n, !.ran = r]
LEMMA WithAll ==
    ASSUME NEW e \in Entry, NEW b, NEW q, NEW n, NEW r
    PROVE  Replaced(e, b, q, n, r)
           = [id |-> e.id, on |-> b, edit |-> q, next |-> n, ran |-> r]
<1>. DEFINE f == [e EXCEPT !.on = b]
            g == [f EXCEPT !.edit = q]
            h == [g EXCEPT !.next = n]
<1>1. f = [id |-> e.id, on |-> b, edit |-> e.edit, next |-> e.next, ran |-> e.ran]
  BY EntryIs
<1>2. Replaced(e, b, q, n, r) = [h EXCEPT !.ran = r]
  BY DEF Replaced
<1>. HIDE DEF f
<1>3. g = [id |-> e.id, on |-> b, edit |-> q, next |-> e.next, ran |-> e.ran]
  BY <1>1
<1>. HIDE DEF g
<1>4. h = [id |-> e.id, on |-> b, edit |-> q, next |-> n, ran |-> e.ran]
  BY <1>3
<1>. HIDE DEF h
<1>5. [h EXCEPT !.ran = r] = [id |-> e.id, on |-> b, edit |-> q, next |-> n, ran |-> r]
  BY <1>4
<1>. QED  BY <1>2, <1>5

\* Half an edit is an item with the same id, and each other field from before or after.
LEMMA HalfIs ==
    ASSUME NEW old \in Entry, NEW new \in Entry, NEW half \in Halves(old, new)
    PROVE  /\ half \in Entry /\ half.id = old.id
           /\ half.next \in {old.next, new.next} /\ half.ran \in {old.ran, new.ran}
<1>1. PICK from \in [1 .. 4 -> {old, new}] :
         half = [old EXCEPT !.on = from[1].on, !.edit = from[2].edit, !.next = from[3].next,
                            !.ran = from[4].ran]
  BY DEF Halves
<1>. DEFINE b == from[1].on
            q == from[2].edit
            n == from[3].next
            r == from[4].ran
<1>2. \A k \in 1 .. 4 : from[k] = old \/ from[k] = new
  OBVIOUS
<1>3. /\ b \in BOOLEAN /\ q \in Posters /\ n \in Nat /\ r \in 0 .. MaxNow
      /\ n \in {old.next, new.next} /\ r \in {old.ran, new.ran}
  BY <1>2, EntryIs
<1>4. half = Replaced(old, b, q, n, r)
  BY <1>1 DEF Replaced
<1>. HIDE DEF b, q, n, r
<1>5. half = [id |-> old.id, on |-> b, edit |-> q, next |-> n, ran |-> r]
  BY <1>4, WithAll
<1>6. half.id = old.id /\ half.on = b /\ half.edit = q /\ half.next = n /\ half.ran = r
  BY <1>5
<1>7. half \in Entry
  BY <1>3, <1>5, <1>6, EntryIs
<1>. QED  BY <1>3, <1>6, <1>7

\* Half an edit shows the times of one item, and so their distance, or that is excused.
LEMMA HalvesFit ==
    ASSUME NEW ids, NEW t, NEW x, NEW old, Fits(old, ids, t, x), NEW new, Fits(new, ids, t, x),
           new.id = old.id, NEW half \in Halves(old, new),
           Times(half) \notin {Times(old), Times(new)} => x
    PROVE  Fits(half, ids, t, x) /\ half.id = old.id
<1>1. /\ old \in Entry /\ old.ran <= t /\ (x \/ Spaced(old)) /\ old.id \in ids
      /\ new \in Entry /\ new.ran <= t /\ (x \/ Spaced(new))
  BY DEF Fits
<1>2. /\ half \in Entry /\ half.id = old.id
      /\ half.next \in {old.next, new.next} /\ half.ran \in {old.ran, new.ran}
  BY <1>1, HalfIs
<1>3. half.ran <= t
  BY <1>1, <1>2
<1>4. x \/ Spaced(half)
  <2>1. CASE half.next = old.next /\ half.ran = old.ran
    BY <1>1, <2>1 DEF Spaced
  <2>2. CASE half.next = new.next /\ half.ran = new.ran
    BY <1>1, <2>2 DEF Spaced
  <2>3. CASE Times(half) \notin {Times(old), Times(new)}
    BY <2>3
  <2>. QED  BY <2>1, <2>2, <2>3 DEF Times
<1>. QED  BY <1>1, <1>2, <1>3, <1>4 DEF Fits

-----------------------------------------------------------------------------
(* Steps that change nothing that is stored *)

EInv == IInv /\ FInv /\ SInv /\ CleanAgrees

\* Nothing gets worse with time.
Later ==
    /\ now \in Nat /\ now' \in Nat /\ now <= now'
    /\ mixed => mixed'

LEMMA ClockFacts ==
    ASSUME Clock
    PROVE  now \in Nat /\ now \in 1 .. MaxNow /\ MaxNow \in Nat
BY TimeAssumption DEF Clock

LEMMA FilesStay ==
    ASSUME Files, UNCHANGED <<file, tmp, data>>, Later
    PROVE  Files'
<1>1. \A c : Configuration(c, now, mixed) => Configuration(c, now', mixed')
  BY ConfigurationStays DEF Later
<1>. QED  BY <1>1 DEF Files

LEMMA JobStays ==
    ASSUME NEW j, NEW t \in Nat, NEW x, NEW u \in Nat, NEW y, JobFits(j, t, x), t <= u, x => y
    PROVE  JobFits(j, u, y)
<1>1. j.copy.ran <= u
  BY EntryFacts DEF JobFits
<1>. QED  BY <1>1 DEF JobFits

LEMMA JobsStay ==
    ASSUME JobsFit, UNCHANGED <<job, queue>>, Later
    PROVE  JobsFit'
<1>1. \A j : JobFits(j, now, mixed) => JobFits(j, now', mixed')
  BY JobStays DEF Later
<1>2. Listing(queue, Tasks, now', mixed')
  BY ListingStays DEF Later, JobsFit
<1>. QED  BY <1>1, <1>2 DEF JobsFit

LEMMA PlacesStay ==
    ASSUME Places, pc \in [Procs -> Labels], NEW p \in Procs, NEW l, Goto(p, l),
           pc[p] \notin {"edit", "rest", "put"}, UNCHANGED <<mine, at>>
    PROVE  Places'
BY DEF Places, Goto

LEMMA AgreesStill ==
    ASSUME CleanAgrees, pc \in [Procs -> Labels], NEW p \in Procs, NEW l, Goto(p, l),
           UNCHANGED <<file, clash, failed>>, loaded' => loaded,
           Content(config)' = Content(config),
           Dirty(pc[p]) => Dirty(l) \/ clash
    PROVE  CleanAgrees'
<1>. SUFFICES ASSUME ~clash', ~failed', loaded', \A q \in Procs : ~Dirty(pc'[q])
              PROVE  Content(config)' = file'
  BY DEF CleanAgrees
<1>1. \A q \in Procs : ~Dirty(pc[q])
  BY DEF Goto
<1>. QED  BY <1>1 DEF CleanAgrees

LEMMA AgreesNot ==
    ASSUME pc \in [Procs -> Labels], NEW p \in Procs, NEW l, Goto(p, l), Dirty(l)
    PROVE  CleanAgrees'
BY DEF CleanAgrees, Goto

LEMMA EInvFacts ==
    ASSUME EInv
    PROVE  /\ Memory /\ Files /\ JobsFit /\ Places /\ Clock /\ CleanAgrees /\ FInv /\ IInv
           /\ pc \in [Procs -> Labels] /\ now \in Nat /\ now \in 1 .. MaxNow
           /\ mine \in [Procs -> Pointers]
           /\ job = [p \in Procs |-> job[p]] /\ at = [p \in Procs |-> at[p]]
           /\ data = [p \in Procs |-> data[p]]
BY ClockFacts DEF EInv, SInv, IInv, Shapes, Memory, Places, Files

Moving(p) == Look(p) \/ Mark(p) \/ Unmark(p) \/ RenameFails(p) \/ (p = Scheduler /\ Wake)

LEMMA MovingSteps ==
    ASSUME EInv, NEW p \in Procs, Moving(p)
    PROVE  SInv' /\ CleanAgrees'
<1>. Look(p) \/ Mark(p) \/ Unmark(p) \/ RenameFails(p) \/ (p = Scheduler /\ Wake)
  BY DEF Moving
<1>1. /\ UNCHANGED <<heap, config, known, loaded, scheduled, mine, file, tmp, data, at, job, queue>>
      /\ UNCHANGED <<now, boots, mixed, clash, failed>>
  BY DEF Look, Mark, Unmark, RenameFails, Wake, memVars, markVars, fileVars, histVars
<1>2. PICK l : Goto(p, l)
  BY DEF Look, Mark, Unmark, RenameFails, Wake
<1>3. pc[p] \notin {"edit", "rest", "put"} /\ (Dirty(pc[p]) => pc[p] = "rename" /\ tmp = {})
  BY DEF Look, Mark, Unmark, RenameFails, Wake, Dirty
<1>4. pc[p] = "rename" /\ tmp = {} => clash
  BY EInvFacts DEF FInv, OneWriter
<1>5. Later
  BY <1>1, EInvFacts DEF Later
<1>6. Memory' /\ Content(config)' = Content(config)
  BY <1>1, <1>5, EInvFacts, MemoryStays DEF Later
<1>7. Files' /\ JobsFit'
  BY <1>1, <1>5, EInvFacts, FilesStay, JobsStay
<1>8. Places' /\ CleanAgrees'
  BY <1>1, <1>2, <1>3, <1>4, <1>6, EInvFacts, PlacesStay, AgreesStill
<1>9. Clock'
  BY <1>1, EInvFacts DEF Clock
<1>. QED  BY <1>6, <1>7, <1>8, <1>9 DEF SInv

Loading(p) ==
    \/ (p # Scheduler /\ Load(p)) \/ (p = Scheduler /\ LoadToPick)
    \/ ResolveForRun(p) \/ Reload(p)

LEMMA LoadingSteps ==
    ASSUME EInv, NEW p \in Procs, Loading(p)
    PROVE  SInv' /\ CleanAgrees'
<1>. \/ (p # Scheduler /\ Load(p)) \/ (p = Scheduler /\ LoadToPick)
     \/ ResolveForRun(p) \/ Reload(p)
  BY DEF Loading
<1>1. /\ UNCHANGED <<mine, file, tmp, data, at, job, queue>>
      /\ UNCHANGED <<now, boots, mixed, clash, failed>>
  BY DEF Load, LoadToPick, ResolveForRun, Reload, fileVars, histVars
<1>2. PICK l : Goto(p, l)
  BY DEF Load, LoadToPick, ResolveForRun, Reload
<1>3. PICK force \in BOOLEAN : LoadConfig(force) /\ (pc[p] = "reload" => force)
  <2>1. CASE Load(p)
    BY <2>1 DEF Load
  <2>2. CASE p = Scheduler /\ LoadToPick
    BY <2>2 DEF LoadToPick
  <2>3. CASE ResolveForRun(p)
    BY <2>3 DEF ResolveForRun
  <2>4. CASE Reload(p)
    BY <2>4 DEF Reload
  <2>. QED  BY <2>1, <2>2, <2>3, <2>4
<1>4. pc[p] \in {"load", "resolve", "reload"}
  BY DEF Load, LoadToPick, ResolveForRun, Reload
<1>5. Later
  BY <1>1, EInvFacts DEF Later
<1>6. Memory' /\ Loaded /\ (force /\ loaded' => Content(config)' = file)
  BY <1>1, <1>3, EInvFacts, LoadConfigDoes
<1>7. Files' /\ JobsFit'
  BY <1>1, <1>5, EInvFacts, FilesStay, JobsStay
<1>8. Places'
  BY <1>1, <1>2, <1>4, EInvFacts, PlacesStay
<1>9. CleanAgrees'
  <2>1. CASE loaded' = FALSE
    BY <2>1 DEF CleanAgrees
  <2>2. CASE loaded' /\ Content(config)' = file
    BY <1>1, <2>2 DEF CleanAgrees
  <2>3. CASE UNCHANGED <<heap, config, known, loaded, scheduled>> /\ ~force
    <3>1. ~Dirty(pc[p]) /\ Content(config)' = Content(config)
      BY <1>3, <1>4, <2>3 DEF Dirty, Content
    <3>. QED  BY <1>1, <1>2, <2>3, <3>1, EInvFacts, AgreesStill
  <2>. QED  BY <1>6, <2>1, <2>2, <2>3, EInvFacts DEF Loaded, CleanAgrees
<1>10. Clock'
  BY <1>1, EInvFacts DEF Clock
<1>. QED  BY <1>6, <1>7, <1>8, <1>9, <1>10 DEF SInv

-----------------------------------------------------------------------------
(* Steps that take up a job *)

LEMMA ItemFits ==
    ASSUME NEW id \in Tasks \union Accounts, NEW t \in Nat, NEW x
    PROVE  Fits(Item(id), {id}, t, x) /\ Item(id).id = id /\ Item(id).ran = 0
           /\ Item(id).next = 0
<1>1. 0 \in 0 .. MaxNow /\ 0 \in Nat
  BY TimeAssumption
<1>2. Item(id) \in Entry
  BY <1>1 DEF Item, Entry, Posters
<1>. QED  BY <1>2 DEF Item, Fits, Spaced

LEMMA AboutFits ==
    ASSUME NEW kind, NEW id, NEW t \in Nat, NEW x,
           id \in Tasks \union Accounts,
           kind \in TaskKinds => id \in Tasks, kind \in AccountKinds => id \in Accounts
    PROVE  JobFits(About(kind, id), t, x)
<1>1. Fits(Item(id), {id}, t, x) /\ Item(id).id = id /\ Item(id).ran = 0 /\ Item(id).next = 0
  BY ItemFits
<1>2. About(kind, id).kind = kind /\ About(kind, id).id = id /\ About(kind, id).copy = Item(id)
      /\ About(kind, id).seen = {} /\ IsJob(About(kind, id))
  BY DEF About, IsJob
<1>. QED  BY <1>1, <1>2 DEF JobFits, Fits

LEMMA NoJobFits ==
    ASSUME Clock, NEW t \in Nat, NEW x, NEW kind, kind \notin TaskKinds \union AccountKinds
    PROVE  JobFits([NoJob EXCEPT !.kind = kind], t, x)
<1>. DEFINE id == CHOOSE t1 \in Tasks : TRUE
<1>1. id \in Tasks
  BY DEF Clock
<1>2. NoJob = About("none", id)
  BY DEF NoJob
<1>. HIDE DEF id
<1>3. [NoJob EXCEPT !.kind = kind] = About(kind, id)
  BY <1>2 DEF About
<1>. QED  BY <1>1, <1>3, AboutFits

LEMMA NoJobIs == NoJob = [NoJob EXCEPT !.kind = "none"]
BY DEF NoJob, About

LEMMA RequestFits ==
    ASSUME Clock, NEW request \in Requests, NEW t \in Nat, NEW x
    PROVE  JobFits(request, t, x)
<1>1. CASE request \in {[NoJob EXCEPT !.kind = kind] :
                           kind \in {"get", "load", "unload", "config"}}
  <2>1. PICK kind \in {"get", "load", "unload", "config"} :
           request = [NoJob EXCEPT !.kind = kind]
    BY <1>1
  <2>2. kind \notin TaskKinds \union AccountKinds
    BY DEF TaskKinds, AccountKinds
  <2>. QED  BY <2>1, <2>2, NoJobFits
<1>2. CASE request \in {About(kind, i) : kind \in {"task", "untask", "run"}, i \in Tasks}
  <2>1. PICK kind \in {"task", "untask", "run"}, i \in Tasks : request = About(kind, i)
    BY <1>2
  <2>2. kind \notin AccountKinds
    BY DEF AccountKinds
  <2>3. JobFits(About(kind, i), t, x)
    BY <2>1, <2>2, AboutFits
  <2>. QED  BY <2>1, <2>3
<1>3. CASE request \in {About(kind, a) :
                           kind \in {"account", "unaccount", "login"}, a \in Accounts}
  <2>1. PICK kind \in {"account", "unaccount", "login"}, a \in Accounts :
           request = About(kind, a)
    BY <1>3
  <2>2. kind \notin TaskKinds
    BY DEF TaskKinds
  <2>3. JobFits(About(kind, a), t, x)
    BY <2>1, <2>2, AboutFits
  <2>. QED  BY <2>1, <2>3
<1>. QED  BY <1>1, <1>2, <1>3 DEF Requests

LEMMA RequestIsNew ==
    ASSUME NEW request \in Requests
    PROVE  request.seen = {}
<1>1. \A kind, id : About(kind, id).seen = {}
  BY DEF About
<1>2. \A kind : [NoJob EXCEPT !.kind = kind].seen = {}
  BY DEF NoJob, About
<1>3. CASE request \in {[NoJob EXCEPT !.kind = kind] :
                           kind \in {"get", "load", "unload", "config"}}
  BY <1>2, <1>3
<1>4. CASE request \in {About(kind, i) : kind \in {"task", "untask", "run"}, i \in Tasks}
  BY <1>1, <1>4
<1>5. CASE request \in {About(kind, a) :
                           kind \in {"account", "unaccount", "login"}, a \in Accounts}
  BY <1>1, <1>5
<1>. QED  BY <1>3, <1>4, <1>5 DEF Requests

\* Another poster makes an item no worse.
LEMMA PostedByFits ==
    ASSUME NEW e, NEW ids, NEW t, NEW x, Fits(e, ids, t, x), NEW p \in Posters
    PROVE  LET d == [e EXCEPT !.edit = p] IN
           Fits(d, ids, t, x) /\ d.id = e.id /\ d.ran = e.ran /\ d.next = e.next
<1>. DEFINE d == [e EXCEPT !.edit = p]
<1>1. e \in Entry
  BY DEF Fits
<1>2. /\ d.id = e.id /\ d.ran = e.ran /\ d.next = e.next /\ d.on = e.on /\ d.edit = p
      /\ d = [id |-> e.id, on |-> e.on, edit |-> p, next |-> e.next, ran |-> e.ran]
  BY <1>1, EntryIs
<1>. HIDE DEF d
<1>3. d \in Entry
  BY <1>1, <1>2, EntryIs
<1>4. Fits(d, ids, t, x)
  BY <1>2, <1>3 DEF Fits, Spaced
<1>. QED  BY <1>2, <1>4 DEF d

\* A job with another copy of its item.
LEMMA CopyFits ==
    ASSUME NEW j, NEW t, NEW x, JobFits(j, t, x), NEW c, Fits(c, {j.id}, t, x),
           c.ran # 0 \/ c.next = 0 \/ j.seen = {}
    PROVE  JobFits([j EXCEPT !.copy = c], t, x)
           /\ [j EXCEPT !.copy = c].kind = j.kind /\ [j EXCEPT !.copy = c].id = j.id
<1>. DEFINE k == [j EXCEPT !.copy = c]
<1>1. /\ k.kind = j.kind /\ k.id = j.id /\ k.copy = c /\ k.seen = j.seen
      /\ k = [kind |-> j.kind, id |-> j.id, copy |-> c, seen |-> j.seen]
  BY DEF JobFits, IsJob
<1>. HIDE DEF k
<1>2. JobFits(k, t, x)
  BY <1>1 DEF JobFits, IsJob, Fits
<1>. QED  BY <1>1, <1>2 DEF k

LEMMA JobsTakeUp ==
    ASSUME JobsFit, Later, job = [q \in Procs |-> job[q]], NEW p \in Procs, NEW j,
           JobFits(j, now', mixed'), job' = [job EXCEPT ![p] = j], queue' = queue
    PROVE  JobsFit'
<1>1. \A k : JobFits(k, now, mixed) => JobFits(k, now', mixed')
  BY JobStays DEF Later
<1>2. \A q \in Procs : job'[q] = IF q = p THEN j ELSE job[q]
  OBVIOUS
<1>3. \A q \in Procs : JobFits(job'[q], now', mixed')
  BY <1>1, <1>2 DEF JobsFit
<1>4. Listing(queue, Tasks, now', mixed')
  BY ListingStays DEF Later, JobsFit
<1>. QED  BY <1>3, <1>4 DEF JobsFit

\* What a job that is taken up leaves alone.
LEMMA JobSteps ==
    ASSUME EInv, NEW p \in Procs, NEW l, Goto(p, l),
           UNCHANGED <<heap, config, known, loaded, scheduled, mine, file, tmp, at>>,
           UNCHANGED <<now, boots, mixed, clash, failed>>,
           Files', pc[p] \notin {"edit", "rest", "put"}, ~Dirty(pc[p])
    PROVE  /\ Memory' /\ Files' /\ Places' /\ Clock' /\ CleanAgrees'
           /\ Later /\ JobsFit /\ job = [q \in Procs |-> job[q]]
<1>1. Later
  BY EInvFacts DEF Later
<1>2. Memory' /\ Content(config)' = Content(config)
  BY <1>1, EInvFacts, MemoryStays DEF Later
<1>3. Places' /\ CleanAgrees'
  BY <1>2, EInvFacts, PlacesStay, AgreesStill
<1>4. Clock'
  BY EInvFacts DEF Clock
<1>. QED  BY <1>1, <1>2, <1>3, <1>4, EInvFacts

LEMMA DataStays ==
    ASSUME EInv, UNCHANGED <<file, tmp, data, now, mixed>>
    PROVE  Files'
BY EInvFacts, FilesStay DEF Later

LEMMA BeginsWell ==
    ASSUME EInv, NEW p \in Threads, NEW request \in Requests, Begin(p, request)
    PROVE  SInv' /\ CleanAgrees'
<1>1. /\ UNCHANGED <<heap, config, known, loaded, scheduled, mine, file, tmp, at, queue>>
      /\ UNCHANGED <<now, boots, mixed, clash, failed>>
      /\ p \in Procs /\ pc[p] = "idle"
  BY DEF Begin, memVars, markVars, fileVars, Procs
<1>2. PICK l \in {"drop", "open", "load"} : Goto(p, l)
  BY DEF Begin
<1>. DEFINE d == IF request.kind = "config" THEN Normalized(Content(config)) ELSE Blank
            j == IF request.kind = "account" THEN [request EXCEPT !.copy.edit = p] ELSE request
<1>3. Files'
  <2>1. Configuration(Blank, now, mixed)
    BY EmptyListing DEF Configuration, Blank, Whole
  <2>2. Configuration(Normalized(Content(config)), now, mixed)
    BY EInvFacts, NormalizedFits DEF Memory, Points
  <2>3. data' = [data EXCEPT ![p] = d] /\ Configuration(d, now, mixed)
    BY <2>1, <2>2 DEF Begin
  <2>. HIDE DEF d
  <2>. QED  BY <1>1, <2>3, EInvFacts DEF Files
<1>4. JobFits(j, now, mixed)
  <2>1. JobFits(request, now, mixed)
    BY EInvFacts, RequestFits
  <2>2. CASE request.kind # "account"
    BY <2>1, <2>2
  <2>3. CASE request.kind = "account"
    <3>. DEFINE c == [request.copy EXCEPT !.edit = p]
    <3>1. j = [request EXCEPT !.copy = c] /\ p \in Posters
      BY <2>1, <2>3 DEF JobFits, IsJob, Posters
    <3>2. Fits(request.copy, {request.id}, now, mixed)
      BY <2>1 DEF JobFits, Fits
    <3>3. Fits(c, {request.id}, now, mixed) /\ c.ran = request.copy.ran
          /\ c.next = request.copy.next
      BY <3>1, <3>2, PostedByFits
    <3>4. request.seen = {}
      BY RequestIsNew
    <3>. HIDE DEF c, j
    <3>. QED  BY <2>1, <3>1, <3>3, <3>4, CopyFits
  <2>. QED  BY <2>2, <2>3
<1>5. job' = [job EXCEPT ![p] = j]
  BY DEF Begin
<1>. HIDE DEF j, d
<1>6. /\ Memory' /\ Files' /\ Places' /\ Clock' /\ CleanAgrees'
      /\ Later /\ JobsFit /\ job = [q \in Procs |-> job[q]]
  BY <1>1, <1>2, <1>3, JobSteps DEF Dirty
<1>7. JobsFit'
  BY <1>1, <1>4, <1>5, <1>6, JobsTakeUp
<1>. QED  BY <1>6, <1>7 DEF SInv

\* A task in memory fits, and no other has its id.
LEMMA TasksAre ==
    ASSUME EInv, NEW id \in Tasks, NEW e \in TasksWith(id)
    PROVE  /\ Fits(e, {id}, now, mixed)
           /\ \A f \in TasksWith(id) : f = e
<1>1. /\ Listing(heap[config.tasks], Tasks, now, mixed)
      /\ Listing(heap[config.accts], Accounts, now, mixed)
      /\ Content(config).tasks = heap[config.tasks] /\ Content(config).accts = heap[config.accts]
  BY EInvFacts DEF Memory, Points, Configuration, Content, Whole
<1>. DEFINE s == heap[config.tasks]
            r == heap[config.accts]
<1>2. /\ DOMAIN s = 1 .. Len(s) /\ DOMAIN r = 1 .. Len(r)
      /\ \A i \in 1 .. Len(s) : Fits(s[i], Tasks, now, mixed)
      /\ \A i, j \in 1 .. Len(s) : s[i].id = s[j].id => i = j
      /\ \A i \in 1 .. Len(r) : Fits(r[i], Accounts, now, mixed)
  <2>1. s \in Seq(Entry) /\ r \in Seq(Entry)
    BY <1>1, ListingFacts
  <2>2. DOMAIN s = 1 .. Len(s) /\ DOMAIN r = 1 .. Len(r)
    BY <2>1, LenProperties
  <2>. QED  BY <1>1, <2>2, ListingFacts
<1>3. id \notin Accounts
  BY IdsAssumption
<1>4. ASSUME NEW f \in TasksWith(id)
      PROVE  \E i \in 1 .. Len(s) : f = s[i] /\ s[i].id = id
  <2>1. f.id = id /\ (f \in {s[i] : i \in DOMAIN s} \/ f \in {r[i] : i \in DOMAIN r})
    BY <1>1 DEF TasksWith, ItemsOf
  <2>2. f \notin {r[i] : i \in DOMAIN r}
    BY <1>2, <1>3, <2>1 DEF Fits
  <2>. QED  BY <1>2, <2>1, <2>2
<1>5. PICK i \in 1 .. Len(s) : e = s[i] /\ s[i].id = id
  BY <1>4
<1>6. Fits(e, {id}, now, mixed)
  BY <1>2, <1>5 DEF Fits
<1>7. \A f \in TasksWith(id) : f = e
  BY <1>2, <1>4, <1>5
<1>. QED  BY <1>6, <1>7

LEMMA PostedFits ==
    ASSUME NEW e, NEW ids, NEW x, Fits(e, ids, now, x), NEW p \in Posters, NEW on \in BOOLEAN,
           now \in 1 .. MaxNow
    PROVE  /\ Fits(Posted(p, e, on), ids, now, x) /\ Posted(p, e, on).id = e.id
           /\ Posted(p, e, on).ran = e.ran
           /\ e.next = 0 => Posted(p, e, on).next \in {0, now + Interval[p]}
<1>. DEFINE half == [e EXCEPT !.on = on]
            d == [half EXCEPT !.edit = p]
<1>1. [e EXCEPT !.on = on, !.edit = p] = d
  OBVIOUS
<1>2. e \in Entry
  BY DEF Fits
<1>3. half = [id |-> e.id, on |-> on, edit |-> e.edit, next |-> e.next, ran |-> e.ran]
  BY <1>2, EntryIs
<1>. HIDE DEF half
<1>4. d = [id |-> e.id, on |-> on, edit |-> p, next |-> e.next, ran |-> e.ran]
  BY <1>3
<1>. HIDE DEF d
<1>5. d.id = e.id /\ d.on = on /\ d.edit = p /\ d.next = e.next /\ d.ran = e.ran
  BY <1>4
<1>6. d \in Entry
  BY <1>2, <1>4, <1>5, EntryIs
<1>7. Fits(d, ids, now, x)
  BY <1>5, <1>6 DEF Fits, Spaced
<1>8. Fits(Dated(d), ids, now, x) /\ Dated(d).id = d.id /\ Dated(d).ran = d.ran
  BY <1>7, DatedFits
<1>9. d.next = 0 => Dated(d).next \in {0, now + Interval[p]}
  <2>1. CASE d.on /\ d.next = 0
    <3>1. Dated(d) = [d EXCEPT !.next = now + Interval[p]]
      BY <1>5, <2>1 DEF Dated, NextTime
    <3>2. [d EXCEPT !.next = now + Interval[p]].next = now + Interval[p]
      BY <1>4
    <3>. QED  BY <3>1, <3>2
  <2>2. CASE ~(d.on /\ d.next = 0)
    BY <2>2 DEF Dated
  <2>. QED  BY <2>1, <2>2
<1>10. Posted(p, e, on) = Dated(d)
  BY <1>1 DEF Posted
<1>. QED  BY <1>5, <1>8, <1>9, <1>10

\* What is posted is over the one task there is, or runs the poster's interval after
\* anything.
LEMMA SavesWell ==
    ASSUME EInv, NEW p \in Threads, TakeToSave(p)
    PROVE  SInv' /\ CleanAgrees'
<1>. DEFINE id == job[p].id
<1>1. /\ UNCHANGED <<heap, config, known, loaded, scheduled, mine, file, tmp, data, at, queue>>
      /\ UNCHANGED <<now, boots, mixed, clash, failed>>
      /\ p \in Procs /\ p \in Posters /\ pc[p] = "take" /\ Goto(p, "look") /\ job[p].kind = "task"
  BY DEF TakeToSave, memVars, markVars, fileVars, histVars, Procs, Posters
<1>2. /\ Memory' /\ Files' /\ Places' /\ Clock' /\ CleanAgrees'
      /\ Later /\ JobsFit /\ job = [q \in Procs |-> job[q]]
  BY <1>1, DataStays, JobSteps DEF Dirty
<1>3. JobFits(job[p], now, mixed) /\ id \in Tasks /\ now \in Nat /\ now \in 1 .. MaxNow
  BY <1>1, EInvFacts DEF JobsFit, JobFits, TaskKinds
<1>4. PICK base \in TasksWith(id) \union {Item(id)}, on \in BOOLEAN :
         job' = [job EXCEPT ![p].copy = Posted(p, base, on),
                            ![p].seen = {e.ran : e \in TasksWith(id)}]
  BY DEF TakeToSave
<1>. DEFINE c == Posted(p, base, on)
            s == {e.ran : e \in TasksWith(id)}
            j == [job[p] EXCEPT !.copy = c, !.seen = s]
<1>5. Fits(base, {id}, now, mixed) /\ base.id = id
  <2>1. CASE base \in TasksWith(id)
    BY <1>3, <2>1, TasksAre DEF TasksWith
  <2>2. CASE base = Item(id)
    BY <1>3, <2>2, ItemFits
  <2>. QED  BY <2>1, <2>2
<1>6. /\ Fits(c, {id}, now, mixed) /\ c.id = id /\ c.ran = base.ran
      /\ base.next = 0 => c.next \in {0, now + Interval[p]}
  BY <1>1, <1>3, <1>5, PostedFits
<1>7. ASSUME c.ran = 0, c.next # 0, NEW r \in s, r # 0
      PROVE  Room(r, c.next)
  <2>1. PICK e \in TasksWith(id) : r = e.ran
    BY <1>7
  <2>2. Fits(e, {id}, now, mixed) /\ \A f \in TasksWith(id) : f = e
    BY <1>3, TasksAre
  <2>3. base = Item(id)
    BY <1>6, <1>7, <2>1, <2>2
  <2>4. c.next = now + Interval[p]
    BY <1>3, <1>6, <1>7, <2>3, ItemFits
  <2>5. r \in Nat /\ r <= now
    BY <2>1, <2>2, EntryFacts DEF Fits
  <2>. QED  BY <1>1, <1>3, <2>4, <2>5, RoomAhead
<1>8. /\ j = [kind |-> job[p].kind, id |-> id, copy |-> c, seen |-> s]
      /\ j.kind = "task" /\ j.id = id /\ j.copy = c /\ j.seen = s
  <2>. DEFINE half == [job[p] EXCEPT !.copy = c]
  <2>1. half = [kind |-> job[p].kind, id |-> id, copy |-> c, seen |-> job[p].seen]
    BY <1>3 DEF JobFits, IsJob
  <2>2. j = [half EXCEPT !.seen = s]
    OBVIOUS
  <2>. HIDE DEF half, c, s, j
  <2>. QED  BY <1>1, <2>1, <2>2
<1>9. job' = [job EXCEPT ![p] = j]
  BY <1>2, <1>4
<1>. HIDE DEF c, s, j
<1>10. JobFits(j, now, mixed)
  BY <1>3, <1>6, <1>7, <1>8 DEF JobFits, IsJob, Fits, AccountKinds
<1>11. JobsFit'
  BY <1>1, <1>2, <1>9, <1>10, JobsTakeUp
<1>. QED  BY <1>2, <1>11 DEF SInv

\* A step that gives the job of p another copy of its item.
LEMMA CopySteps ==
    ASSUME EInv, NEW p \in Procs, NEW c, Fits(c, {job[p].id}, now, mixed),
           c.ran # 0 \/ c.next = 0 \/ job[p].seen = {}, Later, queue' = queue,
           job' = [job EXCEPT ![p] = [job[p] EXCEPT !.copy = c]],
           UNCHANGED <<now, mixed>>
    PROVE  JobsFit'
<1>1. JobFits(job[p], now, mixed)
  BY EInvFacts DEF JobsFit
<1>2. JobFits([job[p] EXCEPT !.copy = c], now', mixed')
  BY <1>1, CopyFits
<1>. QED  BY <1>2, EInvFacts, JobsTakeUp

\* What is left of a fitting job when its copy is set.
LEMMA SetCopy ==
    ASSUME NEW j, IsJob(j), NEW p \in Procs, job = [q \in Procs |-> job[q]], job[p] = j, NEW c
    PROVE  [job EXCEPT ![p].copy = c] = [job EXCEPT ![p] = [j EXCEPT !.copy = c]]
OBVIOUS

LEMMA EitherOrder ==
    ASSUME NEW e \in Entry, NEW n, NEW r
    PROVE  [e EXCEPT !.ran = r, !.next = n] = [e EXCEPT !.next = n, !.ran = r]
<1>. DEFINE half == [e EXCEPT !.ran = r]
<1>1. half = [id |-> e.id, on |-> e.on, edit |-> e.edit, next |-> e.next, ran |-> r]
  BY EntryIs
<1>2. [e EXCEPT !.ran = r, !.next = n] = [half EXCEPT !.next = n]
  OBVIOUS
<1>. HIDE DEF half
<1>3. [half EXCEPT !.next = n] = [id |-> e.id, on |-> e.on, edit |-> e.edit, next |-> n, ran |-> r]
  BY <1>1
<1>. QED  BY <1>2, <1>3, WithTimes

LEMMA RunsWell ==
    ASSUME EInv, NEW p \in Procs, TakeToRun(p) \/ MailForRun(p)
    PROVE  SInv' /\ CleanAgrees'
<1>1. /\ UNCHANGED <<heap, config, known, loaded, scheduled, mine, file, tmp, data, at, queue>>
      /\ UNCHANGED <<now, boots, mixed, clash, failed>>
      /\ pc[p] \in {"take", "mail"} /\ job[p].kind = "run"
  BY DEF TakeToRun, MailForRun, memVars, markVars, fileVars, histVars
<1>2. PICK l : Goto(p, l)
  BY DEF TakeToRun, MailForRun
<1>3. /\ Memory' /\ Files' /\ Places' /\ Clock' /\ CleanAgrees'
      /\ Later /\ JobsFit /\ job = [q \in Procs |-> job[q]]
  BY <1>1, <1>2, DataStays, JobSteps DEF Dirty
<1>4. JobFits(job[p], now, mixed) /\ job[p].id \in Tasks /\ now \in 1 .. MaxNow
      /\ job[p].seen = {}
  BY <1>1, EInvFacts DEF JobsFit, JobFits, TaskKinds
<1>5. CASE job' = job
  BY <1>1, <1>3, <1>5, JobsStay DEF SInv
<1>6. CASE \E e \in TasksWith(job[p].id) : job' = [job EXCEPT ![p].copy = e]
  <2>1. PICK e \in TasksWith(job[p].id) : job' = [job EXCEPT ![p].copy = e]
    BY <1>6
  <2>2. Fits(e, {job[p].id}, now, mixed)
    BY <1>4, TasksAre
  <2>3. job' = [job EXCEPT ![p] = [job[p] EXCEPT !.copy = e]]
    BY <1>3, <1>4, <2>1, SetCopy DEF JobFits
  <2>4. JobsFit'
    BY <1>1, <1>3, <1>4, <2>2, <2>3, CopySteps
  <2>. QED  BY <1>3, <2>4 DEF SInv
<1>7. CASE job' = [job EXCEPT ![p].copy.ran = now, ![p].copy.next = NextTime(job[p].copy)]
  <2>. DEFINE e == job[p].copy
              n == NextTime(e)
              c == [e EXCEPT !.next = n, !.ran = now]
  <2>1. e \in Entry /\ e.id = job[p].id
    BY <1>4 DEF JobFits
  <2>2. c = [id |-> e.id, on |-> e.on, edit |-> e.edit, next |-> n, ran |-> now]
    BY <2>1, WithTimes
  <2>3. job' = [job EXCEPT ![p] = [job[p] EXCEPT !.copy = c]]
    <3>1. [e EXCEPT !.ran = now, !.next = n] = c
      BY <2>1, EitherOrder
    <3>2. job' = [job EXCEPT ![p].copy = [e EXCEPT !.ran = now, !.next = n]]
      BY <1>3, <1>4, <1>7 DEF JobFits, IsJob
    <3>3. job' = [job EXCEPT ![p].copy = c]
      BY <3>1, <3>2
    <3>. HIDE DEF c
    <3>. QED  BY <1>3, <1>4, <3>3, SetCopy DEF JobFits
  <2>4. c.id = e.id /\ c.on = e.on /\ c.edit = e.edit /\ c.next = n /\ c.ran = now
    <3>. HIDE DEF c, e, n
    <3>. QED  BY <2>2
  <2>. HIDE DEF c
  <2>5. now \in 0 .. MaxNow /\ now \in Nat /\ n \in Nat /\ Room(now, n)
    BY <1>4, <2>1, TimeAssumption, EntryFacts, RoomAhead DEF NextTime
  <2>. HIDE DEF n
  <2>6. c \in Entry
    <3>. HIDE DEF e
    <3>. QED  BY <2>1, <2>2, <2>4, <2>5, EntryIs
  <2>7. Fits(c, {job[p].id}, now, mixed)
    BY <2>1, <2>4, <2>5, <2>6 DEF Fits, Spaced
  <2>8. JobsFit'
    BY <1>1, <1>3, <1>4, <2>3, <2>7, CopySteps
  <2>. QED  BY <1>3, <2>8 DEF SInv
<1>. QED  BY <1>5, <1>6, <1>7 DEF TakeToRun, MailForRun

LEMMA LogsInWell ==
    ASSUME EInv, NEW p \in Procs, MailForLogin(p)
    PROVE  SInv' /\ CleanAgrees'
<1>1. /\ UNCHANGED <<heap, config, known, loaded, scheduled, mine, file, tmp, data, at, queue>>
      /\ UNCHANGED <<now, boots, mixed, clash, failed>>
      /\ pc[p] = "mail" /\ job[p].kind = "login" /\ Goto(p, "copy")
  BY DEF MailForLogin, memVars, markVars, fileVars, histVars
<1>2. /\ Memory' /\ Files' /\ Places' /\ Clock' /\ CleanAgrees'
      /\ Later /\ JobsFit /\ job = [q \in Procs |-> job[q]]
  BY <1>1, DataStays, JobSteps DEF Dirty
<1>3. JobFits(job[p], now, mixed)
  BY EInvFacts DEF JobsFit
<1>4. PICK kind \in {"account", "check"} : job' = [job EXCEPT ![p].kind = kind]
  BY DEF MailForLogin
<1>. DEFINE j == [job[p] EXCEPT !.kind = kind]
<1>5. job' = [job EXCEPT ![p] = j]
  BY <1>2, <1>4
<1>6. /\ j = [kind |-> kind, id |-> job[p].id, copy |-> job[p].copy, seen |-> job[p].seen]
      /\ j.kind = kind /\ j.id = job[p].id /\ j.copy = job[p].copy /\ j.seen = job[p].seen
  BY <1>3 DEF JobFits, IsJob
<1>. HIDE DEF j
<1>7. JobFits(j, now', mixed')
  BY <1>1, <1>3, <1>6 DEF JobFits, IsJob, TaskKinds, AccountKinds
<1>8. JobsFit'
  BY <1>1, <1>2, <1>5, <1>7, JobsTakeUp
<1>. QED  BY <1>2, <1>8 DEF SInv

LEMMA ResolvesWell ==
    ASSUME EInv, NEW p \in Threads, ResolveForLogin(p)
    PROVE  SInv' /\ CleanAgrees'
<1>1. /\ UNCHANGED <<mine, file, tmp, data, at, queue>>
      /\ UNCHANGED <<now, boots, mixed, clash, failed>>
      /\ pc[p] = "resolve" /\ job[p].kind = "login" /\ LoadConfig(FALSE) /\ p \in Procs
  BY DEF ResolveForLogin, fileVars, histVars, Procs
<1>2. PICK l \in {"done", "mail"} : Goto(p, l)
  BY DEF ResolveForLogin
<1>3. Later
  BY <1>1, EInvFacts DEF Later
<1>4. Memory' /\ Loaded
  BY <1>1, EInvFacts, LoadConfigDoes
<1>5. Files' /\ Clock'
  BY <1>1, <1>3, EInvFacts, FilesStay DEF Clock
<1>6. Places'
  BY <1>1, <1>2, EInvFacts, PlacesStay
<1>7. CleanAgrees'
  <2>1. CASE loaded' = FALSE
    BY <2>1 DEF CleanAgrees
  <2>2. CASE loaded' /\ Content(config)' = file
    BY <1>1, <2>2 DEF CleanAgrees
  <2>3. CASE UNCHANGED <<heap, config, known, loaded, scheduled>>
    <3>1. ~Dirty(pc[p]) /\ Content(config)' = Content(config)
      BY <1>1, <2>3 DEF Dirty, Content
    <3>. QED  BY <1>1, <1>2, <2>3, <3>1, EInvFacts, AgreesStill
  <2>. QED  BY <1>4, <2>1, <2>2, <2>3 DEF Loaded
<1>8. JobFits(job[p], now, mixed) /\ job[p].id \in Accounts /\ job[p].seen = {}
  BY <1>1, EInvFacts DEF JobsFit, JobFits, AccountKinds
<1>9. JobsFit'
  <2>1. CASE job' = job
    BY <1>1, <1>3, <2>1, EInvFacts, JobsStay
  <2>2. CASE \E edit \in known'[job[p].id] \union {p} :
                job' = [job EXCEPT ![p].copy = [Item(job[p].id) EXCEPT !.edit = edit]]
    <3>1. PICK edit \in known'[job[p].id] \union {p} :
             job' = [job EXCEPT ![p].copy = [Item(job[p].id) EXCEPT !.edit = edit]]
      BY <2>2
    <3>2. edit \in Posters
      BY <1>4, <1>8 DEF Memory, Posters
    <3>. DEFINE c == [Item(job[p].id) EXCEPT !.edit = edit]
    <3>3. Fits(Item(job[p].id), {job[p].id}, now, mixed)
      BY <1>8, EInvFacts, ItemFits
    <3>4. Fits(c, {job[p].id}, now, mixed)
      BY <3>2, <3>3, PostedByFits
    <3>. HIDE DEF c
    <3>5. job' = [job EXCEPT ![p] = [job[p] EXCEPT !.copy = c]]
      BY <1>1, <1>8, <3>1, EInvFacts, SetCopy DEF JobFits, c
    <3>. QED  BY <1>1, <1>3, <1>8, <3>4, <3>5, CopySteps
  <2>. QED  BY <2>1, <2>2 DEF ResolveForLogin
<1>. QED  BY <1>4, <1>5, <1>6, <1>7, <1>9 DEF SInv

LEMMA PicksWell ==
    ASSUME EInv, Pick \/ NextTurn
    PROVE  SInv' /\ CleanAgrees'
<1>1. /\ UNCHANGED <<heap, config, known, loaded, scheduled, mine, file, tmp, data, at>>
      /\ UNCHANGED <<now, boots, mixed, clash, failed>>
      /\ pc[Scheduler] \in {"pick", "turn"} /\ Scheduler \in Procs
  BY DEF Pick, NextTurn, memVars, markVars, fileVars, histVars, Procs
<1>2. PICK l : Goto(Scheduler, l)
  BY DEF Pick, NextTurn
<1>3. /\ Memory' /\ Files' /\ Places' /\ Clock' /\ CleanAgrees'
      /\ Later /\ JobsFit /\ job = [q \in Procs |-> job[q]]
  BY <1>1, <1>2, DataStays, JobSteps DEF Dirty
<1>4. now' = now /\ mixed' = mixed /\ Listing(queue, Tasks, now, mixed) /\ now \in Nat
      /\ \A q \in Procs : JobFits(job[q], now, mixed)
  BY <1>1, EInvFacts DEF JobsFit
<1>5. CASE Pick
  <2>. DEFINE s == heap[config.tasks]
              I == {i \in DOMAIN s : Due(s[i])}
  <2>1. queue' = Kept(s, I) /\ job' = job
    BY <1>5 DEF Pick
  <2>2. Listing(s, Tasks, now, mixed)
    BY EInvFacts DEF Memory, Points, Configuration, Content, Whole
  <2>. HIDE DEF s, I
  <2>3. Listing(queue', Tasks, now, mixed)
    BY <2>1, <2>2, KeptListing
  <2>4. JobsFit'
    BY <1>4, <2>1, <2>3 DEF JobsFit
  <2>. QED  BY <1>3, <2>4 DEF SInv
<1>6. CASE NextTurn /\ queue = <<>>
  <2>1. job' = [job EXCEPT ![Scheduler] = NoJob] /\ queue' = queue
    BY <1>6 DEF NextTurn
  <2>2. "none" \notin TaskKinds \union AccountKinds
    BY DEF TaskKinds, AccountKinds
  <2>3. JobFits([NoJob EXCEPT !.kind = "none"], now', mixed')
    BY <1>4, <2>2, EInvFacts, NoJobFits
  <2>4. JobFits(NoJob, now', mixed')
    BY <2>3, NoJobIs
  <2>5. JobsFit'
    BY <1>1, <1>3, <2>1, <2>4, JobsTakeUp
  <2>. QED  BY <1>3, <2>5 DEF SInv
<1>7. CASE NextTurn /\ queue # <<>>
  <2>. DEFINE c == Head(queue)
              r == About("run", c.id)
              j == [r EXCEPT !.copy = c]
  <2>1. job' = [job EXCEPT ![Scheduler] = j] /\ queue' = Tail(queue)
    BY <1>7 DEF NextTurn
  <2>2. Fits(c, Tasks, now, mixed) /\ Listing(Tail(queue), Tasks, now, mixed)
    BY <1>4, <1>7, HeadAndTail
  <2>3. JobFits(r, now, mixed) /\ r.id = c.id /\ r.seen = {}
    <3>1. c.id \in Tasks /\ "run" \notin AccountKinds
      BY <2>2 DEF Fits, AccountKinds
    <3>2. JobFits(r, now, mixed)
      <4>. HIDE DEF c
      <4>. QED  BY <1>4, <3>1, AboutFits
    <3>. QED  BY <3>2 DEF About
  <2>4. Fits(c, {r.id}, now, mixed)
    BY <2>2, <2>3 DEF Fits
  <2>. HIDE DEF c, r
  <2>5. JobFits(j, now, mixed)
    BY <2>3, <2>4, CopyFits
  <2>. HIDE DEF j
  <2>6. \A q \in Procs : JobFits(job'[q], now, mixed)
    BY <1>3, <1>4, <2>1, <2>5
  <2>7. JobsFit'
    BY <1>4, <2>1, <2>2, <2>6 DEF JobsFit
  <2>. QED  BY <1>3, <2>7 DEF SInv
<1>. QED  BY <1>5, <1>6, <1>7

-----------------------------------------------------------------------------
(* Steps that change memory *)

LEMMA MemoryShows ==
    ASSUME Memory
    PROVE  /\ heap \in [Arrays -> Seq(Entry)] /\ heap[0] = <<>>
           /\ Shows(heap, config, now, mixed) /\ \A p \in Procs : Shows(heap, mine[p], now, mixed)
           /\ mine \in [Procs -> Pointers] /\ known \in [Accounts -> SUBSET Posters]
           /\ loaded => scheduled /\ config # Nil
BY DEF Memory, Points, Content, Shows

LEMMA UnloadsWell ==
    ASSUME EInv, NEW p \in Procs, Unload(p)
    PROVE  SInv' /\ CleanAgrees'
<1>1. /\ UNCHANGED <<mine, file, tmp, data, at, job, queue>> /\ UNCHANGED <<now, boots, mixed>>
      /\ config' = Nil /\ heap' = Collected(heap, Nil, mine) /\ loaded' = FALSE
      /\ known' = [a \in Accounts |-> {}] /\ pc[p] = "drop" /\ Goto(p, "done")
  BY DEF Unload, markVars, fileVars, histVars
<1>2. Later
  BY <1>1, EInvFacts DEF Later
<1>3. Memory'
  <2>1. Shows(heap, Nil, now, mixed)
    BY EInvFacts, MemoryShows, NilShows
  <2>. QED  BY <1>1, <2>1, EInvFacts, MemoryShows, Remembers
<1>4. Files' /\ JobsFit'
  BY <1>1, <1>2, EInvFacts, FilesStay, JobsStay
<1>5. Places'
  BY <1>1, EInvFacts, PlacesStay
<1>6. Clock' /\ CleanAgrees'
  BY <1>1, EInvFacts DEF Clock, CleanAgrees
<1>. QED  BY <1>3, <1>4, <1>5, <1>6 DEF SInv

LEMMA CopiesWell ==
    ASSUME EInv, NEW p \in Procs, Copy(p)
    PROVE  SInv' /\ CleanAgrees'
<1>1. /\ UNCHANGED <<heap, config, known, loaded, scheduled, file, tmp, data, at, job, queue>>
      /\ UNCHANGED <<now, boots, mixed, clash, failed>>
      /\ mine' = [mine EXCEPT ![p] = config] /\ pc[p] = "copy" /\ Goto(p, "edit")
  BY DEF Copy, memVars, markVars, fileVars
<1>2. Later
  BY <1>1, EInvFacts DEF Later
<1>3. mine' \in [Procs -> Pointers] /\ \A q \in Procs : mine'[q] \in {mine[q], config, Nil}
  BY <1>1, EInvFacts DEF Memory
<1>4. Memory' /\ Content(config)' = Content(config)
  BY <1>1, <1>2, <1>3, EInvFacts, MemoryStays DEF Later
<1>5. Files' /\ JobsFit'
  BY <1>1, <1>2, EInvFacts, FilesStay, JobsStay
<1>6. Places'
  BY <1>1, EInvFacts DEF Places, Goto
<1>7. Clock'
  BY <1>1, EInvFacts DEF Clock
<1>8. CleanAgrees'
  BY <1>1, <1>4, EInvFacts, AgreesStill DEF Dirty
<1>. QED  BY <1>4, <1>5, <1>6, <1>7, <1>8 DEF SInv

LEMMA PlacesFree ==
    ASSUME EInv, NEW p \in Procs, NEW l, Goto(p, l), pc[p] \in {"edit", "rest"},
           mine' = [mine EXCEPT ![p] = Nil], at' = at
    PROVE  Places'
BY EInvFacts DEF Places, Goto

LEMMA MissesWell ==
    ASSUME EInv, NEW p \in Procs, Miss(p)
    PROVE  SInv' /\ CleanAgrees'
<1>1. /\ UNCHANGED <<config, known, loaded, scheduled, file, tmp, data, at, job, queue>>
      /\ UNCHANGED <<now, boots, mixed, clash, failed>>
      /\ mine' = [mine EXCEPT ![p] = Nil] /\ heap' = Collected(heap, config, mine')
      /\ pc[p] = "edit" /\ Goto(p, Through(p))
  BY DEF Miss, markVars, fileVars, histVars
<1>2. Later
  BY <1>1, EInvFacts DEF Later
<1>3. mine' \in [Procs -> Pointers] /\ \A q \in Procs : mine'[q] \in {mine[q], Nil}
  BY <1>1, EInvFacts, NilPoints
<1>4. Memory' /\ Content(config)' = Content(config)
  BY <1>1, <1>3, EInvFacts, MemoryCollected
<1>5. Files' /\ JobsFit'
  BY <1>1, <1>2, EInvFacts, FilesStay, JobsStay
<1>6. Places'
  BY <1>1, PlacesFree
<1>7. Clock'
  BY <1>1, EInvFacts DEF Clock
<1>8. CleanAgrees'
  BY <1>1, <1>4, EInvFacts, AgreesStill DEF Dirty
<1>. QED  BY <1>4, <1>5, <1>6, <1>7, <1>8 DEF SInv

\* The ids of what p changes.
Ids(p) == IF Part(p) = "tasks" THEN Tasks ELSE Accounts

LEMMA MineIs ==
    ASSUME EInv, NEW p \in Procs
    PROVE  /\ mine[p][Part(p)] \in Arrays /\ Ids(p) \in {Tasks, Accounts}
           /\ Listing(Mine(p), Ids(p), now, mixed)
           /\ job[p].kind \in TaskKinds \union AccountKinds => job[p].id \in Ids(p)
           /\ JobFits(job[p], now, mixed)
<1>1. Shows(heap, mine[p], now, mixed) /\ mine[p] \in Pointers
  BY EInvFacts, MemoryShows
<1>2. JobFits(job[p], now, mixed)
  BY EInvFacts DEF JobsFit
<1>3. CASE job[p].kind \in TaskKinds
  <2>1. Part(p) = "tasks"
    BY <1>3 DEF Part, TaskKinds
  <2>. QED  BY <1>1, <1>2, <1>3, <2>1, ShowsIs
            DEF Pointers, Ids, Mine, JobFits, TaskKinds, AccountKinds
<1>4. CASE job[p].kind \notin TaskKinds
  <2>1. Part(p) = "accts"
    BY <1>4 DEF Part, TaskKinds
  <2>. QED  BY <1>1, <1>2, <1>4, <2>1, ShowsIs DEF Pointers, Ids, Mine, JobFits
<1>. QED  BY <1>3, <1>4

LEMMA MentionedIs ==
    ASSUME EInv, NEW p \in Procs, NEW i \in Mentioned(p), job[p].kind \in StoredKinds
    PROVE  /\ i \in DOMAIN Mine(p) /\ Mine(p)[i].id = job[p].id
           /\ Fits(Mine(p)[i], Ids(p), now, mixed)
           /\ Fits(Stored(p, Mine(p)[i]), Ids(p), now, mixed \/ Fills(p, Mine(p)[i]))
           /\ Stored(p, Mine(p)[i]).id = Mine(p)[i].id
<1>1. i \in DOMAIN Mine(p) /\ Mine(p)[i].id = job[p].id
  BY DEF Mentioned
<1>2. Mine(p) \in Seq(Entry) /\ Listing(Mine(p), Ids(p), now, mixed)
  BY MineIs, ListingFacts
<1>3. i \in 1 .. Len(Mine(p))
  BY <1>1, <1>2, LenProperties
<1>4. Fits(Mine(p)[i], Ids(p), now, mixed)
  BY <1>2, <1>3, ListingFacts
<1>. QED  BY <1>1, <1>4, MineIs, EInvFacts, StoredFits

\* An item of p's copy is replaced, where p's copy is.
LEMMA EditDoes ==
    ASSUME EInv, NEW p \in Procs, NEW i \in Mentioned(p), NEW x, mixed => x,
           NEW e, Fits(e, Ids(p), now, x), e.id = Mine(p)[i].id, NEW g,
           g = [heap EXCEPT ![mine[p][Part(p)]] = [Mine(p) EXCEPT ![i] = e]]
    PROVE  /\ g \in [Arrays -> Seq(Entry)] /\ g[0] = <<>>
           /\ Listing([Mine(p) EXCEPT ![i] = e], Ids(p), now, x)
           /\ \A c : Shows(heap, c, now, mixed) => Shows(g, c, now, x)
<1>. DEFINE a == mine[p][Part(p)]
<1>1. /\ heap \in [Arrays -> Seq(Entry)] /\ heap[0] = <<>> /\ a \in Arrays /\ now \in Nat
      /\ Mine(p) = heap[a] /\ Listing(heap[a], Ids(p), now, mixed) /\ Ids(p) \in {Tasks, Accounts}
  BY EInvFacts, MemoryShows, MineIs DEF Mine
<1>2. Listing(heap[a], Ids(p), now, x) /\ i \in DOMAIN heap[a]
  BY <1>1, ListingStays DEF Mentioned
<1>3. \A c : Shows(heap, c, now, mixed) => Shows(heap, c, now, x)
  BY <1>1, ConfigurationStays DEF Shows
<1>. HIDE DEF a
<1>4. g = [heap EXCEPT ![a] = [heap[a] EXCEPT ![i] = e]]
  BY <1>1 DEF a
<1>5. /\ g \in [Arrays -> Seq(Entry)] /\ g[0] = <<>> /\ Listing(g[a], Ids(p), now, x)
      /\ \A c : Shows(heap, c, now, x) => Shows(g, c, now, x)
  <2>1. e.id = heap[a][i].id /\ i \in DOMAIN heap[a] /\ Fits(e, Ids(p), now, x)
    BY <1>1, <1>2
  <2>2. Edits(heap, a, Ids(p), now, x, i, e, g)
    BY <1>1, <1>2, <1>4, <2>1 DEF Edits
  <2>3. g \in [Arrays -> Seq(Entry)] /\ g[0] = <<>>
    BY <2>2, EditKeeps
  <2>4. Listing(g[a], Ids(p), now, x)
    BY <2>2, EditKeeps
  <2>5. \A c : Shows(heap, c, now, x) => Shows(g, c, now, x)
    BY <2>2, EditKeeps
  <2>. QED  BY <2>3, <2>4, <2>5
<1>6. g[a] = [heap[a] EXCEPT ![i] = e]
  BY <1>1, <1>4
<1>. QED  BY <1>1, <1>3, <1>5, <1>6


\* The change of p stands, and p goes on with the text of the configuration.
LEMMA MarshalDoes ==
    ASSUME EInv, NEW p \in Procs, NEW items, NEW h, Marshal(p, items, h),
           pc[p] \in {"edit", "rest"}, mixed => mixed', Listing(items, Ids(p), now, mixed'),
           h \in [Arrays -> Seq(Entry)], h[0] = <<>>,
           \A c : Shows(heap, c, now, mixed) => Shows(h, c, now, mixed')
    PROVE  SInv' /\ CleanAgrees'
<1>. DEFINE c == [Content(mine[p]) EXCEPT ![Part(p)] = items]
<1>1. /\ UNCHANGED <<config, known, loaded, scheduled, file, tmp, at, job, queue>>
      /\ UNCHANGED <<now, boots, clash, failed>>
      /\ data' = [data EXCEPT ![p] = Normalized(c)] /\ mine' = [mine EXCEPT ![p] = Nil]
      /\ heap' = Collected(h, config, mine') /\ Goto(p, "open")
  BY DEF Marshal, markVars, fileVars
<1>2. Later
  BY <1>1, EInvFacts DEF Later
<1>3. Memory'
  <2>1. mine' \in [Procs -> Pointers] /\ \A q \in Procs : mine'[q] \in {mine[q], Nil}
    BY <1>1, EInvFacts, NilPoints
  <2>2. Shows(h, Nil, now, mixed')
    BY NilShows
  <2>3. Shows(h, config, now, mixed') /\ \A q \in Procs : Shows(h, mine[q], now, mixed')
    BY EInvFacts, MemoryShows
  <2>4. \A q \in Procs : Shows(h, mine'[q], now, mixed')
    BY <2>1, <2>2, <2>3
  <2>5. Shows(h, config', now', mixed') /\ \A q \in Procs : Shows(h, mine'[q], now', mixed')
    BY <1>1, <2>3, <2>4
  <2>6. /\ heap' = Collected(h, config', mine') /\ known' \in [Accounts -> SUBSET Posters]
        /\ loaded' => scheduled' /\ config' # Nil
    BY <1>1, EInvFacts, MemoryShows
  <2>. QED  BY <2>1, <2>5, <2>6, Remembers
<1>4. Configuration(c, now, mixed')
  <2>1. Shows(heap, mine[p], now, mixed)
    BY EInvFacts, MemoryShows
  <2>2. /\ Listing(heap[mine[p].tasks], Tasks, now, mixed')
        /\ Listing(heap[mine[p].accts], Accounts, now, mixed')
    BY <2>1, EInvFacts, ListingStays, ShowsIs
  <2>3. CASE Part(p) = "tasks"
    <3>1. c = Whole(items, heap[mine[p].accts]) /\ Ids(p) = Tasks
      BY <2>3 DEF Content, Whole, Ids
    <3>. HIDE DEF c
    <3>. QED  BY <2>2, <3>1 DEF Configuration, Whole
  <2>4. CASE Part(p) = "accts"
    <3>1. c = Whole(heap[mine[p].tasks], items) /\ Ids(p) = Accounts
      BY <2>4 DEF Content, Whole, Ids
    <3>. HIDE DEF c
    <3>. QED  BY <2>2, <3>1 DEF Configuration, Whole
  <2>. QED  BY <2>3, <2>4 DEF Part
<1>. HIDE DEF c
<1>5. Files'
  <2>1. \A d : Configuration(d, now, mixed) => Configuration(d, now', mixed')
    BY <1>1, <1>2, ConfigurationStays DEF Later
  <2>2. Configuration(Normalized(c), now', mixed')
    BY <1>1, <1>4, EInvFacts, NormalizedFits
  <2>. QED  BY <1>1, <2>1, <2>2, EInvFacts DEF Files
<1>6. JobsFit'
  BY <1>1, <1>2, EInvFacts, JobsStay
<1>7. Places'
  BY <1>1, PlacesFree
<1>8. Clock' /\ CleanAgrees'
  <2>1. CleanAgrees'
    BY <1>1, EInvFacts, AgreesNot DEF Dirty
  <2>. QED  BY <1>1, <2>1, EInvFacts DEF Clock
<1>. QED  BY <1>3, <1>5, <1>6, <1>7, <1>8 DEF SInv

LEMMA HalfEditsWell ==
    ASSUME EInv, NEW p \in Procs, HalfEdit(p)
    PROVE  SInv' /\ CleanAgrees'
<1>1. /\ UNCHANGED <<config, known, loaded, scheduled, mine, file, tmp, data, at, job, queue>>
      /\ UNCHANGED <<now, boots, clash, failed>>
      /\ pc[p] = "edit" /\ job[p].kind \in {"task", "run"} /\ Goto(p, "rest")
  BY DEF HalfEdit, markVars, fileVars
<1>. DEFINE odd(half, old, new) == Times(half) \notin {Times(old), Times(new)}
<1>2. PICK i \in Mentioned(p) : \E half \in Halves(Mine(p)[i], Stored(p, Mine(p)[i])) :
         /\ heap' = [heap EXCEPT ![mine[p].tasks][i] = half]
         /\ mixed' = (mixed \/ Fills(p, Mine(p)[i]) \/ odd(half, Mine(p)[i], Stored(p, Mine(p)[i])))
  BY DEF HalfEdit
<1>3. PICK half \in Halves(Mine(p)[i], Stored(p, Mine(p)[i])) :
         /\ heap' = [heap EXCEPT ![mine[p].tasks][i] = half]
         /\ mixed' = (mixed \/ Fills(p, Mine(p)[i]) \/ odd(half, Mine(p)[i], Stored(p, Mine(p)[i])))
  BY <1>2
<1>4. /\ (mixed => mixed') /\ (mixed \/ Fills(p, Mine(p)[i]) => mixed')
      /\ (odd(half, Mine(p)[i], Stored(p, Mine(p)[i])) => mixed')
  BY <1>3
<1>5. /\ Fits(Mine(p)[i], Ids(p), now, mixed)
      /\ Fits(Stored(p, Mine(p)[i]), Ids(p), now, mixed')
      /\ Stored(p, Mine(p)[i]).id = Mine(p)[i].id
  <2>1. /\ Fits(Mine(p)[i], Ids(p), now, mixed)
        /\ Fits(Stored(p, Mine(p)[i]), Ids(p), now, mixed \/ Fills(p, Mine(p)[i]))
        /\ Stored(p, Mine(p)[i]).id = Mine(p)[i].id
    BY <1>1, MentionedIs DEF StoredKinds
  <2>. QED  BY <1>4, <2>1 DEF Fits
<1>6. Fits(half, Ids(p), now, mixed') /\ half.id = Mine(p)[i].id
  <2>1. Fits(Mine(p)[i], Ids(p), now, mixed')
    BY <1>4, <1>5 DEF Fits
  <2>. QED  BY <1>4, <1>5, <2>1, HalvesFit
<1>7. heap' = [heap EXCEPT ![mine[p][Part(p)]] = [Mine(p) EXCEPT ![i] = half]]
  <2>1. mine[p][Part(p)] = mine[p].tasks /\ Mine(p) = heap[mine[p].tasks]
        /\ mine[p].tasks \in Arrays /\ heap \in [Arrays -> Seq(Entry)]
    BY <1>1, EInvFacts, MemoryShows DEF Part, Mine, Pointers
  <2>. QED  BY <1>3, <2>1
<1>8. /\ heap' \in [Arrays -> Seq(Entry)] /\ heap'[0] = <<>>
      /\ \A c : Shows(heap, c, now, mixed) => Shows(heap', c, now, mixed')
  BY <1>4, <1>6, <1>7, EditDoes
<1>9. Later
  <2>1. mixed => mixed'
    BY <1>4
  <2>2. now \in Nat /\ now' = now
    BY <1>1, EInvFacts
  <2>. QED  BY <2>1, <2>2 DEF Later
<1>10. Memory'
  <2>1. Shows(heap', config, now, mixed') /\ \A q \in Procs : Shows(heap', mine[q], now, mixed')
    BY <1>8, EInvFacts, MemoryShows
  <2>2. Points(config)' /\ \A q \in Procs : Points(mine[q])'
    BY <1>1, <2>1 DEF Points, Content, Shows
  <2>. QED  BY <1>1, <1>8, <2>2, EInvFacts, MemoryShows DEF Memory, Shows
<1>11. Files' /\ JobsFit'
  BY <1>1, <1>9, EInvFacts, FilesStay, JobsStay
<1>12. Places' /\ Clock' /\ CleanAgrees'
  <2>1. Places'
    BY <1>1, EInvFacts DEF Places, Goto
  <2>2. CleanAgrees'
    BY <1>1, EInvFacts, AgreesNot DEF Dirty
  <2>. QED  BY <1>1, <2>1, <2>2, EInvFacts DEF Clock
<1>. QED  BY <1>10, <1>11, <1>12 DEF SInv

LEMMA ReplacesWell ==
    ASSUME EInv, NEW p \in Procs, Replace(p)
    PROVE  SInv' /\ CleanAgrees'
<1>1. pc[p] \in {"edit", "rest"} /\ job[p].kind \in StoredKinds
  BY DEF Replace, StoredKinds
<1>2. PICK i \in Mentioned(p) :
         LET items == [Mine(p) EXCEPT ![i] = Stored(p, @)] IN
         /\ Marshal(p, items, [heap EXCEPT ![mine[p][Part(p)]] = items])
         /\ mixed' = (mixed \/ Fills(p, Mine(p)[i]))
  BY DEF Replace
<1>. DEFINE e == Stored(p, Mine(p)[i])
            items == [Mine(p) EXCEPT ![i] = e]
            h == [heap EXCEPT ![mine[p][Part(p)]] = items]
<1>3. Marshal(p, items, h) /\ mixed' = (mixed \/ Fills(p, Mine(p)[i]))
  BY <1>2
<1>4. Fits(e, Ids(p), now, mixed') /\ e.id = Mine(p)[i].id
  BY <1>1, <1>3, MentionedIs
<1>5. /\ h \in [Arrays -> Seq(Entry)] /\ h[0] = <<>>
      /\ Listing(items, Ids(p), now, mixed')
      /\ \A c : Shows(heap, c, now, mixed) => Shows(h, c, now, mixed')
  <2>. HIDE DEF e
  <2>. QED  BY <1>3, <1>4, EditDoes
<1>. HIDE DEF items, h
<1>. QED  BY <1>1, <1>3, <1>5, MarshalDoes

\* Nothing in memory changes but p's copy of it.
LEMMA SameHeap ==
    ASSUME EInv, mixed' = mixed
    PROVE  /\ heap \in [Arrays -> Seq(Entry)] /\ heap[0] = <<>>
           /\ \A c : Shows(heap, c, now, mixed) => Shows(heap, c, now, mixed')
BY EInvFacts, MemoryShows

LEMMA AddsWell ==
    ASSUME EInv, NEW p \in Procs, Add(p)
    PROVE  SInv' /\ CleanAgrees'
<1>1. /\ pc[p] = "edit" /\ job[p].kind \in {"task", "account"} /\ Mentioned(p) = {}
      /\ mixed' = mixed
  BY DEF Add
<1>. DEFINE e == job[p].copy
            items == Append(Mine(p), e)
<1>2. Marshal(p, items, heap)
  BY DEF Add
<1>3. Listing(Mine(p), Ids(p), now, mixed) /\ job[p].id \in Ids(p) /\ JobFits(job[p], now, mixed)
  BY <1>1, MineIs DEF TaskKinds, AccountKinds
<1>4. Fits(e, Ids(p), now, mixed) /\ e.id = job[p].id
  BY <1>3 DEF JobFits, Fits
<1>5. \A i \in DOMAIN Mine(p) : Mine(p)[i].id # e.id
  BY <1>1, <1>4 DEF Mentioned
<1>6. Listing(items, Ids(p), now, mixed')
  <2>. HIDE DEF e
  <2>1. Listing(items, Ids(p), now, mixed)
    BY <1>3, <1>4, <1>5, AppendListing
  <2>. QED  BY <1>1, <2>1
<1>. HIDE DEF items
<1>. QED  BY <1>1, <1>2, <1>6, SameHeap, MarshalDoes

LEMMA RemovesWell ==
    ASSUME EInv, NEW p \in Procs, Remove(p)
    PROVE  SInv' /\ CleanAgrees'
<1>1. pc[p] = "edit" /\ mixed' = mixed
  BY DEF Remove
<1>. DEFINE I == DOMAIN Mine(p) \ Mentioned(p)
            items == Kept(Mine(p), I)
<1>2. Marshal(p, items, heap)
  BY DEF Remove
<1>3. Listing(items, Ids(p), now, mixed')
  <2>. HIDE DEF I
  <2>1. Listing(Mine(p), Ids(p), now, mixed)
    BY MineIs
  <2>2. Listing(items, Ids(p), now, mixed)
    BY <2>1, KeptListing
  <2>. QED  BY <1>1, <2>2
<1>. HIDE DEF items
<1>. QED  BY <1>1, <1>2, <1>3, SameHeap, MarshalDoes

-----------------------------------------------------------------------------
(* Steps that write the file *)

LEMMA BlankFits ==
    ASSUME NEW t, NEW x
    PROVE  Configuration(Blank, t, x)
BY EmptyListing DEF Configuration, Blank, Whole

LEMMA UnreadableFits ==
    ASSUME NEW t, NEW x
    PROVE  Configuration(Empty, t, x) /\ Configuration(Torn, t, x)
BY EmptyListing DEF Configuration, Unreadable, Empty, Torn

\* What a step of the writing leaves alone.
LEMMA WritingSteps ==
    ASSUME EInv, UNCHANGED <<heap, config, known, loaded, scheduled, mine, job, queue>>,
           UNCHANGED <<now, boots, mixed>>
    PROVE  Memory' /\ JobsFit' /\ Clock' /\ Content(config)' = Content(config)
<1>1. Later
  BY EInvFacts DEF Later
<1>2. Memory' /\ Content(config)' = Content(config)
  BY <1>1, EInvFacts, MemoryStays DEF Later
<1>3. JobsFit'
  BY <1>1, EInvFacts, JobsStay
<1>. QED  BY <1>2, <1>3, EInvFacts DEF Clock

LEMMA OpensWell ==
    ASSUME EInv, NEW p \in Procs, Open(p)
    PROVE  SInv' /\ CleanAgrees'
<1>1. /\ UNCHANGED <<heap, config, known, loaded, scheduled, mine, job, queue>>
      /\ UNCHANGED <<now, boots, mixed, file, data, failed>>
      /\ tmp' = {Empty} /\ at' = [at EXCEPT ![p] = "tmp"] /\ pc[p] = "open" /\ Goto(p, "put")
  BY DEF Open, memVars, markVars
<1>2. Memory' /\ JobsFit' /\ Clock'
  BY <1>1, WritingSteps
<1>3. Files'
  BY <1>1, EInvFacts, UnreadableFits DEF Files
<1>4. Places'
  BY <1>1, EInvFacts DEF Places, Goto
<1>5. CleanAgrees'
  BY <1>1, EInvFacts, AgreesNot DEF Dirty
<1>. QED  BY <1>2, <1>3, <1>4, <1>5 DEF SInv

LEMMA PutsWell ==
    ASSUME EInv, NEW p \in Procs, Put(p)
    PROVE  SInv' /\ CleanAgrees'
<1>1. /\ UNCHANGED <<heap, config, known, loaded, scheduled, mine, job, queue>>
      /\ UNCHANGED <<now, boots, mixed, clash, failed>>
      /\ at' = [at EXCEPT ![p] = "closed"] /\ data' = [data EXCEPT ![p] = Blank]
      /\ pc[p] = "put" /\ Goto(p, "rename")
  BY DEF Put, memVars, markVars, histVars
<1>2. Memory' /\ JobsFit' /\ Clock'
  BY <1>1, WritingSteps
<1>3. \A old, c : c \in Over(p, old) => Configuration(c, now, mixed)
  BY EInvFacts, UnreadableFits DEF Over, Files
<1>4. Configuration(file', now, mixed)
  BY <1>3, EInvFacts DEF Put, Files
<1>5. (\A c \in tmp' : Configuration(c, now, mixed)) /\ (\A c, d \in tmp' : c = d)
  BY <1>3, EInvFacts DEF Put, Files
<1>6. Files'
  BY <1>1, <1>4, <1>5, EInvFacts, BlankFits DEF Files
<1>7. Places'
  BY <1>1, EInvFacts DEF Places, Goto
<1>8. CleanAgrees'
  BY <1>1, EInvFacts, AgreesNot DEF Dirty
<1>. QED  BY <1>2, <1>6, <1>7, <1>8 DEF SInv

LEMMA RenamesWell ==
    ASSUME EInv, NEW p \in Procs, Rename(p)
    PROVE  SInv' /\ CleanAgrees'
<1>1. /\ UNCHANGED <<heap, config, known, loaded, scheduled, mine, job, queue>>
      /\ UNCHANGED <<now, boots, mixed, clash, failed, data>>
      /\ at' = [q \in Procs |-> Renamed(at[q])] /\ tmp' = {}
      /\ pc[p] = "rename" /\ Goto(p, "reload")
  BY DEF Rename, memVars, markVars, histVars
<1>2. Memory' /\ JobsFit' /\ Clock'
  BY <1>1, WritingSteps
<1>3. Configuration(file', now, mixed)
  BY EInvFacts DEF Rename, Files
<1>4. Files'
  BY <1>1, <1>3, EInvFacts DEF Files
<1>5. Places'
  BY <1>1, EInvFacts DEF Places, Goto, Renamed
<1>6. CleanAgrees'
  BY <1>1, EInvFacts, AgreesNot DEF Dirty
<1>. QED  BY <1>2, <1>4, <1>5, <1>6 DEF SInv

LEMMA OpenFailsWell ==
    ASSUME EInv, NEW p \in Procs, OpenFails(p)
    PROVE  SInv' /\ CleanAgrees'
<1>1. /\ UNCHANGED <<heap, config, known, loaded, scheduled, mine, job, queue>>
      /\ UNCHANGED <<now, boots, mixed, file, tmp, at>>
      /\ failed' = TRUE /\ data' = [data EXCEPT ![p] = Blank]
      /\ pc[p] = "open" /\ Goto(p, Through(p))
  BY DEF OpenFails, memVars, markVars, fileVars
<1>2. Memory' /\ JobsFit' /\ Clock'
  BY <1>1, WritingSteps
<1>3. Files'
  BY <1>1, EInvFacts, BlankFits DEF Files
<1>4. Places'
  BY <1>1, EInvFacts, PlacesStay
<1>5. CleanAgrees'
  BY <1>1 DEF CleanAgrees
<1>. QED  BY <1>2, <1>3, <1>4, <1>5 DEF SInv

-----------------------------------------------------------------------------
(* The invariant *)

LEMMA Waits ==
    ASSUME EInv, Advance \/ UNCHANGED vars
    PROVE  SInv' /\ CleanAgrees'
<1>1. /\ UNCHANGED <<heap, config, known, loaded, scheduled, mine, job, queue, pc>>
      /\ UNCHANGED <<boots, mixed, clash, failed, file, tmp, at, data>>
  BY DEF Advance, vars, memVars, markVars, fileVars, procVars, histVars
<1>2. now' \in 1 .. MaxNow /\ now <= now' /\ now' \in Nat
  BY EInvFacts, ClockFacts DEF Advance, vars
<1>3. Later
  BY <1>1, <1>2, EInvFacts DEF Later
<1>4. Memory' /\ Content(config)' = Content(config)
  BY <1>1, <1>3, EInvFacts, MemoryStays DEF Later
<1>5. Files' /\ JobsFit'
  BY <1>1, <1>3, EInvFacts, FilesStay, JobsStay
<1>6. Places' /\ Clock' /\ CleanAgrees'
  BY <1>1, <1>2, <1>4, EInvFacts DEF Places, Clock, CleanAgrees
<1>. QED  BY <1>4, <1>5, <1>6 DEF SInv

\* Nothing is in memory and nobody is busy.
LEMMA NothingShown ==
    ASSUME NEW h, h = [a \in Arrays |-> <<>>], NEW m, m = [p \in Procs |-> Nil], NEW t, NEW x
    PROVE  /\ h \in [Arrays -> Seq(Entry)] /\ h[0] = <<>> /\ m \in [Procs -> Pointers]
           /\ Shows(h, Nil, t, x) /\ \A p \in Procs : m[p] = Nil
<1>1. 0 \in Arrays /\ Nil \in Pointers /\ <<>> \in Seq(Entry)
  BY NilPoints, EmptySeq DEF Pointers
<1>2. h \in [Arrays -> Seq(Entry)] /\ h[0] = <<>>
  BY <1>1
<1>. QED  BY <1>1, <1>2, NilShows

LEMMA NoJobs ==
    ASSUME Clock, NEW t \in Nat, NEW x
    PROVE  JobFits(NoJob, t, x)
<1>1. "none" \notin TaskKinds \union AccountKinds
  BY DEF TaskKinds, AccountKinds
<1>2. JobFits([NoJob EXCEPT !.kind = "none"], t, x)
  BY <1>1, NoJobFits
<1>. QED  BY <1>2, NoJobIs

LEMMA RestartsWell ==
    ASSUME EInv, Restart
    PROVE  SInv' /\ CleanAgrees'
<1>1. /\ heap' = [a \in Arrays |-> <<>>] /\ config' = Nil /\ known' = [a \in Accounts |-> {}]
      /\ loaded' = FALSE /\ queue' = <<>> /\ job' = [p \in Procs |-> NoJob]
      /\ mine' = [p \in Procs |-> Nil] /\ data' = [p \in Procs |-> Blank]
      /\ at' = [p \in Procs |-> "closed"] /\ UNCHANGED <<file, tmp, now, mixed>>
      /\ boots < MaxBoots /\ boots' = boots + 1
  BY DEF Restart, histVars
<1>2. Memory'
  <2>1. /\ heap' \in [Arrays -> Seq(Entry)] /\ heap'[0] = <<>> /\ mine' \in [Procs -> Pointers]
        /\ Shows(heap', Nil, now', mixed') /\ \A p \in Procs : mine'[p] = Nil
    BY <1>1, NothingShown
  <2>2. Points(config)' /\ \A p \in Procs : Points(mine[p])'
    BY <1>1, <2>1 DEF Points, Content, Shows
  <2>3. config' \in Pointers /\ known' \in [Accounts -> SUBSET Posters]
    BY <1>1, <2>1 DEF Shows
  <2>. QED  BY <1>1, <2>1, <2>2, <2>3 DEF Memory
<1>3. Files'
  BY <1>1, EInvFacts, BlankFits DEF Files
<1>4. Clock'
  BY <1>1, EInvFacts, TimeAssumption DEF Clock
<1>5. JobsFit'
  <2>1. \A p \in Procs : JobFits(job'[p], now', mixed')
    BY <1>1, EInvFacts, NoJobs
  <2>. QED  BY <1>1, <2>1, EmptyListing DEF JobsFit
<1>6. Places' /\ CleanAgrees'
  BY <1>1 DEF Places, CleanAgrees
<1>. QED  BY <1>2, <1>3, <1>4, <1>5, <1>6 DEF SInv

LEMMA WithNext ==
    ASSUME NEW e \in Entry, NEW b, NEW n
    PROVE  [e EXCEPT !.on = b, !.next = n]
           = [id |-> e.id, on |-> b, edit |-> e.edit, next |-> n, ran |-> e.ran]
<1>. DEFINE half == [e EXCEPT !.on = b]
<1>1. half = [id |-> e.id, on |-> b, edit |-> e.edit, next |-> e.next, ran |-> e.ran]
  BY EntryIs
<1>2. [e EXCEPT !.on = b, !.next = n] = [half EXCEPT !.next = n]
  OBVIOUS
<1>. HIDE DEF half
<1>3. [half EXCEPT !.next = n] = [id |-> e.id, on |-> b, edit |-> e.edit, next |-> n, ran |-> e.ran]
  BY <1>1
<1>. QED  BY <1>2, <1>3

LEMMA OneListing ==
    ASSUME NEW e, NEW ids, NEW t, NEW x, Fits(e, ids, t, x)
    PROVE  Listing(<<e>>, ids, t, x)
<1>1. <<e>> \in Seq(Entry) /\ Len(<<e>>) = 1 /\ <<e>>[1] = e
  BY DEF Fits
<1>2. \A i \in 1 .. Len(<<e>>) : i = 1
  BY <1>1
<1>. QED  BY <1>1, <1>2, ListingFacts

LEMMA InitEInv == Init => EInv
<1>. SUFFICES ASSUME Init PROVE EInv
  OBVIOUS
<1>1. Clock /\ now \in Nat
  BY TimeAssumption DEF Init, Clock
<1>2. Memory
  <2>1. /\ heap \in [Arrays -> Seq(Entry)] /\ heap[0] = <<>> /\ mine \in [Procs -> Pointers]
        /\ Shows(heap, Nil, now, mixed) /\ \A p \in Procs : mine[p] = Nil
    BY NothingShown DEF Init
  <2>. QED  BY <2>1 DEF Init, Memory, Points, Content, Shows
<1>3. Files
  <2>1. PICK t \in Tasks, a \in Accounts :
           file = Whole(<<[Item(t) EXCEPT !.on = TRUE, !.next = 1]>>, <<Item(a)>>)
    BY DEF Init
  <2>. DEFINE e == [Item(t) EXCEPT !.on = TRUE, !.next = 1]
  <2>2. Fits(Item(a), Accounts, now, mixed)
    BY <1>1, ItemFits DEF Fits
  <2>3. Fits(e, Tasks, now, mixed)
    <3>1. /\ e = [id |-> t, on |-> TRUE, edit |-> Seed, next |-> 1, ran |-> 0]
          /\ e.id = t /\ e.ran = 0 /\ e.on = TRUE /\ e.edit = Seed /\ e.next = 1
      <4>1. Item(t) \in Entry
        BY <1>1, ItemFits DEF Fits
      <4>2. Item(t).id = t /\ Item(t).edit = Seed /\ Item(t).ran = 0
        BY DEF Item
      <4>. DEFINE i == Item(t)
      <4>3. [i EXCEPT !.on = TRUE, !.next = 1]
            = [id |-> i.id, on |-> TRUE, edit |-> i.edit, next |-> 1, ran |-> i.ran]
        <5>. HIDE DEF i
        <5>1. i \in Entry
          BY <4>1 DEF i
        <5>. QED  BY <5>1, WithNext
      <4>4. e = [id |-> t, on |-> TRUE, edit |-> Seed, next |-> 1, ran |-> 0]
        BY <4>2, <4>3
      <4>. HIDE DEF e
      <4>. QED  BY <4>4
    <3>. HIDE DEF e
    <3>2. 1 \in Nat /\ 0 \in 0 .. MaxNow /\ Seed \in Posters
      BY TimeAssumption DEF Posters
    <3>3. e \in Entry
      BY <3>1, <3>2, EntryIs
    <3>. QED  BY <1>1, <3>1, <3>3 DEF Fits, Spaced
  <2>. HIDE DEF e
  <2>4. Listing(<<e>>, Tasks, now, mixed) /\ Listing(<<Item(a)>>, Accounts, now, mixed)
    BY <2>2, <2>3, OneListing
  <2>5. Configuration(file, now, mixed)
    BY <2>1, <2>4 DEF Configuration, Whole, e
  <2>. QED  BY <2>5, BlankFits DEF Init, Files
<1>4. JobsFit
  <2>1. \A p \in Procs : JobFits(job[p], now, mixed)
    BY <1>1, NoJobs DEF Init
  <2>. QED  BY <2>1, EmptyListing DEF Init, JobsFit
<1>5. Places /\ CleanAgrees
  BY DEF Init, Places, CleanAgrees
<1>. QED  BY <1>1, <1>2, <1>3, <1>4, <1>5, InitIInv, InitFInv DEF EInv, SInv

\* Every step keeps the invariant, one lemma for each kind of step.
LEMMA NextEInv ==
    ASSUME EInv, [Next]_vars
    PROVE  EInv'
<1>1. IInv' /\ FInv'
  BY EInvFacts, NextIInv, NextFInv
<1>2. SInv' /\ CleanAgrees'
  <2>1. CASE Advance \/ UNCHANGED vars
    BY <2>1, Waits
  <2>2. CASE Restart
    BY <2>2, RestartsWell
  <2>3. ASSUME NEW p \in Procs, UpdateNext(p)
        PROVE  SInv' /\ CleanAgrees'
    <3>1. CASE Copy(p) \/ HalfEdit(p) \/ Replace(p) \/ Add(p) \/ Remove(p) \/ Miss(p)
      BY <3>1, CopiesWell, HalfEditsWell, ReplacesWell, AddsWell, RemovesWell, MissesWell
    <3>2. CASE Open(p) \/ Put(p) \/ Rename(p) \/ OpenFails(p)
      BY <3>2, OpensWell, PutsWell, RenamesWell, OpenFailsWell
    <3>3. CASE RenameFails(p)
        <4>1. Moving(p)
          BY <3>3 DEF Moving
        <4>. QED  BY <4>1, MovingSteps
    <3>4. CASE Reload(p)
      BY <3>4, LoadingSteps DEF Loading
    <3>. QED  BY <2>3, <3>1, <3>2, <3>3, <3>4 DEF UpdateNext
  <2>4. ASSUME NEW p \in Procs, RunNext(p)
        PROVE  SInv' /\ CleanAgrees'
    <3>1. CASE Mark(p) \/ Unmark(p)
        <4>1. Moving(p)
          BY <3>1 DEF Moving
        <4>. QED  BY <4>1, MovingSteps
    <3>2. CASE ResolveForRun(p)
      BY <3>2, LoadingSteps DEF Loading
    <3>3. CASE MailForRun(p)
      BY <3>3, RunsWell
    <3>. QED  BY <2>4, <3>1, <3>2, <3>3 DEF RunNext
  <2>5. ASSUME NEW p \in Threads, (\E request \in Requests : Begin(p, request)) \/ RequestNext(p)
        PROVE  SInv' /\ CleanAgrees'
    <3>1. p \in Procs /\ p # Scheduler
      BY SchedulerAssumption DEF Procs
    <3>2. CASE \E request \in Requests : Begin(p, request)
      BY <3>2, BeginsWell
    <3>3. CASE Load(p) \/ Unload(p) \/ Look(p)
      <4>1. CASE Load(p)
          <5>1. Loading(p)
            BY <3>1, <4>1 DEF Loading
          <5>. QED  BY <3>1, <5>1, LoadingSteps
      <4>2. CASE Unload(p)
        BY <3>1, <4>2, UnloadsWell
      <4>3. CASE Look(p)
          <5>1. Moving(p)
            BY <4>3 DEF Moving
          <5>. QED  BY <3>1, <5>1, MovingSteps
      <4>. QED  BY <3>3, <4>1, <4>2, <4>3
    <3>4. CASE TakeToSave(p) \/ TakeToRun(p) \/ MailForLogin(p)
      BY <3>1, <3>4, SavesWell, RunsWell, LogsInWell
    <3>5. CASE ResolveForLogin(p)
      BY <3>5, ResolvesWell
    <3>6. CASE RunNext(p) \/ UpdateNext(p)
      BY <2>3, <2>4, <3>1, <3>6
    <3>. QED  BY <2>5, <3>2, <3>3, <3>4, <3>5, <3>6 DEF RequestNext
  <2>6. CASE SchedulerNext
    <3>1. Scheduler \in Procs
      BY DEF Procs
    <3>2. CASE Wake \/ LoadToPick
      BY <3>1, <3>2, MovingSteps, LoadingSteps DEF Moving, Loading
    <3>3. CASE Pick \/ NextTurn
      BY <3>3, PicksWell
    <3>. QED  BY <2>3, <2>4, <2>6, <3>1, <3>2, <3>3 DEF SchedulerNext
  <2>. QED  BY <2>1, <2>2, <2>5, <2>6 DEF Next
<1>. QED  BY <1>1, <1>2 DEF EInv

\* What is stored is well formed and memory is what the file holds when no update is
\* under way: the invariant behind the theorems below.
THEOREM ConfigurationKept == Spec => []EInv
<1>1. EInv /\ [Next]_vars => EInv'
  BY NextEInv
<1>. QED  BY InitEInv, <1>1, PTL DEF Spec

-----------------------------------------------------------------------------
(* What it is for *)

LEMMA AtMostOne ==
    ASSUME NEW T, \A c, d \in T : c = d
    PROVE  Cardinality(T) <= 1
<1>1. CASE T = {}
  BY <1>1, FS_EmptySet
<1>2. CASE T # {}
  <2>1. PICK c \in T : T = {c}
    BY <1>2
  <2>2. Cardinality({c}) = 1
    BY FS_Singleton
  <2>. QED  BY <2>1, <2>2
<1>. QED  BY <1>1, <1>2

LEMMA ListingItems ==
    ASSUME NEW c, NEW t, NEW x, Configuration(c, t, x), NEW e \in ItemsOf(c)
    PROVE  e \in Entry /\ (x \/ Spaced(e))
<1>1. Listing(c.tasks, Tasks, t, x) /\ Listing(c.accts, Accounts, t, x)
  BY DEF Configuration
<1>2. PICK list \in {c.tasks, c.accts} : \E i \in DOMAIN list : e = list[i]
  BY DEF ItemsOf
<1>3. list \in Seq(Entry) /\ \E ids : Listing(list, ids, t, x)
  BY <1>1, <1>2, ListingFacts
<1>. QED  BY <1>2, <1>3, ListingFacts, LenProperties DEF Fits

\* Nothing but entries is ever in memory or in a file, a copy of the configuration is
\* held from the copying to the change only, and memory is complete once it is loaded.
THEOREM TypeCorrect == Spec => []TypeOK
<1>1. EInv => TypeOK
  <2>. SUFFICES ASSUME EInv PROVE TypeOK
    OBVIOUS
  <2>1. \A a \in Arrays : \A i \in DOMAIN heap[a] : heap[a][i] \in Entry
    <3>1. \A a \in Arrays : heap[a] \in Seq(Entry)
      BY EInvFacts, MemoryShows
    <3>. QED  BY <3>1, LenProperties, ElementOfSeq
  <2>2. heap[0] = <<>> /\ ArraysOf(config) \subseteq Arrays /\ (loaded => scheduled /\ config # Nil)
    BY EInvFacts, MemoryShows DEF ArraysOf, Shows, Pointers
  <2>3. ItemsOf(file) \subseteq Entry /\ \A c \in tmp : ItemsOf(c) \subseteq Entry
    BY EInvFacts, ListingItems DEF Files
  <2>4. Cardinality(tmp) <= 1
    BY EInvFacts, AtMostOne DEF Files
  <2>5. running \subseteq Tasks
    <3>1. running = {job[p].id : p \in {q \in Procs : Executing(q)}}
      BY EInvFacts DEF IInv, RunsAlone
    <3>2. \A p \in Procs : Executing(p) => job[p].id \in Tasks
      BY EInvFacts DEF JobsFit, JobFits, Executing, TaskKinds
    <3>. QED  BY <3>1, <3>2
  <2>6. ASSUME NEW p \in Procs
        PROVE  /\ pc[p] \in Labels
               /\ job[p].copy \in Entry
               /\ mine[p] # Nil => pc[p] \in {"edit", "rest"}
               /\ at[p] # "closed" => pc[p] = "put"
    BY EInvFacts DEF JobsFit, JobFits, Places
  <2>7. now \in 1 .. MaxNow /\ boots \in 0 .. MaxBoots
    BY EInvFacts DEF Clock
  <2>. QED  BY <2>1, <2>2, <2>3, <2>4, <2>5, <2>6, <2>7 DEF TypeOK
<1>. QED  BY <1>1, ConfigurationKept, PTL

\* However updates overlap, fail to find what they are about or are cut short, memory
\* holds what config.json holds once all are over, unless two writers have had the
\* temporary file at once or a write has failed.
THEOREM MemoryAgreesWhenQuiet == Spec => []QuietAgrees
<1>1. EInv => QuietAgrees
  BY DEF EInv, CleanAgrees, QuietAgrees, Dirty, Updating
<1>. QED  BY <1>1, ConfigurationKept, PTL

\* A task that has been checked is not due before an interval that somebody has set is
\* over, in memory and in the file, unless a save has put its old next time beside a
\* last run that it had not seen, or an edit half done has shown one of its times new
\* and the other old.
THEOREM RunsAreSpaced == Spec => []SpacedRuns
<1>1. EInv => SpacedRuns
  <2>. SUFFICES ASSUME EInv, ~mixed,
                       NEW e \in ItemsOf(file) \union ItemsOf(Content(config))
                PROVE  Spaced(e)
    BY DEF SpacedRuns, Spaced, Room
  <2>1. Configuration(file, now, mixed) /\ Configuration(Content(config), now, mixed)
    BY EInvFacts DEF Files, Memory, Points
  <2>. QED  BY <2>1, ListingItems
<1>. QED  BY <1>1, ConfigurationKept, PTL

-----------------------------------------------------------------------------
(* What an update leaves of the others' items *)

ItemsIn(list) == {list[i] : i \in DOMAIN list}
Others(list, id) == {e \in ItemsIn(list) : e.id # id}
IdsIn(list) == {e.id : e \in ItemsIn(list)}

\* The list r is s but for what has this id, and as a run leaves it has the same ids.
SameList(r, s, id, all) ==
    /\ Others(r, id) = Others(s, id)
    /\ all => IdsIn(r) = IdsIn(s)

\* The configuration c holds what f holds, but for what the job j is about.
SameBut(j, c, f) ==
    /\ SameList(c.tasks, f.tasks, j.id, j.kind = "run")
    /\ SameList(c.accts, f.accts, j.id, j.kind = "run")

LEMMA PutOthers ==
    ASSUME NEW list, NEW i \in DOMAIN list, NEW e, e.id = list[i].id
    PROVE  SameList([list EXCEPT ![i] = e], list, list[i].id, TRUE)
<1>. DEFINE r == [list EXCEPT ![i] = e]
<1>1. DOMAIN r = DOMAIN list /\ \A n \in DOMAIN list : r[n] = IF n = i THEN e ELSE list[n]
  OBVIOUS
<1>. HIDE DEF r
<1>2. \A n \in DOMAIN list : r[n].id = list[n].id
  BY <1>1
<1>3. Others(r, list[i].id) = Others(list, list[i].id)
  BY <1>1, <1>2 DEF Others, ItemsIn
<1>4. IdsIn(r) = IdsIn(list)
  BY <1>1, <1>2 DEF IdsIn, ItemsIn
<1>. QED  BY <1>3, <1>4 DEF SameList, r

LEMMA AppendOthers ==
    ASSUME NEW list \in Seq(Entry), NEW e \in Entry
    PROVE  SameList(Append(list, e), list, e.id, FALSE)
<1>. DEFINE r == Append(list, e)
<1>1. Len(list) \in Nat /\ DOMAIN list = 1 .. Len(list)
  BY LenProperties
<1>2. /\ DOMAIN r = 1 .. Len(list) + 1 /\ r[Len(list) + 1] = e
      /\ \A n \in 1 .. Len(list) : r[n] = list[n]
  BY <1>1, AppendProperties, LenProperties
<1>. HIDE DEF r
<1>3. ItemsIn(r) = ItemsIn(list) \union {e}
  <2>1. \A n \in 1 .. Len(list) + 1 : n = Len(list) + 1 \/ n \in 1 .. Len(list)
    BY <1>1
  <2>2. Len(list) + 1 \in 1 .. Len(list) + 1 /\ 1 .. Len(list) \subseteq 1 .. Len(list) + 1
    BY <1>1
  <2>. QED  BY <1>1, <1>2, <2>1, <2>2 DEF ItemsIn
<1>. QED  BY <1>3 DEF SameList, Others, r

\* A filter keeps the items at the places it is given, and no others.
LEMMA KeptItems ==
    ASSUME NEW s \in Seq(Entry), NEW I
    PROVE  ItemsIn(Kept(s, I)) = {s[n] : n \in {k \in DOMAIN s : k \in I}}
<1>1. Len(s) \in Nat /\ DOMAIN s = 1 .. Len(s)
  BY LenProperties
<1>2. PICK g : Loop(g, s, I, Len(s)) /\ Kept(s, I) = g[Len(s)]
  BY <1>1, KeptIs
<1>. DEFINE Some(m) == {s[n] : n \in {k \in 1 .. m : k \in I}}
            Good(m) == g[m] \in Seq(Entry) /\ ItemsIn(g[m]) = Some(m)
            T == {m \in 0 .. Len(s) : ~Good(m)}
<1>3. SUFFICES T = {}
  <2>1. Some(Len(s)) = {s[n] : n \in {k \in DOMAIN s : k \in I}}
    BY <1>1
  <2>2. Good(Len(s)) => ItemsIn(Kept(s, I)) = Some(Len(s))
    BY <1>2
  <2>3. T = {} => Good(Len(s))
    <3>1. Len(s) \in 0 .. Len(s)
      BY <1>1
    <3>. HIDE DEF Good
    <3>. QED  BY <3>1
  <2>. QED  BY <2>1, <2>2, <2>3
<1>4. SUFFICES ASSUME T # {} PROVE FALSE
  OBVIOUS
<1>5. T \subseteq Nat
  OBVIOUS
<1>6. PICK m \in T : \A n \in T : m <= n
  <2>. HIDE DEF T
  <2>. QED  BY <1>4, <1>5, Least
<1>7. Good(0)
  <2>1. g[0] = <<>>
    BY <1>1, <1>2 DEF Loop, Taken
  <2>2. <<>> \in Seq(Entry) /\ DOMAIN <<>> = {}
    BY EmptySeq, LenProperties
  <2>3. Some(0) = {}
    OBVIOUS
  <2>. QED  BY <2>1, <2>2, <2>3 DEF ItemsIn
<1>8. m \in 1 .. Len(s) /\ m - 1 \in 0 .. Len(s) /\ m \in 0 .. Len(s) /\ ~(m <= m - 1) /\ m # 0
  <2>1. m \in 0 .. Len(s) /\ m # 0
    BY <1>6, <1>7
  <2>. QED  BY <1>1, <2>1
<1>9. Good(m - 1)
  BY <1>6, <1>8
<1>10. g[m] = IF m \in I THEN Append(g[m - 1], s[m]) ELSE g[m - 1]
  BY <1>2, <1>8 DEF Loop, Taken
<1>11. Some(m) = IF m \in I THEN Some(m - 1) \union {s[m]} ELSE Some(m - 1)
  <2>1. 1 .. m = (1 .. m - 1) \union {m}
    BY <1>1, <1>8
  <2>. QED  BY <2>1
<1>12. s[m] \in Entry
  BY <1>1, <1>8, ElementOfSeq
<1>13. Good(m)
  <2>. DEFINE r == g[m - 1]
  <2>1. r \in Seq(Entry) /\ ItemsIn(r) = Some(m - 1)
    BY <1>9
  <2>. HIDE DEF r, Some
  <2>2. Append(r, s[m]) \in Seq(Entry) /\ ItemsIn(Append(r, s[m])) = ItemsIn(r) \union {s[m]}
    <3>1. Len(r) \in Nat /\ DOMAIN r = 1 .. Len(r)
      BY <2>1, LenProperties
    <3>. DEFINE a == Append(r, s[m])
    <3>2. /\ a \in Seq(Entry) /\ DOMAIN a = 1 .. Len(r) + 1 /\ a[Len(r) + 1] = s[m]
          /\ \A n \in 1 .. Len(r) : a[n] = r[n]
      BY <1>12, <2>1, <3>1, AppendProperties, LenProperties
    <3>. HIDE DEF a
    <3>3. \A n \in 1 .. Len(r) + 1 : n = Len(r) + 1 \/ n \in 1 .. Len(r)
      BY <3>1
    <3>4. Len(r) + 1 \in 1 .. Len(r) + 1 /\ 1 .. Len(r) \subseteq 1 .. Len(r) + 1
      BY <3>1
    <3>5. ItemsIn(a) = ItemsIn(r) \union {s[m]}
      BY <3>1, <3>2, <3>3, <3>4 DEF ItemsIn
    <3>. QED  BY <3>2, <3>5 DEF a
  <2>. QED  BY <1>10, <1>11, <2>1, <2>2 DEF r
<1>. QED  BY <1>6, <1>13

LEMMA KeptOthers ==
    ASSUME NEW s \in Seq(Entry), NEW I, NEW id, I = {n \in DOMAIN s : s[n].id # id}
    PROVE  SameList(Kept(s, I), s, id, FALSE)
<1>1. ItemsIn(Kept(s, I)) = {s[n] : n \in {k \in DOMAIN s : k \in I}}
  BY KeptItems
<1>. DEFINE r == Kept(s, I)
<1>. HIDE DEF r
<1>2. ItemsIn(r) = {s[n] : n \in {k \in DOMAIN s : k \in I}}
  BY <1>1 DEF r
<1>3. Others(r, id) = Others(s, id)
  BY <1>2 DEF Others, ItemsIn
<1>. QED  BY <1>3 DEF SameList, r

-----------------------------------------------------------------------------
(* Next times *)

\* Every task that is on has a next time, so that to write it changes nothing of it.
NextSet(c) == \A i \in DOMAIN c.tasks : c.tasks[i].on => c.tasks[i].next # 0

NextTimes ==
    /\ NextSet(file)
    /\ \A c \in tmp : NextSet(c)
    /\ \A p \in Procs : NextSet(data[p])

LEMMA DatedNext ==
    ASSUME NEW e \in Entry, now \in 1 .. MaxNow
    PROVE  Dated(e).on => Dated(e).next # 0
<1>1. CASE e.on /\ e.next = 0
  <2>. DEFINE n == NextTime(e)
              d == [e EXCEPT !.next = n]
  <2>1. d = [id |-> e.id, on |-> e.on, edit |-> e.edit, next |-> n, ran |-> e.ran]
    BY EntryIs
  <2>2. n # 0
    BY EntryFacts, RoomAhead, TimeAssumption DEF NextTime
  <2>3. Dated(e) = d
    BY <1>1 DEF Dated
  <2>. HIDE DEF d, n
  <2>. QED  BY <2>1, <2>2, <2>3
<1>2. CASE ~(e.on /\ e.next = 0)
  BY <1>2 DEF Dated
<1>. QED  BY <1>1, <1>2

LEMMA NormalizedNext ==
    ASSUME NEW c, NEW x, Configuration(c, now, x), now \in 1 .. MaxNow
    PROVE  NextSet(Normalized(c))
<1>. DEFINE r == [i \in DOMAIN c.tasks |-> Dated(c.tasks[i])]
<1>1. Normalized(c) = [text |-> c.text, tasks |-> r, accts |-> c.accts]
  BY DEF Normalized, Configuration
<1>2. \A i \in DOMAIN c.tasks : c.tasks[i] \in Entry
  <2>1. c.tasks \in Seq(Entry)
    BY ListingFacts DEF Configuration
  <2>. QED  BY <2>1, LenProperties, ElementOfSeq
<1>3. DOMAIN r = DOMAIN c.tasks /\ \A i \in DOMAIN r : r[i].on => r[i].next # 0
  BY <1>2, DatedNext
<1>. HIDE DEF r
<1>. QED  BY <1>1, <1>3 DEF NextSet

LEMMA BlankNext == NextSet(Blank) /\ NextSet(Empty) /\ NextSet(Torn)
<1>1. DOMAIN <<>> = {}
  OBVIOUS
<1>. QED  BY <1>1 DEF NextSet, Blank, Whole, Empty, Torn, Unreadable

\* Writing a configuration leaves the tasks alone that have a next time.
LEMMA NormalizedSame ==
    ASSUME NEW c, NEW f, NEW j, NEW x, Configuration(c, now, x), now \in 1 .. MaxNow,
           SameBut(j, c, f), NextSet(f)
    PROVE  SameBut(j, Normalized(c), f)
<1>. DEFINE r == [i \in DOMAIN c.tasks |-> Dated(c.tasks[i])]
<1>1. Normalized(c) = [text |-> c.text, tasks |-> r, accts |-> c.accts]
  BY DEF Normalized, Configuration
<1>2. \A i \in DOMAIN c.tasks : Fits(c.tasks[i], Tasks, now, x)
  <2>1. c.tasks \in Seq(Entry)
    BY ListingFacts DEF Configuration
  <2>. QED  BY <2>1, LenProperties, ListingFacts DEF Configuration
<1>3. DOMAIN r = DOMAIN c.tasks /\ \A i \in DOMAIN c.tasks : r[i] = Dated(c.tasks[i])
  OBVIOUS
<1>. HIDE DEF r
<1>4. \A i \in DOMAIN c.tasks : r[i].id = c.tasks[i].id
  BY <1>2, <1>3, DatedFits
<1>5. ASSUME NEW i \in DOMAIN c.tasks, c.tasks[i].id # j.id
      PROVE  r[i] = c.tasks[i]
  <2>1. c.tasks[i] \in Others(f.tasks, j.id)
    BY <1>5 DEF SameBut, SameList, Others, ItemsIn
  <2>2. c.tasks[i].on => c.tasks[i].next # 0
    BY <2>1 DEF Others, ItemsIn, NextSet
  <2>. QED  BY <1>3, <2>2 DEF Dated
<1>6. Others(r, j.id) = Others(c.tasks, j.id)
  BY <1>3, <1>4, <1>5 DEF Others, ItemsIn
<1>7. IdsIn(r) = IdsIn(c.tasks)
  BY <1>3, <1>4 DEF IdsIn, ItemsIn
<1>. QED  BY <1>1, <1>6, <1>7 DEF SameBut, SameList

-----------------------------------------------------------------------------
(* The inductive invariant of what an update changes *)

\* Without an overlap one process updates, and the file has had one writer; as long as
\* that is so, a configuration in memory is a loaded one.
Alone ==
    /\ ~overlap => /\ ~clash
                   /\ \A p, q \in Procs : Updating(pc[p]) /\ Updating(pc[q]) => p = q
    /\ ~clash /\ config # Nil => loaded

\* All along its way to the file, a process has of the others' items what the file has.
Own(p) ==
    /\ pc[p] \in {"edit", "rest"} => SameBut(job[p], Content(mine[p]), file)
    /\ job[p].kind # "config" =>
          /\ pc[p] \in {"open", "put"} => SameBut(job[p], data[p], file)
          /\ pc[p] = "rename" => \A c \in tmp : SameBut(job[p], c, file)

OwnChanges == ~overlap /\ ~failed => \A p \in Procs : Own(p)

OInv == Alone /\ NextTimes /\ OwnChanges

\* A step of p that is no part of an update, or ends one.
Aside(p) ==
    /\ UNCHANGED <<file, tmp, clash>> /\ (overlap => overlap') /\ (failed => failed')
    /\ NextSet(data'[p])
    /\ \A q \in Procs \ {p} : /\ job'[q] = job[q] /\ data'[q] = data[q]
                              /\ Content(mine[q])' = Content(mine[q])
    /\ ~clash /\ config' # Nil => loaded'

LEMMA AloneStays ==
    ASSUME Alone, pc \in [Procs -> Labels], NEW p \in Procs, NEW l, Goto(p, l),
           overlap => overlap', clash => clash', clash' => clash \/ overlap,
           Updating(l) => Updating(pc[p]) \/ \E met : Meet(met),
           ~clash /\ config' # Nil => loaded'
    PROVE  Alone'
<1>1. \A q \in Procs : pc'[q] = IF q = p THEN l ELSE pc[q]
  BY DEF Goto
<1>2. ASSUME ~overlap'
      PROVE  /\ ~clash'
             /\ \A q, r \in Procs : Updating(pc'[q]) /\ Updating(pc'[r]) => q = r
  <2>1. ~clash /\ \A q, r \in Procs : Updating(pc[q]) /\ Updating(pc[r]) => q = r
    BY <1>2 DEF Alone
  <2>2. CASE \E met : Meet(met)
    BY <1>2, <2>1, <2>2 DEF Meet
  <2>3. CASE ~Updating(l) \/ Updating(pc[p])
    BY <1>1, <1>2, <2>1, <2>3
  <2>. QED  BY <2>2, <2>3
<1>. QED  BY <1>2 DEF Alone

LEMMA AsideKeeps ==
    ASSUME EInv, OInv, NEW p \in Procs, NEW l, Goto(p, l), ~Updating(l), Aside(p)
    PROVE  OInv'
<1>1. Alone'
  BY EInvFacts, AloneStays DEF OInv, Aside
<1>2. NextTimes'
  BY DEF OInv, NextTimes, Aside
<1>3. ASSUME ~overlap', ~failed', NEW q \in Procs
      PROVE  Own(q)'
  <2>1. CASE q = p
    <3>1. pc'[q] = l
      BY <2>1, EInvFacts DEF Goto
    <3>. QED  BY <3>1 DEF Own, Updating
  <2>2. CASE q # p
    <3>1. pc'[q] = pc[q]
      BY <2>2, EInvFacts DEF Goto
    <3>2. Own(q)
      BY <1>3 DEF OInv, OwnChanges, Aside
    <3>3. /\ file' = file /\ tmp' = tmp /\ job'[q] = job[q] /\ data'[q] = data[q]
          /\ Content(mine[q])' = Content(mine[q])
      BY <2>2 DEF Aside
    <3>. QED  BY <3>1, <3>2, <3>3 DEF Own
  <2>. QED  BY <2>1, <2>2
<1>4. OwnChanges'
  BY <1>3 DEF OwnChanges
<1>. QED  BY <1>1, <1>2, <1>4 DEF OInv

\* A step of an update: there is no other.
LEMMA UpdateKeeps ==
    ASSUME NEW p \in Procs, Updating(pc'[p]), Alone', NextTimes',
           (~overlap /\ ~failed => Own(p))'
    PROVE  OInv'
<1>1. ASSUME ~overlap', ~failed', NEW q \in Procs
      PROVE  Own(q)'
  <2>1. CASE q = p
    BY <1>1, <2>1
  <2>2. CASE q # p
    <3>1. ~Updating(pc'[q])
      BY <1>1, <2>2 DEF Alone
    <3>. QED  BY <3>1 DEF Own, Updating
  <2>. QED  BY <2>1, <2>2
<1>2. OwnChanges'
  BY <1>1 DEF OwnChanges
<1>. QED  BY <1>2 DEF OInv

\* The file parses, so that what is loaded is there.
LEMMA LoadsAll ==
    ASSUME EInv, OInv, NEW force, LoadConfig(force)
    PROVE  ~clash /\ config' # Nil => loaded'
<1>. SUFFICES ASSUME ~clash, config' # Nil PROVE loaded'
  OBVIOUS
<1>1. Parses(file)
  BY EInvFacts DEF FInv, OneWriter
<1>2. CASE ReadConfig
  BY <1>1, <1>2 DEF ReadConfig
<1>3. CASE UNCHANGED memVars
  BY <1>3 DEF memVars, OInv, Alone
<1>. QED  BY <1>2, <1>3 DEF LoadConfig

LEMMA StepsElsewhere ==
    ASSUME EInv, OInv, NEW p \in Procs,
           \/ Moving(p) \/ TakeToSave(p) \/ TakeToRun(p) \/ MailForRun(p) \/ MailForLogin(p)
           \/ p = Scheduler /\ (Pick \/ NextTurn)
    PROVE  OInv'
<1>1. /\ UNCHANGED <<heap, config, loaded, mine, file, tmp, data, clash, overlap, failed>>
      /\ \A q \in Procs \ {p} : job'[q] = job[q]
  BY EInvFacts
     DEF Moving, TakeToSave, TakeToRun, MailForRun, MailForLogin, Pick, NextTurn, Look, Mark,
         Unmark, RenameFails, Wake, memVars, markVars, fileVars, histVars
<1>2. PICK l : Goto(p, l) /\ ~Updating(l)
  BY DEF Moving, TakeToSave, TakeToRun, MailForRun, MailForLogin, Pick, NextTurn, Look, Mark,
         Unmark, RenameFails, Wake, Updating, Through, After
<1>3. Aside(p)
  <2>1. NextSet(data'[p])
    BY <1>1 DEF OInv, NextTimes
  <2>2. \A q \in Procs : Content(mine[q])' = Content(mine[q])
    BY <1>1 DEF Content
  <2>3. ~clash /\ config' # Nil => loaded'
    BY <1>1 DEF OInv, Alone
  <2>. QED  BY <1>1, <2>1, <2>2, <2>3 DEF Aside
<1>. QED  BY <1>2, <1>3, AsideKeeps

LEMMA LoadsElsewhere ==
    ASSUME EInv, OInv, NEW p \in Procs, Loading(p) \/ ResolveForLogin(p)
    PROVE  OInv'
<1>1. /\ UNCHANGED <<mine, file, tmp, data, clash, overlap, failed, now, mixed>>
      /\ \A q \in Procs \ {p} : job'[q] = job[q]
  BY EInvFacts
     DEF Loading, Load, LoadToPick, ResolveForRun, ResolveForLogin, Reload, fileVars, histVars
<1>2. PICK force \in BOOLEAN : LoadConfig(force)
  BY DEF Loading, Load, LoadToPick, ResolveForRun, ResolveForLogin, Reload
<1>3. PICK l : Goto(p, l) /\ ~Updating(l)
  <2>1. CASE p # Scheduler /\ Load(p)
    <3>1. job[p].kind \in LoadKinds
      BY <2>1, EInvFacts DEF Load, IInv, KindsFit
    <3>. QED  BY <2>1, <3>1 DEF Load, AfterLoad, LoadKinds, Updating
  <2>2. CASE (p = Scheduler /\ LoadToPick) \/ ResolveForRun(p)
    <3>1. Goto(p, "pick") \/ Goto(p, "wait") \/ Goto(p, "mail")
      BY <2>2 DEF LoadToPick, ResolveForRun
    <3>. QED  BY <3>1 DEF Updating
  <2>3. CASE ResolveForLogin(p)
    <3>1. Goto(p, "done") \/ Goto(p, "mail")
      BY <2>3 DEF ResolveForLogin
    <3>. QED  BY <3>1 DEF Updating
  <2>4. CASE Reload(p)
    BY <2>4 DEF Reload, Through, Updating
  <2>. QED  BY <2>1, <2>2, <2>3, <2>4 DEF Loading
<1>4. Aside(p)
  <2>1. NextSet(data'[p])
    BY <1>1 DEF OInv, NextTimes
  <2>2. \A q \in Procs : Content(mine[q])' = Content(mine[q])
    BY <1>1, <1>2, EInvFacts, LoadConfigDoes
  <2>3. ~clash /\ config' # Nil => loaded'
    BY <1>2, LoadsAll
  <2>. QED  BY <1>1, <2>1, <2>2, <2>3 DEF Aside
<1>. QED  BY <1>3, <1>4, AsideKeeps

\* What the others point to is left alone when p's copy or the configuration goes.
LEMMA CollectsElsewhere ==
    ASSUME EInv, NEW c \in Pointers, NEW m \in [Procs -> Pointers], heap' = Collected(heap, c, m),
           mine' = m
    PROVE  \A q \in Procs : mine'[q] = mine[q] => Content(mine[q])' = Content(mine[q])
BY EInvFacts, MemoryShows, CollectedIs DEF Content

LEMMA DropsElsewhere ==
    ASSUME EInv, OInv, NEW p \in Procs, Unload(p) \/ Miss(p) \/ OpenFails(p)
    PROVE  OInv'
<1>1. /\ UNCHANGED <<file, tmp, clash, overlap, job>> /\ (failed => failed')
      /\ \A q \in Procs \ {p} : data'[q] = data[q]
  BY EInvFacts DEF Unload, Miss, OpenFails, markVars, fileVars, histVars
<1>2. PICK l : Goto(p, l) /\ ~Updating(l)
  BY DEF Unload, Miss, OpenFails, Through, Updating
<1>3. NextSet(data'[p])
  BY EInvFacts, BlankNext DEF Unload, Miss, OpenFails, OInv, NextTimes
<1>4. ~clash /\ config' # Nil => loaded'
  BY DEF Unload, Miss, OpenFails, memVars, OInv, Alone
<1>5. \A q \in Procs \ {p} : Content(mine[q])' = Content(mine[q])
  <2>1. CASE Unload(p)
    <3>1. heap' = Collected(heap, Nil, mine) /\ mine' = mine
      BY <2>1 DEF Unload
    <3>. QED  BY <3>1, EInvFacts, NilPoints, CollectsElsewhere
  <2>2. CASE Miss(p)
    <3>1. heap' = Collected(heap, config, mine') /\ mine' = [mine EXCEPT ![p] = Nil]
      BY <2>2 DEF Miss
    <3>2. mine' \in [Procs -> Pointers] /\ config \in Pointers
          /\ \A q \in Procs \ {p} : mine'[q] = mine[q]
      BY <3>1, EInvFacts, NilPoints DEF Memory
    <3>. QED  BY <3>1, <3>2, CollectsElsewhere
  <2>3. CASE OpenFails(p)
    BY <2>3 DEF OpenFails, memVars, Content
  <2>. QED  BY <2>1, <2>2, <2>3
<1>6. Aside(p)
  BY <1>1, <1>3, <1>4, <1>5 DEF Aside
<1>. QED  BY <1>2, <1>6, AsideKeeps

LEMMA BeginsAlone ==
    ASSUME EInv, OInv, NEW p \in Threads, NEW request \in Requests, Begin(p, request)
    PROVE  OInv'
<1>1. /\ UNCHANGED <<heap, config, loaded, mine, file, tmp, clash, failed>> /\ Meet(FALSE)
      /\ (overlap => overlap') /\ p \in Procs
      /\ \A q \in Procs \ {p} : job'[q] = job[q] /\ data'[q] = data[q]
  BY EInvFacts DEF Begin, Meet, memVars, markVars, fileVars, Procs
<1>2. NextSet(data'[p])
  <2>1. NextSet(Normalized(Content(config)))
    BY EInvFacts, NormalizedNext DEF Memory, Points
  <2>. QED  BY <1>1, <2>1, EInvFacts, BlankNext DEF Begin
<1>3. \A q \in Procs : Content(mine[q])' = Content(mine[q])
  BY <1>1 DEF Content
<1>4. ~clash /\ config' # Nil => loaded'
  BY <1>1 DEF OInv, Alone
<1>5. CASE request.kind = "config"
  <2>1. Goto(p, "open") /\ Updating("open") /\ pc'[p] = "open"
    BY <1>1, <1>5, EInvFacts DEF Begin, Goto, Updating
  <2>2. Alone'
    BY <1>1, <1>4, <2>1, EInvFacts, AloneStays DEF OInv
  <2>3. NextTimes'
    BY <1>1, <1>2 DEF OInv, NextTimes
  <2>4. job'[p].kind = "config"
    BY <1>1, <1>5, EInvFacts DEF Begin
  <2>5. Own(p)'
    BY <2>1, <2>4 DEF Own
  <2>. QED  BY <1>1, <2>1, <2>2, <2>3, <2>5, UpdateKeeps
<1>6. CASE request.kind # "config"
  <2>1. PICK l \in {"drop", "load"} : Goto(p, l)
    BY <1>6 DEF Begin
  <2>2. ~Updating(l)
    BY DEF Updating
  <2>3. Aside(p)
    BY <1>1, <1>2, <1>3, <1>4 DEF Aside
  <2>. QED  BY <1>1, <2>1, <2>2, <2>3, AsideKeeps
<1>. QED  BY <1>5, <1>6

LEMMA SameItself ==
    ASSUME NEW j, NEW c
    PROVE  SameBut(j, c, c)
BY DEF SameBut, SameList

\* The copy is of what the file holds: no update is under way that could make it older.
LEMMA CopiesAlone ==
    ASSUME EInv, OInv, NEW p \in Procs, Copy(p)
    PROVE  OInv'
<1>1. /\ UNCHANGED <<heap, config, loaded, file, tmp, data, job, clash, failed>>
      /\ pc[p] = "copy" /\ Goto(p, "edit") /\ mine' = [mine EXCEPT ![p] = config]
      /\ overlap' = (overlap \/ config = Nil \/ \E q, r \in Procs :
                        q # r /\ Updating(pc'[q]) /\ Updating(pc'[r]))
      /\ Meet(config = Nil)
  BY DEF Copy, Meet, memVars, markVars, fileVars
<1>2. pc'[p] = "edit" /\ Updating("edit") /\ \A q \in Procs \ {p} : pc'[q] = pc[q]
  BY <1>1, EInvFacts DEF Goto, Updating
<1>3. Alone'
  <2>1. overlap => overlap'
    BY <1>1
  <2>2. ~clash /\ config' # Nil => loaded'
    BY <1>1 DEF OInv, Alone
  <2>. QED  BY <1>1, <2>1, <2>2, EInvFacts, AloneStays DEF OInv
<1>4. NextTimes'
  BY <1>1 DEF OInv, NextTimes
<1>5. ASSUME ~overlap', ~failed'
      PROVE  Own(p)'
  <2>1. ~overlap /\ config # Nil /\ ~failed /\ \A q \in Procs \ {p} : ~Updating(pc[q])
    BY <1>1, <1>2, <1>5
  <2>2. ~clash /\ loaded
    BY <2>1 DEF OInv, Alone
  <2>3. \A q \in Procs : ~Dirty(pc[q])
    BY <1>1, <2>1 DEF Dirty, Updating
  <2>4. Content(config) = file
    BY <2>1, <2>2, <2>3, EInvFacts DEF CleanAgrees
  <2>5. Content(mine[p])' = file'
    BY <1>1, <2>4, EInvFacts DEF Content
  <2>. QED  BY <1>2, <2>5, SameItself DEF Own
<1>. QED  BY <1>2, <1>3, <1>4, <1>5, UpdateKeeps

\* Steps of an update from the change to the text.
LEMMA WorkAlone ==
    ASSUME EInv, OInv, NEW p \in Procs, Updating(pc[p]), NEW l, Updating(l), Goto(p, l),
           UNCHANGED <<config, loaded, overlap, failed>>, clash => clash',
           clash' => clash \/ overlap, NextTimes',
           ~overlap /\ ~failed /\ ~clash /\ Own(p) => Own(p)'
    PROVE  OInv'
<1>1. ~clash /\ config' # Nil => loaded'
  BY DEF OInv, Alone
<1>2. Alone'
  BY <1>1, EInvFacts, AloneStays DEF OInv
<1>3. (~overlap /\ ~failed => Own(p))'
  BY DEF OInv, OwnChanges, Alone
<1>4. Updating(pc'[p])
  BY EInvFacts DEF Goto
<1>. QED  BY <1>2, <1>3, <1>4, UpdateKeeps

\* p's copy with other items in the part that p changes.
LEMMA PartSame ==
    ASSUME NEW p \in Procs, NEW j, NEW f, NEW items, SameBut(j, Content(mine[p]), f),
           SameList(items, Mine(p), j.id, j.kind = "run")
    PROVE  SameBut(j, [Content(mine[p]) EXCEPT ![Part(p)] = items], f)
<1>. DEFINE c == [Content(mine[p]) EXCEPT ![Part(p)] = items]
<1>1. CASE Part(p) = "tasks"
  <2>1. c = Whole(items, heap[mine[p].accts]) /\ Mine(p) = heap[mine[p].tasks]
    BY <1>1 DEF Content, Whole, Mine
  <2>. HIDE DEF c
  <2>2. c.tasks = items /\ c.accts = heap[mine[p].accts]
    BY <2>1 DEF Whole
  <2>3. SameBut(j, c, f)
    BY <2>1, <2>2 DEF SameBut, SameList, Content, Whole
  <2>. QED  BY <2>3 DEF c
<1>2. CASE Part(p) = "accts"
  <2>1. c = Whole(heap[mine[p].tasks], items) /\ Mine(p) = heap[mine[p].accts]
    BY <1>2 DEF Content, Whole, Mine
  <2>. HIDE DEF c
  <2>2. c.tasks = heap[mine[p].tasks] /\ c.accts = items
    BY <2>1 DEF Whole
  <2>3. SameBut(j, c, f)
    BY <2>1, <2>2 DEF SameBut, SameList, Content, Whole
  <2>. QED  BY <2>3 DEF c
<1>. QED  BY <1>1, <1>2 DEF Part

LEMMA MarshalAlone ==
    ASSUME EInv, OInv, NEW p \in Procs, NEW items, NEW h, Marshal(p, items, h),
           pc[p] \in {"edit", "rest"}, NEW x, mixed => x, Listing(items, Ids(p), now, x),
           SameList(items, Mine(p), job[p].id, job[p].kind = "run")
    PROVE  OInv'
<1>. DEFINE c == [Content(mine[p]) EXCEPT ![Part(p)] = items]
<1>1. /\ UNCHANGED <<config, loaded, file, tmp, job, overlap, clash, failed>>
      /\ data' = [data EXCEPT ![p] = Normalized(c)] /\ Goto(p, "open")
  BY DEF Marshal, fileVars
<1>2. Configuration(c, now, x)
  <2>1. Shows(heap, mine[p], now, mixed)
    BY EInvFacts, MemoryShows
  <2>2. /\ Listing(heap[mine[p].tasks], Tasks, now, x)
        /\ Listing(heap[mine[p].accts], Accounts, now, x)
    BY <2>1, EInvFacts, ListingStays, ShowsIs
  <2>3. CASE Part(p) = "tasks"
    <3>1. c = Whole(items, heap[mine[p].accts]) /\ Ids(p) = Tasks
      BY <2>3 DEF Content, Whole, Ids
    <3>. HIDE DEF c
    <3>. QED  BY <2>2, <3>1 DEF Configuration, Whole
  <2>4. CASE Part(p) = "accts"
    <3>1. c = Whole(heap[mine[p].tasks], items) /\ Ids(p) = Accounts
      BY <2>4 DEF Content, Whole, Ids
    <3>. HIDE DEF c
    <3>. QED  BY <2>2, <3>1 DEF Configuration, Whole
  <2>. QED  BY <2>3, <2>4 DEF Part
<1>3. SameBut(job[p], Content(mine[p]), file) => SameBut(job[p], c, file)
  BY PartSame
<1>. HIDE DEF c
<1>4. NextSet(Normalized(c))
  BY <1>2, EInvFacts, NormalizedNext
<1>5. SameBut(job[p], Content(mine[p]), file) => SameBut(job[p], Normalized(c), file)
  BY <1>2, <1>3, EInvFacts, NormalizedSame DEF OInv, NextTimes
<1>6. NextTimes'
  BY <1>1, <1>4, EInvFacts DEF OInv, NextTimes
<1>7. Own(p) => Own(p)'
  <2>1. pc'[p] = "open" /\ data'[p] = Normalized(c) /\ job' = job /\ file' = file
    BY <1>1, EInvFacts DEF Goto
  <2>. QED  BY <1>5, <2>1 DEF Own
<1>. QED  BY <1>1, <1>6, <1>7, WorkAlone DEF Updating

LEMMA ReplacesAlone ==
    ASSUME EInv, OInv, NEW p \in Procs, Replace(p)
    PROVE  OInv'
<1>1. pc[p] \in {"edit", "rest"} /\ job[p].kind \in StoredKinds
  BY DEF Replace, StoredKinds
<1>2. PICK i \in Mentioned(p) :
         LET items == [Mine(p) EXCEPT ![i] = Stored(p, @)] IN
         /\ Marshal(p, items, [heap EXCEPT ![mine[p][Part(p)]] = items])
         /\ mixed' = (mixed \/ Fills(p, Mine(p)[i]))
  BY DEF Replace
<1>. DEFINE e == Stored(p, Mine(p)[i])
            items == [Mine(p) EXCEPT ![i] = e]
            h == [heap EXCEPT ![mine[p][Part(p)]] = items]
            x == mixed \/ Fills(p, Mine(p)[i])
<1>3. Marshal(p, items, h)
  BY <1>2
<1>4. /\ i \in DOMAIN Mine(p) /\ Mine(p)[i].id = job[p].id
      /\ Fits(e, Ids(p), now, x) /\ e.id = Mine(p)[i].id
  BY <1>1, MentionedIs
<1>5. Listing(items, Ids(p), now, x)
  <2>. HIDE DEF e
  <2>. QED  BY <1>4, EditDoes
<1>6. SameList(items, Mine(p), job[p].id, TRUE)
  <2>. HIDE DEF e
  <2>. QED  BY <1>4, PutOthers
<1>7. SameList(items, Mine(p), job[p].id, job[p].kind = "run")
  BY <1>6 DEF SameList
<1>. HIDE DEF items, h
<1>. QED  BY <1>1, <1>3, <1>5, <1>7, MarshalAlone

LEMMA AddsAlone ==
    ASSUME EInv, OInv, NEW p \in Procs, Add(p)
    PROVE  OInv'
<1>1. pc[p] = "edit" /\ job[p].kind \in {"task", "account"} /\ Mentioned(p) = {}
  BY DEF Add
<1>. DEFINE e == job[p].copy
            items == Append(Mine(p), e)
<1>2. Marshal(p, items, heap)
  BY DEF Add
<1>3. Listing(Mine(p), Ids(p), now, mixed) /\ job[p].id \in Ids(p) /\ JobFits(job[p], now, mixed)
  BY <1>1, MineIs DEF TaskKinds, AccountKinds
<1>4. Fits(e, Ids(p), now, mixed) /\ e.id = job[p].id /\ e \in Entry
  BY <1>3 DEF JobFits, Fits
<1>5. \A i \in DOMAIN Mine(p) : Mine(p)[i].id # e.id
  BY <1>1, <1>4 DEF Mentioned
<1>6. Mine(p) \in Seq(Entry)
  BY <1>3, ListingFacts
<1>7. Listing(items, Ids(p), now, mixed) /\ SameList(items, Mine(p), job[p].id, FALSE)
  <2>. HIDE DEF e
  <2>1. Listing(items, Ids(p), now, mixed)
    BY <1>3, <1>4, <1>5, AppendListing
  <2>2. SameList(items, Mine(p), e.id, FALSE)
    BY <1>4, <1>6, AppendOthers
  <2>. QED  BY <1>4, <2>1, <2>2
<1>. HIDE DEF items
<1>8. SameList(items, Mine(p), job[p].id, job[p].kind = "run")
  BY <1>1, <1>7 DEF SameList
<1>. QED  BY <1>1, <1>2, <1>7, <1>8, MarshalAlone

LEMMA RemovesAlone ==
    ASSUME EInv, OInv, NEW p \in Procs, Remove(p)
    PROVE  OInv'
<1>1. pc[p] = "edit" /\ job[p].kind \in {"untask", "unaccount"}
  BY DEF Remove
<1>. DEFINE I == DOMAIN Mine(p) \ Mentioned(p)
            items == Kept(Mine(p), I)
<1>2. Marshal(p, items, heap)
  BY DEF Remove
<1>3. I = {n \in DOMAIN Mine(p) : Mine(p)[n].id # job[p].id}
  BY DEF Mentioned
<1>. HIDE DEF I
<1>4. Listing(Mine(p), Ids(p), now, mixed) /\ Mine(p) \in Seq(Entry)
  BY MineIs, ListingFacts
<1>5. Listing(items, Ids(p), now, mixed) /\ SameList(items, Mine(p), job[p].id, FALSE)
  BY <1>3, <1>4, KeptListing, KeptOthers
<1>. HIDE DEF items
<1>6. SameList(items, Mine(p), job[p].id, job[p].kind = "run")
  BY <1>1, <1>5 DEF SameList
<1>. QED  BY <1>1, <1>2, <1>5, <1>6, MarshalAlone

\* Half an edit is in the array of tasks, which is not the one of accounts.
LEMMA HalfEditsAlone ==
    ASSUME EInv, OInv, NEW p \in Procs, HalfEdit(p)
    PROVE  OInv'
<1>1. /\ UNCHANGED <<config, loaded, mine, file, tmp, data, job, overlap, clash, failed>>
      /\ pc[p] = "edit" /\ job[p].kind \in {"task", "run"} /\ Goto(p, "rest")
  BY DEF HalfEdit, fileVars
<1>2. PICK i \in Mentioned(p) : \E half \in Halves(Mine(p)[i], Stored(p, Mine(p)[i])) :
         heap' = [heap EXCEPT ![mine[p].tasks][i] = half]
  BY DEF HalfEdit
<1>3. PICK half \in Halves(Mine(p)[i], Stored(p, Mine(p)[i])) :
         heap' = [heap EXCEPT ![mine[p].tasks][i] = half]
  BY <1>2
<1>. DEFINE a == mine[p].tasks
            b == mine[p].accts
<1>4. /\ i \in DOMAIN Mine(p) /\ Mine(p)[i].id = job[p].id
      /\ Fits(Mine(p)[i], Ids(p), now, mixed)
      /\ Fits(Stored(p, Mine(p)[i]), Ids(p), now, mixed \/ Fills(p, Mine(p)[i]))
      /\ Stored(p, Mine(p)[i]).id = Mine(p)[i].id
  BY <1>1, MentionedIs DEF StoredKinds
<1>5. half.id = Mine(p)[i].id
  BY <1>3, <1>4, HalfIs DEF Fits
<1>6. /\ Mine(p) = heap[a] /\ Ids(p) = Tasks /\ a \in Arrays /\ b \in Arrays
      /\ heap \in [Arrays -> Seq(Entry)] /\ Listing(heap[b], Accounts, now, mixed)
  <2>1. Part(p) = "tasks"
    BY <1>1 DEF Part
  <2>2. Shows(heap, mine[p], now, mixed)
    BY EInvFacts, MemoryShows
  <2>. QED  BY <2>1, <2>2, EInvFacts, MemoryShows, ShowsIs DEF Mine, Ids, Pointers
<1>7. a # b
  <2>1. SUFFICES ASSUME a = b PROVE FALSE
    OBVIOUS
  <2>2. heap[b] \in Seq(Entry) /\ DOMAIN heap[b] = 1 .. Len(heap[b])
    BY <1>6, LenProperties
  <2>3. heap[b][i].id \in Accounts /\ heap[b][i].id \in Tasks
    BY <1>4, <1>6, <2>1, <2>2, ListingFacts DEF Fits
  <2>. QED  BY <2>3, IdsAssumption
<1>8. heap'[a] = [heap[a] EXCEPT ![i] = half] /\ heap'[b] = heap[b]
  BY <1>3, <1>6, <1>7
<1>9. SameList(heap'[a], heap[a], job[p].id, TRUE)
  <2>. HIDE DEF a
  <2>1. i \in DOMAIN heap[a] /\ half.id = heap[a][i].id /\ heap[a][i].id = job[p].id
    BY <1>4, <1>5, <1>6
  <2>2. SameList([heap[a] EXCEPT ![i] = half], heap[a], heap[a][i].id, TRUE)
    BY <2>1, PutOthers
  <2>. QED  BY <1>8, <2>1, <2>2
<1>10. Own(p) => Own(p)'
  <2>1. pc'[p] = "rest" /\ job' = job /\ file' = file
    BY <1>1, EInvFacts DEF Goto
  <2>2. SameBut(job[p], Content(mine[p]), file) => SameBut(job[p], Content(mine[p])', file)
    BY <1>1, <1>8, <1>9 DEF SameBut, SameList, Content, Whole
  <2>. QED  BY <1>1, <2>1, <2>2 DEF Own
<1>11. NextTimes'
  BY <1>1 DEF OInv, NextTimes
<1>. QED  BY <1>1, <1>10, <1>11, WorkAlone DEF Updating

LEMMA OpensAlone ==
    ASSUME EInv, OInv, NEW p \in Procs, Open(p)
    PROVE  OInv'
<1>1. /\ UNCHANGED <<config, loaded, file, data, job, overlap, failed>>
      /\ tmp' = {Empty} /\ pc[p] = "open" /\ Goto(p, "put") /\ pc'[p] = "put"
      /\ clash' = (clash \/ \E q \in Procs : pc[q] \in {"put", "rename"})
  BY EInvFacts DEF Open, memVars, Goto
<1>2. clash' => clash \/ overlap
  <2>1. SUFFICES ASSUME ~overlap, NEW q \in Procs, pc[q] \in {"put", "rename"} PROVE FALSE
    BY <1>1
  <2>2. q = p
    BY <1>1, <2>1 DEF OInv, Alone, Updating
  <2>. QED  BY <1>1, <2>1, <2>2
<1>3. NextTimes'
  BY <1>1, BlankNext DEF OInv, NextTimes
<1>4. Own(p) => Own(p)'
  BY <1>1 DEF Own
<1>. QED  BY <1>1, <1>2, <1>3, <1>4, WorkAlone DEF Updating

\* Alone, p writes to the temporary file that it has truncated.
LEMMA PutsAlone ==
    ASSUME EInv, OInv, NEW p \in Procs, Put(p)
    PROVE  OInv'
<1>1. /\ UNCHANGED <<config, loaded, job, overlap, clash, failed>>
      /\ data' = [data EXCEPT ![p] = Blank]
      /\ pc[p] = "put" /\ Goto(p, "rename") /\ pc'[p] = "rename"
  BY EInvFacts DEF Put, Goto, histVars
<1>2. \A old, c : c \in Over(p, old) => NextSet(c)
  BY BlankNext DEF Over, OInv, NextTimes
<1>3. NextTimes'
  <2>1. NextSet(file') /\ \A c \in tmp' : NextSet(c)
    BY <1>2 DEF Put, OInv, NextTimes
  <2>2. \A q \in Procs : NextSet(data'[q])
    BY <1>1, EInvFacts, BlankNext DEF OInv, NextTimes
  <2>. QED  BY <2>1, <2>2 DEF NextTimes
<1>4. ~clash /\ Own(p) => Own(p)'
  <2>1. SUFFICES ASSUME ~clash, Own(p) PROVE Own(p)'
    OBVIOUS
  <2>2. at[p] = "tmp" /\ tmp = {Empty}
    BY <1>1, <2>1, EInvFacts DEF FInv, OneWriter
  <2>3. tmp' = {data[p]} /\ file' = file
    BY <2>2 DEF Put, Over
  <2>. QED  BY <1>1, <2>1, <2>3 DEF Own
<1>. QED  BY <1>1, <1>3, <1>4, WorkAlone DEF Updating

LEMMA RenamesAlone ==
    ASSUME EInv, OInv, NEW p \in Procs, Rename(p)
    PROVE  OInv'
<1>1. /\ UNCHANGED <<config, loaded, job, data, overlap, clash, failed>>
      /\ file' \in tmp /\ tmp' = {}
      /\ pc[p] = "rename" /\ Goto(p, "reload") /\ pc'[p] = "reload"
  BY EInvFacts DEF Rename, Goto, histVars
<1>2. NextTimes'
  BY <1>1 DEF OInv, NextTimes
<1>3. Own(p)'
  BY <1>1 DEF Own
<1>. QED  BY <1>1, <1>2, <1>3, WorkAlone DEF Updating

LEMMA WaitsAlone ==
    ASSUME EInv, OInv, Advance \/ UNCHANGED vars
    PROVE  OInv'
<1>1. /\ UNCHANGED <<heap, config, loaded, mine, file, tmp, data, clash, overlap, failed, pc, job>>
  BY DEF Advance, vars, memVars, markVars, fileVars, procVars, histVars
<1>2. Alone'
  BY <1>1 DEF OInv, Alone
<1>3. NextTimes'
  BY <1>1 DEF OInv, NextTimes
<1>4. OwnChanges'
  BY <1>1 DEF OInv, OwnChanges, Own, Content
<1>. QED  BY <1>2, <1>3, <1>4 DEF OInv

LEMMA RestartsAlone ==
    ASSUME EInv, OInv, Restart
    PROVE  OInv'
<1>1. /\ UNCHANGED <<file, tmp, clash, overlap, failed>> /\ config' = Nil
      /\ data' = [p \in Procs |-> Blank] /\ \A p \in Procs : ~Updating(pc'[p])
  BY DEF Restart, histVars, Updating
<1>2. Alone'
  BY <1>1 DEF OInv, Alone
<1>3. NextTimes'
  BY <1>1, BlankNext DEF OInv, NextTimes
<1>4. OwnChanges'
  BY <1>1 DEF OwnChanges, Own, Updating
<1>. QED  BY <1>2, <1>3, <1>4 DEF OInv

LEMMA InitOInv == Init => OInv
<1>. SUFFICES ASSUME Init PROVE OInv
  OBVIOUS
<1>1. Alone /\ OwnChanges
  BY DEF Init, Alone, OwnChanges, Own, Updating
<1>2. NextSet(file)
  <2>1. PICK t \in Tasks, a \in Accounts :
           file = Whole(<<[Item(t) EXCEPT !.on = TRUE, !.next = 1]>>, <<Item(a)>>)
    BY DEF Init
  <2>. DEFINE e == [Item(t) EXCEPT !.on = TRUE, !.next = 1]
  <2>2. e.next = 1
    BY DEF Item
  <2>. HIDE DEF e
  <2>3. file.tasks = <<e>>
    BY <2>1 DEF Whole, e
  <2>4. \A i \in DOMAIN <<e>> : <<e>>[i] = e
    OBVIOUS
  <2>. QED  BY <2>2, <2>3, <2>4 DEF NextSet
<1>. QED  BY <1>1, <1>2, BlankNext DEF Init, OInv, NextTimes

LEMMA NextOInv ==
    ASSUME EInv, OInv, [Next]_vars
    PROVE  OInv'
<1>1. CASE Advance \/ UNCHANGED vars
  BY <1>1, WaitsAlone
<1>2. CASE Restart
  BY <1>2, RestartsAlone
<1>3. ASSUME NEW p \in Procs, UpdateNext(p)
      PROVE  OInv'
  <2>1. CASE Copy(p) \/ HalfEdit(p) \/ Replace(p) \/ Add(p) \/ Remove(p)
    BY <2>1, CopiesAlone, HalfEditsAlone, ReplacesAlone, AddsAlone, RemovesAlone
  <2>2. CASE Open(p) \/ Put(p) \/ Rename(p)
    BY <2>2, OpensAlone, PutsAlone, RenamesAlone
  <2>3. CASE Miss(p) \/ OpenFails(p)
    BY <2>3, DropsElsewhere
  <2>4. CASE RenameFails(p)
    BY <2>4, StepsElsewhere DEF Moving
  <2>5. CASE Reload(p)
    BY <2>5, LoadsElsewhere DEF Loading
  <2>. QED  BY <1>3, <2>1, <2>2, <2>3, <2>4, <2>5 DEF UpdateNext
<1>4. ASSUME NEW p \in Procs, RunNext(p)
      PROVE  OInv'
  BY <1>4, StepsElsewhere, LoadsElsewhere DEF RunNext, Moving, Loading
<1>5. ASSUME NEW p \in Threads, (\E request \in Requests : Begin(p, request)) \/ RequestNext(p)
      PROVE  OInv'
  <2>1. p \in Procs /\ p # Scheduler
    BY SchedulerAssumption DEF Procs
  <2>2. CASE \E request \in Requests : Begin(p, request)
    BY <2>2, BeginsAlone
  <2>3. CASE Look(p) \/ TakeToSave(p) \/ TakeToRun(p) \/ MailForLogin(p)
    BY <2>1, <2>3, StepsElsewhere DEF Moving
  <2>4. CASE Load(p) \/ ResolveForLogin(p)
    BY <2>1, <2>4, LoadsElsewhere DEF Loading
  <2>5. CASE Unload(p)
    BY <2>1, <2>5, DropsElsewhere
  <2>6. CASE RunNext(p) \/ UpdateNext(p)
    BY <1>3, <1>4, <2>1, <2>6
  <2>. QED  BY <1>5, <2>2, <2>3, <2>4, <2>5, <2>6 DEF RequestNext
<1>6. CASE SchedulerNext
  <2>1. Scheduler \in Procs
    BY DEF Procs
  <2>2. CASE Wake \/ LoadToPick
    BY <2>1, <2>2, StepsElsewhere, LoadsElsewhere DEF Moving, Loading
  <2>3. CASE Pick \/ NextTurn
    BY <2>1, <2>3, StepsElsewhere
  <2>. QED  BY <1>3, <1>4, <1>6, <2>1, <2>2, <2>3 DEF SchedulerNext
<1>. QED  BY <1>1, <1>2, <1>5, <1>6 DEF Next

\* An update takes the others' items from the file to the file, as long as no other
\* update comes in between: the invariant behind the theorem below.
THEOREM OthersCarried == Spec => []OInv
<1>1. EInv /\ OInv /\ [Next]_vars => OInv'
  BY NextOInv
<1>. QED  BY InitOInv, ConfigurationKept, <1>1, PTL DEF Spec

\* While updates do not overlap and no write fails, what an update renames into place
\* differs from the file in the task or the account it is about and in nothing else,
\* and a check neither adds nor removes one.
THEOREM ChangesItsOwnOnly == Spec => OnlyItsOwn
<1>. DEFINE Mending == \A p \in Procs :
          Rename(p) /\ job[p].kind # "config" /\ ~overlap /\ ~failed =>
          /\ \A e \in (ItemsOf(file) \ ItemsOf(file')) \union (ItemsOf(file') \ ItemsOf(file)) :
                e.id = job[p].id
          /\ job[p].kind = "run" =>
                {e.id : e \in ItemsOf(file)} = {e.id : e \in ItemsOf(file')}
<1>1. OInv => Mending
  <2>. SUFFICES ASSUME OInv, NEW p \in Procs, Rename(p), job[p].kind # "config", ~overlap, ~failed
                PROVE  /\ \A e \in (ItemsOf(file) \ ItemsOf(file'))
                                     \union (ItemsOf(file') \ ItemsOf(file)) : e.id = job[p].id
                       /\ job[p].kind = "run" =>
                             {e.id : e \in ItemsOf(file)} = {e.id : e \in ItemsOf(file')}
    BY Zenon
  <2>1. SameBut(job[p], file', file)
    BY DEF Rename, OInv, OwnChanges, Own
  <2>. DEFINE f == file
              g == file'
  <2>2. /\ SameList(g.tasks, f.tasks, job[p].id, job[p].kind = "run")
        /\ SameList(g.accts, f.accts, job[p].id, job[p].kind = "run")
    BY <2>1 DEF SameBut
  <2>3. /\ ItemsOf(f) = ItemsIn(f.tasks) \union ItemsIn(f.accts)
        /\ ItemsOf(g) = ItemsIn(g.tasks) \union ItemsIn(g.accts)
    BY DEF ItemsOf, ItemsIn
  <2>. HIDE DEF f, g
  <2>4. \A e \in (ItemsOf(f) \ ItemsOf(g)) \union (ItemsOf(g) \ ItemsOf(f)) : e.id = job[p].id
    BY <2>2, <2>3 DEF SameList, Others
  <2>5. job[p].kind = "run" => {e.id : e \in ItemsOf(f)} = {e.id : e \in ItemsOf(g)}
    <3>1. {e.id : e \in ItemsOf(f)} = IdsIn(f.tasks) \union IdsIn(f.accts)
      BY <2>3 DEF IdsIn
    <3>2. {e.id : e \in ItemsOf(g)} = IdsIn(g.tasks) \union IdsIn(g.accts)
      BY <2>3 DEF IdsIn
    <3>. QED  BY <2>2, <3>1, <3>2 DEF SameList
  <2>. QED  BY <2>4, <2>5 DEF f, g
<1>2. OInv => [Mending]_vars
  BY <1>1
<1>. HIDE DEF Mending
<1>3. Spec => [][Mending]_vars
  BY <1>2, OthersCarried, PTL
<1>. QED  BY <1>3 DEF Mending, OnlyItsOwn
=============================================================================
