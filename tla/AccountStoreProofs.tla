------------------------- MODULE AccountStoreProofs -------------------------
(***************************************************************************)
(* Proofs about AccountStore, for any names, spellings, groups and threads *)
(* and any number of restarts: types, the lock, agreement of memory and    *)
(* file; that no write drops an account or a group, and nothing            *)
(* acknowledged is lost, while every id that is stored fits in the file.   *)
(***************************************************************************)
EXTENDS AccountStore, FiniteSetTheorems, TLAPS

-----------------------------------------------------------------------------
(* Numbers *)

\* The least-number principle.
LEMMA Least ==
    ASSUME NEW S \in SUBSET Nat, S # {}
    PROVE  \E n \in S : \A m \in S : n <= m
<1>1. PICK n \in S : \A m \in S : <<m, n>> \notin OpToRel(<, Nat)
  BY NatLessThanWellFounded, WFMin
<1>2. \A m \in S : ~(m < n)
  BY <1>1 DEF OpToRel
<1>. QED  BY <1>2

\* A finite set of numbers has a greatest one: the one with the fewest above it.
LEMMA Greatest ==
    ASSUME NEW S \in SUBSET Nat, S # {}, IsFiniteSet(S)
    PROVE  \E n \in S : \A m \in S : m <= n
<1>. DEFINE Above(n) == {m \in S : n < m}
            Counts   == {Cardinality(Above(n)) : n \in S}
<1>1. \A n \in S : IsFiniteSet(Above(n)) /\ Cardinality(Above(n)) \in Nat
  BY FS_Subset, FS_CardinalityType
<1>2. Counts \in SUBSET Nat /\ Counts # {}
  BY <1>1
<1>3. PICK c \in Counts : \A d \in Counts : c <= d
  BY <1>2, Least
<1>4. PICK n \in S : c = Cardinality(Above(n))
  OBVIOUS
<1>5. ASSUME NEW m \in S, ~(m <= n) PROVE FALSE
  <2>1. n < m /\ \A k \in S : k \in Nat
    BY <1>5
  <2>2. Above(m) \subseteq Above(n) /\ m \in Above(n) /\ m \notin Above(m)
    <3>1. \A k \in S : m < k => n < k
      BY <2>1
    <3>2. ~(m < m)
      BY <2>1
    <3>. QED  BY <2>1, <3>1, <3>2
  <2>3. Cardinality(Above(m)) \in Counts
    OBVIOUS
  <2>. HIDE DEF Above, Counts
  <2>4. Cardinality(Above(m)) < Cardinality(Above(n))
    BY <2>2, <1>1, FS_Subset
  <2>. QED  BY <2>3, <2>4, <1>1, <1>3, <1>4
<1>. QED  BY <1>5

-----------------------------------------------------------------------------
(* Stores *)

\* What is there is there wholly: an account has a name, and what is not there has nothing.
Clean(s) ==
    /\ \A k \in Keys : IF s.accounts[k].there THEN s.accounts[k].name \in Names
                       ELSE s.accounts[k] = NoAccount
    /\ \A k \in GroupKeys : ~s.groups[k].there => s.groups[k] = NoGroup
\* The file can keep everything: no two accounts have one user name, and every id fits.
Distinct(s) ==
    /\ \A j, k \in Present(s) : s.accounts[j].name = s.accounts[k].name => j = k
    /\ \A k \in Present(s) : ~Misfit(k, Present(s))
    /\ \A k \in PresentGroups(s) : ~Misfit(k, PresentGroups(s))
Sound(s) == s \in Store /\ Clean(s)

\* What is there has a plain id.
IsPlain(f, none) == \A k \in DOMAIN f : f[k] = none \/ (f[k].there /\ k.as = Plain)
Filed(s) == Distinct(s) /\ IsPlain(s.accounts, NoAccount) /\ IsPlain(s.groups, NoGroup)

LEMMA Shape ==
    ASSUME NEW s \in Store
    PROVE  /\ s.accounts \in [Keys -> Account] /\ s.groups \in [GroupKeys -> Group]
           /\ s = [accounts |-> s.accounts, groups |-> s.groups, mcp |-> s.mcp]
           /\ s.mcp \in Values
BY DEF Store

LEMMA Absent ==
    /\ NoAccount \in Account /\ ~NoAccount.there /\ NoAccount.name = 0 /\ 0 \notin Names
    /\ NoGroup \in Group /\ ~NoGroup.there
BY NamesAssumption DEF NoAccount, NoGroup, Account, Group, Values

LEMMA KeyIs ==
    ASSUME NEW K, NEW j \in [id : K, as : Spellings], NEW k \in [id : K, as : Spellings],
           j.id = k.id, j.as = k.as
    PROVE  j = k
OBVIOUS

\* Writing ids plainly, once and twice.
LEMMA RespeltIsPlain ==
    ASSUME NEW K, NEW F, NEW f \in [[id : K, as : Spellings] -> F], NEW none \in F,
           NEW kept \in SUBSET [id : K, as : Spellings], \A j \in kept : f[j].there
    PROVE  /\ Respelt(f, kept, none) \in [[id : K, as : Spellings] -> F]
           /\ IsPlain(Respelt(f, kept, none), none)
<1>. DEFINE Of(k) == CHOOSE j \in kept : j.id = k.id
            g == Respelt(f, kept, none)
<1>1. g = [k \in [id : K, as : Spellings] |->
              IF k.as = Plain /\ \E j \in kept : j.id = k.id THEN f[Of(k)] ELSE none]
  BY DEF Respelt
<1>2. ASSUME NEW k, \E j \in kept : j.id = k.id PROVE Of(k) \in kept
  BY <1>2
<1>. HIDE DEF Of
<1>3. \A k \in [id : K, as : Spellings] :
         (k.as = Plain /\ \E j \in kept : j.id = k.id) => f[Of(k)] \in F /\ f[Of(k)].there
  BY <1>2
<1>. HIDE DEF g
<1>4. g \in [[id : K, as : Spellings] -> F]
  BY <1>1, <1>3
<1>5. IsPlain(g, none)
  BY <1>1, <1>3 DEF IsPlain
<1>. QED  BY <1>4, <1>5 DEF g

LEMMA PlainStays ==
    ASSUME NEW K, NEW F, NEW f \in [[id : K, as : Spellings] -> F], NEW none, ~none.there,
           IsPlain(f, none)
    PROVE  Respelt(f, {k \in [id : K, as : Spellings] : f[k].there}, none) = f
<1>. DEFINE there == {k \in [id : K, as : Spellings] : f[k].there}
            Of(k) == CHOOSE j \in there : j.id = k.id
<1>1. Respelt(f, there, none) = [k \in [id : K, as : Spellings] |->
              IF k.as = Plain /\ \E j \in there : j.id = k.id THEN f[Of(k)] ELSE none]
  BY DEF Respelt
<1>2. ASSUME NEW k, \E j \in there : j.id = k.id PROVE Of(k) \in there /\ Of(k).id = k.id
  BY <1>2
<1>. HIDE DEF Of
<1>3. \A j \in there : j.as = Plain
  BY DEF IsPlain
<1>4. ASSUME NEW k \in [id : K, as : Spellings]
      PROVE  f[k] = IF k.as = Plain /\ \E j \in there : j.id = k.id THEN f[Of(k)] ELSE none
  <2>1. CASE k.as = Plain /\ \E j \in there : j.id = k.id
    <3>1. Of(k) = k
      BY <1>2, <1>3, <2>1, KeyIs
    <3>. QED  BY <2>1, <3>1
  <2>2. CASE ~(k.as = Plain /\ \E j \in there : j.id = k.id)
    <3>1. k \notin there
      BY <1>3, <2>2
    <3>2. f[k] = none
      BY <3>1 DEF IsPlain
    <3>. QED  BY <2>2, <3>2
  <2>. QED  BY <2>1, <2>2
<1>5. f = [k \in [id : K, as : Spellings] |-> f[k]]
  OBVIOUS
<1>. HIDE DEF there
<1>. QED  BY <1>1, <1>4, <1>5 DEF there

\* A store the file may hold stays as it is.
LEMMA FiledStays ==
    ASSUME NEW s \in Store, IsPlain(s.accounts, NoAccount), IsPlain(s.groups, NoGroup)
    PROVE  Plainly(s) = s
<1>1. Respelt(s.accounts, Present(s), NoAccount) = s.accounts
  BY Shape, Absent, PlainStays DEF Present, Keys
<1>2. Respelt(s.groups, PresentGroups(s), NoGroup) = s.groups
  BY Shape, Absent, PlainStays DEF PresentGroups, GroupKeys
<1>3. Plainly(s) = [accounts |-> s.accounts, groups |-> s.groups, mcp |-> s.mcp]
  BY <1>1, <1>2, Shape DEF Plainly, Keep
<1>. QED  BY <1>3, Shape

LEMMA KeepIs ==
    ASSUME NEW s \in Store, NEW kept \in SUBSET Present(s),
           NEW keptGroups \in SUBSET PresentGroups(s)
    PROVE  /\ Keep(s, kept, keptGroups) \in Store
           /\ Keep(s, kept, keptGroups).accounts = Respelt(s.accounts, kept, NoAccount)
           /\ Keep(s, kept, keptGroups).groups = Respelt(s.groups, keptGroups, NoGroup)
           /\ IsPlain(Keep(s, kept, keptGroups).accounts, NoAccount)
           /\ IsPlain(Keep(s, kept, keptGroups).groups, NoGroup)
<1>. DEFINE t == Keep(s, kept, keptGroups)
            f == Respelt(s.accounts, kept, NoAccount)
            g == Respelt(s.groups, keptGroups, NoGroup)
<1>1. f \in [Keys -> Account] /\ IsPlain(f, NoAccount)
  <2>1. kept \in SUBSET [id : Names, as : Spellings] /\ \A j \in kept : s.accounts[j].there
    BY DEF Present, Keys
  <2>. QED  BY <2>1, Shape, Absent, RespeltIsPlain DEF Keys
<1>2. g \in [GroupKeys -> Group] /\ IsPlain(g, NoGroup)
  <2>1. keptGroups \in SUBSET [id : Groups, as : Spellings]
        /\ \A j \in keptGroups : s.groups[j].there
    BY DEF PresentGroups, GroupKeys
  <2>. QED  BY <2>1, Shape, Absent, RespeltIsPlain DEF GroupKeys
<1>3. t = [s EXCEPT !.accounts = f, !.groups = g]
  BY Shape DEF Keep
<1>. HIDE DEF t, f, g
<1>4. t \in Store /\ t.accounts = f /\ t.groups = g
  BY <1>1, <1>2, <1>3, Shape DEF Store
<1>. QED  BY <1>1, <1>2, <1>4 DEF t, f, g

LEMMA PlainlyTwice ==
    ASSUME NEW s \in Store
    PROVE  Plainly(s) \in Store /\ Plainly(Plainly(s)) = Plainly(s)
<1>1. Plainly(s) = Keep(s, Present(s), PresentGroups(s))
  BY DEF Plainly
<1>2. /\ Plainly(s) \in Store /\ IsPlain(Plainly(s).accounts, NoAccount)
      /\ IsPlain(Plainly(s).groups, NoGroup)
  BY <1>1, KeepIs
<1>. QED  BY <1>2, FiledStays

LEMMA NothingIsSound ==
    /\ Sound(Nothing) /\ Distinct(Nothing) /\ Present(Nothing) = {}
    /\ PresentGroups(Nothing) = {}
<1>1. /\ Nothing.accounts = [k \in Keys |-> NoAccount]
      /\ Nothing.groups = [k \in GroupKeys |-> NoGroup]
  BY DEF Nothing
<1>2. Nothing \in Store
  BY <1>1, Absent DEF Nothing, Store, Values
<1>3. Present(Nothing) = {} /\ PresentGroups(Nothing) = {}
  BY <1>1, Absent DEF Present, PresentGroups
<1>. QED  BY <1>1, <1>2, <1>3, Absent DEF Sound, Distinct, Clean

LEMMA DefaultIsSound == Sound(Default) /\ Filed(Default)
<1>. DEFINE admin == PlainKey(CHOOSE n \in Names : \A m \in Names : n <= m)
            account == [NoAccount EXCEPT !.there = TRUE, !.name = admin.id, !.pw = Seed,
                                         !.groups = Groups]
            groups == [k \in GroupKeys |-> [NoGroup EXCEPT !.there = (k.as = Plain)]]
<1>1. Default = [[Nothing EXCEPT !.accounts = [Nothing.accounts EXCEPT ![admin] = account]]
                    EXCEPT !.groups = groups]
  BY DEF Default
<1>2. Nothing.accounts = [k \in Keys |-> NoAccount]
  BY DEF Nothing
<1>3. groups \in [GroupKeys -> Group]
  BY DEF NoGroup, Group, Values
<1>4. \A k \in Keys : Default.accounts[k] = IF k = admin THEN account ELSE NoAccount
  BY <1>1, <1>2 DEF Nothing
<1>5. admin.id = (CHOOSE n \in Names : \A m \in Names : n <= m) /\ admin.as = Plain
  BY DEF PlainKey
<1>6. admin \in Keys => admin.id \in Names
  BY DEF Keys
<1>7. admin \in Keys => account \in Account
  BY <1>6 DEF Account, NoAccount, Values
<1>8. account.there /\ account.name = admin.id
  BY DEF NoAccount
<1>9. NoAccount \in Account /\ ~NoAccount.there
  BY Absent
<1>10. [Nothing.accounts EXCEPT ![admin] = account] \in [Keys -> Account]
  BY <1>2, <1>7, <1>9
<1>11. Default.groups = groups
  BY <1>1 DEF Nothing
<1>12. \A k \in GroupKeys : IF k.as = Plain THEN groups[k].there ELSE groups[k] = NoGroup
  BY DEF NoGroup
<1>. HIDE DEF admin, account, groups
<1>13. Default \in Store
  BY <1>1, <1>3, <1>10 DEF Store, Values, Nothing
<1>14. Clean(Default)
  BY <1>4, <1>6, <1>8, <1>9, <1>11, <1>12 DEF Clean
<1>15. IsPlain(Default.accounts, NoAccount)
  BY <1>4, <1>5, <1>8, <1>13, Shape DEF IsPlain
<1>16. IsPlain(Default.groups, NoGroup)
  BY <1>3, <1>11, <1>12 DEF IsPlain
<1>17. \A j \in Present(Default) : j = admin
  BY <1>4, <1>9 DEF Present
<1>18. \A k \in Present(Default) : ~Misfit(k, Present(Default))
  BY <1>5, <1>17, SpellingsAssumption DEF Misfit
<1>19. \A k \in PresentGroups(Default) : k.as = Plain /\ k \in [id : Groups, as : Spellings]
  BY <1>11, <1>12, Absent DEF PresentGroups, GroupKeys
<1>20. \A k \in PresentGroups(Default) : ~Misfit(k, PresentGroups(Default))
  BY <1>19, KeyIs, SpellingsAssumption DEF Misfit
<1>. QED  BY <1>13, <1>14, <1>15, <1>16, <1>17, <1>18, <1>20 DEF Sound, Filed, Distinct

\* Putting an account, or a group, into a store.
LEMMA WithIsSound ==
    ASSUME NEW s, Sound(s), NEW k \in Keys, NEW a \in Account,
           IF a.there THEN a.name \in Names ELSE a = NoAccount
    PROVE  /\ Sound([s EXCEPT !.accounts[k] = a])
           /\ (/\ Distinct(s)
               /\ a.there => /\ \A j \in Present(s) : j # k => s.accounts[j].name # a.name
                             /\ ~Misfit(k, Present(s)))
                 => Distinct([s EXCEPT !.accounts[k] = a])
<1>. DEFINE t == [s EXCEPT !.accounts[k] = a]
<1>1. /\ t \in Store /\ t.groups = s.groups
      /\ \A j \in Keys : t.accounts[j] = IF j = k THEN a ELSE s.accounts[j]
  BY DEF Sound, Store
<1>. HIDE DEF t
<1>2. Sound(t)
  BY <1>1 DEF Sound, Clean
<1>3. ASSUME Distinct(s),
             a.there => /\ \A j \in Present(s) : j # k => s.accounts[j].name # a.name
                        /\ ~Misfit(k, Present(s))
      PROVE  Distinct(t)
  <2>1. /\ PresentGroups(t) = PresentGroups(s)
        /\ \A j \in Present(t) : j = k \/ j \in Present(s)
        /\ k \in Present(t) => a.there
    BY <1>1 DEF Present, PresentGroups
  <2>2. \A i, j \in Present(t) : t.accounts[i].name = t.accounts[j].name => i = j
    BY <1>1, <1>3 DEF Distinct, Present
  <2>3. \A j \in Present(t) : ~Misfit(j, Present(t))
    BY <1>3, <2>1 DEF Distinct, Misfit
  <2>. QED  BY <1>3, <2>1, <2>2, <2>3 DEF Distinct
<1>. QED  BY <1>2, <1>3 DEF t

LEMMA WithGroupIsSound ==
    ASSUME NEW s, Sound(s), NEW k \in GroupKeys, NEW x \in Group, x.there \/ x = NoGroup
    PROVE  /\ Sound([s EXCEPT !.groups[k] = x])
           /\ (Distinct(s) /\ (x.there => ~Misfit(k, PresentGroups(s))))
                 => Distinct([s EXCEPT !.groups[k] = x])
<1>. DEFINE t == [s EXCEPT !.groups[k] = x]
<1>1. /\ t \in Store /\ t.accounts = s.accounts
      /\ \A j \in GroupKeys : t.groups[j] = IF j = k THEN x ELSE s.groups[j]
  BY DEF Sound, Store
<1>. HIDE DEF t
<1>2. Sound(t)
  BY <1>1 DEF Sound, Clean
<1>3. ASSUME Distinct(s), x.there => ~Misfit(k, PresentGroups(s))
      PROVE  Distinct(t)
  <2>1. /\ Present(t) = Present(s)
        /\ \A j \in PresentGroups(t) : j = k \/ j \in PresentGroups(s)
        /\ k \in PresentGroups(t) => x.there
    BY <1>1 DEF Present, PresentGroups
  <2>2. \A j \in PresentGroups(t) : ~Misfit(j, PresentGroups(t))
    BY <1>3, <2>1 DEF Distinct, Misfit
  <2>. QED  BY <1>1, <1>3, <2>1, <2>2 DEF Distinct
<1>. QED  BY <1>2, <1>3 DEF t

\* Changes of anything but the accounts and groups.
LEMMA SameContents ==
    ASSUME NEW s, NEW t, Sound(s), t \in Store, t.accounts = s.accounts, t.groups = s.groups
    PROVE  Sound(t) /\ (Distinct(s) => Distinct(t))
BY DEF Sound, Clean, Distinct, Present, PresentGroups

\* What a change keeps that touches neither the presence nor the name of any account.
LEMMA SameNames ==
    ASSUME NEW s, NEW t, Sound(s), t \in Store, t.groups = s.groups,
           \A k \in Keys : IF s.accounts[k].there
                           THEN t.accounts[k].there /\ t.accounts[k].name = s.accounts[k].name
                           ELSE t.accounts[k] = NoAccount
    PROVE  Sound(t) /\ (Distinct(s) => Distinct(t))
<1>1. Sound(t)
  BY DEF Sound, Clean
<1>2. Present(t) = Present(s) /\ PresentGroups(t) = PresentGroups(s)
  BY Absent DEF Present, PresentGroups
<1>3. \A k \in Present(s) : t.accounts[k].name = s.accounts[k].name
  BY DEF Present
<1>. QED  BY <1>1, <1>2, <1>3 DEF Distinct

\* What the file keeps of a store is sound, plain, and without clashes.
LEMMA KeepIsSound ==
    ASSUME NEW s, Sound(s), NEW t \in Normalized(s)
    PROVE  Sound(t) /\ Filed(t)
<1>1. PICK kept \in Survivors(s), keptGroups \in GroupSurvivors(s) :
         t = Keep(s, kept, keptGroups)
  BY DEF Normalized
<1>2. kept \subseteq Present(s) /\ \A j, k \in kept : ~Clash(s, j, k)
  BY DEF Survivors, Lasting
<1>3. keptGroups \subseteq PresentGroups(s)
  BY DEF GroupSurvivors, Lasting
<1>4. /\ t \in Store /\ t.accounts = Respelt(s.accounts, kept, NoAccount)
      /\ IsPlain(t.accounts, NoAccount) /\ IsPlain(t.groups, NoGroup)
  BY <1>1, <1>2, <1>3, KeepIs DEF Sound
<1>. DEFINE Of(k) == CHOOSE j \in kept : j.id = k.id
<1>5. \A k \in Keys : t.accounts[k] =
            IF k.as = Plain /\ \E j \in kept : j.id = k.id THEN s.accounts[Of(k)] ELSE NoAccount
  BY <1>4 DEF Respelt, Sound, Store
<1>6. ASSUME NEW k, \E j \in kept : j.id = k.id
      PROVE  Of(k) \in kept /\ Of(k).id = k.id
  BY <1>6
<1>. HIDE DEF Of
<1>7. \A j \in kept : j \in Keys /\ s.accounts[j].there /\ s.accounts[j].name \in Names
  BY <1>2 DEF Present, Sound, Clean
<1>8. Clean(t)
  <2>1. \A k \in Keys : IF t.accounts[k].there THEN t.accounts[k].name \in Names
                        ELSE t.accounts[k] = NoAccount
    BY <1>5, <1>6, <1>7, Absent
  <2>2. \A k \in GroupKeys : ~t.groups[k].there => t.groups[k] = NoGroup
    BY <1>4, Shape DEF IsPlain
  <2>. QED  BY <2>1, <2>2 DEF Clean
<1>9. /\ \A k \in Present(t) : k.as = Plain /\ k \in [id : Names, as : Spellings]
      /\ \A k \in PresentGroups(t) : k.as = Plain /\ k \in [id : Groups, as : Spellings]
  BY <1>4, Shape, Absent DEF IsPlain, Present, PresentGroups, Keys, GroupKeys
<1>10. /\ \A k \in Present(t) : ~Misfit(k, Present(t))
       /\ \A k \in PresentGroups(t) : ~Misfit(k, PresentGroups(t))
  BY <1>9, KeyIs, SpellingsAssumption DEF Misfit
<1>11. ASSUME NEW j \in Present(t), NEW k \in Present(t),
              t.accounts[j].name = t.accounts[k].name
       PROVE  j = k
  <2>1. \A i \in Present(t) : /\ Of(i) \in kept /\ Of(i).id = i.id
                              /\ t.accounts[i] = s.accounts[Of(i)]
    BY <1>5, <1>6, Absent DEF Present
  <2>2. Of(j) = Of(k)
    BY <1>2, <1>11, <2>1 DEF Clash
  <2>. QED  BY <1>9, <2>1, <2>2, KeyIs
<1>. QED  BY <1>4, <1>8, <1>10, <1>11 DEF Sound, Filed, Distinct

\* The file keeps all of a store without clashes, under plain ids.
LEMMA KeepsAll ==
    ASSUME NEW s, Sound(s), Distinct(s), NEW t \in Normalized(s)
    PROVE  t = Plainly(s)
<1>1. PICK kept \in Survivors(s), keptGroups \in GroupSurvivors(s) :
         t = Keep(s, kept, keptGroups)
  BY DEF Normalized
<1>2. \A j, k \in Present(s) : ~Clash(s, j, k)
  BY DEF Clash, Distinct, Misfit
<1>3. Lasting(Present(s)) = Present(s) /\ Lasting(PresentGroups(s)) = PresentGroups(s)
  BY DEF Lasting, Distinct, Misfit
<1>4. kept = Present(s)
  BY <1>2, <1>3 DEF Survivors
<1>5. keptGroups = PresentGroups(s)
  <2>1. /\ keptGroups \subseteq PresentGroups(s)
        /\ \A k \in PresentGroups(s) : \E j \in keptGroups : j.id = k.id
    BY <1>3 DEF GroupSurvivors
  <2>2. \A j, k \in PresentGroups(s) : j.id = k.id => j = k
    BY DEF Distinct, Misfit
  <2>. QED  BY <2>1, <2>2
<1>. QED  BY <1>1, <1>4, <1>5 DEF Plainly

-----------------------------------------------------------------------------
(* Types: what requests and threads may be *)

Labels == {"idle", "load", "read", "lock", "write", "reload", "consume", "done", "killed"}
Kinds  == {"none", "get", "load", "unload", "config", "settings", "keylogin", "password", "own",
           "permissions", "issue", "revoke", "delete", "login", "create", "update", "newgroup",
           "editgroup", "groupperms", "nogroup"}
Looking  == {"none", "get", "load"}
OnGroups == {"newgroup", "editgroup", "groupperms", "nogroup"}
AnyKey   == [id : Names \union {0}, as : Spellings]
Jobs == [kind : Kinds, ref : Names \union {0}, at : AnyKey,
         field : {"none", "name", "pw", "note", "groups"}, name : Names \union {0},
         copy : Account, group : GroupKeys \union {NoJob.group}, of : Group, posted : Store]

\* What a request says fits its kind.
Fit(j) ==
    /\ j.kind = "create" => j.at \in Keys /\ j.name \in Names
    /\ j.kind = "update" => j.field # "none" /\ (j.field = "name" => j.name \in Names)
    /\ j.kind \in OnGroups => j.group \in GroupKeys
    /\ Clean(j.posted) /\ Distinct(j.posted)

\* Where a thread is fits what it does, and what it has seen was there.
PlacedAs(label, j) ==
    /\ label \in {"load", "read", "lock"} => Fit(j)
    /\ label = "load" => j.kind \notin {"none"} \union Unchecked
    /\ label = "read" => j.kind \in TwoSections
    /\ label \in {"lock", "write", "reload"} => j.kind \notin Looking
    /\ label = "lock" /\ j.kind \in {"update", "login"} =>
          j.at \in Keys /\ j.copy.there /\ j.copy.name \in Names
    /\ label = "lock" /\ j.kind = "editgroup" => j.of.there
Placed(p) == PlacedAs(pc[p], job[p])

Shapes == pc \in [Threads -> Labels] /\ job \in [Threads -> Jobs] /\ snap \in [Threads -> Store]

\* User names are distinct and ids fit in the file always, elsewhere until a login has
\* written back an account renamed meanwhile or an id did not fit.
Slipped == stale \/ misfit
Contents ==
    /\ Sound(mem) /\ Sound(file) /\ Filed(file)
    /\ \A p \in Threads : Sound(snap[p])
    /\ ~Slipped => Distinct(mem) /\ \A p \in Threads : Distinct(snap[p])

TInv == TypeOK /\ loaded = made /\ Shapes /\ Contents /\ \A p \in Threads : Placed(p)

LEMMA TFacts ==
    ASSUME TInv
    PROVE  /\ Sound(mem) /\ Sound(file) /\ Filed(file) /\ Distinct(file) /\ book \in Store
           /\ {made, loaded, newer, held, stop, stopping, overlap, stale, misfit, failed}
                 \subseteq BOOLEAN
           /\ loaded = made /\ (~made => mem = Nothing) /\ (~Slipped => Distinct(mem))
           /\ \A p \in Threads :
                 /\ pc[p] \in Labels /\ job[p] \in Jobs /\ snap[p] \in Store /\ Sound(snap[p])
                 /\ snap[p] # Nothing => pc[p] \in {"write", "reload"}
                 /\ ~Slipped => Distinct(snap[p])
BY DEF TInv, TypeOK, Contents, Shapes, Filed

-----------------------------------------------------------------------------
(* What the critical section of a change may do *)

Refused(p)  == Refuse(p)
Panicked(p) == ~made /\ held' = TRUE /\ Goto(p, "consume") /\ UNCHANGED <<mem, job, snap>>
Stored(p, s) ==
    /\ Snapshot(p, s)
    /\ mem' \in {mem, s} /\ (~made => mem' = mem)
    /\ Sound(s) /\ (~Slipped' => Distinct(s))
Outcome(p) ==
    /\ pc[p] = "lock" /\ ~held /\ job[p].kind \notin Looking \union {"unload"}
    /\ \/ Refused(p)
       \/ Panicked(p) /\ job[p].kind \notin Unchecked
       \/ \E s : Stored(p, s)
    /\ stale' \in BOOLEAN /\ (stale => stale') /\ misfit' \in BOOLEAN /\ (misfit => misfit')
    /\ stale' => stale \/ (/\ job[p].kind = "login" /\ made
                          /\ mem.accounts[job[p].at].name # job[p].copy.name)
    /\ Frame

\* Every change but that of a login leaves stale alone.
LEMMA Ends ==
    ASSUME TInv, NEW p \in Threads, pc[p] = "lock", ~held, stale' = stale, Frame,
           misfit' \in BOOLEAN, misfit => misfit',
           job[p].kind \notin Looking \union {"unload"},
           \/ Refuse(p)
           \/ Panicked(p) /\ job[p].kind \notin Unchecked
           \/ \E s : Stored(p, s)
    PROVE  Outcome(p)
<1>1. stale \in BOOLEAN
  BY DEF TInv, TypeOK
<1>. QED  BY <1>1 DEF Outcome, Refused

LEMMA FindsAccounts ==
    ASSUME TInv, NEW ref, NEW k \in Find(ref)
    PROVE  /\ k \in Keys /\ k \in Present(mem) /\ made
           /\ mem.accounts[k] \in Account /\ mem.accounts[k].there
           /\ mem.accounts[k].name \in Names
<1>1. k \in Keys /\ k \in Present(mem) /\ mem.accounts[k].there
  BY DEF Find, Present
<1>2. made
  BY <1>1, NothingIsSound DEF TInv, TypeOK
<1>. QED  BY <1>1, <1>2 DEF TInv, Contents, Sound, Clean, Store

\* An account is replaced by one of the same name.
LEMMA SameNameIsSound ==
    ASSUME TInv, NEW k \in Present(mem), NEW a \in Account, a.there,
           a.name = mem.accounts[k].name
    PROVE  Sound(With(k, a)) /\ (~Slipped => Distinct(With(k, a)))
<1>1. k \in Keys /\ mem.accounts[k].there /\ a.name \in Names /\ Sound(mem)
  BY DEF Present, TInv, Contents, Sound, Clean
<1>2. Distinct(mem) => /\ \A j \in Present(mem) : j # k => mem.accounts[j].name # a.name
                       /\ ~Misfit(k, Present(mem))
  BY DEF Distinct
<1>3. ~Slipped => Distinct(mem)
  BY DEF TInv, Contents
<1>. QED  BY <1>1, <1>2, <1>3, WithIsSound DEF With

\* An assignment.
LEMMA AssignStores ==
    ASSUME NEW p \in Threads, NEW s, Assign(p, s), Sound(s), ~Slipped' => Distinct(s)
    PROVE  Panicked(p) \/ Stored(p, s)
BY DEF Assign, Publish, Panicked, Stored

LEMMA CreateAccountOutcome ==
    ASSUME TInv, NEW p \in Threads, CreateAccount(p)
    PROVE  Outcome(p)
<1>. DEFINE k == job[p].at
            n == job[p].name
            a == [NoAccount EXCEPT !.there = TRUE, !.name = n, !.pw = p]
<1>1. k \in Keys /\ n \in Names /\ pc[p] = "lock" /\ ~held /\ job[p].kind = "create"
  BY DEF CreateAccount, Section, TInv, Placed, PlacedAs, Fit
<1>2. a \in Account /\ a.there /\ a.name = n
  BY <1>1 DEF NoAccount, Account, Values
<1>3. stale' = stale /\ Frame /\ misfit \in BOOLEAN
  BY TFacts DEF CreateAccount
<1>4. CASE Refuse(p) /\ misfit' = misfit
  BY <1>1, <1>3, <1>4, Ends DEF Looking
<1>5. CASE /\ \A j \in Present(mem) : j # k /\ mem.accounts[j].name # n
           /\ Assign(p, With(k, a)) /\ misfit' = (misfit \/ Misfit(k, Present(mem)))
  <2>1. Sound(With(k, a)) /\ (~Slipped' => Distinct(With(k, a)))
    <3>1. ~Slipped' => Distinct(mem) /\ ~Misfit(k, Present(mem))
      BY <1>3, <1>5, TFacts DEF Slipped
    <3>. QED  BY <1>1, <1>2, <1>5, <3>1, TFacts, WithIsSound DEF With
  <2>2. Panicked(p) \/ Stored(p, With(k, a))
    BY <1>3, <1>5, <2>1, AssignStores
  <2>3. misfit' \in BOOLEAN /\ (misfit => misfit')
    BY <1>3, <1>5 DEF Misfit
  <2>. HIDE DEF a
  <2>. QED  BY <1>1, <1>3, <2>2, <2>3, Ends DEF Looking, Unchecked
<1>. QED  BY <1>4, <1>5 DEF CreateAccount

LEMMA UpdateAccountOutcome ==
    ASSUME TInv, NEW p \in Threads, UpdateAccount(p)
    PROVE  Outcome(p)
<1>. DEFINE k == job[p].at
            a == Edited(p)
<1>1. /\ k \in Keys /\ job[p].copy.there /\ job[p].copy.name \in Names /\ job[p].copy \in Account
      /\ job[p].field \in {"name", "pw", "note", "groups"}
      /\ (job[p].field = "name" => job[p].name \in Names)
      /\ pc[p] = "lock" /\ ~held /\ job[p].kind = "update"
  BY DEF UpdateAccount, Section, TInv, Placed, PlacedAs, Fit, Shapes, Jobs
<1>2. a \in Account /\ a.there /\ a.name \in Names
  BY <1>1 DEF Edited, Account, Values
<1>3. stale' = stale /\ Frame /\ misfit \in BOOLEAN
  BY TFacts DEF UpdateAccount
<1>. HIDE DEF a
<1>4. CASE Refuse(p) /\ misfit' = misfit
  BY <1>1, <1>3, <1>4, Ends DEF Looking
<1>5. CASE ~Taken(p) /\ Assign(p, With(k, a)) /\ misfit' = (misfit \/ Misfit(k, Present(mem)))
  <2>1. \A j \in Present(mem) : j # k => mem.accounts[j].name # a.name
    BY <1>5 DEF Taken, a
  <2>2. Sound(With(k, a)) /\ (~Slipped' => Distinct(With(k, a)))
    <3>1. ~Slipped' => Distinct(mem) /\ ~Misfit(k, Present(mem))
      BY <1>3, <1>5, TFacts DEF Slipped
    <3>. QED  BY <1>1, <1>2, <2>1, <3>1, TFacts, WithIsSound DEF With
  <2>3. Panicked(p) \/ Stored(p, With(k, a))
    BY <1>3, <1>5, <2>2, AssignStores
  <2>4. misfit' \in BOOLEAN /\ (misfit => misfit')
    BY <1>3, <1>5 DEF Misfit
  <2>. QED  BY <1>1, <1>3, <2>3, <2>4, Ends DEF Looking, Unchecked
<1>. QED  BY <1>4, <1>5 DEF UpdateAccount, a

\* Changes of an account that is found and keeps its name.
LEMMA ChangeOutcome ==
    ASSUME TInv, NEW p \in Threads, NEW kind \in Kinds, NEW changed, Change(p, kind, changed),
           kind \notin Looking \union {"unload", "login"},
           \A k \in Present(mem) :
              \/ changed[k] = NoAccount
              \/ /\ changed[k] \in Account /\ changed[k].there
                 /\ changed[k].name = mem.accounts[k].name
    PROVE  Outcome(p)
<1>1. /\ pc[p] = "lock" /\ ~held /\ job[p].kind = kind /\ stale' = stale /\ Frame
      /\ misfit' = misfit /\ misfit \in BOOLEAN /\ Slipped' = Slipped
  BY TFacts DEF Change, Section, Slipped
<1>2. CASE Refuse(p)
  BY <1>1, <1>2, Ends
<1>3. CASE \E k \in Find(job[p].ref) : Publish(p, With(k, changed[k]))
  <2>1. PICK k \in Find(job[p].ref) : Publish(p, With(k, changed[k]))
    BY <1>3
  <2>2. k \in Keys /\ k \in Present(mem) /\ made
    BY FindsAccounts
  <2>3. Sound(With(k, changed[k])) /\ (~Slipped => Distinct(With(k, changed[k])))
    <3>1. CASE changed[k] = NoAccount
      BY <2>2, <3>1, Absent, WithIsSound DEF TInv, Contents, With
    <3>2. CASE changed[k] # NoAccount
      BY <2>2, <3>2, SameNameIsSound
    <3>. QED  BY <3>1, <3>2
  <2>4. Stored(p, With(k, changed[k]))
    BY <1>1, <2>1, <2>2, <2>3 DEF Stored, Publish
  <2>. QED  BY <1>1, <2>4, Ends
<1>. QED  BY <1>2, <1>3 DEF Change

LEMMA ChangesOutcome ==
    ASSUME TInv, NEW p \in Threads,
           UpdatePassword(p) \/ UpdatePermissions(p) \/ IssueAPIKey(p) \/ DeleteAccount(p)
    PROVE  Outcome(p)
<1>0. \A k \in Present(mem) : k \in Keys /\ mem.accounts[k] \in Account /\ mem.accounts[k].there
  BY DEF TInv, Contents, Sound, Store, Present
<1>. USE DEF Kinds, Looking
<1>1. CASE UpdatePassword(p)
  <2>. DEFINE changed == [k \in Keys |-> [mem.accounts[k] EXCEPT !.pw = p]]
  <2>1. \A k \in Present(mem) : changed[k] \in Account /\ changed[k].there
                                /\ changed[k].name = mem.accounts[k].name
    BY <1>0 DEF Account, Values
  <2>2. Change(p, "password", changed)
    BY <1>1 DEF UpdatePassword
  <2>. HIDE DEF changed
  <2>. QED  BY <2>1, <2>2, ChangeOutcome
<1>2. CASE UpdatePermissions(p)
  <2>. DEFINE changed == [k \in Keys |-> [mem.accounts[k] EXCEPT !.note = p]]
  <2>1. \A k \in Present(mem) : changed[k] \in Account /\ changed[k].there
                                /\ changed[k].name = mem.accounts[k].name
    BY <1>0 DEF Account, Values
  <2>2. Change(p, "permissions", changed)
    BY <1>2 DEF UpdatePermissions
  <2>. HIDE DEF changed
  <2>. QED  BY <2>1, <2>2, ChangeOutcome
<1>3. CASE IssueAPIKey(p)
  <2>. DEFINE changed == [k \in Keys |-> [mem.accounts[k] EXCEPT !.keys = @ \union {p}]]
  <2>1. \A k \in Present(mem) : changed[k] \in Account /\ changed[k].there
                                /\ changed[k].name = mem.accounts[k].name
    BY <1>0 DEF Account, Values
  <2>2. Change(p, "issue", changed)
    BY <1>3 DEF IssueAPIKey
  <2>. HIDE DEF changed
  <2>. QED  BY <2>1, <2>2, ChangeOutcome
<1>4. CASE DeleteAccount(p)
  <2>. DEFINE changed == [k \in Keys |-> NoAccount]
  <2>1. \A k \in Present(mem) :
           \/ changed[k] = NoAccount
           \/ /\ changed[k] \in Account /\ changed[k].there
              /\ changed[k].name = mem.accounts[k].name
    BY <1>0
  <2>2. Change(p, "delete", changed)
    BY <1>4 DEF DeleteAccount
  <2>. HIDE DEF changed
  <2>. QED  BY <2>1, <2>2, ChangeOutcome
<1>. QED  BY <1>1, <1>2, <1>3, <1>4

LEMMA APIKeyOutcomes ==
    ASSUME TInv, NEW p \in Threads, DeleteAPIKey(p) \/ VerifyAPIKey(p)
    PROVE  Outcome(p)
<1>1. /\ pc[p] = "lock" /\ ~held /\ job[p].kind \in {"revoke", "keylogin"}
      /\ stale' = stale /\ Frame /\ misfit' = misfit /\ misfit \in BOOLEAN /\ Slipped' = Slipped
  BY TFacts DEF DeleteAPIKey, VerifyAPIKey, Section, Slipped
<1>2. CASE Refuse(p)
  BY <1>1, <1>2, Ends DEF Looking
<1>3. CASE \E k \in Find(job[p].ref) : \E key \in mem.accounts[k].keys :
              Publish(p, [mem EXCEPT !.accounts[k].keys = @ \ {key}])
  <2>0. PICK k \in Find(job[p].ref) : \E key \in mem.accounts[k].keys :
              Publish(p, [mem EXCEPT !.accounts[k].keys = @ \ {key}])
    BY <1>3
  <2>1. PICK key \in mem.accounts[k].keys :
              Publish(p, [mem EXCEPT !.accounts[k].keys = @ \ {key}])
    BY <2>0
  <2>. DEFINE a == [mem.accounts[k] EXCEPT !.keys = @ \ {key}]
  <2>2. k \in Present(mem) /\ made /\ mem.accounts[k] \in Account /\ mem.accounts[k].there
    BY FindsAccounts
  <2>3. a \in Account /\ a.there /\ a.name = mem.accounts[k].name
    BY <2>2 DEF Account
  <2>4. Publish(p, With(k, a))
    BY <2>1 DEF With
  <2>. HIDE DEF a
  <2>5. Sound(With(k, a)) /\ (~Slipped => Distinct(With(k, a)))
    BY <2>2, <2>3, SameNameIsSound
  <2>6. Stored(p, With(k, a))
    BY <1>1, <2>2, <2>4, <2>5 DEF Stored, Publish
  <2>. QED  BY <1>1, <2>6, Ends DEF Looking
<1>4. CASE Publish(p, mem)
  <2>1. Stored(p, mem)
    BY <1>1, <1>4 DEF Stored, Publish, TInv, Contents
  <2>. QED  BY <1>1, <2>1, Ends DEF Looking
<1>. QED  BY <1>2, <1>3, <1>4 DEF DeleteAPIKey, VerifyAPIKey

\* A login that writes back a name the account no longer has is stale.
LEMMA PersistAccountOutcome ==
    ASSUME TInv, NEW p \in Threads, PersistAccount(p)
    PROVE  Outcome(p)
<1>. DEFINE k == job[p].at
            a == job[p].copy
<1>1. /\ k \in Keys /\ a \in Account /\ a.there /\ a.name \in Names
      /\ pc[p] = "lock" /\ ~held /\ job[p].kind = "login"
  BY DEF PersistAccount, Section, TInv, Placed, PlacedAs, Shapes, Jobs
<1>2. /\ Assign(p, With(k, a)) /\ Frame /\ misfit' = misfit /\ misfit \in BOOLEAN
      /\ stale' = (stale \/ (made /\ mem.accounts[k].name # a.name))
  BY TFacts DEF PersistAccount
<1>3. Sound(With(k, a))
  BY <1>1, WithIsSound DEF TInv, Contents, With
<1>4. ASSUME ~Slipped', made PROVE Distinct(With(k, a))
  <2>1. ~Slipped /\ mem.accounts[k].name = a.name
    BY <1>2, <1>4 DEF Slipped
  <2>2. k \in Present(mem)
    BY <1>1, <2>1, Absent DEF TInv, Contents, Sound, Clean, Present
  <2>. QED  BY <1>1, <2>1, <2>2, SameNameIsSound
<1>5. Panicked(p) \/ Stored(p, With(k, a))
  BY <1>2, <1>3, <1>4 DEF Assign, Publish, Panicked, Stored
<1>. HIDE DEF k, a
<1>. QED  BY <1>1, <1>2, <1>5 DEF Outcome, Looking, Unchecked, k, a

LEMMA FindsGroups ==
    ASSUME TInv, NEW id, NEW g \in FindGroup(id)
    PROVE  /\ g \in GroupKeys /\ g \in PresentGroups(mem) /\ made
           /\ mem.groups[g] \in Group /\ mem.groups[g].there
           /\ ~Slipped => ~Misfit(g, PresentGroups(mem))
<1>1. g \in GroupKeys /\ g \in PresentGroups(mem) /\ mem.groups[g].there
  BY DEF FindGroup, PresentGroups
<1>2. made
  BY <1>1, NothingIsSound DEF TInv, TypeOK
<1>. QED  BY <1>1, <1>2 DEF TInv, Contents, Sound, Distinct, Store

\* A group is put where the request says, which its id may not fit.
LEMMA AssignGroupOutcome ==
    ASSUME TInv, NEW p \in Threads, NEW x \in Group, x.there,
           pc[p] = "lock", ~held, job[p].kind \in OnGroups, stale' = stale, Frame,
           Assign(p, WithGroup(job[p].group, x)),
           misfit' = (misfit \/ Misfit(job[p].group, PresentGroups(mem)))
    PROVE  Outcome(p)
<1>. DEFINE g == job[p].group
<1>1. g \in GroupKeys
  BY DEF TInv, Placed, PlacedAs, Fit
<1>2. ~Slipped' => Distinct(mem) /\ ~Misfit(g, PresentGroups(mem))
  BY TFacts DEF Slipped
<1>3. Sound(WithGroup(g, x)) /\ (~Slipped' => Distinct(WithGroup(g, x)))
  BY <1>1, <1>2, TFacts, WithGroupIsSound DEF WithGroup
<1>4. Panicked(p) \/ Stored(p, WithGroup(g, x))
  BY <1>3, AssignStores
<1>5. misfit' \in BOOLEAN /\ (misfit => misfit')
  BY TFacts DEF Misfit
<1>. HIDE DEF g
<1>. QED  BY <1>4, <1>5, Ends DEF Looking, Unchecked, OnGroups

LEMMA PermissionsOutcome ==
    ASSUME TInv, NEW p \in Threads, UpdateGroupPermissions(p)
    PROVE  Outcome(p)
<1>1. /\ pc[p] = "lock" /\ ~held /\ job[p].kind = "groupperms" /\ stale' = stale /\ Frame
      /\ misfit' = misfit /\ misfit \in BOOLEAN /\ Slipped' = Slipped
  BY TFacts DEF UpdateGroupPermissions, Section, Slipped
<1>2. CASE Refuse(p)
  BY <1>1, <1>2, Ends DEF Looking
<1>3. ASSUME NEW g \in FindGroup(job[p].group.id),
             Publish(p, [mem EXCEPT !.groups[g].perms = p])
      PROVE  Outcome(p)
  <2>. DEFINE x == [mem.groups[g] EXCEPT !.perms = p]
              s == [mem EXCEPT !.groups[g] = x]
  <2>1. g \in GroupKeys /\ made /\ mem.groups[g] \in Group /\ mem.groups[g].there
        /\ (~Slipped => ~Misfit(g, PresentGroups(mem)))
    BY FindsGroups
  <2>2. x \in Group /\ x.there /\ Publish(p, s)
    BY <1>3, <2>1 DEF Group, Values
  <2>. HIDE DEF x
  <2>3. Sound(s) /\ (~Slipped => Distinct(s))
    BY <2>1, <2>2, TFacts, WithGroupIsSound
  <2>. HIDE DEF s
  <2>4. Stored(p, s)
    BY <1>1, <2>1, <2>2, <2>3 DEF Stored, Publish
  <2>. QED  BY <1>1, <2>4, Ends DEF Looking
<1>. QED  BY <1>2, <1>3 DEF UpdateGroupPermissions

LEMMA DeleteGroupOutcome ==
    ASSUME TInv, NEW p \in Threads, DeleteGroup(p)
    PROVE  Outcome(p)
<1>1. /\ pc[p] = "lock" /\ ~held /\ job[p].kind = "nogroup" /\ stale' = stale /\ Frame
      /\ misfit' = misfit /\ misfit \in BOOLEAN /\ Slipped' = Slipped
  BY TFacts DEF DeleteGroup, Section, Slipped
<1>2. CASE Refuse(p)
  BY <1>1, <1>2, Ends DEF Looking
<1>3. ASSUME NEW g \in FindGroup(job[p].group.id),
             Publish(p, [mem EXCEPT
                !.groups[g] = NoGroup,
                !.accounts = [k \in Keys |->
                    [mem.accounts[k] EXCEPT !.groups = @ \ {h.id : h \in Lasting({g})}]]])
      PROVE  Outcome(p)
  <2>. DEFINE gone == {h.id : h \in Lasting({g})}
              accounts == [k \in Keys |-> [mem.accounts[k] EXCEPT !.groups = @ \ gone]]
              t == [mem EXCEPT !.groups[g] = NoGroup]
              s == [mem EXCEPT !.groups[g] = NoGroup, !.accounts = accounts]
  <2>1. g \in GroupKeys /\ made
    BY FindsGroups
  <2>2. Publish(p, s)
    BY <1>3
  <2>. HIDE DEF gone
  <2>3. Sound(t) /\ (~Slipped => Distinct(t)) /\ t.accounts = mem.accounts
    BY <2>1, TFacts, Absent, WithGroupIsSound DEF Sound, Store
  <2>4. \A k \in Keys : mem.accounts[k] \in Account
    BY TFacts DEF Sound, Store
  <2>5. accounts \in [Keys -> Account]
    BY <2>4 DEF Account
  <2>6. s = [t EXCEPT !.accounts = accounts]
    OBVIOUS
  <2>7. \A k \in Keys : IF mem.accounts[k].there
                        THEN accounts[k].there /\ accounts[k].name = mem.accounts[k].name
                        ELSE accounts[k] = NoAccount
    <3>1. \A k \in Keys : accounts[k].there = mem.accounts[k].there
                          /\ accounts[k].name = mem.accounts[k].name
      BY <2>4 DEF Account
    <3>2. NoAccount.groups \ gone = NoAccount.groups /\ NoAccount \in Account
      BY Absent DEF NoAccount
    <3>3. [NoAccount EXCEPT !.groups = @ \ gone] = NoAccount
      BY <3>2 DEF Account
    <3>. QED  BY TFacts, <3>1, <3>3 DEF Sound, Clean
  <2>. HIDE DEF accounts, t
  <2>8. s \in Store /\ s.accounts = accounts /\ s.groups = t.groups
    BY <2>3, <2>5, <2>6 DEF Sound, Store
  <2>. HIDE DEF s
  <2>9. Sound(s) /\ (~Slipped => Distinct(s))
    BY <2>3, <2>7, <2>8, SameNames
  <2>10. Stored(p, s)
    BY <1>1, <2>1, <2>2, <2>9 DEF Stored, Publish
  <2>. QED  BY <1>1, <2>10, Ends DEF Looking
<1>. QED  BY <1>2, <1>3 DEF DeleteGroup

LEMMA GroupOutcomes ==
    ASSUME TInv, NEW p \in Threads, GroupNext(p)
    PROVE  Outcome(p)
<1>1. CASE CreateGroup(p)
  <2>. DEFINE x == [there |-> TRUE, note |-> p, perms |-> p]
  <2>1. /\ pc[p] = "lock" /\ ~held /\ job[p].kind = "newgroup" /\ stale' = stale /\ Frame
        /\ misfit \in BOOLEAN
    BY <1>1, TFacts DEF CreateGroup, Section
  <2>2. CASE Refuse(p) /\ misfit' = misfit
    BY <2>1, <2>2, Ends DEF Looking
  <2>3. x \in Group /\ x.there
    BY DEF Group, Values
  <2>4. CASE /\ Assign(p, WithGroup(job[p].group, x))
             /\ misfit' = (misfit \/ Misfit(job[p].group, PresentGroups(mem)))
    <3>. HIDE DEF x
    <3>. QED  BY <2>1, <2>3, <2>4, AssignGroupOutcome DEF OnGroups
  <2>. QED  BY <1>1, <2>2, <2>4 DEF CreateGroup
<1>2. CASE UpdateGroup(p)
  <2>. DEFINE x == [job[p].of EXCEPT !.note = p]
  <2>1. /\ pc[p] = "lock" /\ ~held /\ job[p].kind = "editgroup" /\ stale' = stale /\ Frame
        /\ Assign(p, WithGroup(job[p].group, x))
        /\ misfit' = (misfit \/ Misfit(job[p].group, PresentGroups(mem)))
    BY <1>2 DEF UpdateGroup, Section
  <2>2. job[p].of \in Group /\ job[p].of.there
    BY <2>1, TFacts DEF Jobs, TInv, Placed, PlacedAs
  <2>3. x \in Group /\ x.there
    BY <2>2 DEF Group, Values
  <2>. HIDE DEF x
  <2>. QED  BY <2>1, <2>3, AssignGroupOutcome DEF OnGroups
<1>. QED  BY <1>1, <1>2, PermissionsOutcome, DeleteGroupOutcome DEF GroupNext

LEMMA SettingsOutcome ==
    ASSUME TInv, NEW p \in Threads, UpdateSettings(p)
    PROVE  Outcome(p)
<1>. DEFINE s == [mem EXCEPT !.mcp = p]
<1>1. /\ pc[p] = "lock" /\ ~held /\ job[p].kind = "settings" /\ stale' = stale /\ mem' = mem
      /\ Frame /\ Snapshot(p, s)
      /\ misfit' = misfit /\ misfit \in BOOLEAN /\ Slipped' = Slipped
  BY TFacts DEF UpdateSettings, Section, Slipped
<1>2. Sound(mem) /\ s \in Store /\ s.accounts = mem.accounts /\ s.groups = mem.groups
  BY DEF TInv, Contents, Sound, Store, Values
<1>3. Sound(s) /\ (~Slipped => Distinct(s))
  BY <1>2, SameContents DEF TInv, Contents
<1>4. Stored(p, s)
  BY <1>1, <1>3 DEF Stored
<1>. QED  BY <1>1, <1>4, Ends DEF Looking

\* A posted configuration takes what it does not show from the account found last.
LEMMA MergedIsSound ==
    ASSUME TInv, NEW posted \in Store, Clean(posted), Distinct(posted)
    PROVE  Sound(Merged(posted)) /\ Distinct(Merged(posted))
<1>. DEFINE Last(old) == CHOOSE j \in old : \A i \in old :
                            mem.accounts[i].name <= mem.accounts[j].name
            Taken1(k) == [posted.accounts[k] EXCEPT
                    !.pw = IF @ = Blank THEN mem.accounts[Last(Find(k.id))].pw ELSE @,
                    !.groups = IF @ = {} THEN mem.accounts[Last(Find(k.id))].groups ELSE @]
            accounts == [k \in Keys |->
                           IF ~posted.accounts[k].there \/ Find(k.id) = {} THEN posted.accounts[k]
                           ELSE Taken1(k)]
<1>1. Merged(posted) = [posted EXCEPT !.accounts = accounts]
  BY DEF Merged
<1>2. ASSUME NEW ref, Find(ref) # {}
      PROVE  Last(Find(ref)) \in Find(ref)
  <2>. DEFINE S == {mem.accounts[j].name : j \in Find(ref)}
  <2>1. S \subseteq Names /\ S # {}
    BY <1>2, FindsAccounts
  <2>2. S \in SUBSET Nat /\ IsFiniteSet(S)
    BY <2>1, NamesAssumption, FS_Subset
  <2>3. PICK n \in S : \A m \in S : m <= n
    BY <2>1, <2>2, Greatest
  <2>. QED  BY <2>3
<1>. HIDE DEF Last
<1>3. ASSUME NEW k \in Keys
      PROVE  /\ accounts[k] \in Account
             /\ IF posted.accounts[k].there
                THEN accounts[k].there /\ accounts[k].name = posted.accounts[k].name
                ELSE accounts[k] = NoAccount
  <2>1. posted.accounts[k] \in Account
    BY DEF Store
  <2>2. CASE ~posted.accounts[k].there \/ Find(k.id) = {}
    BY <2>1, <2>2 DEF Clean
  <2>3. CASE posted.accounts[k].there /\ Find(k.id) # {}
    <3>1. mem.accounts[Last(Find(k.id))] \in Account
      BY <1>2, <2>3, FindsAccounts
    <3>2. Taken1(k) \in Account /\ Taken1(k).there /\ Taken1(k).name = posted.accounts[k].name
      BY <2>1, <2>3, <3>1 DEF Account, Values
    <3>3. accounts[k] = Taken1(k)
      BY <2>3
    <3>. HIDE DEF accounts, Taken1
    <3>. QED  BY <2>3, <3>2, <3>3
  <2>. QED  BY <2>2, <2>3
<1>4. accounts \in [Keys -> Account]
  <2>1. accounts = [k \in Keys |-> accounts[k]]
    OBVIOUS
  <2>. HIDE DEF accounts
  <2>. QED  BY <1>3, <2>1
<1>. HIDE DEF accounts
<1>5. /\ Merged(posted) \in Store /\ Merged(posted).accounts = accounts
      /\ Merged(posted).groups = posted.groups
  BY <1>1, <1>4 DEF Store
<1>. QED  BY <1>3, <1>5, SameNames DEF Sound

LEMMA PutConfigOutcome ==
    ASSUME TInv, NEW p \in Threads, PutConfig(p)
    PROVE  Outcome(p)
<1>1. /\ pc[p] = "lock" /\ ~held /\ job[p].kind = "config" /\ stale' = stale /\ mem' = mem
      /\ Frame /\ Snapshot(p, Merged(job[p].posted)) /\ misfit' = misfit /\ misfit \in BOOLEAN
  BY TFacts DEF PutConfig, Section
<1>2. job[p].posted \in Store /\ Clean(job[p].posted) /\ Distinct(job[p].posted)
  BY <1>1 DEF TInv, Shapes, Jobs, Placed, PlacedAs, Fit
<1>3. Sound(Merged(job[p].posted)) /\ Distinct(Merged(job[p].posted))
  BY <1>2, MergedIsSound
<1>4. Stored(p, Merged(job[p].posted))
  BY <1>1, <1>3 DEF Stored
<1>. QED  BY <1>1, <1>4, Ends DEF Looking

\* Every change refuses, panics or stores.
LEMMA Outcomes ==
    ASSUME TInv, NEW p \in Threads,
           AccountNext(p) \/ GroupNext(p) \/ UpdateSettings(p) \/ PutConfig(p)
    PROVE  Outcome(p)
BY CreateAccountOutcome, UpdateAccountOutcome, ChangesOutcome, APIKeyOutcomes,
   PersistAccountOutcome, GroupOutcomes, SettingsOutcome, PutConfigOutcome DEF AccountNext

-----------------------------------------------------------------------------
(* Types are kept *)

LEMMA NoJobIsAJob ==
    /\ NoJob \in Jobs /\ NoJob.kind = "none"
    /\ \A kind \in Kinds : Request(kind) \in Jobs /\ Request(kind).kind = kind
    /\ Clean(NoJob.posted) /\ Distinct(NoJob.posted)
<1>1. NoAccount \in Account /\ NoGroup \in Group /\ Nothing \in Store
      /\ Clean(Nothing) /\ Distinct(Nothing)
  BY NothingIsSound DEF NoAccount, NoGroup, Account, Group, Values, Sound
<1>2. PlainKey(0) \in AnyKey
  BY SpellingsAssumption DEF PlainKey, AnyKey
<1>3. NoJob \in Jobs /\ NoJob.kind = "none" /\ NoJob.posted = Nothing
  <2>. DEFINE g == PlainKey(CHOOSE g \in Groups : TRUE)
  <2>1. NoJob = [kind |-> "none", ref |-> 0, at |-> PlainKey(0), field |-> "none", name |-> 0,
                 copy |-> NoAccount, group |-> g, of |-> NoGroup, posted |-> Nothing]
    BY DEF NoJob
  <2>. HIDE DEF g
  <2>2. NoJob.group = g
    BY <2>1
  <2>. QED  BY <1>1, <1>2, <2>1, <2>2 DEF Jobs, Kinds
<1>4. \A kind \in Kinds : Request(kind) \in Jobs /\ Request(kind).kind = kind
  BY <1>3 DEF Request, Jobs
<1>. QED  BY <1>1, <1>3, <1>4

\* What everybody may see of the store is a store.
LEMMA PublicIsSound ==
    ASSUME NEW s, Sound(s), Distinct(s)
    PROVE  Sound(Public(s)) /\ Distinct(Public(s))
<1>. DEFINE shown == [k \in Keys |-> [s.accounts[k] EXCEPT !.pw = Blank, !.keys = {}]]
<1>1. \A k \in Keys : s.accounts[k] \in Account
  BY DEF Sound, Store
<1>2. \A k \in Keys : shown[k] \in Account /\ shown[k].there = s.accounts[k].there
                      /\ shown[k].name = s.accounts[k].name
  BY <1>1 DEF Account, Values
<1>3. NoAccount \in Account /\ NoAccount.pw = Blank /\ NoAccount.keys = {}
  BY DEF NoAccount, Account, Values
<1>4. [NoAccount EXCEPT !.pw = Blank, !.keys = {}] = NoAccount
  <2>. DEFINE a == [NoAccount EXCEPT !.pw = Blank, !.keys = {}]
  <2>1. /\ a \in Account /\ a.there = NoAccount.there /\ a.name = NoAccount.name
        /\ a.pw = NoAccount.pw /\ a.note = NoAccount.note /\ a.keys = NoAccount.keys
        /\ a.groups = NoAccount.groups
    BY <1>3 DEF Account, Values
  <2>. HIDE DEF a
  <2>. QED  BY <1>3, <2>1 DEF Account
<1>5. \A k \in Keys : s.accounts[k] = NoAccount => shown[k] = NoAccount
  BY <1>4
<1>6. shown \in [Keys -> Account]
  BY <1>2
<1>. HIDE DEF shown
<1>7. Public(s) \in Store /\ Public(s).accounts = shown /\ Public(s).groups = s.groups
  BY <1>6 DEF Public, Sound, Store, shown
<1>. QED  BY <1>2, <1>5, <1>7, SameNames DEF Sound, Clean

\* A request is what its kind needs.
Good(request) == request \in Jobs /\ Fit(request) /\ request.kind # "none"
LEMMA RequestsFit ==
    ASSUME TInv, NEW request \in Requests
    PROVE  Good(request)
<1>0. /\ NoJob \in Jobs /\ NoJob.kind = "none" /\ NoJob.field = "none"
      /\ Clean(NoJob.posted) /\ Distinct(NoJob.posted)
  BY NoJobIsAJob DEF NoJob
<1>1. ASSUME NEW kind \in Kinds, NEW ref \in Names \union {0}
      PROVE  /\ About(kind, ref) \in Jobs /\ About(kind, ref).kind = kind
             /\ About(kind, ref).posted = NoJob.posted /\ About(kind, ref).field = "none"
  BY <1>0 DEF About, Jobs
<1>2. \A kind \in {"get", "load", "unload", "settings", "keylogin"} : Good(Request(kind))
  BY <1>0 DEF Request, Jobs, Kinds, Fit, OnGroups, Good
<1>3. \A kind \in {"password", "own", "permissions", "issue", "revoke", "delete", "login"},
         ref \in Names : Good(About(kind, ref))
  BY <1>0, <1>1 DEF Kinds, Fit, OnGroups, Good
<1>4. ASSUME NEW n \in Names, NEW k \in Keys
      PROVE  Good(Creation(n, k))
  <2>1. About("create", n) \in Jobs /\ About("create", n).kind = "create"
        /\ About("create", n).posted = NoJob.posted
    BY <1>1 DEF Kinds
  <2>2. k \in AnyKey
    BY DEF Keys, AnyKey
  <2>. QED  BY <1>0, <2>1, <2>2 DEF Jobs, Fit, OnGroups, Good, Creation
<1>5. ASSUME NEW field \in {"name", "pw", "note", "groups"}, NEW ref \in Names
      PROVE  /\ Edit(ref, field) \in Jobs /\ Edit(ref, field).kind = "update"
             /\ Edit(ref, field).posted = NoJob.posted /\ Edit(ref, field).field = field
  <2>1. About("update", ref) \in Jobs /\ About("update", ref).kind = "update"
        /\ About("update", ref).posted = NoJob.posted
    BY <1>1 DEF Kinds
  <2>. QED  BY <1>0, <2>1 DEF Jobs, Edit
<1>6. ASSUME NEW ref \in Names, NEW field \in {"pw", "note", "groups"}
      PROVE  Good(Edit(ref, field))
  BY <1>0, <1>5 DEF Fit, OnGroups, Good
<1>7. ASSUME NEW ref \in Names, NEW n \in Names
      PROVE  Good(Renaming(ref, n))
  BY <1>0, <1>5 DEF Jobs, Fit, OnGroups, Good, Renaming
<1>8. ASSUME NEW kind \in OnGroups, NEW g \in GroupKeys
      PROVE  Good(AboutGroup(kind, g))
  BY <1>0 DEF Jobs, Fit, OnGroups, Kinds, Good, AboutGroup
<1>9. Good([Request("config") EXCEPT !.posted = Public(file)])
  <2>1. Public(file) \in Store /\ Clean(Public(file)) /\ Distinct(Public(file))
    BY PublicIsSound DEF TInv, Contents, Sound, Filed
  <2>2. Request("config") \in Jobs /\ Request("config").kind = "config"
    BY NoJobIsAJob DEF Kinds
  <2>. QED  BY <2>1, <2>2 DEF Jobs, Fit, OnGroups, Good
<1>10. CASE request \in {Request(kind) : kind \in {"get", "load", "unload", "settings", "keylogin"}}
  BY <1>2, <1>10, Zenon
<1>11. CASE request \in {About(kind, ref) :
               kind \in {"password", "own", "permissions", "issue", "revoke", "delete", "login"},
               ref \in Names}
  BY <1>3, <1>11
<1>12. CASE request \in {Creation(n, k) : n \in Names, k \in Keys}
  BY <1>4, <1>12
<1>13. CASE request \in {Edit(ref, field) : ref \in Names, field \in {"pw", "note", "groups"}}
  BY <1>6, <1>13
<1>14. CASE request \in {Renaming(ref, n) : ref, n \in Names}
  BY <1>7, <1>14
<1>15. CASE \/ request \in {AboutGroup("newgroup", k) : k \in GroupKeys}
            \/ request \in {AboutGroup(kind, PlainKey(g)) :
                  kind \in {"editgroup", "groupperms", "nogroup"}, g \in Groups}
  <2>1. \A g \in Groups : PlainKey(g) \in GroupKeys
    BY SpellingsAssumption DEF PlainKey, GroupKeys
  <2>. QED  BY <1>8, <1>15, <2>1 DEF OnGroups
<1>16. CASE request = [Request("config") EXCEPT !.posted = Public(file)]
  BY <1>9, <1>16
<1>. QED  BY <1>10, <1>11, <1>12, <1>13, <1>14, <1>15, <1>16 DEF Requests

\* A step of one thread leaves the others where they are.
Only(p) ==
    /\ Shapes'
    /\ \A q \in Threads \ {p} : pc'[q] = pc[q] /\ job'[q] = job[q] /\ snap'[q] = snap[q]

LEMMA OnlyOne ==
    ASSUME Shapes, NEW p \in Threads, NEW label \in Labels, NEW j \in Jobs, NEW s \in Store,
           Goto(p, label),
           job' = [job EXCEPT ![p] = j] \/ (job' = job /\ j = job[p]),
           snap' = [snap EXCEPT ![p] = s] \/ (snap' = snap /\ s = snap[p])
    PROVE  Only(p) /\ pc'[p] = label /\ job'[p] = j /\ snap'[p] = s
<1>1. pc' \in [Threads -> Labels] /\ pc'[p] = label
      /\ \A q \in Threads \ {p} : pc'[q] = pc[q]
  BY DEF Shapes, Goto
<1>2. job' \in [Threads -> Jobs] /\ job'[p] = j /\ \A q \in Threads \ {p} : job'[q] = job[q]
  BY DEF Shapes
<1>3. snap' \in [Threads -> Store] /\ snap'[p] = s /\ \A q \in Threads \ {p} : snap'[q] = snap[q]
  BY DEF Shapes
<1>. QED  BY <1>1, <1>2, <1>3 DEF Only, Shapes

LEMMA Watched ==
    ASSUME Watch PROVE overlap' \in BOOLEAN
BY DEF Watch

\* What a step of one thread has to see to.
LEMMA TStep ==
    ASSUME TInv, NEW p \in Threads, Only(p), Placed(p)',
           Sound(mem'), Sound(file'), Filed(file'), book' \in Store,
           {made', loaded', newer', held', stop', stopping', overlap', stale', misfit', failed'}
              \subseteq BOOLEAN,
           boots' = boots, loaded' = made', ~made' => mem' = Nothing, Slipped => Slipped',
           Sound(snap'[p]), snap'[p] # Nothing => pc'[p] \in {"write", "reload"},
           ~Slipped' => Distinct(mem') /\ Distinct(snap'[p])
    PROVE  TInv'
<1>1. \A q \in Threads \ {p} : pc'[q] = pc[q] /\ job'[q] = job[q] /\ snap'[q] = snap[q]
  BY DEF Only
<1>2. TypeOK'
  <2>1. mem' \in Store /\ file' \in Store /\ book' \in Store
    BY DEF Sound
  <2>2. \A q \in Threads : pc'[q] \in Labels /\ snap'[q] \in Store
    BY DEF Only, Shapes
  <2>3. \A q \in Threads : snap'[q] # Nothing => pc'[q] \in {"write", "reload"}
    BY <1>1 DEF TInv, TypeOK
  <2>4. boots' \in 0 .. MaxBoots
    BY DEF TInv, TypeOK
  <2>. QED  BY <2>1, <2>2, <2>3, <2>4 DEF TypeOK, Labels
<1>3. Shapes'
  BY DEF Only
<1>4. Contents'
  <2>1. \A q \in Threads : Sound(snap'[q])
    BY <1>1 DEF TInv, Contents
  <2>2. ~Slipped' => \A q \in Threads : Distinct(snap'[q])
    BY <1>1 DEF TInv, Contents
  <2>. QED  BY <2>1, <2>2 DEF Contents
<1>5. \A q \in Threads : Placed(q)'
  BY <1>1 DEF TInv, Placed
<1>. QED  BY <1>2, <1>3, <1>4, <1>5 DEF TInv

LEMMA BeginKeepsTypes ==
    ASSUME TInv, NEW p \in Threads, NEW request \in Requests, Begin(p, request)
    PROVE  TInv'
<1>1. Good(request) /\ request \in Jobs
  BY RequestsFit DEF Good
<1>. DEFINE label == IF request.kind \in Unchecked THEN "lock" ELSE "load"
<1>2. label \in Labels /\ Goto(p, label) /\ job' = [job EXCEPT ![p] = request] /\ snap' = snap
      /\ pc[p] = "idle"
  BY DEF Labels, Begin
<1>3. Only(p) /\ pc'[p] = label /\ job'[p] = request /\ snap'[p] = snap[p]
  BY <1>1, <1>2, TFacts, OnlyOne DEF TInv
<1>4. Placed(p)'
  <2>1. PlacedAs(label, request)
    BY <1>1 DEF PlacedAs, Good, Unchecked, Looking
  <2>. HIDE DEF label
  <2>. QED  BY <1>3, <2>1 DEF Placed
<1>5. snap[p] = Nothing
  BY <1>2, TFacts
<1>6. UNCHANGED <<mem, file, book, made, loaded, newer, held, stop, stopping, stale, misfit,
                  failed, boots>>
      /\ overlap' \in BOOLEAN
  BY Watched DEF Begin, memVars, runVars
<1>. HIDE DEF label
<1>. QED  BY <1>3, <1>4, <1>5, <1>6, TFacts, TStep DEF Slipped

LEMMA LoadConfigKeepsTypes ==
    ASSUME TInv, NEW force \in BOOLEAN, LoadConfig(force)
    PROVE  /\ Sound(mem') /\ {made', loaded', newer'} \subseteq BOOLEAN /\ loaded' = made' /\ made'
           /\ (~Slipped => Distinct(mem'))
<1>1. CASE ReadConfig
  BY <1>1, TFacts DEF ReadConfig
<1>2. CASE loaded /\ UNCHANGED memVars
  BY <1>2, TFacts DEF memVars
<1>. QED  BY <1>1, <1>2 DEF LoadConfig

LEMMA LoadKeepsTypes ==
    ASSUME TInv, NEW p \in Threads, Load(p)
    PROVE  TInv'
<1>. DEFINE label == CASE job[p].kind \in {"get", "load"} -> "consume"
                       [] job[p].kind \in TwoSections     -> "read"
                       [] OTHER                           -> "lock"
<1>1. pc[p] = "load" /\ Goto(p, label) /\ job' = job /\ snap' = snap
  BY DEF Load
<1>2. label \in Labels
  <2>1. label \in {"consume", "read", "lock"}
    BY DEF TwoSections
  <2>. QED  BY <2>1 DEF Labels
<1>3. Only(p) /\ pc'[p] = label /\ job'[p] = job[p] /\ snap'[p] = snap[p]
  BY <1>1, <1>2, TFacts, OnlyOne DEF TInv
<1>4. Placed(p)'
  <2>1. Fit(job[p]) /\ job[p].kind # "none"
    BY <1>1 DEF TInv, Placed, PlacedAs
  <2>2. PlacedAs(label, job[p])
    <3>1. CASE job[p].kind \in {"get", "load"}
      <4>1. label = "consume"
        BY <3>1 DEF TwoSections
      <4>. QED  BY <4>1 DEF PlacedAs
    <3>2. CASE job[p].kind \in TwoSections
      <4>1. label = "read"
        BY <3>2 DEF TwoSections
      <4>. QED  BY <2>1, <3>2, <4>1 DEF PlacedAs
    <3>3. CASE job[p].kind \notin {"get", "load"} \union TwoSections
      <4>1. label = "lock"
        BY <3>3
      <4>. QED  BY <2>1, <3>3, <4>1 DEF PlacedAs, TwoSections, Looking
    <3>. QED  BY <3>1, <3>2, <3>3
  <2>. HIDE DEF label
  <2>. QED  BY <1>3, <2>2 DEF Placed
<1>5. snap[p] = Nothing
  BY <1>1, TFacts
<1>6. UNCHANGED <<file, book, held, stop, stopping, stale, misfit, failed, boots>>
      /\ overlap' \in BOOLEAN
  BY Watched DEF Load, runVars
<1>7. /\ Sound(mem') /\ {made', loaded', newer'} \subseteq BOOLEAN /\ loaded' = made' /\ made'
      /\ (~Slipped => Distinct(mem'))
  BY LoadConfigKeepsTypes DEF Load
<1>. HIDE DEF label
<1>. QED  BY <1>3, <1>4, <1>5, <1>6, <1>7, TFacts, TStep DEF Slipped

\* The first section of an update changes where it is and what it has seen.
LEMMA FirstKeepsTypes ==
    ASSUME TInv, NEW p \in Threads, NEW label \in {"lock", "consume"}, NEW j \in Jobs,
           pc[p] = "read", FirstFrame, Goto(p, label), PlacedAs(label, j),
           job' = [job EXCEPT ![p] = j] \/ (job' = job /\ j = job[p])
    PROVE  TInv'
<1>1. UNCHANGED <<mem, file, book, made, loaded, newer, held, stop, stopping, stale, misfit,
                  failed, boots, snap>>
      /\ overlap' \in BOOLEAN
  BY Watched DEF FirstFrame, memVars, runVars
<1>2. Only(p) /\ pc'[p] = label /\ job'[p] = j /\ snap'[p] = snap[p]
  BY <1>1, TFacts, OnlyOne DEF TInv, Labels
<1>3. Placed(p)'
  BY <1>2 DEF Placed
<1>4. snap[p] = Nothing
  BY TFacts
<1>. QED  BY <1>1, <1>2, <1>3, <1>4, TFacts, TStep DEF Slipped

LEMMA ReadsKeepTypes ==
    ASSUME TInv, NEW p \in Threads,
           ReadForUpdate(p) \/ CheckOwnPassword(p) \/ CheckCredentials(p) \/ ReadGroup(p)
    PROVE  TInv'
<1>1. /\ pc[p] = "read" /\ FirstFrame /\ Fit(job[p]) /\ job[p] \in Jobs
      /\ job[p].kind \in TwoSections
  BY TFacts DEF ReadForUpdate, CheckOwnPassword, CheckCredentials, ReadGroup, First, TInv,
                Placed, PlacedAs
<1>2. CASE Goto(p, "consume") /\ UNCHANGED job
  <2>1. PlacedAs("consume", job[p])
    BY DEF PlacedAs
  <2>. QED  BY <1>1, <1>2, <2>1, FirstKeepsTypes
<1>3. ASSUME NEW k \in Find(job[p].ref), See(p, k), Goto(p, "lock"),
             job[p].kind \in {"update", "login"}
      PROVE  TInv'
  <2>. DEFINE j == [job[p] EXCEPT !.at = k, !.copy = mem.accounts[k]]
  <2>1. k \in Keys /\ mem.accounts[k] \in Account /\ mem.accounts[k].there
        /\ mem.accounts[k].name \in Names
    BY FindsAccounts
  <2>2. k \in AnyKey
    BY <2>1 DEF Keys, AnyKey
  <2>3. /\ j \in Jobs /\ j.kind = job[p].kind /\ j.at = k /\ j.copy = mem.accounts[k]
        /\ j.field = job[p].field /\ j.name = job[p].name /\ j.posted = job[p].posted
    BY <1>1, <2>1, <2>2 DEF Jobs
  <2>4. job' = [job EXCEPT ![p] = j]
    BY <1>3 DEF See, TInv, Shapes
  <2>. HIDE DEF j
  <2>5. PlacedAs("lock", j)
    BY <1>1, <1>3, <2>1, <2>3 DEF PlacedAs, Fit, OnGroups, Looking
  <2>. QED  BY <1>1, <1>3, <2>3, <2>4, <2>5, FirstKeepsTypes
<1>4. ASSUME NEW k \in Find(job[p].ref), job' = [job EXCEPT ![p] = About("password", k.id)],
             Goto(p, "lock")
      PROVE  TInv'
  <2>. DEFINE j == About("password", k.id)
  <2>1. k.id \in Names
    BY FindsAccounts DEF Keys
  <2>2. /\ j \in Jobs /\ j.kind = "password" /\ j.posted = NoJob.posted
        /\ Clean(NoJob.posted) /\ Distinct(NoJob.posted)
    <3>1. "password" \in Kinds
      BY DEF Kinds
    <3>. QED  BY <2>1, <3>1, NoJobIsAJob DEF About, Jobs
  <2>. HIDE DEF j
  <2>3. PlacedAs("lock", j)
    BY <2>2 DEF PlacedAs, Fit, OnGroups, Looking
  <2>4. job' = [job EXCEPT ![p] = j]
    BY <1>4 DEF j
  <2>. QED  BY <1>1, <1>4, <2>2, <2>3, <2>4, FirstKeepsTypes
<1>5. ASSUME NEW k \in FindGroup(job[p].group.id), Goto(p, "lock"), job[p].kind = "editgroup",
             job' = [job EXCEPT ![p].group = k, ![p].of = mem.groups[k]]
      PROVE  TInv'
  <2>. DEFINE j == [job[p] EXCEPT !.group = k, !.of = mem.groups[k]]
  <2>1. k \in GroupKeys /\ mem.groups[k] \in Group /\ mem.groups[k].there
    BY FindsGroups
  <2>2. /\ j \in Jobs /\ j.kind = "editgroup" /\ j.group = k /\ j.of = mem.groups[k]
        /\ j.posted = job[p].posted
    BY <1>1, <1>5, <2>1 DEF Jobs
  <2>3. job' = [job EXCEPT ![p] = j]
    BY <1>5 DEF TInv, Shapes
  <2>. HIDE DEF j
  <2>4. PlacedAs("lock", j)
    BY <1>1, <2>1, <2>2 DEF PlacedAs, Fit, OnGroups, Looking
  <2>. QED  BY <1>1, <1>5, <2>2, <2>3, <2>4, FirstKeepsTypes
<1>6. CASE ReadForUpdate(p)
  BY <1>2, <1>3, <1>6 DEF ReadForUpdate, NotFound, First
<1>7. CASE CheckOwnPassword(p)
  BY <1>2, <1>4, <1>7 DEF CheckOwnPassword, NotFound
<1>8. CASE CheckCredentials(p)
  BY <1>2, <1>3, <1>8 DEF CheckCredentials, NotFound, First
<1>9. CASE ReadGroup(p)
  BY <1>2, <1>5, <1>9 DEF ReadGroup, First
<1>. QED  BY <1>6, <1>7, <1>8, <1>9

LEMMA OutcomeKeepsTypes ==
    ASSUME TInv, NEW p \in Threads, Outcome(p)
    PROVE  TInv'
<1>1. /\ UNCHANGED <<made, loaded, newer, stop, stopping, boots, file, book, failed>>
      /\ overlap' \in BOOLEAN /\ stale' \in BOOLEAN /\ misfit' \in BOOLEAN
      /\ (Slipped => Slipped')
      /\ pc[p] = "lock" /\ job[p].kind \notin Looking /\ snap[p] = Nothing /\ job[p] \in Jobs
  BY Watched, TFacts DEF Outcome, Frame, Slipped
<1>2. CASE Refused(p) \/ Panicked(p)
  <2>1. Goto(p, "consume") /\ UNCHANGED <<mem, job, snap>> /\ held' \in BOOLEAN
    BY <1>2, TFacts DEF Refused, Refuse, Panicked
  <2>2. Only(p) /\ pc'[p] = "consume" /\ job'[p] = job[p] /\ snap'[p] = snap[p]
    BY <2>1, TFacts, OnlyOne DEF TInv, Labels
  <2>3. Placed(p)'
    BY <2>2 DEF Placed, PlacedAs
  <2>. QED  BY <1>1, <2>1, <2>2, <2>3, TFacts, TStep
<1>3. ASSUME NEW s, Stored(p, s) PROVE TInv'
  <2>1. /\ Sound(s) /\ (~Slipped' => Distinct(s)) /\ mem' \in {mem, s} /\ (~made => mem' = mem)
        /\ snap' = [snap EXCEPT ![p] = s] /\ job' = [job EXCEPT ![p] = Request(job[p].kind)]
        /\ Goto(p, "write") /\ held' = held
    BY <1>3 DEF Stored, Snapshot
  <2>2. s \in Store /\ Request(job[p].kind) \in Jobs /\ Request(job[p].kind).kind = job[p].kind
    BY <1>1, <2>1, NoJobIsAJob DEF Sound, Jobs
  <2>3. Only(p) /\ pc'[p] = "write" /\ job'[p] = Request(job[p].kind) /\ snap'[p] = s
    BY <2>1, <2>2, OnlyOne DEF TInv, Labels
  <2>4. Placed(p)'
    BY <1>1, <2>2, <2>3 DEF Placed, PlacedAs
  <2>. QED  BY <1>1, <2>1, <2>3, <2>4, TFacts, TStep
<1>. QED  BY <1>2, <1>3 DEF Outcome

LEMMA UnloadKeepsTypes ==
    ASSUME TInv, NEW p \in Threads, Unload(p)
    PROVE  TInv'
<1>1. /\ mem' = Nothing /\ made' = FALSE /\ loaded' = FALSE /\ newer' = TRUE /\ stop' = TRUE
      /\ Goto(p, "consume") /\ overlap' \in BOOLEAN /\ pc[p] = "lock"
      /\ UNCHANGED <<held, stopping, boots, file, job, snap, book, stale, misfit, failed>>
  BY Watched DEF Unload, Dropped, Section
<1>2. Only(p) /\ pc'[p] = "consume" /\ job'[p] = job[p] /\ snap'[p] = snap[p]
  BY <1>1, TFacts, OnlyOne DEF TInv, Labels
<1>3. Placed(p)'
  BY <1>2 DEF Placed, PlacedAs
<1>. QED  BY <1>1, <1>2, <1>3, TFacts, NothingIsSound, TStep DEF Slipped

LEMMA WriteKeepsTypes ==
    ASSUME TInv, NEW p \in Threads, Write(p)
    PROVE  TInv'
<1>1. /\ file' \in Normalized(snap[p]) /\ newer' \in {newer, TRUE} /\ pc[p] = "write"
      /\ Goto(p, "reload") /\ overlap' \in BOOLEAN
      /\ UNCHANGED <<mem, made, loaded, held, stop, stopping, boots, job, snap, book, stale, misfit,
                     failed>>
  BY Watched DEF Write, runVars
<1>2. Only(p) /\ pc'[p] = "reload" /\ job'[p] = job[p] /\ snap'[p] = snap[p]
  BY <1>1, TFacts, OnlyOne DEF TInv, Labels
<1>3. Placed(p)'
  BY <1>1, <1>2 DEF TInv, Placed, PlacedAs
<1>4. Sound(file') /\ Filed(file')
  BY <1>1, TFacts, KeepIsSound
<1>. QED  BY <1>1, <1>2, <1>3, <1>4, TFacts, TStep DEF Slipped

LEMMA WriteFailsKeepsTypes ==
    ASSUME TInv, NEW p \in Threads, WriteFails(p)
    PROVE  TInv'
<1>1. /\ failed' = TRUE /\ snap' = [snap EXCEPT ![p] = Nothing] /\ Goto(p, "consume")
      /\ overlap' \in BOOLEAN
      /\ UNCHANGED <<mem, made, loaded, newer, held, stop, stopping, boots, file, job, book, stale,
                     misfit>>
  BY Watched DEF WriteFails, memVars, runVars
<1>2. Only(p) /\ pc'[p] = "consume" /\ job'[p] = job[p] /\ snap'[p] = Nothing
  BY <1>1, TFacts, NothingIsSound, OnlyOne DEF TInv, Labels, Sound
<1>3. Placed(p)'
  BY <1>2 DEF Placed, PlacedAs
<1>. QED  BY <1>1, <1>2, <1>3, TFacts, NothingIsSound, TStep DEF Slipped

LEMMA ReloadKeepsTypes ==
    ASSUME TInv, NEW p \in Threads, Reload(p)
    PROVE  TInv'
<1>1. /\ mem' = file /\ made' = TRUE /\ loaded' = TRUE /\ newer' = FALSE /\ book' = snap[p]
      /\ snap' = [snap EXCEPT ![p] = Nothing] /\ Goto(p, "consume") /\ overlap' \in BOOLEAN
      /\ UNCHANGED <<held, stop, stopping, boots, file, job, stale, misfit, failed>>
  BY Watched DEF Reload, ForcedLoad, LoadConfig, ReadConfig, runVars
<1>2. Only(p) /\ pc'[p] = "consume" /\ job'[p] = job[p] /\ snap'[p] = Nothing
  BY <1>1, TFacts, NothingIsSound, OnlyOne DEF TInv, Labels, Sound
<1>3. Placed(p)'
  BY <1>2 DEF Placed, PlacedAs
<1>. QED  BY <1>1, <1>2, <1>3, TFacts, NothingIsSound, TStep DEF Slipped

LEMMA ConsumeKeepsTypes ==
    ASSUME TInv, NEW p \in Threads, Consume(p)
    PROVE  TInv'
<1>1. /\ stop' = FALSE /\ stopping' = (stopping \/ stop) /\ job' = [job EXCEPT ![p] = NoJob]
      /\ Goto(p, "done") /\ pc[p] = "consume"
      /\ UNCHANGED <<mem, made, loaded, newer, held, boots, file, snap, book, overlap, stale,
                     misfit, failed>>
  BY DEF Consume, memVars, histVars
<1>2. Only(p) /\ pc'[p] = "done" /\ job'[p] = NoJob /\ snap'[p] = snap[p]
  BY <1>1, TFacts, NoJobIsAJob, OnlyOne DEF TInv, Labels
<1>3. Placed(p)'
  BY <1>2 DEF Placed, PlacedAs
<1>4. stopping' \in BOOLEAN /\ snap[p] = Nothing
  BY <1>1, TFacts
<1>. QED  BY <1>1, <1>2, <1>3, <1>4, TFacts, TStep DEF Slipped

LEMMA RestartKeepsTypes ==
    ASSUME TInv, Restart
    PROVE  TInv'
<1>1. /\ mem' = Nothing /\ made' = FALSE /\ loaded' = FALSE /\ newer' = TRUE /\ held' = FALSE
      /\ stop' = FALSE /\ stopping' = FALSE /\ book' = file
      /\ UNCHANGED <<file, overlap, stale, misfit, failed>>
      /\ boots < MaxBoots /\ boots' = boots + 1
      /\ pc' = [p \in Threads |-> IF pc[p] \in {"idle", "done"} THEN pc[p] ELSE "killed"]
      /\ job' = [p \in Threads |-> NoJob] /\ snap' = [p \in Threads |-> Nothing]
  BY DEF Restart
<1>2. boots' \in 0 .. MaxBoots
  BY <1>1, BootsAssumption DEF TInv, TypeOK
<1>3. Nothing \in Store
  BY NothingIsSound DEF Sound
<1>4. TypeOK'
  <2>1. \A p \in Threads : pc'[p] \in {"idle", "done", "killed"} /\ snap'[p] = Nothing
    BY <1>1
  <2>2. file \in Store
    BY TFacts DEF Sound
  <2>. QED  BY <1>1, <1>2, <1>3, <2>1, <2>2, TFacts DEF TypeOK
<1>5. Shapes'
  <2>1. pc' \in [Threads -> Labels]
    BY <1>1 DEF Labels
  <2>. QED  BY <1>1, <1>3, <2>1, NoJobIsAJob DEF Shapes
<1>6. Contents'
  BY <1>1, NothingIsSound, TFacts DEF Contents
<1>7. \A p \in Threads : Placed(p)'
  <2>1. \A p \in Threads : pc'[p] \in {"idle", "done", "killed"}
    BY <1>1
  <2>. QED  BY <2>1 DEF Placed, PlacedAs
<1>. QED  BY <1>1, <1>4, <1>5, <1>6, <1>7 DEF TInv

LEMMA InitIsTyped ==
    ASSUME Init PROVE TInv
<1>1. TypeOK
  <2>1. Nothing \in Store /\ Default \in Store /\ 0 \in 0 .. MaxBoots
    BY NothingIsSound, DefaultIsSound, BootsAssumption DEF Sound
  <2>. QED  BY <2>1 DEF Init, TypeOK
<1>2. Shapes
  BY NothingIsSound, NoJobIsAJob DEF Init, Shapes, Labels, Sound
<1>3. Contents
  BY NothingIsSound, DefaultIsSound DEF Init, Contents
<1>4. \A p \in Threads : Placed(p)
  BY DEF Init, Placed, PlacedAs
<1>. QED  BY <1>1, <1>2, <1>3, <1>4 DEF Init, TInv

\* A step of one thread is one of these.
LEMMA Steps ==
    ASSUME TInv, NEW p \in Threads, OwnNext(p)
    PROVE  \/ Load(p) \/ ReadForUpdate(p) \/ CheckOwnPassword(p) \/ CheckCredentials(p)
           \/ ReadGroup(p) \/ Outcome(p) \/ Unload(p) \/ Write(p) \/ WriteFails(p)
           \/ Reload(p) \/ Consume(p)
BY Outcomes DEF OwnNext

LEMMA NextKeepsTypes ==
    ASSUME TInv, [Next]_vars
    PROVE  TInv'
<1>1. CASE UNCHANGED vars
  BY <1>1 DEF vars, memVars, runVars, histVars, TInv, TypeOK, Shapes, Contents, Placed, Sound,
              Clean, Distinct, Present, PresentGroups, Filed, Slipped, Misfit
<1>2. CASE Restart
  BY <1>2, RestartKeepsTypes
<1>3. ASSUME NEW p \in Threads, NEW request \in Requests, Begin(p, request) PROVE TInv'
  BY <1>3, BeginKeepsTypes
<1>4. ASSUME NEW p \in Threads, OwnNext(p) PROVE TInv'
  BY <1>4, Steps, LoadKeepsTypes, ReadsKeepTypes, OutcomeKeepsTypes, UnloadKeepsTypes,
     WriteKeepsTypes, WriteFailsKeepsTypes, ReloadKeepsTypes, ConsumeKeepsTypes
<1>. QED  BY <1>1, <1>2, <1>3, <1>4 DEF Next

LEMMA Typed == Spec => []TInv
BY InitIsTyped, NextKeepsTypes, PTL DEF Spec

\* Maps, snapshots and the file are stores of accounts and groups; before the first load,
\* and after an unload, the maps hold nothing; snapshots exist only during a write.
THEOREM TypeCorrect == Spec => []TypeOK
<1>1. TInv => TypeOK
  BY DEF TInv
<1>. QED  BY <1>1, Typed, PTL

-----------------------------------------------------------------------------
(* What no write drops *)

\* While no login has written back an account renamed meanwhile and nothing has been
\* stored under an id that the file cannot keep, no two accounts have one user name or one
\* id, and no two groups one id, in whatever spelling, in memory, in the file or in what is
\* about to be written, and sanitising leaves something of every id.  Hence a write drops
\* neither an account nor a group.
THEOREM NoWriteDrops == Spec => []NothingToDrop
<1>1. TInv => NothingToDrop
  <2>. SUFFICES ASSUME TInv, ~stale, ~misfit,
                       NEW s \in {mem, file} \union {snap[p] : p \in Threads}
                PROVE  /\ \A k \in Present(s) :
                             k.as # Void /\ \A j \in Present(s) : ~Clash(s, j, k)
                       /\ \A k \in PresentGroups(s) : ~Misfit(k, PresentGroups(s))
    BY DEF NothingToDrop
  <2>1. Distinct(s)
    BY TFacts DEF Slipped
  <2>. QED  BY <2>1 DEF Clash, Misfit, Distinct
<1>. QED  BY <1>1, Typed, PTL

-----------------------------------------------------------------------------
(* The lock *)

Alters(p) == Altering(pc[p], job[p].kind)

\* Two updates under way have met.
Met == \A p, q \in Threads : p # q /\ Alters(p) /\ Alters(q) => overlap

\* Past its first load an update finds the maps there, unless it has met an unload.
Unmapped == \A p \in Threads :
    pc[p] \in {"read", "lock"} /\ job[p].kind \notin Unchecked /\ ~made => overlap

LInv == Met /\ Unmapped /\ StuckOnlyByUnload

LEMMA WatchMeets ==
    ASSUME Watch, overlap \in BOOLEAN
    PROVE  Met' /\ (overlap => overlap')
BY DEF Watch, Met, Alters

\* A step that leaves the maps, or fills them.
LEMMA LStep ==
    ASSUME TInv, LInv, NEW p \in Threads, Only(p), Watch,
           pc'[p] \in {"read", "lock"} =>
              \/ job'[p].kind \in Unchecked
              \/ made'
              \/ pc[p] \in {"read", "lock"} /\ job[p].kind \notin Unchecked,
           made => made',
           held' = held, held => ~made'
    PROVE  LInv'
<1>1. Met' /\ (overlap => overlap')
  BY WatchMeets, TFacts
<1>2. Unmapped'
  BY <1>1 DEF LInv, Unmapped, Only
<1>3. StuckOnlyByUnload'
  BY <1>1 DEF LInv, StuckOnlyByUnload
<1>. QED  BY <1>1, <1>2, <1>3 DEF LInv

\* Where a thread is after its first section, or after the only one.
LEMMA Moves ==
    ASSUME TInv, NEW p \in Threads, NEW label \in Labels, Goto(p, label),
           snap' = snap \/ \E s \in Store : snap' = [snap EXCEPT ![p] = s],
           job' = job \/ \E j \in Jobs : job' = [job EXCEPT ![p] = j]
    PROVE  /\ Only(p) /\ pc'[p] = label
           /\ job' = job => job'[p] = job[p]
           /\ snap' = snap => snap'[p] = snap[p]
<1>1. pc' \in [Threads -> Labels] /\ pc'[p] = label
      /\ \A q \in Threads \ {p} : pc'[q] = pc[q]
  BY DEF TInv, Shapes, Goto
<1>2. job' \in [Threads -> Jobs] /\ \A q \in Threads \ {p} : job'[q] = job[q]
  BY DEF TInv, Shapes
<1>3. snap' \in [Threads -> Store] /\ \A q \in Threads \ {p} : snap'[q] = snap[q]
  BY DEF TInv, Shapes
<1>. QED  BY <1>1, <1>2, <1>3 DEF Only, Shapes

\* What each step does to its thread.
LEMMA LoadMoves ==
    ASSUME TInv, NEW p \in Threads, Load(p)
    PROVE  /\ Only(p) /\ job'[p] = job[p] /\ snap'[p] = snap[p] /\ pc[p] = "load" /\ ~held /\ Watch
           /\ pc'[p] \in {"consume", "read", "lock"} /\ made' /\ loaded'
           /\ (UNCHANGED memVars \/ mem' = file)
           /\ job[p].kind \notin {"none"} \union Unchecked
           /\ pc'[p] = "consume" \/ job[p].kind \notin Looking
           /\ pc'[p] = "lock" => job[p].kind \notin TwoSections
           /\ UNCHANGED <<held, file, book, stale, misfit, failed>>
<1>. DEFINE label == CASE job[p].kind \in {"get", "load"} -> "consume"
                       [] job[p].kind \in TwoSections     -> "read"
                       [] OTHER                           -> "lock"
<1>1. Goto(p, label) /\ pc[p] = "load" /\ ~held /\ job' = job /\ snap' = snap /\ Watch
      /\ UNCHANGED <<held, file, book, stale, misfit, failed>>
  BY DEF Load, runVars
<1>2. \/ label = "consume"
      \/ label = "read" /\ job[p].kind \in TwoSections
      \/ label = "lock" /\ job[p].kind \notin {"get", "load"} \union TwoSections
  BY DEF TwoSections
<1>3. job[p].kind \notin {"none"} \union Unchecked
  BY <1>1 DEF TInv, Placed, PlacedAs
<1>4. made' /\ loaded' /\ (UNCHANGED memVars \/ mem' = file)
  BY TFacts DEF Load, LoadConfig, ReadConfig, memVars
<1>. HIDE DEF label
<1>5. label \in Labels
  BY <1>2 DEF Labels
<1>6. Only(p) /\ pc'[p] = label /\ job'[p] = job[p] /\ snap'[p] = snap[p]
  BY <1>1, <1>5, Moves
<1>. QED  BY <1>1, <1>2, <1>3, <1>4, <1>6 DEF TwoSections, Looking

LEMMA ReadMoves ==
    ASSUME TInv, NEW p \in Threads,
           ReadForUpdate(p) \/ CheckOwnPassword(p) \/ CheckCredentials(p) \/ ReadGroup(p)
    PROVE  /\ Only(p) /\ snap'[p] = snap[p] /\ pc[p] = "read" /\ ~held /\ Watch
           /\ UNCHANGED <<memVars, held, file, book, stale, misfit, failed>>
           /\ job[p].kind \in TwoSections
           /\ \/ pc'[p] = "consume"
              \/ /\ pc'[p] = "lock" /\ job'[p].kind \in {"password", "update", "login", "editgroup"}
                 /\ job'[p].kind = "login" => job'[p].copy = mem.accounts[job'[p].at]
<1>1. /\ Watch /\ UNCHANGED <<memVars, held, file, book, stale, misfit, failed, snap>>
      /\ pc[p] = "read" /\ ~held
  BY DEF ReadForUpdate, CheckOwnPassword, CheckCredentials, ReadGroup, First, FirstFrame, runVars
<1>2. job[p].kind \in TwoSections
  BY <1>1 DEF TInv, Placed, PlacedAs
<1>3. Shapes'
  BY ReadsKeepTypes DEF TInv
<1>4. Goto(p, "consume") \/ Goto(p, "lock")
  BY DEF ReadForUpdate, CheckOwnPassword, CheckCredentials, ReadGroup, NotFound
<1>5. /\ \A q \in Threads \ {p} : job'[q] = job[q]
      /\ \/ Goto(p, "consume")
         \/ /\ job'[p].kind \in {"password", "update", "login", "editgroup"}
            /\ job'[p].kind = "login" => job'[p].copy = mem.accounts[job'[p].at]
  <2>1. CASE UNCHANGED job /\ Goto(p, "consume")
    BY <2>1
  <2>2. ASSUME NEW k, See(p, k), job[p].kind \in {"update", "login"}
        PROVE  /\ \A q \in Threads \ {p} : job'[q] = job[q]
               /\ job'[p].kind = job[p].kind /\ job'[p].copy = mem.accounts[job'[p].at]
    <3>1. /\ \A q \in Threads \ {p} : job'[q] = job[q]
          /\ job'[p] = [job[p] EXCEPT !.at = k, !.copy = mem.accounts[k]]
      BY <2>2 DEF See, TInv, Shapes
    <3>. QED  BY <3>1, TFacts DEF Jobs
  <2>3. ASSUME NEW k \in Keys, job' = [job EXCEPT ![p] = About("password", k.id)]
        PROVE  /\ \A q \in Threads \ {p} : job'[q] = job[q]
               /\ job'[p].kind = "password"
    <3>1. /\ \A q \in Threads \ {p} : job'[q] = job[q]
          /\ job'[p] = About("password", k.id)
      BY <2>3 DEF TInv, Shapes
    <3>2. About("password", k.id).kind = "password"
      BY NoJobIsAJob DEF About, Jobs
    <3>. QED  BY <3>1, <3>2
  <2>4. ASSUME NEW k, job[p].kind = "editgroup",
               job' = [job EXCEPT ![p].group = k, ![p].of = mem.groups[k]]
        PROVE  /\ \A q \in Threads \ {p} : job'[q] = job[q]
               /\ job'[p].kind = "editgroup"
    <3>1. /\ \A q \in Threads \ {p} : job'[q] = job[q]
          /\ job'[p] = [job[p] EXCEPT !.group = k, !.of = mem.groups[k]]
      BY <2>4 DEF TInv, Shapes
    <3>2. job[p] \in Jobs
      BY TFacts
    <3>3. [job[p] EXCEPT !.group = k, !.of = mem.groups[k]].kind = job[p].kind
      BY <3>2 DEF Jobs
    <3>. QED  BY <2>4, <3>1, <3>3
  <2>5. CASE ReadForUpdate(p)
    BY <2>1, <2>2, <2>5, <1>4 DEF ReadForUpdate, NotFound, First
  <2>6. CASE CheckOwnPassword(p)
    BY <2>1, <2>3, <2>6, <1>4, FindsAccounts DEF CheckOwnPassword, NotFound
  <2>7. CASE CheckCredentials(p)
    BY <2>1, <2>2, <2>7, <1>4 DEF CheckCredentials, NotFound, First
  <2>8. CASE ReadGroup(p)
    BY <2>1, <2>4, <2>8, <1>4 DEF ReadGroup, First
  <2>. QED  BY <2>5, <2>6, <2>7, <2>8
<1>6. \A q \in Threads \ {p} : pc'[q] = pc[q] /\ snap'[q] = snap[q]
  BY <1>1, <1>4 DEF Goto, TInv, Shapes
<1>7. Only(p) /\ snap'[p] = snap[p]
  BY <1>1, <1>3, <1>5, <1>6 DEF Only
<1>8. (Goto(p, "consume") => pc'[p] = "consume") /\ (Goto(p, "lock") => pc'[p] = "lock")
  BY DEF Goto, TInv, Shapes
<1>. QED  BY <1>1, <1>2, <1>4, <1>5, <1>7, <1>8

LEMMA ChangeMoves ==
    ASSUME TInv, NEW p \in Threads, Outcome(p)
    PROVE  /\ Only(p) /\ pc[p] = "lock" /\ ~held /\ Watch
           /\ job[p].kind \notin Looking \union {"unload"}
           /\ UNCHANGED <<made, loaded, file, book, failed>>
           /\ (stale => stale') /\ (misfit => misfit')
           /\ stale' => stale \/ (/\ job[p].kind = "login" /\ made
                                 /\ mem.accounts[job[p].at].name # job[p].copy.name)
           /\ \/ pc'[p] = "consume" /\ snap'[p] = snap[p] /\ UNCHANGED <<mem, held>>
              \/ /\ pc'[p] = "consume" /\ snap'[p] = snap[p] /\ mem' = mem /\ held'
                 /\ ~made /\ job[p].kind \notin Unchecked
              \/ /\ pc'[p] = "write" /\ held' = held /\ mem' \in {mem, snap'[p]}
                 /\ job'[p].kind = job[p].kind
<1>1. /\ pc[p] = "lock" /\ ~held /\ Watch /\ job[p].kind \notin Looking \union {"unload"}
      /\ UNCHANGED <<made, loaded, file, book, failed>>
      /\ (stale => stale') /\ (misfit => misfit')
      /\ stale' => stale \/ (/\ job[p].kind = "login" /\ made
                            /\ mem.accounts[job[p].at].name # job[p].copy.name)
  BY DEF Outcome, Frame
<1>2. CASE Refused(p) \/ Panicked(p)
  <2>1. Goto(p, "consume") /\ UNCHANGED <<mem, job, snap>>
    BY <1>2 DEF Refused, Refuse, Panicked
  <2>2. Only(p) /\ pc'[p] = "consume" /\ snap'[p] = snap[p]
    BY <2>1, Moves DEF Labels
  <2>3. held' = held \/ (held' /\ ~made /\ job[p].kind \notin Unchecked)
    BY DEF Outcome, Refused, Refuse, Panicked, Stored, Snapshot
  <2>. QED  BY <1>1, <2>1, <2>2, <2>3
<1>3. ASSUME NEW s, Stored(p, s)
      PROVE  /\ Only(p) /\ pc'[p] = "write" /\ held' = held /\ mem' \in {mem, snap'[p]}
             /\ job'[p].kind = job[p].kind
  <2>1. /\ s \in Store /\ mem' \in {mem, s} /\ Goto(p, "write") /\ held' = held
        /\ snap' = [snap EXCEPT ![p] = s] /\ job' = [job EXCEPT ![p] = Request(job[p].kind)]
    BY <1>3 DEF Stored, Snapshot, Sound
  <2>2. Request(job[p].kind) \in Jobs /\ Request(job[p].kind).kind = job[p].kind
    BY TFacts, NoJobIsAJob DEF Jobs
  <2>3. Only(p) /\ pc'[p] = "write"
    BY <2>1, <2>2, Moves DEF Labels
  <2>4. snap'[p] = s /\ job'[p] = Request(job[p].kind)
    BY <2>1 DEF TInv, Shapes
  <2>. QED  BY <2>1, <2>2, <2>3, <2>4
<1>. QED  BY <1>1, <1>2, <1>3 DEF Outcome

LEMMA UnloadMoves ==
    ASSUME TInv, NEW p \in Threads, Unload(p)
    PROVE  /\ Only(p) /\ pc[p] = "lock" /\ job[p].kind = "unload" /\ ~held /\ Watch
           /\ pc'[p] = "consume" /\ job'[p] = job[p] /\ snap'[p] = snap[p]
           /\ ~made' /\ ~loaded' /\ UNCHANGED <<held, file, book, stale, misfit, failed>>
<1>1. /\ pc[p] = "lock" /\ job[p].kind = "unload" /\ ~held /\ Watch /\ Goto(p, "consume")
      /\ ~made' /\ ~loaded' /\ UNCHANGED <<held, file, book, stale, misfit, failed, job, snap>>
  BY DEF Unload, Section
<1>. QED  BY <1>1, Moves DEF Labels

LEMMA WriteMoves ==
    ASSUME TInv, NEW p \in Threads, Write(p)
    PROVE  /\ Only(p) /\ pc[p] = "write" /\ Watch
           /\ pc'[p] = "reload" /\ job'[p] = job[p] /\ snap'[p] = snap[p]
           /\ file' \in Normalized(snap[p])
           /\ UNCHANGED <<mem, made, loaded, held, book, stale, misfit, failed>>
<1>1. /\ pc[p] = "write" /\ Watch /\ Goto(p, "reload") /\ file' \in Normalized(snap[p])
      /\ UNCHANGED <<mem, made, loaded, held, book, stale, misfit, failed, job, snap>>
  BY DEF Write, runVars
<1>. QED  BY <1>1, Moves DEF Labels

LEMMA WriteFailsMoves ==
    ASSUME TInv, NEW p \in Threads, WriteFails(p)
    PROVE  /\ Only(p) /\ pc[p] = "write" /\ Watch
           /\ pc'[p] = "consume" /\ job'[p] = job[p] /\ failed'
           /\ UNCHANGED <<mem, made, loaded, held, file, book, stale, misfit>>
<1>1. /\ pc[p] = "write" /\ Watch /\ Goto(p, "consume") /\ failed'
      /\ UNCHANGED <<mem, made, loaded, held, file, book, stale, misfit, job>>
      /\ snap' = [snap EXCEPT ![p] = Nothing]
  BY DEF WriteFails, runVars, memVars
<1>2. Nothing \in Store
  BY NothingIsSound DEF Sound
<1>. QED  BY <1>1, <1>2, Moves DEF Labels

LEMMA ReloadMoves ==
    ASSUME TInv, NEW p \in Threads, Reload(p)
    PROVE  /\ Only(p) /\ pc[p] = "reload" /\ Watch /\ ~held
           /\ pc'[p] = "consume" /\ job'[p] = job[p]
           /\ mem' = file /\ made' /\ loaded' /\ book' = snap[p]
           /\ UNCHANGED <<held, file, stale, misfit, failed>>
<1>1. /\ pc[p] = "reload" /\ Watch /\ ~held /\ Goto(p, "consume") /\ job' = job
      /\ mem' = file /\ made' /\ loaded' /\ book' = snap[p]
      /\ UNCHANGED <<held, file, stale, misfit, failed>>
      /\ snap' = [snap EXCEPT ![p] = Nothing]
  BY DEF Reload, ForcedLoad, LoadConfig, ReadConfig, runVars
<1>2. Nothing \in Store
  BY NothingIsSound DEF Sound
<1>. QED  BY <1>1, <1>2, Moves DEF Labels

LEMMA ConsumeMoves ==
    ASSUME TInv, NEW p \in Threads, Consume(p)
    PROVE  /\ Only(p) /\ pc[p] = "consume" /\ pc'[p] = "done" /\ snap'[p] = snap[p]
           /\ UNCHANGED <<memVars, held, file, book, overlap, stale, misfit, failed>>
<1>1. /\ pc[p] = "consume" /\ Goto(p, "done") /\ job' = [job EXCEPT ![p] = NoJob] /\ snap' = snap
      /\ UNCHANGED <<memVars, held, file, book, overlap, stale, misfit, failed>>
  BY DEF Consume, histVars
<1>. QED  BY <1>1, Moves, NoJobIsAJob DEF Labels

LEMMA BeginMoves ==
    ASSUME TInv, NEW p \in Threads, NEW request \in Requests, Begin(p, request)
    PROVE  /\ Only(p) /\ pc[p] = "idle" /\ snap'[p] = snap[p] /\ Watch
           /\ UNCHANGED <<memVars, held, file, book, stale, misfit, failed>>
           /\ pc'[p] = "load" \/ (pc'[p] = "lock" /\ job'[p].kind \in Unchecked)
<1>. DEFINE label == IF request.kind \in Unchecked THEN "lock" ELSE "load"
<1>1. /\ pc[p] = "idle" /\ Goto(p, label) /\ job' = [job EXCEPT ![p] = request] /\ snap' = snap
      /\ Watch /\ UNCHANGED <<memVars, held, file, book, stale, misfit, failed>>
  BY DEF Begin, runVars
<1>2. label \in Labels /\ request \in Jobs
  BY RequestsFit DEF Labels, Good
<1>3. Only(p) /\ pc'[p] = label /\ snap'[p] = snap[p]
  BY <1>1, <1>2, Moves
<1>4. job'[p] = request
  BY <1>1 DEF TInv, Shapes
<1>. QED  BY <1>1, <1>3, <1>4

LEMMA BeginKeepsLock ==
    ASSUME TInv, LInv, NEW p \in Threads, NEW request \in Requests, Begin(p, request)
    PROVE  LInv'
BY BeginMoves, LStep DEF LInv, StuckOnlyByUnload, memVars

\* An unload meets whoever is past its first load.
LEMMA UnloadKeepsLock ==
    ASSUME TInv, LInv, NEW p \in Threads, Unload(p)
    PROVE  LInv'
<1>1. /\ Only(p) /\ pc[p] = "lock" /\ job[p].kind = "unload" /\ ~held /\ Watch
      /\ pc'[p] = "consume" /\ ~made' /\ held' = held
  BY UnloadMoves
<1>2. Met' /\ (overlap => overlap')
  BY <1>1, WatchMeets, TFacts
<1>3. Unmapped'
  <2>. SUFFICES ASSUME NEW q \in Threads, pc'[q] \in {"read", "lock"}, job'[q].kind \notin Unchecked
                PROVE  overlap'
    BY DEF Unmapped
  <2>1. q # p /\ pc[q] \in {"read", "lock"} /\ job[q].kind \notin Unchecked
    BY <1>1 DEF Only
  <2>2. job[q].kind \notin Looking
    BY <2>1 DEF TInv, Placed, PlacedAs, TwoSections, Looking
  <2>3. Alters(p) /\ Alters(q)
    BY <1>1, <2>1, <2>2 DEF Alters, Altering, Looking
  <2>. QED  BY <1>2, <2>1, <2>3 DEF LInv, Met
<1>. QED  BY <1>1, <1>2, <1>3 DEF LInv, StuckOnlyByUnload

\* A change leaves the lock held only where the maps are gone.
LEMMA ChangeKeepsLock ==
    ASSUME TInv, LInv, NEW p \in Threads, Outcome(p)
    PROVE  LInv'
<1>1. /\ Only(p) /\ pc[p] = "lock" /\ ~held /\ Watch /\ made' = made
      /\ pc'[p] \in {"consume", "write"}
      /\ held' = held \/ (~made /\ job[p].kind \notin Unchecked)
  BY ChangeMoves
<1>2. Met' /\ (overlap => overlap')
  BY <1>1, WatchMeets, TFacts
<1>3. Unmapped'
  BY <1>1, <1>2 DEF LInv, Unmapped, Only
<1>4. StuckOnlyByUnload'
  BY <1>1, <1>2 DEF LInv, Unmapped, StuckOnlyByUnload
<1>. QED  BY <1>2, <1>3, <1>4 DEF LInv

LEMMA StepKeepsLock ==
    ASSUME TInv, LInv, NEW p \in Threads, OwnNext(p)
    PROVE  LInv'
<1>1. held => overlap /\ ~made
  BY DEF LInv, StuckOnlyByUnload
<1>2. CASE Load(p)
  BY <1>2, LoadMoves, LStep
<1>3. CASE ReadForUpdate(p) \/ CheckOwnPassword(p) \/ CheckCredentials(p) \/ ReadGroup(p)
  BY <1>1, <1>3, ReadMoves, LStep DEF TwoSections, Unchecked, memVars
<1>4. CASE Write(p)
  BY <1>1, <1>4, WriteMoves, LStep
<1>5. CASE WriteFails(p)
  BY <1>1, <1>5, WriteFailsMoves, LStep
<1>6. CASE Reload(p)
  BY <1>6, ReloadMoves, LStep
<1>7. CASE Consume(p)
  <2>1. /\ Only(p) /\ pc'[p] = "done" /\ UNCHANGED <<made, held, overlap>>
    BY <1>7, ConsumeMoves DEF memVars
  <2>2. Met'
    BY <2>1 DEF LInv, Met, Alters, Altering, Only
  <2>3. Unmapped'
    BY <2>1 DEF LInv, Unmapped, Only
  <2>. QED  BY <2>1, <2>2, <2>3 DEF LInv, StuckOnlyByUnload
<1>. QED  BY <1>2, <1>3, <1>4, <1>5, <1>6, <1>7, Steps, UnloadKeepsLock, ChangeKeepsLock

LEMMA NextKeepsLock ==
    ASSUME TInv, LInv, [Next]_vars
    PROVE  LInv'
<1>1. CASE UNCHANGED vars
  BY <1>1 DEF vars, memVars, runVars, histVars, LInv, Met, Unmapped, StuckOnlyByUnload, Alters
<1>2. CASE Restart
  BY <1>2 DEF Restart, LInv, Met, Unmapped, StuckOnlyByUnload, Alters, Altering
<1>. QED  BY <1>1, <1>2, BeginKeepsLock, StepKeepsLock DEF Next

LEMMA Locked == Spec => []LInv
<1>1. Init => LInv
  BY DEF Init, LInv, Met, Unmapped, StuckOnlyByUnload, Alters, Altering
<1>. QED  BY <1>1, Typed, NextKeepsLock, PTL DEF Spec

\* Whatever updates, logins and unloads meet, h.mu is left locked only by a handler that
\* found the maps gone, and they were gone because an unload had come between the load at
\* the start of an update and its change.
THEOREM OnlyUnloadLeavesTheLock == Spec => []StuckOnlyByUnload
<1>1. LInv => StuckOnlyByUnload
  BY DEF LInv
<1>. QED  BY <1>1, Locked, PTL

-----------------------------------------------------------------------------
(* Memory and file *)

QInv == ~failed /\ loaded /\ mem # file => \E p \in Threads : pc[p] \in {"write", "reload"}

\* A step that is not the last load of an update, nor a failed write, leaves every
\* thread between its change and its last load.
LEMMA QStep ==
    ASSUME QInv, NEW p \in Threads, Only(p),
           \/ failed' \/ ~loaded' \/ mem' = file'
           \/ pc'[p] \in {"write", "reload"}
           \/ /\ pc[p] \notin {"write", "reload"}
              /\ UNCHANGED <<failed, loaded, mem, file>>
    PROVE  QInv'
BY DEF QInv, Only

LEMMA NextKeepsQuiet ==
    ASSUME TInv, QInv, [Next]_vars
    PROVE  QInv'
<1>1. CASE UNCHANGED vars
  BY <1>1 DEF vars, memVars, runVars, histVars, QInv
<1>2. CASE Restart
  BY <1>2 DEF Restart, QInv
<1>3. ASSUME NEW p \in Threads, NEW request \in Requests, Begin(p, request) PROVE QInv'
  BY <1>3, BeginMoves, QStep DEF memVars
<1>4. ASSUME NEW p \in Threads, OwnNext(p) PROVE QInv'
  <2>1. CASE Load(p)
    BY <2>1, LoadMoves, QStep DEF memVars
  <2>2. CASE ReadForUpdate(p) \/ CheckOwnPassword(p) \/ CheckCredentials(p) \/ ReadGroup(p)
    BY <2>2, ReadMoves, QStep DEF memVars
  <2>3. CASE Outcome(p)
    BY <2>3, ChangeMoves, QStep
  <2>4. CASE Unload(p)
    BY <2>4, UnloadMoves, QStep
  <2>5. CASE Write(p)
    BY <2>5, WriteMoves, QStep
  <2>6. CASE WriteFails(p)
    BY <2>6, WriteFailsMoves, QStep
  <2>7. CASE Reload(p)
    BY <2>7, ReloadMoves, QStep
  <2>8. CASE Consume(p)
    BY <2>8, ConsumeMoves, QStep DEF memVars
  <2>. QED  BY <1>4, <2>1, <2>2, <2>3, <2>4, <2>5, <2>6, <2>7, <2>8, Steps
<1>. QED  BY <1>1, <1>2, <1>3, <1>4 DEF Next

\* However updates, logins and unloads overlap, once none is between its change and its
\* last load memory and file agree, unless a write has failed: each update ends by loading
\* the file under the lock.
THEOREM QuietMemoryIsTheFile == Spec => []QuietAgrees
<1>1. Init => QInv
  BY DEF Init, QInv
<1>2. QInv => QuietAgrees
  BY DEF QInv, QuietAgrees
<1>. QED  BY <1>1, <1>2, Typed, NextKeepsQuiet, PTL DEF Spec

-----------------------------------------------------------------------------
(* What acknowledged updates leave behind *)

Ending == {"write", "reload"}

\* While updates have come one at a time, no write has failed and every id fits, the file
\* is what the update at its last load has written, or else what the responses have
\* promised, but for the spelling of ids; memory is the file, or what an update under way
\* has changed; and a login still sees the account it has looked at.
Serial ==
    /\ ~stale
    /\ \A p \in Threads : pc[p] = "reload" => file = Plainly(snap[p])
    /\ (\A p \in Threads : pc[p] # "reload") => file = Plainly(book)
    /\ loaded => \/ mem = file \/ mem = Plainly(book)
                 \/ \E p \in Threads : pc[p] \in Ending /\ mem = snap[p]
    /\ \A p \in Threads : pc[p] = "lock" /\ job[p].kind = "login" =>
          mem.accounts[job[p].at] = job[p].copy
AInv == ~overlap /\ ~failed /\ ~misfit => Serial

\* While a thread alters the store no other does.
LEMMA Alone ==
    ASSUME TInv, LInv, ~overlap, NEW p \in Threads, Alters(p), NEW q \in Threads, q # p
    PROVE  /\ pc[q] \notin Ending
           /\ ~(pc[q] = "lock" /\ job[q].kind = "login")
           /\ ~(pc[q] = "lock" /\ job[q].kind \notin Unchecked)
<1>1. ~Alters(q)
  BY DEF LInv, Met
<1>2. pc[q] \in {"lock", "write", "reload"} => job[q].kind \notin Looking
  BY DEF TInv, Placed, PlacedAs
<1>. QED  BY <1>1, <1>2 DEF Alters, Altering, Looking, Ending

LEMMA IsUnderWay ==
    ASSUME TInv, NEW p \in Threads, pc[p] \in {"lock", "write", "reload"}
    PROVE  Alters(p)
BY DEF TInv, Placed, PlacedAs, Alters, Altering, Looking

\* While an update is in its last section the store is the same everywhere.
LEMMA Settled ==
    ASSUME TInv, LInv, AInv, ~overlap, ~failed, ~misfit, NEW p \in Threads, pc[p] = "lock"
    PROVE  file = Plainly(book) /\ (loaded => mem = file)
<1>1. \A q \in Threads : pc[q] \notin Ending
  BY IsUnderWay, Alone DEF Ending
<1>. QED  BY <1>1 DEF AInv, Serial, Ending

\* A step that changes neither the store nor who is about to change it.
LEMMA AStep ==
    ASSUME AInv, NEW p \in Threads, Only(p), overlap => overlap',
           UNCHANGED <<mem, loaded, file, book, stale, misfit, failed>>,
           pc[p] \notin Ending, pc'[p] \notin Ending,
           pc'[p] = "lock" /\ job'[p].kind = "login" => mem.accounts[job'[p].at] = job'[p].copy
    PROVE  AInv'
<1>. SUFFICES ASSUME ~overlap', ~failed', ~misfit' PROVE Serial'
  BY DEF AInv
<1>1. Serial
  BY DEF AInv
<1>. QED  BY <1>1 DEF Serial, Only, Ending

LEMMA LoadKeepsSerial ==
    ASSUME TInv, LInv, AInv, NEW p \in Threads, Load(p)
    PROVE  AInv'
<1>. SUFFICES ASSUME ~overlap', ~failed', ~misfit' PROVE Serial'
  BY DEF AInv
<1>1. /\ Only(p) /\ pc[p] = "load" /\ Watch /\ pc'[p] \notin Ending /\ loaded'
      /\ (UNCHANGED memVars \/ mem' = file)
      /\ pc'[p] = "lock" => job'[p].kind # "login"
      /\ UNCHANGED <<file, book, stale, misfit, failed>>
  BY LoadMoves DEF Ending, TwoSections
<1>2. ~overlap /\ Serial
  BY <1>1, WatchMeets, TFacts DEF AInv
<1>3. \/ mem' = file' \/ mem' = Plainly(book')
      \/ \E q \in Threads : pc'[q] \in Ending /\ mem' = snap'[q]
  <2>1. CASE UNCHANGED memVars
    BY <1>1, <1>2, <2>1 DEF Serial, Only, memVars, Ending
  <2>2. CASE mem' = file
    BY <1>1, <2>2
  <2>. QED  BY <1>1, <2>1, <2>2
<1>4. ASSUME NEW q \in Threads, pc'[q] = "lock", job'[q].kind = "login"
      PROVE  mem'.accounts[job'[q].at] = job'[q].copy
  <2>1. q # p /\ pc[q] = "lock" /\ job[q] = job'[q]
    BY <1>1, <1>4 DEF Only
  <2>2. made
    BY <1>2, <1>4, <2>1 DEF LInv, Unmapped, Unchecked
  <2>3. mem = file
    BY <1>1, <1>2, <2>1, <2>2, Settled, TFacts
  <2>4. mem' = mem
    BY <1>1, <2>3 DEF memVars
  <2>. QED  BY <1>2, <1>4, <2>1, <2>4 DEF Serial
<1>. QED  BY <1>1, <1>2, <1>3, <1>4 DEF Serial, Only, Ending

LEMMA ChangeKeepsSerial ==
    ASSUME TInv, LInv, AInv, NEW p \in Threads, Outcome(p)
    PROVE  AInv'
<1>. SUFFICES ASSUME ~overlap', ~failed', ~misfit' PROVE Serial'
  BY DEF AInv
<1>1. /\ Only(p) /\ pc[p] = "lock" /\ Watch /\ UNCHANGED <<made, loaded, file, book, failed>>
      /\ (misfit => misfit')
      /\ stale' => stale \/ (/\ job[p].kind = "login" /\ made
                            /\ mem.accounts[job[p].at].name # job[p].copy.name)
      /\ \/ pc'[p] = "consume" /\ mem' = mem
         \/ pc'[p] = "write" /\ mem' \in {mem, snap'[p]}
  BY ChangeMoves
<1>2. ~overlap /\ Serial
  BY <1>1, WatchMeets, TFacts DEF AInv
<1>3. ~stale'
  BY <1>1, <1>2 DEF Serial
<1>4. Alters(p)
  BY <1>1, IsUnderWay
<1>5. \A q \in Threads \ {p} : pc'[q] \notin Ending /\ ~(pc'[q] = "lock" /\ job'[q].kind = "login")
  BY <1>1, <1>2, <1>4, Alone DEF Only
<1>6. file = Plainly(book) /\ (loaded => mem = file)
  BY <1>1, <1>2, Settled
<1>7. pc'[p] \notin {"reload", "lock"}
  BY <1>1
<1>8. loaded' => mem' = file' \/ (pc'[p] \in Ending /\ mem' = snap'[p])
  BY <1>1, <1>6 DEF Ending
<1>. QED  BY <1>1, <1>3, <1>5, <1>6, <1>7, <1>8 DEF Serial, Ending

LEMMA UnloadKeepsSerial ==
    ASSUME TInv, LInv, AInv, NEW p \in Threads, Unload(p)
    PROVE  AInv'
<1>. SUFFICES ASSUME ~overlap', ~failed', ~misfit' PROVE Serial'
  BY DEF AInv
<1>1. /\ Only(p) /\ pc[p] = "lock" /\ Watch /\ pc'[p] = "consume" /\ ~loaded'
      /\ UNCHANGED <<file, book, stale, misfit, failed>>
  BY UnloadMoves
<1>2. ~overlap /\ Serial
  BY <1>1, WatchMeets, TFacts DEF AInv
<1>3. \A q \in Threads \ {p} : pc'[q] \notin Ending /\ ~(pc'[q] = "lock" /\ job'[q].kind = "login")
  BY <1>1, <1>2, IsUnderWay, Alone DEF Only
<1>. QED  BY <1>1, <1>2, <1>3 DEF Serial, Ending, Only

LEMMA WriteKeepsSerial ==
    ASSUME TInv, LInv, AInv, NEW p \in Threads, Write(p)
    PROVE  AInv'
<1>. SUFFICES ASSUME ~overlap', ~failed', ~misfit' PROVE Serial'
  BY DEF AInv
<1>1. /\ Only(p) /\ pc[p] = "write" /\ Watch /\ pc'[p] = "reload" /\ snap'[p] = snap[p]
      /\ file' \in Normalized(snap[p]) /\ UNCHANGED <<mem, loaded, book, stale, misfit, failed>>
  BY WriteMoves
<1>2. ~overlap /\ Serial
  BY <1>1, WatchMeets, TFacts DEF AInv
<1>3. Sound(snap[p]) /\ Distinct(snap[p])
  BY <1>1, <1>2, TFacts DEF Serial, Slipped
<1>4. file' = Plainly(snap[p])
  BY <1>1, <1>3, KeepsAll
<1>5. \A q \in Threads \ {p} : pc[q] \notin Ending /\ pc'[q] \notin Ending
  BY <1>1, <1>2, IsUnderWay, Alone DEF Only
<1>6. ASSUME loaded'
      PROVE  mem' = Plainly(book') \/ \E q \in Threads : pc'[q] \in Ending /\ mem' = snap'[q]
  <2>1. CASE mem = Plainly(book)
    BY <1>1, <2>1
  <2>2. CASE mem = file
    <3>1. file = Plainly(book)
      BY <1>1, <1>2, <1>5 DEF Serial, Ending
    <3>. QED  BY <1>1, <2>2, <3>1
  <2>3. ASSUME NEW q \in Threads, pc[q] \in Ending, mem = snap[q]
        PROVE  pc'[q] \in Ending /\ mem' = snap'[q]
    BY <1>1, <2>3 DEF Only, Ending
  <2>. QED  BY <1>1, <1>2, <1>6, <2>1, <2>2, <2>3 DEF Serial
<1>7. \A q \in Threads : pc'[q] = "lock" /\ job'[q].kind = "login" =>
          mem'.accounts[job'[q].at] = job'[q].copy
  BY <1>1, <1>2 DEF Serial, Only
<1>8. \A q \in Threads : pc'[q] = "reload" => file' = Plainly(snap'[q])
  BY <1>1, <1>4, <1>5 DEF Ending
<1>. QED  BY <1>1, <1>2, <1>6, <1>7, <1>8 DEF Serial

LEMMA ReloadKeepsSerial ==
    ASSUME TInv, LInv, AInv, NEW p \in Threads, Reload(p)
    PROVE  AInv'
<1>. SUFFICES ASSUME ~overlap', ~failed', ~misfit' PROVE Serial'
  BY DEF AInv
<1>1. /\ Only(p) /\ pc[p] = "reload" /\ Watch /\ pc'[p] = "consume"
      /\ mem' = file /\ book' = snap[p] /\ UNCHANGED <<file, stale, misfit, failed>>
  BY ReloadMoves
<1>2. ~overlap /\ Serial
  BY <1>1, WatchMeets, TFacts DEF AInv
<1>3. file = Plainly(snap[p])
  BY <1>1, <1>2 DEF Serial
<1>4. \A q \in Threads \ {p} : pc'[q] \notin Ending /\ ~(pc'[q] = "lock" /\ job'[q].kind = "login")
  BY <1>1, <1>2, IsUnderWay, Alone DEF Only
<1>. QED  BY <1>1, <1>2, <1>3, <1>4 DEF Serial, Ending

LEMMA NextKeepsSerial ==
    ASSUME TInv, LInv, AInv, [Next]_vars
    PROVE  AInv'
<1>1. CASE UNCHANGED vars
  BY <1>1 DEF vars, memVars, runVars, histVars, AInv, Serial
<1>2. CASE Restart
  <2>1. /\ loaded' = FALSE /\ book' = file /\ UNCHANGED <<file, overlap, stale, misfit, failed>>
        /\ \A p \in Threads : pc'[p] \in {"idle", "done", "killed"}
    BY <1>2 DEF Restart
  <2>2. Plainly(file) = file
    BY TFacts, FiledStays DEF Sound, Filed
  <2>3. Serial => Serial'
    BY <2>1, <2>2 DEF Serial
  <2>. QED  BY <2>1, <2>3 DEF AInv
<1>3. ASSUME NEW p \in Threads, NEW request \in Requests, Begin(p, request) PROVE AInv'
  <2>1. /\ Only(p) /\ pc[p] = "idle" /\ Watch
        /\ UNCHANGED <<memVars, file, book, stale, misfit, failed>>
        /\ pc'[p] = "load" \/ (pc'[p] = "lock" /\ job'[p].kind \in Unchecked)
    BY <1>3, BeginMoves
  <2>. QED  BY <2>1, WatchMeets, TFacts, AStep DEF memVars, Ending, Unchecked
<1>4. ASSUME NEW p \in Threads, OwnNext(p) PROVE AInv'
  <2>1. CASE ReadForUpdate(p) \/ CheckOwnPassword(p) \/ CheckCredentials(p) \/ ReadGroup(p)
    <3>1. /\ Only(p) /\ pc[p] = "read" /\ Watch
          /\ UNCHANGED <<memVars, file, book, stale, misfit, failed>>
          /\ \/ pc'[p] = "consume"
             \/ /\ pc'[p] = "lock"
                /\ job'[p].kind = "login" => job'[p].copy = mem.accounts[job'[p].at]
      BY <2>1, ReadMoves
    <3>. QED  BY <3>1, WatchMeets, TFacts, AStep DEF memVars, Ending
  <2>2. CASE WriteFails(p)
    BY <2>2, WriteFailsMoves DEF AInv
  <2>3. CASE Consume(p)
    BY <2>3, ConsumeMoves, AStep DEF memVars, Ending
  <2>. QED  BY <1>4, <2>1, <2>2, <2>3, Steps, LoadKeepsSerial, ChangeKeepsSerial,
            UnloadKeepsSerial, WriteKeepsSerial, ReloadKeepsSerial
<1>. QED  BY <1>1, <1>2, <1>3, <1>4 DEF Next

LEMMA Serialised == Spec => []AInv
<1>1. Init => AInv
  <2>1. Plainly(Default) = Default
    BY DefaultIsSound, FiledStays DEF Sound, Filed
  <2>. QED  BY <2>1 DEF Init, AInv, Serial
<1>2. TInv /\ LInv /\ AInv /\ [Next]_vars => AInv'
  BY NextKeepsSerial
<1>. QED  BY <1>1, <1>2, Typed, Locked, PTL DEF Spec

\* While updates come one at a time, no write fails and nothing is stored under an id that
\* the file cannot keep, what the responses have promised, or the update under way has
\* changed, is in the file and, once it is loaded, in memory, however the requests spell
\* ids, through unloads and through a crash and a restart at any step.
THEOREM NothingAcknowledgedIsLost == Spec => []AcknowledgedSurvives
<1>1. TInv /\ AInv => AcknowledgedSurvives
  <2>. SUFFICES ASSUME TInv, Serial
                PROVE  file \in Expected /\ (loaded => Plainly(mem) \in Expected)
    BY DEF AInv, AcknowledgedSurvives
  <2>1. /\ Plainly(book) \in Expected
        /\ \A p \in Threads : pc[p] \in Ending => Plainly(snap[p]) \in Expected
    BY DEF Expected, Ending
  <2>2. file \in Expected
    BY <2>1 DEF Serial, Ending
  <2>3. Plainly(file) = file /\ Plainly(Plainly(book)) = Plainly(book)
    BY TFacts, FiledStays, PlainlyTwice DEF Sound, Filed
  <2>. QED  BY <2>1, <2>2, <2>3 DEF Serial
<1>. QED  BY <1>1, Typed, Serialised, PTL

-----------------------------------------------------------------------------
(* What creating an account leaves in the file *)

CInv == ~overlap /\ ~failed /\ ~misfit =>
    \A p \in Threads : pc[p] = "write" /\ job[p].kind = "create" =>
        \A k \in Present(file) : snap[p].accounts[k] = file.accounts[k]

LEMMA CreateKeepsAccounts ==
    ASSUME TInv, LInv, AInv, NEW p \in Threads, OwnNext(p), pc[p] = "lock",
           job[p].kind = "create", ~overlap, ~failed, ~misfit, pc'[p] = "write"
    PROVE  \A k \in Present(file) : snap'[p].accounts[k] = file.accounts[k]
<1>1. CreateAccount(p)
  BY DEF OwnNext, AccountNext, GroupNext, Load, ReadForUpdate, CheckOwnPassword, CheckCredentials,
         ReadGroup, First, UpdateAccount, UpdatePassword, UpdatePermissions, IssueAPIKey,
         DeleteAPIKey, DeleteAccount, Change, VerifyAPIKey, PersistAccount, CreateGroup,
         UpdateGroup, UpdateGroupPermissions, DeleteGroup, UpdateSettings, PutConfig, Unload,
         Write, WriteFails, Reload, Consume, Section
<1>. DEFINE n == job[p].at
            a == [NoAccount EXCEPT !.there = TRUE, !.name = job[p].name, !.pw = p]
<1>2. /\ made /\ \A j \in Present(mem) : j # n
      /\ snap' = [snap EXCEPT ![p] = With(n, a)]
  <2>1. ~Goto(p, "consume")
    BY DEF Goto, TInv, Shapes
  <2>. QED  BY <1>1, <2>1 DEF CreateAccount, Refuse, Assign, Publish, Snapshot
<1>3. snap'[p] = With(n, a)
  BY <1>2 DEF TInv, Shapes
<1>4. mem = file
  BY <1>2, Settled, TFacts
<1>. HIDE DEF n, a
<1>. QED  BY <1>2, <1>3, <1>4, TFacts DEF With, Present, Sound, Store

LEMMA NextKeepsCreate ==
    ASSUME TInv, LInv, AInv, CInv, [Next]_vars
    PROVE  CInv'
<1>. SUFFICES ASSUME ~overlap', ~failed', ~misfit', NEW p \in Threads, pc'[p] = "write",
                     job'[p].kind = "create", NEW k \in Present(file')
              PROVE  snap'[p].accounts[k] = file'.accounts[k]
  BY DEF CInv
<1>1. CASE UNCHANGED vars
  BY <1>1 DEF vars, memVars, runVars, histVars, CInv, Present
<1>2. CASE Restart
  BY <1>2 DEF Restart
<1>3. ASSUME NEW q \in Threads, Only(q), overlap => overlap', misfit => misfit', q # p,
             UNCHANGED <<file, failed>>
      PROVE  snap'[p].accounts[k] = file'.accounts[k]
  BY <1>3 DEF CInv, Only, Present
<1>4. ASSUME NEW q \in Threads, NEW request \in Requests, Begin(q, request)
      PROVE  snap'[p].accounts[k] = file'.accounts[k]
  <2>1. Only(q) /\ Watch /\ UNCHANGED <<file, misfit, failed>> /\ pc'[q] # "write"
    BY <1>4, BeginMoves
  <2>. QED  BY <1>3, <2>1, WatchMeets, TFacts
<1>5. ASSUME NEW q \in Threads, OwnNext(q)
      PROVE  snap'[p].accounts[k] = file'.accounts[k]
  <2>1. CASE Outcome(q)
    <3>1. /\ Only(q) /\ Watch /\ UNCHANGED <<file, failed>> /\ (misfit => misfit')
          /\ pc[q] = "lock" /\ (pc'[q] = "write" => job'[q].kind = job[q].kind)
      BY <2>1, ChangeMoves
    <3>2. CASE q = p
      BY <1>5, <3>1, <3>2, WatchMeets, TFacts, CreateKeepsAccounts
    <3>. QED  BY <1>3, <3>1, <3>2, WatchMeets, TFacts
  <2>2. CASE Write(q)
    <3>1. Only(q) /\ Watch /\ pc[q] = "write" /\ pc'[q] = "reload"
      BY <2>2, WriteMoves
    <3>2. q # p /\ pc[p] = "write"
      BY <3>1 DEF Only
    <3>3. ~overlap
      BY <3>1, WatchMeets, TFacts
    <3>. QED  BY <3>1, <3>2, <3>3, IsUnderWay, Alone DEF Ending
  <2>3. CASE Consume(q)
    BY <1>3, <2>3, ConsumeMoves
  <2>4. CASE \/ Load(q) \/ ReadForUpdate(q) \/ CheckOwnPassword(q) \/ CheckCredentials(q)
             \/ ReadGroup(q) \/ Unload(q) \/ WriteFails(q) \/ Reload(q)
    <3>1. /\ Only(q) /\ Watch /\ pc'[q] # "write" /\ UNCHANGED <<file, misfit>>
          /\ (failed' = failed \/ failed')
      BY <2>4, LoadMoves, ReadMoves, UnloadMoves, WriteFailsMoves, ReloadMoves
    <3>2. failed' = failed
      BY <3>1, TFacts DEF TInv, TypeOK
    <3>. QED  BY <1>3, <3>1, <3>2, WatchMeets, TFacts
  <2>. QED  BY <1>5, <2>1, <2>2, <2>3, <2>4, Steps
<1>. QED  BY <1>1, <1>2, <1>4, <1>5 DEF Next

\* An account under a plain id is in the file as it is in a store without clashes.
LEMMA PlainKept ==
    ASSUME NEW s \in Store, Distinct(s), NEW k \in Present(s), k.as = Plain
    PROVE  Plainly(s).accounts[k] = s.accounts[k]
<1>1. k \in Keys /\ \A j \in Present(s) : j.id = k.id => j = k
  BY DEF Present, Distinct, Misfit
<1>2. (CHOOSE j \in Present(s) : j.id = k.id) = k
  BY <1>1
<1>3. Plainly(s).accounts = Respelt(s.accounts, Present(s), NoAccount)
  BY KeepIs DEF Plainly
<1>4. k \in DOMAIN s.accounts
  BY <1>1, Shape
<1>. QED  BY <1>2, <1>3, <1>4 DEF Respelt

\* A write that ends the creation of an account leaves the others as they are.
KeepsOthers ==
    \A p \in Threads :
       Write(p) /\ job[p].kind = "create" /\ ~overlap /\ ~failed /\ ~misfit =>
       \A k \in Present(file) : file'.accounts[k] = file.accounts[k]

\* While updates come one at a time, no write fails and every id fits, creating an account
\* neither takes another out of the file nor changes one, however its id is spelled: what
\* the file loses when an account is created it loses to an id that does not fit.
THEOREM CreateDropsOnlyMisfits == Spec => [][KeepsOthers]_vars
<1>1. Init => CInv
  BY DEF Init, CInv
<1>2. TInv /\ LInv /\ AInv /\ CInv /\ [Next]_vars => CInv'
  BY NextKeepsCreate
<1>3. TInv /\ AInv /\ CInv => KeepsOthers
  <2>. SUFFICES ASSUME TInv, AInv, CInv, NEW p \in Threads, Write(p), job[p].kind = "create",
                       ~overlap, ~failed, ~misfit, NEW k \in Present(file)
                PROVE  file'.accounts[k] = file.accounts[k]
    BY DEF KeepsOthers
  <2>1. pc[p] = "write" /\ file' \in Normalized(snap[p])
    BY DEF Write
  <2>2. Sound(snap[p]) /\ Distinct(snap[p])
    BY TFacts DEF AInv, Serial, Slipped
  <2>3. file' = Plainly(snap[p])
    BY <2>1, <2>2, KeepsAll
  <2>4. k \in Keys /\ file.accounts[k].there /\ snap[p].accounts[k] = file.accounts[k]
    BY <2>1 DEF CInv, Present
  <2>5. k.as = Plain
    BY <2>4, TFacts, Shape, Absent DEF Filed, IsPlain, Sound
  <2>6. k \in Present(snap[p])
    BY <2>4 DEF Present
  <2>. QED  BY <2>2, <2>3, <2>4, <2>5, <2>6, PlainKept DEF Sound
<1>4. TInv /\ AInv /\ CInv => [KeepsOthers]_vars
  BY <1>3
<1>. QED  BY <1>1, <1>2, <1>4, Typed, Locked, Serialised, PTL DEF Spec
=============================================================================
