---------------------------- MODULE AccountStore ----------------------------
(***************************************************************************)
(* The account and group store of Account Manager: maps in memory under    *)
(* h.mu, and config.json, which outlives the process.                      *)
(*                                                                         *)
(* An update changes the maps under h.mu, copies the configuration,        *)
(* releases h.mu, replaces the file (its own temporary file, renamed) and  *)
(* loads the file again.  Some updates look at the store in an earlier     *)
(* critical section and decide on what they saw there.  An unload sets the *)
(* maps to nil; an assignment to a nil map panics, the panic is recovered, *)
(* and h.mu stays locked.                                                  *)
(***************************************************************************)
EXTENDS Naturals, FiniteSets

CONSTANTS
    Names,      \* ids and user names, numbered in the order they sort in
    Spellings,  \* how an id may be spelled in a request
    Plain,      \* the spelling sanitizeAccountManagerID gives
    Void,       \* a spelling of which it leaves nothing
    Groups,     \* ids of groups
    Threads,    \* each performs at most one request
    Seed,       \* the value of a field nobody has changed yet
    Blank,      \* no password
    MaxBoots    \* bound on the number of times the service is restarted

ASSUME NamesAssumption == Names \subseteq Nat \ {0} /\ Names # {} /\ IsFiniteSet(Names)
ASSUME SpellingsAssumption == Plain \in Spellings /\ Void # Plain
ASSUME SeedAssumption == Seed \notin Threads /\ Blank \notin Threads \union {Seed}
ASSUME BootsAssumption == MaxBoots \in Nat

VARIABLES
    mem,       \* h.accounts, h.groups and the rest of h.config
    made,      \* the maps are not nil
    loaded,    \* h.loaded
    newer,     \* config.json is newer than h.lastModified
    held,      \* h.mu is locked by a handler that has left
    stop,      \* h.pendingStop
    stopping,  \* the shutdown of the service has been requested
    file,      \* config.json
    boots,     \* restarts so far
    pc,        \* pc[p]: where request p is
    job,       \* job[p]: what request p asks for, and what it has seen
    snap,      \* snap[p]: the configuration p is about to write
    book,      \* the store as the responses have promised it (history)
    overlap,   \* two updates, or an update and an unload, have met (history)
    stale,     \* a login has written back an account changed since (history)
    misfit,    \* something was stored under an id the file cannot keep (history)
    failed     \* a write has failed (history)

memVars  == <<mem, made, loaded, newer>>
runVars  == <<held, stop, stopping, boots>>
histVars == <<book, overlap, stale, misfit, failed>>
vars == <<memVars, runVars, file, pc, job, snap, histVars>>

Values  == Threads \union {Seed}
Keys    == [id : Names, as : Spellings]
GroupKeys == [id : Groups, as : Spellings]
Account == [there : BOOLEAN, name : Names \union {0},
            pw : Values \union {Blank}, note : Values,
            keys : SUBSET Threads, groups : SUBSET Groups]
Group   == [there : BOOLEAN, note : Values, perms : Values]
Store   == [accounts : [Keys -> Account], groups : [GroupKeys -> Group], mcp : Values]

NoAccount == [there |-> FALSE, name |-> 0, pw |-> Blank, note |-> Seed, keys |-> {},
              groups |-> {}]
NoGroup   == [there |-> FALSE, note |-> Seed, perms |-> Seed]
Nothing   == [accounts |-> [k \in Keys |-> NoAccount],
              groups |-> [k \in GroupKeys |-> NoGroup], mcp |-> Seed]
PlainKey(id) == [id |-> id, as |-> Plain]

\* The configuration the service is delivered with: an administrator in all groups.
Default ==
    LET admin == PlainKey(CHOOSE n \in Names : \A m \in Names : n <= m) IN
    [Nothing EXCEPT
        !.accounts[admin] = [NoAccount EXCEPT !.there = TRUE, !.name = admin.id,
                                              !.pw = Seed, !.groups = Groups],
        !.groups = [k \in GroupKeys |-> [NoGroup EXCEPT !.there = (k.as = Plain)]]]

NoJob == [kind |-> "none", ref |-> 0, at |-> PlainKey(0), field |-> "none", name |-> 0,
          copy |-> NoAccount, group |-> PlainKey(CHOOSE g \in Groups : TRUE), of |-> NoGroup,
          posted |-> Nothing]

Init ==
    /\ mem = Nothing
    /\ made = FALSE
    /\ loaded = FALSE
    /\ newer = TRUE
    /\ held = FALSE
    /\ stop = FALSE
    /\ stopping = FALSE
    /\ file = Default
    /\ boots = 0
    /\ pc = [p \in Threads |-> "idle"]
    /\ job = [p \in Threads |-> NoJob]
    /\ snap = [p \in Threads |-> Nothing]
    /\ book = Default
    /\ overlap = FALSE
    /\ stale = FALSE
    /\ misfit = FALSE
    /\ failed = FALSE

-----------------------------------------------------------------------------
(* Helpers *)

Goto(p, label) == pc' = [pc EXCEPT ![p] = label]

Present(s) == {k \in Keys : s.accounts[k].there}
PresentGroups(s) == {k \in GroupKeys : s.groups[k].there}

\* findAccountLocked: any account whose id or user name is the one asked for;
\* findGroupLocked.
Find(ref) == {k \in Present(mem) : k.id = ref \/ mem.accounts[k].name = ref}
FindGroup(id) == {k \in PresentGroups(mem) : k.id = id}

\* The file cannot keep, beside those present, what is stored under this key.
Misfit(k, present) == k.as = Void \/ \E j \in present : j # k /\ j.id = k.id

\* Two accounts the file cannot both hold.
Clash(s, j, k) == j # k /\ (j.id = k.id \/ s.accounts[j].name = s.accounts[k].name)

\* normalizeAccountManagerConfig goes through the accounts by user name, in any
\* order where names are equal, and passes over ids and names it has seen.
Lasting(present) == {k \in present : k.as # Void}
Survivors(s) ==
    {kept \in SUBSET Lasting(Present(s)) :
        /\ \A j, k \in kept : ~Clash(s, j, k)
        /\ \A k \in Lasting(Present(s)) \ kept : \E j \in kept :
              Clash(s, j, k) /\ s.accounts[j].name <= s.accounts[k].name}

\* Of groups with one id any may come first.
GroupSurvivors(s) ==
    {kept \in SUBSET Lasting(PresentGroups(s)) :
        /\ \A j, k \in kept : j.id = k.id => j = k
        /\ \A k \in Lasting(PresentGroups(s)) : \E j \in kept : j.id = k.id}

Respelt(f, kept, none) ==
    [k \in DOMAIN f |->
        IF k.as = Plain /\ \E j \in kept : j.id = k.id
        THEN f[CHOOSE j \in kept : j.id = k.id]
        ELSE none]
Keep(s, kept, keptGroups) ==
    [s EXCEPT !.accounts = Respelt(@, kept, NoAccount),
              !.groups = Respelt(@, keptGroups, NoGroup)]
Normalized(s) ==
    {Keep(s, kept, keptGroups) : kept \in Survivors(s), keptGroups \in GroupSurvivors(s)}

\* An update is under way from its first look at the store to its last load.
Altering(label, kind) ==
    label \in {"load", "read", "lock", "write", "reload"} /\ kind \notin {"get", "load"}
Watch == overlap' = (overlap \/ \E p, q \in Threads :
                        /\ p # q
                        /\ Altering(pc'[p], job'[p].kind)
                        /\ Altering(pc'[q], job'[q].kind))

\* loadConfig: read the file unless it may be skipped.
ReadConfig == mem' = file /\ made' = TRUE /\ loaded' = TRUE /\ newer' = FALSE
LoadConfig(force) ==
    IF force \/ ~loaded \/ newer THEN ReadConfig ELSE UNCHANGED memVars
LazyReload == LoadConfig(FALSE)
ForcedLoad == LoadConfig(TRUE)

-----------------------------------------------------------------------------
(* A request begins *)

\* Requests that do not make sure first that the configuration is loaded.
UncheckedAndCreate == {"unload", "config", "create"}
Unchecked == {"unload", "config"}

Begin(p, request) ==
    /\ pc[p] = "idle"
    /\ ~stopping
    /\ job' = [job EXCEPT ![p] = request]
    /\ Goto(p, IF request.kind \in Unchecked THEN "lock" ELSE "load")
    /\ UNCHANGED <<memVars, runVars, file, snap, book, stale, misfit, failed>>
    /\ Watch

Request(kind) == [NoJob EXCEPT !.kind = kind]
About(kind, ref) == [NoJob EXCEPT !.kind = kind, !.ref = ref]
AboutGroup(kind, k) == [NoJob EXCEPT !.kind = kind, !.group = k]
Creation(n, k) == [About("create", n) EXCEPT !.name = n, !.at = k]
Edit(ref, field) == [About("update", ref) EXCEPT !.field = field]
Renaming(ref, n) == [Edit(ref, "name") EXCEPT !.name = n]

\* What GET /config shows of a store: neither passwords nor the keys themselves.
Public(s) ==
    [s EXCEPT !.accounts = [k \in Keys |-> [s.accounts[k] EXCEPT !.pw = Blank, !.keys = {}]]]

Requests ==
    {Request(kind) : kind \in {"get", "load", "unload", "settings", "keylogin"}}
    \union {About(kind, ref) :
               kind \in {"password", "own", "permissions", "issue", "revoke", "delete", "login"},
               ref \in Names}
    \union {Creation(n, k) : n \in Names, k \in Keys}
    \union {Edit(ref, field) : ref \in Names, field \in {"pw", "note", "groups"}}
    \union {Renaming(ref, n) : ref, n \in Names}
    \union {AboutGroup("newgroup", k) : k \in GroupKeys}
    \union {AboutGroup(kind, PlainKey(g)) :
               kind \in {"editgroup", "groupperms", "nogroup"}, g \in Groups}
    \union {[Request("config") EXCEPT !.posted = Public(file)]}

\* ensureLoaded, or a load that is asked for.
TwoSections == {"update", "own", "login", "editgroup"}
Load(p) ==
    /\ pc[p] = "load"
    /\ ~held
    /\ LoadConfig(job[p].kind = "load")
    /\ Goto(p, CASE job[p].kind \in {"get", "load"} -> "consume"
                 [] job[p].kind \in TwoSections     -> "read"
                 [] OTHER                           -> "lock")
    /\ UNCHANGED <<runVars, file, job, snap, book, stale, misfit, failed>>
    /\ Watch

-----------------------------------------------------------------------------
(* The first critical section of updates that have two *)

First(p, kind) == pc[p] = "read" /\ ~held /\ job[p].kind = kind
FirstFrame == UNCHANGED <<memVars, runVars, file, snap, book, stale, misfit, failed>> /\ Watch

NotFound(p) == Find(job[p].ref) = {} /\ Goto(p, "consume") /\ UNCHANGED job
See(p, k) == job' = [job EXCEPT ![p].at = k, ![p].copy = mem.accounts[k]]

\* updateAccount: the account as it is now is the base of the one to be stored.
ReadForUpdate(p) ==
    /\ First(p, "update")
    /\ \/ NotFound(p)
       \/ \E k \in Find(job[p].ref) : See(p, k) /\ Goto(p, "lock")
    /\ FirstFrame

\* updateOwnAccountPassword: the current password is right or wrong; if it is
\* right, updateAccountPassword looks for the account again, by its id.
CheckOwnPassword(p) ==
    /\ First(p, "own")
    /\ \/ NotFound(p)
       \/ Find(job[p].ref) # {} /\ Goto(p, "consume") /\ UNCHANGED job
       \/ \E k \in Find(job[p].ref) :
             /\ job' = [job EXCEPT ![p] = About("password", k.id)]
             /\ Goto(p, "lock")
    /\ FirstFrame

\* verifyCredentials: the password is right or wrong, the account allowed or not.
CheckCredentials(p) ==
    /\ First(p, "login")
    /\ \/ NotFound(p)
       \/ Find(job[p].ref) # {} /\ Goto(p, "consume") /\ UNCHANGED job
       \/ \E k \in Find(job[p].ref) : See(p, k) /\ Goto(p, "lock")
    /\ FirstFrame

ReadGroup(p) ==
    /\ First(p, "editgroup")
    /\ LET found == FindGroup(job[p].group.id) IN
       \/ found = {} /\ Goto(p, "consume") /\ UNCHANGED job
       \/ \E k \in found :
             /\ job' = [job EXCEPT ![p].group = k, ![p].of = mem.groups[k]]
             /\ Goto(p, "lock")
    /\ FirstFrame

-----------------------------------------------------------------------------
(* The critical section that changes the store *)

Section(p, kind) == pc[p] = "lock" /\ ~held /\ job[p].kind = kind

Frame == /\ Watch
         /\ UNCHANGED <<made, loaded, newer, stop, stopping, boots, file, book, failed>>

Refuse(p) == Goto(p, "consume") /\ UNCHANGED <<mem, held, job, snap>>
Snapshot(p, s) ==
    /\ snap' = [snap EXCEPT ![p] = s]
    /\ job' = [job EXCEPT ![p] = Request(job[p].kind)]
    /\ Goto(p, "write")
    /\ UNCHANGED held
PublishBefore(p, s) == mem' = s /\ Snapshot(p, mem)
Publish(p, s) == mem' = s /\ Snapshot(p, s)

\* An assignment to one of the maps, which panics if they are nil.
Assign(p, s) ==
    \/ made /\ Publish(p, s)
    \/ ~made /\ held' = TRUE /\ Goto(p, "consume") /\ UNCHANGED <<mem, job, snap>>

With(k, account) == [mem EXCEPT !.accounts[k] = account]
WithGroup(k, group) == [mem EXCEPT !.groups[k] = group]

CreateAccount(p) ==
    /\ Section(p, "create")
    /\ LET k == job[p].at   n == job[p].name IN
       \/ /\ \E j \in Present(mem) : j = k \/ mem.accounts[j].name = n
          /\ Refuse(p) /\ UNCHANGED misfit
       \/ /\ \A j \in Present(mem) : j # k /\ mem.accounts[j].name # n
          /\ Assign(p, With(k, [NoAccount EXCEPT !.there = TRUE, !.name = n, !.pw = p]))
          /\ misfit' = (misfit \/ Misfit(k, Present(mem)))
    /\ Frame /\ UNCHANGED stale

\* The account seen before, with the one field the request changes.
Edited(p) ==
    LET copy == job[p].copy IN
    CASE job[p].field = "name"   -> [copy EXCEPT !.name = job[p].name]
      [] job[p].field = "pw"     -> [copy EXCEPT !.pw = p]
      [] job[p].field = "note"   -> [copy EXCEPT !.note = p]
      [] job[p].field = "groups" -> [copy EXCEPT !.groups = {}]
TakenUnseen(p) == FALSE
Taken(p) == \E j \in Present(mem) : j # job[p].at /\ mem.accounts[j].name = Edited(p).name
UpdateAccount(p) ==
    /\ Section(p, "update")
    /\ \/ Taken(p) /\ Refuse(p) /\ UNCHANGED misfit
       \/ /\ ~Taken(p)
          /\ Assign(p, With(job[p].at, Edited(p)))
          /\ misfit' = (misfit \/ Misfit(job[p].at, Present(mem)))
    /\ Frame /\ UNCHANGED stale

\* Updates of one section: find the account and store what changed makes of it.
Change(p, kind, changed) ==
    /\ Section(p, kind)
    /\ \/ Find(job[p].ref) = {} /\ Refuse(p)
       \/ \E k \in Find(job[p].ref) : Publish(p, With(k, changed[k]))
    /\ Frame /\ UNCHANGED <<stale, misfit>>

UpdatePassword(p) ==
    Change(p, "password", [k \in Keys |-> [mem.accounts[k] EXCEPT !.pw = p]])
UpdatePermissions(p) ==
    Change(p, "permissions", [k \in Keys |-> [mem.accounts[k] EXCEPT !.note = p]])
IssueAPIKey(p) ==
    Change(p, "issue", [k \in Keys |-> [mem.accounts[k] EXCEPT !.keys = @ \union {p}]])
DeleteAccount(p) ==
    Change(p, "delete", [k \in Keys |-> NoAccount])

DeleteAPIKey(p) ==
    /\ Section(p, "revoke")
    /\ \/ Refuse(p)                    \* no such account, or no such key
       \/ \E k \in Find(job[p].ref) : \E key \in mem.accounts[k].keys :
             Publish(p, [mem EXCEPT !.accounts[k].keys = @ \ {key}])
    /\ Frame /\ UNCHANGED <<stale, misfit>>

\* A login with an API key stamps the account (the stamp is not modelled).
VerifyAPIKey(p) ==
    /\ Section(p, "keylogin")
    /\ \/ Refuse(p)
       \/ (\E k \in Present(mem) : mem.accounts[k].keys # {}) /\ Publish(p, mem)
    /\ Frame /\ UNCHANGED <<stale, misfit>>

\* persistAccount: a login stores the account as it was when it looked.
PersistAccount(p) ==
    /\ Section(p, "login")
    /\ LET k == job[p].at IN
       /\ Assign(p, With(k, job[p].copy))
       /\ stale' = (stale \/ (made /\ mem.accounts[k].name # job[p].copy.name))
    /\ Frame /\ UNCHANGED misfit

CreateGroup(p) ==
    /\ Section(p, "newgroup")
    /\ LET k == job[p].group IN
       \/ mem.groups[k].there /\ Refuse(p) /\ UNCHANGED misfit
       \/ /\ ~mem.groups[k].there
          /\ Assign(p, WithGroup(k, [there |-> TRUE, note |-> p, perms |-> p]))
          /\ misfit' = (misfit \/ Misfit(k, PresentGroups(mem)))
    /\ Frame /\ UNCHANGED stale

UpdateGroup(p) ==
    /\ Section(p, "editgroup")
    /\ Assign(p, WithGroup(job[p].group, [job[p].of EXCEPT !.note = p]))
    /\ misfit' = (misfit \/ Misfit(job[p].group, PresentGroups(mem)))
    /\ Frame /\ UNCHANGED stale

UpdateGroupPermissions(p) ==
    /\ Section(p, "groupperms")
    /\ LET found == FindGroup(job[p].group.id) IN
       \/ found = {} /\ Refuse(p)
       \/ \E k \in found : Publish(p, [mem EXCEPT !.groups[k].perms = p])
    /\ Frame /\ UNCHANGED <<stale, misfit>>

\* deleteGroup takes the group out of every account too.
DeleteGroup(p) ==
    /\ Section(p, "nogroup")
    /\ LET found == FindGroup(job[p].group.id) IN
       \/ found = {} /\ Refuse(p)
       \/ \E g \in found :
             Publish(p, [mem EXCEPT
                !.groups[g] = NoGroup,
                !.accounts = [k \in Keys |->
                    [mem.accounts[k] EXCEPT !.groups = @ \ {h.id : h \in Lasting({g})}]]])
    /\ Frame /\ UNCHANGED <<stale, misfit>>

\* The settings of the MCP tools: memory follows only when the file is loaded.
UpdateSettings(p) ==
    /\ Section(p, "settings")
    /\ Snapshot(p, [mem EXCEPT !.mcp = p])
    /\ UNCHANGED <<mem, stale, misfit>>
    /\ Frame

\* mergeSensitiveConfig: what a posted configuration does not show comes from the
\* store in memory, API keys excepted.  An account is looked up by its id among
\* ids and user names, and the one latest in the list answers.
Merged(posted) ==
    [posted EXCEPT !.accounts = [k \in Keys |->
        LET old == Find(k.id)
            last == CHOOSE j \in old : \A i \in old :
                        mem.accounts[i].name <= mem.accounts[j].name
        IN  IF ~posted.accounts[k].there \/ old = {} THEN posted.accounts[k]
            ELSE [posted.accounts[k] EXCEPT
                    !.pw = IF @ = Blank THEN mem.accounts[last].pw ELSE @,
                    !.groups = IF @ = {} THEN mem.accounts[last].groups ELSE @]]]
PutConfig(p) ==
    /\ Section(p, "config")
    /\ Snapshot(p, Merged(job[p].posted))
    /\ UNCHANGED <<mem, stale, misfit>>
    /\ Frame

\* /plugin/unload: maps and configuration are dropped.
MapsOnly == [Nothing EXCEPT !.mcp = mem.mcp]
Dropped == Nothing
Unload(p) ==
    /\ Section(p, "unload")
    /\ mem' = Dropped
    /\ made' = FALSE
    /\ loaded' = FALSE
    /\ newer' = TRUE
    /\ stop' = TRUE
    /\ Goto(p, "consume")
    /\ UNCHANGED <<held, stopping, boots, file, job, snap, book, stale, misfit, failed>>
    /\ Watch

-----------------------------------------------------------------------------
(* The end of a request, and of the process *)

\* writeAccountManagerConfig: a temporary file of its own replaces the file.
Write(p) ==
    /\ pc[p] = "write"
    /\ file' \in Normalized(snap[p])
    /\ newer' \in {newer, TRUE}
    /\ Goto(p, "reload")
    /\ UNCHANGED <<mem, made, loaded, runVars, job, snap, book, stale, misfit, failed>>
    /\ Watch

WriteFails(p) ==
    /\ pc[p] = "write"
    /\ failed' = TRUE
    /\ snap' = [snap EXCEPT ![p] = Nothing]
    /\ Goto(p, "consume")
    /\ UNCHANGED <<memVars, runVars, file, job, book, stale, misfit>>
    /\ Watch

\* loadConfig(true), after which the request is answered with success.
Reload(p) ==
    /\ pc[p] = "reload"
    /\ ~held
    /\ ForcedLoad
    /\ book' = snap[p]
    /\ snap' = [snap EXCEPT ![p] = Nothing]
    /\ Goto(p, "consume")
    /\ UNCHANGED <<runVars, file, job, stale, misfit, failed>>
    /\ Watch

\* ServeHTTP, once the response is written: whoever finds the pending stop
\* requests the shutdown.
Consume(p) ==
    /\ pc[p] = "consume"
    /\ ~held
    /\ stop' = FALSE
    /\ stopping' = (stopping \/ stop)
    /\ job' = [job EXCEPT ![p] = NoJob]
    /\ Goto(p, "done")
    /\ UNCHANGED <<memVars, held, boots, file, snap, histVars>>

\* The process ends, at any point, and a new one starts with empty maps.
Restart ==
    /\ boots < MaxBoots
    /\ boots' = boots + 1
    /\ mem' = Nothing
    /\ made' = FALSE
    /\ loaded' = FALSE
    /\ newer' = TRUE
    /\ held' = FALSE
    /\ stop' = FALSE
    /\ stopping' = FALSE
    /\ pc' = [p \in Threads |-> IF pc[p] \in {"idle", "done"} THEN pc[p] ELSE "killed"]
    /\ job' = [p \in Threads |-> NoJob]
    /\ snap' = [p \in Threads |-> Nothing]
    /\ book' = file
    /\ UNCHANGED <<file, overlap, stale, misfit, failed>>

-----------------------------------------------------------------------------

AccountNext(p) ==
    \/ CreateAccount(p) \/ UpdateAccount(p) \/ UpdatePassword(p) \/ UpdatePermissions(p)
    \/ IssueAPIKey(p) \/ DeleteAPIKey(p) \/ DeleteAccount(p)
    \/ VerifyAPIKey(p) \/ PersistAccount(p)
GroupNext(p) ==
    CreateGroup(p) \/ UpdateGroup(p) \/ UpdateGroupPermissions(p) \/ DeleteGroup(p)
OwnNext(p) ==
    \/ Load(p)
    \/ ReadForUpdate(p) \/ CheckOwnPassword(p) \/ CheckCredentials(p) \/ ReadGroup(p)
    \/ AccountNext(p) \/ GroupNext(p)
    \/ UpdateSettings(p) \/ PutConfig(p) \/ Unload(p)
    \/ Write(p) \/ WriteFails(p) \/ Reload(p) \/ Consume(p)

Next ==
    \/ \E p \in Threads : (\E request \in Requests : Begin(p, request)) \/ OwnNext(p)
    \/ Restart

Spec == Init /\ [][Next]_vars

\* A goroutine that serves a request goes on; a Go mutex starves nobody.
FairSpec == Spec /\ \A p \in Threads : WF_vars(OwnNext(p))

-----------------------------------------------------------------------------
(* Properties *)

\* Before the first load, and after an unload, the maps hold nothing; a snapshot
\* exists only between a change and its last load.
TypeOK ==
    /\ {mem, file, book} \subseteq Store
    /\ {made, loaded, newer, held, stop, stopping, overlap, stale, misfit,
        failed} \subseteq BOOLEAN
    /\ boots \in 0 .. MaxBoots
    /\ loaded => made
    /\ ~made => mem = Nothing
    /\ \A p \in Threads :
          /\ pc[p] \in {"idle", "load", "read", "lock", "write", "reload", "consume",
                        "done", "killed"}
          /\ snap[p] # Nothing => snap[p] \in Store /\ pc[p] \in {"write", "reload"}

\* A store as the file keeps it if nothing in it clashes: ids lose their spelling.
Plainly(s) == Keep(s, Present(s), PresentGroups(s))

\* The configurations that the acknowledged updates, and the one under way, may
\* have left behind.
Expected ==
    {Plainly(s) : s \in {book} \union
                      {snap[p] : p \in {q \in Threads : pc[q] \in {"write", "reload"}}}}

\* While updates come one at a time, no write fails and nothing has been stored
\* under an id the file cannot keep, an acknowledged update is in the file and, but
\* for the spelling of ids, in memory, and stays there through crashes and restarts
\* at any point of the next one.
AcknowledgedSurvives ==
    ~overlap /\ ~failed /\ ~misfit =>
        file \in Expected /\ (loaded => Plainly(mem) \in Expected)

\* However updates overlap, once none is between its change and its last load,
\* memory and file agree again, unless a write has failed.
QuietAgrees ==
    ~failed /\ loaded /\ (\A p \in Threads : pc[p] \notin {"write", "reload"})
    => mem = file

\* However updates overlap, no store clashes with itself, so that no write drops an
\* account or a group in silence, until a login writes back an account renamed
\* meanwhile or something is stored under an id the file cannot keep.
NothingToDrop ==
    ~stale /\ ~misfit => \A s \in {mem, file} \union {snap[p] : p \in Threads} :
        LET there == Present(s)   groups == PresentGroups(s) IN
        /\ \A k \in there : k.as # Void /\ \A j \in there : ~Clash(s, j, k)
        /\ \A k \in groups : ~Misfit(k, groups)

\* h.mu is left locked only by an unload that came between the load at the start
\* of an update and its change.
StuckOnlyByUnload == held => overlap /\ ~made

\* An unload leads to the shutdown of the service.
UnloadStopsService == stop ~> ~stop

\* While updates come one at a time and no write fails, creating an account takes
\* no other account out of the file.
CreateKeepsOthers ==
    [][\A p \in Threads :
          Write(p) /\ job[p].kind = "create" /\ ~overlap /\ ~failed =>
          \A k \in Present(file) : \E j \in Present(file') :
             file'.accounts[j].name = file.accounts[k].name]_vars

=============================================================================
