--------------------------- MODULE ServiceWorker ---------------------------
(***************************************************************************)
(* The app-shell worker across releases: client/sw/sw.js, the registration *)
(* of client/sw/register.js, the banner of client/pwa/update-prompt.js,    *)
(* the retiring worker of client/sw/sw-teardown.js and the version that    *)
(* tempestweb/cli/commands/build.py stamps on the worker.                  *)
(*                                                                         *)
(* A release is the content it serves and the worker script it ships.  A   *)
(* page is the content its modules came from.  The browser's registration  *)
(* has its three slots; events of the active worker wait until its         *)
(* activation ended, so that activation is one step.  The runtime cache,   *)
(* which only holds what precache does not, is not modelled.               *)
(***************************************************************************)
EXTENDS Integers

CONSTANTS
    Pages,       \* the tabs of an origin
    MaxReleases  \* bound: releases shipped after the first

ASSUME ReleasesAssumption == MaxReleases \in Nat

VARIABLES
    releases,     \* which releases there are, and how the page's calls fall
    live,      \* the release the server holds
    online,
    worker,    \* the registration: the scripts it installs, holds, runs
    orphaned,  \* the cache being filled was deleted meanwhile
    skip,      \* the waiting worker was told not to wait
    precache,  \* script -> the content in the cache it is named after
    due,       \* a navigation has the browser look for a new script
    tab        \* what each tab shows

shipped == <<releases, live, online>>
shellVars == <<shipped, worker, orphaned, skip, precache, due, tab>>

Nothing == 0
Broken == -1  \* neither network nor cache had it: the offline document
Contents == 1..(MaxReleases + 1)
Scripts == Contents
Teardown == MaxReleases + 2
Slots == Scripts \cup {Nothing, Teardown}

Closed == [at |-> "closed", code |-> Nothing, by |-> Nothing, reg |-> "none",
           watches |-> FALSE, banner |-> FALSE, armed |-> FALSE, clicked |-> FALSE]
Loading(by) == [Closed EXCEPT !.at = "loading", !.by = by]
Open == {t \in Pages : tab[t].at = "open"}
Controlled == {t \in Pages : tab[t].by /= Nothing /\ tab[t].by = worker.active}
Newest == IF worker.installing /= Nothing THEN worker.installing
          ELSE IF worker.waiting /= Nothing THEN worker.waiting ELSE worker.active

\* contentOnly: may a release keep its list of files?  retires: may the worker
\* be turned off?  rushed: may a release come while another worker waits?
\* early: may a page load while a worker installs?
ReleaseHabits == [contentOnly : BOOLEAN, retires : BOOLEAN, rushed : BOOLEAN, early : BOOLEAN]

ShellInit ==
    /\ releases \in ReleaseHabits
    /\ live = [content |-> 1, script |-> 1, list |-> 1] /\ online = TRUE
    /\ worker = [installing |-> Nothing, waiting |-> Nothing, active |-> Nothing]
    /\ orphaned = FALSE /\ skip = FALSE /\ due = FALSE
    /\ precache = [s \in Scripts |-> Nothing]
    /\ tab = [t \in Pages |-> Closed]

-----------------------------------------------------------------------------
(* Releases, and the network.                                              *)

\* _build_pwa: the worker is stamped with a hash of the names it precaches, not
\* of what they hold.
VersionOf(content, list) == list

Ship ==
    /\ live.content <= MaxReleases /\ live.script /= Teardown
    /\ releases.rushed \/ (worker.installing = Nothing /\ worker.waiting = Nothing)
    /\ \E list \in {live.list, live.content + 1} :
         /\ list = live.list => releases.contentOnly
         /\ live' = [content |-> live.content + 1, list |-> list,
                     script |-> VersionOf(live.content + 1, list)]
    /\ UNCHANGED <<releases, online, worker, orphaned, skip, precache, due, tab>>

\* [pwa] service_worker = false: the teardown worker, and no registration.
Retire ==
    /\ releases.retires /\ live.script /= Teardown
    /\ live' = [live EXCEPT !.script = Teardown]
    /\ UNCHANGED <<releases, online, worker, orphaned, skip, precache, due, tab>>

Network ==
    /\ online' = ~online
    /\ UNCHANGED <<releases, live, worker, orphaned, skip, precache, due, tab>>

-----------------------------------------------------------------------------
(* Pages.                                                                  *)

\* The user opens or reloads a page, or leaves it.
Visit(t) ==
    /\ tab[t].at /= "loading" /\ (releases.early \/ worker.installing = Nothing)
    /\ tab' = [tab EXCEPT ![t] = Loading(@.by)]
    /\ UNCHANGED <<shipped, worker, orphaned, skip, precache, due>>

Leave(t) ==
    /\ tab[t].at = "open"
    /\ tab' = [tab EXCEPT ![t] = Closed]
    /\ UNCHANGED <<shipped, worker, orphaned, skip, precache, due>>

Caches == {s \in Scripts : precache[s] /= Nothing}
\* caches.match looks in the oldest cache first.
Match == IF Caches = {} THEN Nothing
         ELSE precache[CHOOSE s \in Caches : \A o \in Caches : s <= o]
FromNetwork == IF online THEN live.content ELSE Broken
\* The document, from the network when there is one, says whether to register.
Registers == ~(online /\ live.script = Teardown)

\* handleNavigation serves the network's document, or the cached shell;
\* handleFetch its modules, from a cache first, keeping what it had to fetch.
Load(t) ==
    LET by == worker.active
        code == IF by = Nothing \/ Match = Nothing THEN FromNetwork ELSE Match
    IN
    /\ tab[t].at = "loading"
    /\ tab' = [tab EXCEPT ![t] =
                 [Loading(by) EXCEPT !.at = "open", !.code = code,
                  !.reg = IF code = Broken \/ ~Registers THEN "none" ELSE "due"]]
    /\ precache' = IF by \in Scripts /\ Match = Nothing /\ online
                   THEN [precache EXCEPT ![by] = code] ELSE precache
    /\ due' = (due \/ (online /\ by /= Nothing))
    /\ UNCHANGED <<shipped, worker, orphaned, skip>>

ShowUpdatePrompt(tb) == [tb EXCEPT !.banner = TRUE]

OfferWaiting(tb) ==
    IF worker.waiting /= Nothing /\ tb.by /= Nothing THEN ShowUpdatePrompt(tb) ELSE tb

\* registerServiceWorker: the first registration installs; a worker that waits
\* already is offered; the page listens for the next one from here on.
Register(t) ==
    /\ tab[t].reg = "due"
    /\ tab' = [tab EXCEPT ![t] = OfferWaiting([@ EXCEPT !.reg = "done"])]
    /\ worker' = IF Newest = Nothing /\ online
                 THEN [worker EXCEPT !.installing = live.script] ELSE worker
    /\ orphaned' = (orphaned /\ Newest /= Nothing)
    /\ UNCHANGED <<shipped, skip, precache, due>>

-----------------------------------------------------------------------------
(* The worker's life.                                                      *)

\* The browser finds another script: pages that listen hear updatefound, and
\* follow the worker's state.
SoftUpdate ==
    /\ due /\ online /\ worker.installing = Nothing
    /\ releases.early \/ \A t \in Pages : tab[t].at /= "loading" /\ tab[t].reg /= "due"
    /\ due' = FALSE
    /\ IF live.script = Newest THEN UNCHANGED <<worker, orphaned, tab>>
       ELSE /\ worker' = [worker EXCEPT !.installing = live.script]
            /\ orphaned' = FALSE
            /\ tab' = [t \in Pages |-> [tab[t] EXCEPT !.watches = @ \/ tab[t].reg = "done"]]
    /\ UNCHANGED <<shipped, skip, precache>>

\* Mutant of SkipsWaiting: the teardown worker waits like any other.
SkipsNever(s) == FALSE
\* The caching worker waits for the page to say so; the teardown worker does not.
SkipsWaiting(s) == s = Teardown

\* The install event: the cache is filled, whole or not at all, in the cache
\* it opened.  A waiting worker replaces the one that waited; the pages that
\* follow it offer it.
Install ==
    LET s == worker.installing IN
    /\ s /= Nothing /\ online
    /\ precache' = IF s = Teardown \/ orphaned THEN precache
                   ELSE [precache EXCEPT ![s] = live.content]
    /\ worker' = [worker EXCEPT !.installing = Nothing, !.waiting = s]
    /\ skip' = SkipsWaiting(s)
    /\ tab' = [t \in Pages |-> IF tab[t].watches /\ tab[t].by /= Nothing
                              THEN [ShowUpdatePrompt(tab[t]) EXCEPT !.watches = FALSE]
                              ELSE [tab[t] EXCEPT !.watches = FALSE]]
    /\ UNCHANGED <<shipped, orphaned, due>>

\* addAll rejects: the worker is discarded; the next navigation looks again.
InstallFails ==
    /\ worker.installing /= Nothing /\ ~online
    /\ worker' = [worker EXCEPT !.installing = Nothing]
    /\ tab' = [t \in Pages |-> [tab[t] EXCEPT !.watches = FALSE]]
    /\ UNCHANGED <<shipped, orphaned, skip, precache, due>>

\* skipWaiting of register.js: the banner's button.
Click(t) ==
    /\ tab[t].banner /\ ~tab[t].clicked
    /\ IF worker.waiting = Nothing THEN tab' = [tab EXCEPT ![t].clicked = TRUE] /\ UNCHANGED skip
       ELSE tab' = [tab EXCEPT ![t].clicked = TRUE, ![t].armed = TRUE] /\ skip' = TRUE
    /\ UNCHANGED <<shipped, worker, orphaned, precache, due>>

\* Mutant of StaleCaches: its own goes too.
StaleCachesAll(s) == Scripts
\* stalecaches: all but the worker's own, the cache another one is filling too.
StaleCaches(s) == Scripts \ {s}

\* Mutant of Claimed: the page only changes hands.
ClaimedQuietly(t, s) == IF tab[t].at = "closed" THEN tab[t] ELSE [tab[t] EXCEPT !.by = s]
\* A page whose button was pressed reloads when its controller changes.
Claimed(t, s) ==
    IF tab[t].at = "closed" THEN tab[t]
    ELSE IF tab[t].armed THEN Loading(s) ELSE [tab[t] EXCEPT !.by = s]

MayActivate == worker.waiting /= Nothing /\ (skip \/ Controlled = {})

\* The activate event: delete the other caches, claim every page.
Activate ==
    LET s == worker.waiting IN
    /\ MayActivate /\ s /= Teardown
    /\ worker' = [worker EXCEPT !.waiting = Nothing, !.active = s]
    /\ precache' = [c \in Scripts |-> IF c \in StaleCaches(s) THEN Nothing ELSE precache[c]]
    /\ orphaned' = (worker.installing \in StaleCaches(s))
    /\ skip' = FALSE
    /\ tab' = [t \in Pages |-> Claimed(t, s)]
    /\ UNCHANGED <<shipped, due>>

\* teardown: no cache, no registration, every page loaded again.
TearDown ==
    /\ MayActivate /\ worker.waiting = Teardown
    /\ worker' = [worker EXCEPT !.waiting = Nothing, !.active = Nothing]
    /\ precache' = [c \in Scripts |-> Nothing]
    /\ skip' = FALSE /\ orphaned' = TRUE
    /\ tab' = [t \in Pages |-> IF tab[t].at = "closed" THEN Closed ELSE Loading(Nothing)]
    /\ UNCHANGED <<shipped, due>>

ShellNext ==
    \/ Ship \/ Retire \/ Network \/ SoftUpdate \/ Install \/ InstallFails
    \/ Activate \/ TearDown
    \/ \E t \in Pages : Visit(t) \/ Leave(t) \/ Load(t) \/ Register(t) \/ Click(t)

ShellSpec == ShellInit /\ [][ShellNext]_shellVars

\* The browser does its part, and the network comes back.
FairShellSpec ==
    /\ ShellSpec
    /\ WF_shellVars(Install \/ InstallFails) /\ SF_shellVars(Install) /\ SF_shellVars(SoftUpdate)
    /\ WF_shellVars(Activate) /\ WF_shellVars(TearDown) /\ WF_shellVars(~online /\ Network)
    /\ \A t \in Pages : WF_shellVars(Load(t)) /\ SF_shellVars(Register(t))

-----------------------------------------------------------------------------
(* Properties.                                                             *)

Releases == [content : Contents, list : Scripts, script : Scripts \cup {Teardown}]
Registrations == [installing : Slots, waiting : Slots, active : Slots]
PageStates == [at : {"closed", "loading", "open"}, code : Contents \cup {Nothing, Broken},
               by : Slots, reg : {"none", "due", "done"}, watches : BOOLEAN,
               banner : BOOLEAN, armed : BOOLEAN, clicked : BOOLEAN]

\* Types.
ShellTypes ==
    /\ releases \in ReleaseHabits /\ live \in Releases
    /\ online \in BOOLEAN /\ orphaned \in BOOLEAN /\ skip \in BOOLEAN /\ due \in BOOLEAN
    /\ worker \in Registrations
    /\ precache \in [Scripts -> Contents \cup {Nothing}]
    /\ tab \in [Pages -> PageStates]

\* pwa.en.md: "offline after the 1st load".  A worker always has a shell to
\* answer with, whatever was released, replaced or deleted in between.
AlwaysBoots == [][\A t \in Pages : Load(t) /\ worker.active /= Nothing => tab'[t].code /= Broken]_shellVars
\* It does where a release waits for the one before to settle.
UnrushedBoots ==
    /\ []ShellTypes
    /\ [][\A t \in Pages : ~releases.rushed /\ Load(t) /\ worker.active /= Nothing
            => tab'[t].code /= Broken]_shellVars

\* register.js: a page that runs under a worker offers the one that waits.
UpdateIsOffered == \A t \in Pages :
    /\ ~releases.early /\ ~releases.retires /\ ~releases.rushed /\ tab[t].at = "open" /\ tab[t].by /= Nothing
    /\ tab[t].code /= Broken /\ worker.waiting \in Scripts
    ~> tab[t].banner \/ tab[t].at /= "open" \/ worker.waiting = Nothing

\* skipWaiting: a page that sent SKIP_WAITING reloads.
ClickReloads == \A t \in Pages : ~releases.rushed /\ tab[t].armed ~> ~tab[t].armed
EveryClickReloads == \A t \in Pages : tab[t].clicked ~> ~tab[t].clicked

\* The network stays, and users come back and press what they are offered.
UsersComeBack == \A t \in Pages : []<>(tab[t].at = "loading") /\ SF_shellVars(Click(t))

\* Once the releases stop, pages end up running the last one.
NewestReleaseRuns ==
    <>[]online /\ UsersComeBack => <>[](\A t \in Open : tab[t].code = live.content)
\* They do where every release changes the list of files.
NewestListRuns == releases.contentOnly \/ NewestReleaseRuns

\* sw-teardown.js: a worker that was turned off leaves no cache and no worker.
RetiredLeavesNothing ==
    <>[]online /\ UsersComeBack /\ <>(live.script = Teardown) =>
    <>[](Caches = {} /\ worker = [installing |-> Nothing, waiting |-> Nothing, active |-> Nothing])
=============================================================================
