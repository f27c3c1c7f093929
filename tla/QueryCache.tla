----------------------------- MODULE QueryCache -----------------------------
(***************************************************************************)
(* One entry of the query cache of the frontend (TanStack Query, configured *)
(* in app/App.tsx), the pages that show it and the commands that change     *)
(* what it shows.  The cache keeps its entries apart, so one key is         *)
(* watched, any of them, chosen at the start; a page or a command is what   *)
(* it is to that key.  Frontend computes both from the code.                *)
(*                                                                         *)
(* A value is the number of commands the backend had committed when it was  *)
(* read.                                                                   *)
(***************************************************************************)
EXTENDS Naturals, FiniteSets

\* What the success of a command is to a key: it may change what the key shows,
\* it marks the key stale, it stores its answer under it.
Effect == [changes : BOOLEAN, marks : BOOLEAN, stores : BOOLEAN]

\* A page mounts a query of the key or not, offers commands, and is allowed what
\* it asks about the key: the services accept whoever sees it.
View == [shows : BOOLEAN, offers : SUBSET Effect, allowed : BOOLEAN]

Home == [shows |-> FALSE, offers |-> {}, allowed |-> TRUE]

CONSTANTS
  Site,         \* the keys of the cache, each with the views that the pages are of it
  Slot,         \* commands that may be under way at a time
  Retries,      \* how often an unavailable backend is asked again
  MaxCommits    \* bound on the commands committed in a behaviour

ASSUME SiteAssumption == \A w \in Site : w.views \subseteq View
ASSUME BoundsAssumption == Retries \in Nat /\ MaxCommits \in Nat

\* A command that changes a key marks it or stores its answer under it.
Covered ==
  \A w \in Site : \A v \in w.views : \A e \in v.offers : e.changes => e.marks \/ e.stores

VARIABLES
  watched,     \* the key this behaviour is about, an element of Site
  screen,      \* the page on screen, as a view of the key
  entry,       \* what the cache holds for the key
  fetch,       \* the fetch of the key
  calls,       \* the commands under way
  version,     \* commands committed by the backend
  confirmed    \* the last of them known to this browser to change the key

vars == <<watched, screen, entry, fetch, calls, version, confirmed>>

-----------------------------------------------------------------------------
NoEntry == [data |-> FALSE, stale |-> FALSE, version |-> 0, late |-> FALSE]
Fetch(stage, tries) == [stage |-> stage, version |-> 0, tries |-> tries, overtaken |-> FALSE]

NoFetch == Fetch("none", 0)
Asked   == Fetch("asked", 0)

\* An answer is late when it was on its way, and nothing stops it, while a later
\* change was confirmed.
Fresh(v, late) == [data |-> TRUE, stale |-> FALSE, version |-> v, late |-> late]

NoCall == [stage |-> "idle", version |-> 0, overtaken |-> FALSE]
Sent(e) == [stage |-> "sent", version |-> 0, overtaken |-> FALSE, effect |-> e]

OnScreen == screen.shows
InFlight == fetch.stage \in {"asked", "read"}

Init ==
  /\ watched \in Site
  /\ screen = Home
  /\ entry = NoEntry
  /\ fetch = NoFetch
  /\ calls = [s \in Slot |-> NoCall]
  /\ version = 0
  /\ confirmed = 0

-----------------------------------------------------------------------------
(* The query *)

\* Mounting a query fetches it when it is missing or stale, joins a fetch that
\* is under way, and fetches a fresh one when it is older than thirty seconds.
Navigate(v) ==
  /\ screen' = v
  /\ \/ v.shows /\ ~InFlight /\ fetch' = Asked
     \/ /\ v.shows => InFlight \/ (entry.data /\ ~entry.stale)
        /\ UNCHANGED fetch
  /\ UNCHANGED <<watched, entry, calls, version, confirmed>>

ServerReads ==
  /\ fetch.stage = "asked"
  /\ fetch' = [fetch EXCEPT !.stage = "read", !.version = version]
  /\ UNCHANGED <<watched, screen, entry, calls, version, confirmed>>

\* The answer of a fetch clears the mark, whatever was marked meanwhile.
FetchAnswers ==
  /\ fetch.stage = "read"
  /\ entry' = Fresh(fetch.version, fetch.overtaken)
  /\ fetch' = NoFetch
  /\ UNCHANGED <<watched, screen, calls, version, confirmed>>

\* A backend that is unavailable is asked again; a fetch that fails leaves the
\* data it had, marked stale.
FetchFails ==
  /\ InFlight
  /\ \/ /\ fetch.tries < Retries
        /\ fetch' = Fetch("asked", fetch.tries + 1)
        /\ UNCHANGED entry
     \/ /\ fetch' = Fetch("failed", 0)
        /\ entry' = [entry EXCEPT !.stale = entry.data]
  /\ UNCHANGED <<watched, screen, calls, version, confirmed>>

\* Entries nobody shows are collected after a while.
Forget ==
  /\ ~OnScreen /\ ~InFlight
  /\ entry' = NoEntry /\ fetch' = NoFetch
  /\ UNCHANGED <<watched, screen, calls, version, confirmed>>

\* Logging out clears the cache; commands under way go on.
Logout ==
  /\ screen' = Home
  /\ entry' = NoEntry /\ fetch' = NoFetch
  /\ UNCHANGED <<watched, calls, version, confirmed>>

-----------------------------------------------------------------------------
(* The commands *)

Send(s, e) ==
  /\ calls[s] = NoCall
  /\ e \in screen.offers
  /\ calls' = [calls EXCEPT ![s] = Sent(e)]
  /\ UNCHANGED <<watched, screen, entry, fetch, version, confirmed>>

FaultyCommit(s) ==
  /\ calls[s].stage = "sent"
  /\ version < MaxCommits
  /\ calls' = [calls EXCEPT ![s].stage = "done", ![s].version = version + 1]
  /\ UNCHANGED <<watched, screen, entry, fetch, version, confirmed>>

Commit(s) ==
  /\ calls[s].stage = "sent"
  /\ version < MaxCommits
  /\ version' = version + 1
  /\ calls' = [calls EXCEPT ![s].stage = "done", ![s].version = version + 1]
  /\ UNCHANGED <<watched, screen, entry, fetch, confirmed>>

\* The command is refused, or the answer to it is lost: an error for the screen,
\* which leaves the cache alone.
Fail(s) ==
  /\ calls[s].stage \in {"sent", "done"}
  /\ calls' = [calls EXCEPT ![s] = NoCall]
  /\ UNCHANGED <<watched, screen, entry, fetch, version, confirmed>>

\* The gateway gives a request up after its timeout; the service may still
\* commit it.
TimeOut(s) ==
  /\ calls[s].stage = "sent"
  /\ calls' = [calls EXCEPT ![s].stage = "adrift"]
  /\ UNCHANGED <<watched, screen, entry, fetch, version, confirmed>>

AdriftEnds(s) ==
  /\ calls[s].stage = "adrift"
  /\ version' \in {version} \cup {v \in {version + 1} : v <= MaxCommits}
  /\ calls' = [calls EXCEPT ![s] = NoCall]
  /\ UNCHANGED <<watched, screen, entry, fetch, confirmed>>

\* What onSuccess leaves in the entry: the answer stored, then the mark.
Stored(s) ==
  IF calls[s].effect.stores THEN Fresh(calls[s].version, calls[s].overtaken) ELSE entry

FaultyRestarts(s) == calls[s].effect.marks /\ OnScreen /\ ~entry.data /\ ~InFlight

\* Marking a query on screen cancels its fetch and starts another, unless it is
\* loading for the first time.
Restarts(s) ==
  /\ calls[s].effect.marks /\ OnScreen
  /\ Stored(s).data \/ ~InFlight

Overtaken(s) == [fetch EXCEPT !.overtaken = @ \/ (fetch.stage = "read" /\ calls[s].effect.changes)]

Answer(s) ==
  /\ calls[s].stage = "done"
  /\ entry' = [Stored(s) EXCEPT !.stale = @ \/ (Stored(s).data /\ calls[s].effect.marks)]
  /\ fetch' = IF Restarts(s) THEN Asked ELSE Overtaken(s)
  /\ confirmed' = IF calls[s].effect.changes /\ calls[s].version > confirmed THEN calls[s].version ELSE confirmed
  /\ calls' = [t \in Slot |->
                 IF t = s THEN NoCall
                 ELSE IF calls[t].stage = "done" /\ calls[t].version < confirmed'
                        THEN [calls[t] EXCEPT !.overtaken = TRUE] ELSE calls[t]]
  /\ UNCHANGED <<watched, screen, version>>

-----------------------------------------------------------------------------
Query == ServerReads \/ FetchAnswers \/ FetchFails

Next ==
  \/ \E v \in watched.views \cup {Home} : Navigate(v)
  \/ Query \/ Forget \/ Logout
  \/ \E s \in Slot : \E e \in screen.offers : Send(s, e)
  \/ \E s \in Slot : Commit(s) \/ Fail(s) \/ TimeOut(s) \/ AdriftEnds(s) \/ Answer(s)

Spec == Init /\ [][Next]_vars

\* A request of a query is answered or fails: the gateway gives up on it in time.
FairSpec == Spec /\ WF_vars(Query)

-----------------------------------------------------------------------------
(* The cache is in one of the states above, and what it holds was committed. *)
Stages == {"none", "asked", "read", "failed"}
CacheTypeOK ==
  /\ screen \in watched.views \cup {Home}
  /\ entry \in [data : BOOLEAN, stale : BOOLEAN, version : 0..version, late : BOOLEAN]
  /\ fetch \in [stage : Stages, version : 0..version, tries : 0..Retries, overtaken : BOOLEAN]
  /\ \A s \in Slot :
       \/ calls[s] = NoCall
       \/ calls[s] \in [stage : {"sent", "done", "adrift"}, version : 0..version,
                        overtaken : BOOLEAN, effect : Effect]
  /\ version \in 0..MaxCommits /\ confirmed \in 0..version

(* Whatever a page shows as fresh has every change of it that this browser  *)
(* was told about, from any page: the invalidations of the commands reach   *)
(* every query they change, but for answers that were under way.            *)
ConfirmedChangesShow ==
  entry.data /\ ~entry.stale /\ ~entry.late => entry.version >= confirmed

(* A query that is marked stale while on screen is fetched again, or the    *)
(* page is left, or the fetch fails in front of the user.                   *)
ShownChangesArrive ==
  (OnScreen /\ entry.stale) ~> (~entry.stale \/ ~OnScreen \/ fetch.stage = "failed")
=============================================================================
