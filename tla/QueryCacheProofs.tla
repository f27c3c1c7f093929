-------------------------- MODULE QueryCacheProofs --------------------------
(***************************************************************************)
(* What the query cache promises for any pages, any number of commands     *)
(* under way and any length of a behaviour: its state is well formed, and  *)
(* where every command covers what it changes, what shows as fresh has     *)
(* every change this browser knows of.                                     *)
(***************************************************************************)
EXTENDS QueryCache, TLAPS

AllCalls == [stage : {"sent", "done", "adrift"}, version : 0..version,
             overtaken : BOOLEAN, effect : Effect]

WatchedOK == watched \in Site

CallsAreFunction == calls = [s \in Slot |-> calls[s]]

TypeInv == CacheTypeOK /\ WatchedOK /\ CallsAreFunction

-----------------------------------------------------------------------------
LEMMA OffersAreEffects ==
  ASSUME TypeInv, NEW e \in screen.offers
  PROVE  e \in Effect
<1>1. screen \in View
  BY SiteAssumption DEF TypeInv, CacheTypeOK, WatchedOK, View, Home
<1> QED
  BY <1>1 DEF View

(* Actions that leave the commands and the versions alone *)

LEMMA NavigateType ==
  ASSUME TypeInv, NEW v \in watched.views \cup {Home}, Navigate(v)
  PROVE  TypeInv'
<1>1. fetch' \in [stage : Stages, version : 0..version, tries : 0..Retries, overtaken : BOOLEAN]
  <2>1. Asked \in [stage : Stages, version : 0..version, tries : 0..Retries, overtaken : BOOLEAN]
    BY BoundsAssumption DEF TypeInv, CacheTypeOK, Asked, Fetch, Stages
  <2> QED BY <2>1 DEF Navigate, TypeInv, CacheTypeOK
<1> QED
  BY <1>1 DEF Navigate, TypeInv, CacheTypeOK, WatchedOK, CallsAreFunction

LEMMA QueryType ==
  ASSUME TypeInv, Query
  PROVE  TypeInv'
<1> DEFINE Fetches == [stage : Stages, version : 0..version, tries : 0..Retries, overtaken : BOOLEAN]
           Entries == [data : BOOLEAN, stale : BOOLEAN, version : 0..version, late : BOOLEAN]
<1>1. fetch \in Fetches /\ entry \in Entries /\ version \in Nat
  BY BoundsAssumption DEF TypeInv, CacheTypeOK
<1>2. NoFetch \in Fetches /\ Asked \in Fetches
  BY <1>1, BoundsAssumption DEF NoFetch, Asked, Fetch, Stages
<1>3. fetch' \in Fetches
  <2>1. CASE ServerReads
    <3>1. version \in 0..version /\ "read" \in Stages
      BY <1>1 DEF Stages
    <3>2. [fetch EXCEPT !.stage = "read", !.version = version] \in Fetches
      BY <1>1, <3>1
    <3> QED BY <2>1, <3>2 DEF ServerReads
  <2>2. CASE FetchAnswers
    BY <1>2, <2>2 DEF FetchAnswers
  <2>3. CASE FetchFails
    <3>1. Fetch("failed", 0) \in Fetches
      BY <1>1, BoundsAssumption DEF Fetch, Stages
    <3>2. ASSUME fetch.tries < Retries
          PROVE  Fetch("asked", fetch.tries + 1) \in Fetches
      BY <1>1, <3>2, BoundsAssumption DEF Fetch, Stages
    <3> QED BY <2>3, <3>1, <3>2 DEF FetchFails
  <2> QED BY <2>1, <2>2, <2>3 DEF Query
<1>4. entry' \in Entries
  <2>1. CASE ServerReads
    BY <1>1, <2>1 DEF ServerReads
  <2>2. CASE FetchAnswers
    BY <1>1, <2>2 DEF FetchAnswers, Fresh
  <2>3. CASE FetchFails
    BY <1>1, <2>3 DEF FetchFails
  <2> QED BY <2>1, <2>2, <2>3 DEF Query
<1>5. UNCHANGED <<watched, screen, calls, version, confirmed>>
  BY DEF Query, ServerReads, FetchAnswers, FetchFails
<1> QED
  BY <1>3, <1>4, <1>5 DEF TypeInv, CacheTypeOK, WatchedOK, CallsAreFunction

LEMMA ClearType ==
  ASSUME TypeInv, Forget \/ Logout
  PROVE  TypeInv'
<1>1. version \in Nat
  BY BoundsAssumption DEF TypeInv, CacheTypeOK
<1>2. NoFetch \in [stage : Stages, version : 0..version, tries : 0..Retries, overtaken : BOOLEAN]
  BY <1>1, BoundsAssumption DEF NoFetch, Fetch, Stages
<1>3. NoEntry \in [data : BOOLEAN, stale : BOOLEAN, version : 0..version, late : BOOLEAN]
  BY <1>1 DEF NoEntry
<1>4. screen' \in watched.views \cup {Home}
  BY DEF Forget, Logout, TypeInv, CacheTypeOK
<1> QED
  BY <1>2, <1>3, <1>4 DEF Forget, Logout, TypeInv, CacheTypeOK, WatchedOK, CallsAreFunction

-----------------------------------------------------------------------------
(* The commands *)

\* A step that gives one command a new state, the others at most the mark of
\* having been overtaken, and commits no less than before.
LEMMA CallsType ==
  ASSUME TypeInv, NEW s \in Slot, version' \in version..MaxCommits,
         CallsAreFunction',
         calls'[s] = NoCall \/ calls'[s] \in AllCalls',
         \A t \in Slot \ {s} : calls'[t] \in {calls[t], [calls[t] EXCEPT !.overtaken = TRUE]},
         \A t \in Slot \ {s} : calls'[t] # calls[t] => calls[t] # NoCall
  PROVE  \A t \in Slot : calls'[t] = NoCall \/ calls'[t] \in AllCalls'
<1>1. version \in Nat /\ version' \in Nat /\ version <= version'
  BY BoundsAssumption DEF TypeInv, CacheTypeOK
<1>2. SUFFICES ASSUME NEW t \in Slot \ {s}, calls[t] # NoCall
               PROVE  calls'[t] \in AllCalls'
  OBVIOUS
<1>3. calls[t] \in AllCalls
  BY <1>2 DEF TypeInv, CacheTypeOK, AllCalls
<1>4. calls[t] \in AllCalls'
  BY <1>1, <1>3 DEF AllCalls
<1>5. [calls[t] EXCEPT !.overtaken = TRUE] \in AllCalls'
  BY <1>4 DEF AllCalls
<1> QED
  BY <1>4, <1>5

LEMMA SendType ==
  ASSUME TypeInv, NEW s \in Slot, NEW e \in screen.offers, Send(s, e)
  PROVE  TypeInv'
<1>1. Sent(e) \in AllCalls'
  BY OffersAreEffects, BoundsAssumption DEF Send, Sent, AllCalls, TypeInv, CacheTypeOK
<1>2. version' \in version..MaxCommits
  BY BoundsAssumption DEF Send, TypeInv, CacheTypeOK
<1>3. CallsAreFunction' /\ calls'[s] = Sent(e) /\ \A t \in Slot \ {s} : calls'[t] = calls[t]
  BY DEF Send, TypeInv, CallsAreFunction
<1>4. \A t \in Slot : calls'[t] = NoCall \/ calls'[t] \in AllCalls'
  BY <1>1, <1>2, <1>3, CallsType
<1> QED
  BY <1>3, <1>4 DEF Send, TypeInv, CacheTypeOK, WatchedOK, AllCalls

LEMMA CommitType ==
  ASSUME TypeInv, NEW s \in Slot, Commit(s)
  PROVE  TypeInv'
<1>1. version \in Nat /\ version' = version + 1 /\ version' \in version..MaxCommits /\ version' \in 0..version'
  BY BoundsAssumption DEF Commit, TypeInv, CacheTypeOK
<1>2. calls[s] \in AllCalls
  BY DEF Commit, TypeInv, CacheTypeOK, NoCall, AllCalls
<1>3. [calls[s] EXCEPT !.stage = "done", !.version = version + 1] \in AllCalls'
  BY <1>1, <1>2 DEF AllCalls
<1>4. /\ CallsAreFunction'
      /\ calls'[s] = [calls[s] EXCEPT !.stage = "done", !.version = version + 1]
      /\ \A t \in Slot \ {s} : calls'[t] = calls[t]
  BY DEF Commit, TypeInv, CallsAreFunction
<1>5. \A t \in Slot : calls'[t] = NoCall \/ calls'[t] \in AllCalls'
  BY <1>1, <1>3, <1>4, CallsType
<1>6. UNCHANGED <<watched, screen, entry, fetch, confirmed>>
  BY DEF Commit
<1>7. /\ entry' \in [data : BOOLEAN, stale : BOOLEAN, version : 0..version', late : BOOLEAN]
      /\ fetch' \in [stage : Stages, version : 0..version', tries : 0..Retries, overtaken : BOOLEAN]
      /\ confirmed' \in 0..version'
  BY <1>1, <1>6 DEF TypeInv, CacheTypeOK
<1>8. version' \in 0..MaxCommits
  BY <1>1, BoundsAssumption
<1>9. screen' \in watched'.views \cup {Home} /\ WatchedOK'
  BY <1>6 DEF TypeInv, CacheTypeOK, WatchedOK
<1> QED
  BY <1>4, <1>5, <1>7, <1>8, <1>9 DEF TypeInv, CacheTypeOK, AllCalls

LEMMA EndType ==
  ASSUME TypeInv, NEW s \in Slot, Fail(s) \/ TimeOut(s) \/ AdriftEnds(s)
  PROVE  TypeInv'
<1>1. version' \in version..MaxCommits
  BY BoundsAssumption DEF Fail, TimeOut, AdriftEnds, TypeInv, CacheTypeOK
<1>2. CallsAreFunction' /\ \A t \in Slot \ {s} : calls'[t] = calls[t]
  BY DEF Fail, TimeOut, AdriftEnds, TypeInv, CallsAreFunction
<1>3. calls'[s] = NoCall \/ calls'[s] \in AllCalls'
  <2>1. CASE Fail(s)
    BY <2>1 DEF Fail, TypeInv, CallsAreFunction
  <2>2. CASE AdriftEnds(s)
    BY <2>2 DEF AdriftEnds, TypeInv, CallsAreFunction
  <2>3. CASE TimeOut(s)
    <3>1. calls[s] \in AllCalls /\ calls'[s] = [calls[s] EXCEPT !.stage = "adrift"]
      BY <2>3 DEF TimeOut, TypeInv, CacheTypeOK, CallsAreFunction, NoCall, AllCalls
    <3>2. calls'[s] \in AllCalls
      BY <3>1 DEF AllCalls
    <3> QED BY <2>3, <3>2 DEF TimeOut, AllCalls
  <2> QED BY <2>1, <2>2, <2>3
<1>4. \A t \in Slot : calls'[t] = NoCall \/ calls'[t] \in AllCalls'
  BY <1>1, <1>2, <1>3, CallsType
<1>5. UNCHANGED <<watched, screen, entry, fetch, confirmed>> /\ version \in Nat
  BY BoundsAssumption DEF Fail, TimeOut, AdriftEnds, TypeInv, CacheTypeOK
<1> QED
  BY <1>1, <1>2, <1>4, <1>5, BoundsAssumption DEF TypeInv, CacheTypeOK, WatchedOK, AllCalls

\* What an answer leaves behind, by parts.
LEMMA AnswerCalls ==
  ASSUME TypeInv, NEW s \in Slot, Answer(s)
  PROVE  /\ CallsAreFunction' /\ calls'[s] = NoCall
         /\ \A t \in Slot \ {s} :
              calls'[t] = IF calls[t].stage = "done" /\ calls[t].version < confirmed'
                            THEN [calls[t] EXCEPT !.overtaken = TRUE] ELSE calls[t]
         /\ calls[s] \in AllCalls /\ calls[s].stage = "done"
BY DEF Answer, TypeInv, CacheTypeOK, CallsAreFunction, NoCall, AllCalls

LEMMA AnswerType ==
  ASSUME TypeInv, NEW s \in Slot, Answer(s)
  PROVE  TypeInv'
<1> DEFINE Fetches == [stage : Stages, version : 0..version, tries : 0..Retries, overtaken : BOOLEAN]
           Entries == [data : BOOLEAN, stale : BOOLEAN, version : 0..version, late : BOOLEAN]
<1>1. /\ fetch \in Fetches /\ entry \in Entries /\ version \in 0..MaxCommits
      /\ confirmed \in 0..version
  BY DEF TypeInv, CacheTypeOK
<1>2. calls[s] \in AllCalls
  BY AnswerCalls
<1>3. Stored(s) \in Entries
  <2>1. Fresh(calls[s].version, calls[s].overtaken) \in Entries
    BY <1>2 DEF Fresh, AllCalls
  <2> QED BY <1>1, <2>1 DEF Stored
<1>4. entry' \in Entries
  BY <1>2, <1>3 DEF Answer, AllCalls, Effect
<1>5. fetch' \in Fetches
  <2>1. Asked \in Fetches
    BY <1>1, BoundsAssumption DEF Asked, Fetch, Stages
  <2>2. Overtaken(s) \in Fetches
    BY <1>1, <1>2 DEF Overtaken, AllCalls, Effect
  <2> QED BY <2>1, <2>2 DEF Answer
<1>6. confirmed' \in 0..version
  BY <1>1, <1>2 DEF Answer, AllCalls
<1>7. \A t \in Slot : calls'[t] = NoCall \/ calls'[t] \in AllCalls'
  <2>1. version' \in version..MaxCommits
    BY <1>1, BoundsAssumption DEF Answer
  <2>2. \A t \in Slot \ {s} : calls'[t] \in {calls[t], [calls[t] EXCEPT !.overtaken = TRUE]}
    BY AnswerCalls
  <2>3. \A t \in Slot \ {s} : calls'[t] # calls[t] => calls[t] # NoCall
    <3>1. NoCall.stage # "done"
      BY DEF NoCall
    <3> QED BY <3>1, AnswerCalls
  <2> QED BY <2>1, <2>2, <2>3, AnswerCalls, CallsType
<1> QED
  BY <1>1, <1>4, <1>5, <1>6, <1>7, AnswerCalls DEF Answer, TypeInv, CacheTypeOK, WatchedOK, AllCalls

-----------------------------------------------------------------------------
LEMMA InitType == Init => TypeInv
<1> SUFFICES ASSUME Init PROVE TypeInv
  OBVIOUS
<1> QED
  BY BoundsAssumption DEF Init, TypeInv, CacheTypeOK, WatchedOK, CallsAreFunction,
     NoEntry, NoFetch, Fetch, Stages

LEMMA NextType == TypeInv /\ [Next]_vars => TypeInv'
<1> SUFFICES ASSUME TypeInv, [Next]_vars PROVE TypeInv'
  OBVIOUS
<1>1. CASE UNCHANGED vars
  BY <1>1 DEF vars, TypeInv, CacheTypeOK, WatchedOK, CallsAreFunction
<1>2. CASE Next
  BY <1>2, NavigateType, QueryType, ClearType, SendType, CommitType, EndType, AnswerType DEF Next
<1> QED
  BY <1>1, <1>2

(* The cache, its fetch and the commands under way are always in one of the *)
(* states the model names, and no version is of a command not yet committed.*)
THEOREM CacheType == Spec => []CacheTypeOK
<1>1. Spec => []TypeInv
  BY InitType, NextType, PTL DEF Spec
<1> QED
  BY <1>1, PTL DEF TypeInv

-----------------------------------------------------------------------------
(* Fresh answers, wherever they are, have every confirmed change *)

FetchKnows ==
  fetch.stage = "read" /\ ~fetch.overtaken => fetch.version >= confirmed

CallsKnow ==
  \A s \in Slot : calls[s].stage = "done" /\ ~calls[s].overtaken => calls[s].version >= confirmed

CallsCovered ==
  \A s \in Slot : calls[s] # NoCall /\ calls[s].effect.changes
                   => calls[s].effect.marks \/ calls[s].effect.stores

Knows == ConfirmedChangesShow /\ FetchKnows /\ CallsKnow /\ CallsCovered

LEMMA InitKnows == Init => Knows
<1> SUFFICES ASSUME Init PROVE Knows
  OBVIOUS
<1> QED
  BY DEF Init, Knows, ConfirmedChangesShow, FetchKnows, CallsKnow, CallsCovered, NoEntry,
     NoFetch, Fetch, NoCall

LEMMA QueryKnows ==
  ASSUME TypeInv, Knows, Query
  PROVE  Knows'
<1>1. /\ version \in Nat /\ confirmed \in 0..version
      /\ fetch \in [stage : Stages, version : 0..version, tries : 0..Retries, overtaken : BOOLEAN]
      /\ entry \in [data : BOOLEAN, stale : BOOLEAN, version : 0..version, late : BOOLEAN]
  BY BoundsAssumption DEF TypeInv, CacheTypeOK
<1>2. CASE ServerReads
  BY <1>1, <1>2 DEF ServerReads, Knows, ConfirmedChangesShow, FetchKnows, CallsKnow, CallsCovered
<1>3. CASE FetchAnswers
  BY <1>3 DEF FetchAnswers, Fresh, NoFetch, Fetch, Knows, ConfirmedChangesShow, FetchKnows,
     CallsKnow, CallsCovered
<1>4. CASE FetchFails
  <2>1. fetch'.stage # "read" /\ UNCHANGED <<calls, confirmed>>
    BY <1>4 DEF FetchFails, Fetch
  <2>2. ConfirmedChangesShow'
    <3>1. CASE UNCHANGED entry
      BY <2>1, <3>1 DEF Knows, ConfirmedChangesShow
    <3>2. CASE entry' = [entry EXCEPT !.stale = entry.data]
      BY <1>1, <3>2 DEF ConfirmedChangesShow
    <3> QED BY <1>4, <3>1, <3>2 DEF FetchFails
  <2> QED
    BY <2>1, <2>2 DEF Knows, FetchKnows, CallsKnow, CallsCovered
<1> QED
  BY <1>2, <1>3, <1>4 DEF Query

LEMMA ScreenKnows ==
  ASSUME TypeInv, Knows, Forget \/ Logout \/ \E v \in watched.views \cup {Home} : Navigate(v)
  PROVE  Knows'
BY DEF Forget, Logout, Navigate, NoEntry, NoFetch, Asked, Fetch, Knows, ConfirmedChangesShow,
   FetchKnows, CallsKnow, CallsCovered

LEMMA CallKnows ==
  ASSUME Covered, TypeInv, Knows, NEW s \in Slot,
         Commit(s) \/ Fail(s) \/ TimeOut(s) \/ AdriftEnds(s) \/ \E e \in screen.offers : Send(s, e)
  PROVE  Knows'
<1>1. /\ UNCHANGED <<entry, fetch, confirmed>>
      /\ CallsAreFunction' /\ \A t \in Slot \ {s} : calls'[t] = calls[t]
      /\ version \in Nat /\ confirmed \in 0..version
  BY BoundsAssumption DEF Commit, Fail, TimeOut, AdriftEnds, Send, TypeInv, CacheTypeOK, CallsAreFunction
<1>2. /\ calls'[s].stage = "done" /\ ~calls'[s].overtaken => calls'[s].version >= confirmed
      /\ calls'[s] # NoCall /\ calls'[s].effect.changes
           => calls'[s].effect.marks \/ calls'[s].effect.stores
  <2>1. CASE Commit(s)
    <3>1. /\ calls[s] \in AllCalls
          /\ calls'[s] = [calls[s] EXCEPT !.stage = "done", !.version = version + 1]
      BY <2>1 DEF Commit, TypeInv, CacheTypeOK, CallsAreFunction, NoCall, AllCalls
    <3>2. calls'[s].version = version + 1 /\ calls'[s].effect = calls[s].effect
      BY <3>1 DEF AllCalls
    <3>3. calls[s] # NoCall
      BY <2>1 DEF Commit, NoCall
    <3> QED BY <1>1, <3>2, <3>3 DEF Knows, CallsCovered
  <2>2. CASE Fail(s) \/ AdriftEnds(s)
    <3>1. calls'[s] = NoCall
      BY <2>2 DEF Fail, AdriftEnds, TypeInv, CallsAreFunction
    <3> QED BY <3>1 DEF NoCall
  <2>3. CASE TimeOut(s)
    <3>1. calls[s] \in AllCalls /\ calls'[s] = [calls[s] EXCEPT !.stage = "adrift"]
      BY <2>3 DEF TimeOut, TypeInv, CacheTypeOK, CallsAreFunction, NoCall, AllCalls
    <3>2. calls'[s].stage = "adrift" /\ calls'[s].effect = calls[s].effect
      BY <3>1 DEF AllCalls
    <3>3. calls[s] # NoCall
      BY <2>3 DEF TimeOut, NoCall
    <3> QED BY <3>2, <3>3 DEF Knows, CallsCovered
  <2>4. ASSUME NEW e \in screen.offers, Send(s, e)
        PROVE  <1>2!1 /\ <1>2!2
    <3>1. calls'[s] = Sent(e)
      BY <2>4 DEF Send, TypeInv, CallsAreFunction
    <3>2. e.changes => e.marks \/ e.stores
      BY DEF Covered, TypeInv, CacheTypeOK, WatchedOK, Home
    <3> QED BY <3>1, <3>2 DEF Sent
  <2> QED BY <2>1, <2>2, <2>3, <2>4
<1>3. CallsKnow' /\ CallsCovered'
  BY <1>1, <1>2 DEF Knows, CallsKnow, CallsCovered
<1> QED
  BY <1>1, <1>3 DEF Knows, ConfirmedChangesShow, FetchKnows

\* What is stored is marked as overtaken or has all that was confirmed before;
\* what was under way is marked when a later change is confirmed.
LEMMA AnswerKnows ==
  ASSUME TypeInv, Knows, NEW s \in Slot, Answer(s)
  PROVE  Knows'
<1>1. /\ version \in Nat /\ confirmed \in 0..version
      /\ fetch \in [stage : Stages, version : 0..version, tries : 0..Retries, overtaken : BOOLEAN]
      /\ entry \in [data : BOOLEAN, stale : BOOLEAN, version : 0..version, late : BOOLEAN]
  BY BoundsAssumption DEF TypeInv, CacheTypeOK
<1> DEFINE c == calls[s]
<1>2. c \in AllCalls /\ c.stage = "done" /\ c # NoCall
  BY AnswerCalls DEF NoCall
<1>3. /\ c.version \in Nat /\ c.overtaken \in BOOLEAN
      /\ c.effect.changes \in BOOLEAN /\ c.effect.marks \in BOOLEAN /\ c.effect.stores \in BOOLEAN
  BY <1>1, <1>2 DEF AllCalls, Effect
<1>4. /\ c.effect.changes => c.effect.marks \/ c.effect.stores
      /\ ~c.overtaken => c.version >= confirmed
  BY <1>2 DEF Knows, CallsCovered, CallsKnow
<1>5. /\ ~c.effect.changes => confirmed' = confirmed
      /\ c.effect.changes /\ ~c.overtaken => confirmed' = c.version
  BY <1>1, <1>3, <1>4 DEF Answer
<1>6. ConfirmedChangesShow'
  <2>1. Stored(s) \in [data : BOOLEAN, stale : BOOLEAN, version : Nat, late : BOOLEAN]
    BY <1>1, <1>3 DEF Stored, Fresh
  <2>2. /\ entry'.data = Stored(s).data /\ entry'.version = Stored(s).version
        /\ entry'.late = Stored(s).late
        /\ entry'.stale = (Stored(s).stale \/ (Stored(s).data /\ c.effect.marks))
    BY <2>1 DEF Answer
  <2>3. CASE c.effect.marks
    BY <2>2, <2>3 DEF ConfirmedChangesShow
  <2>4. CASE ~c.effect.marks /\ c.effect.stores
    <3>1. Stored(s) = Fresh(c.version, c.overtaken)
      BY <2>4 DEF Stored
    <3>2. ~c.overtaken => c.version >= confirmed'
      BY <1>3, <1>4, <1>5
    <3> QED BY <2>2, <3>1, <3>2 DEF ConfirmedChangesShow, Fresh
  <2>5. CASE ~c.effect.marks /\ ~c.effect.stores
    <3>1. Stored(s) = entry /\ confirmed' = confirmed
      BY <1>4, <1>5, <2>5 DEF Stored
    <3> QED BY <1>1, <2>2, <2>5, <3>1 DEF Knows, ConfirmedChangesShow
  <2> QED BY <1>3, <2>3, <2>4, <2>5
<1>7. FetchKnows'
  <2>1. CASE fetch' = Asked
    BY <2>1 DEF FetchKnows, Asked, Fetch
  <2>2. CASE fetch' = Overtaken(s)
    <3>1. /\ fetch'.stage = fetch.stage /\ fetch'.version = fetch.version
          /\ fetch'.overtaken = (fetch.overtaken \/ (fetch.stage = "read" /\ c.effect.changes))
      BY <1>1, <2>2 DEF Overtaken
    <3> QED BY <1>5, <3>1 DEF Knows, FetchKnows
  <2> QED BY <2>1, <2>2 DEF Answer
<1>8. CallsKnow'
  <2>1. SUFFICES ASSUME NEW t \in Slot \ {s}, calls'[t].stage = "done", ~calls'[t].overtaken
                 PROVE  calls'[t].version >= confirmed'
    BY AnswerCalls DEF CallsKnow, NoCall
  <2>2. CASE calls[t] = NoCall
    <3>1. NoCall.stage # "done"
      BY DEF NoCall
    <3>2. calls'[t] = NoCall
      BY <2>2, <3>1, AnswerCalls
    <3> QED BY <2>1, <3>1, <3>2
  <2>3. CASE calls[t] \in AllCalls
    <3>1. calls[t].version \in Nat /\ confirmed' \in Nat
      BY <1>1, <1>3, <2>3 DEF AllCalls, Answer
    <3>2. calls'[t] = calls[t]
      BY <2>1, <2>3, AnswerCalls DEF AllCalls
    <3>3. ~(calls[t].stage = "done" /\ calls[t].version < confirmed')
      BY <2>1, <2>3, <3>2, AnswerCalls DEF AllCalls
    <3> QED BY <2>1, <3>1, <3>2, <3>3
  <2> QED BY <2>2, <2>3 DEF TypeInv, CacheTypeOK, AllCalls
<1>9. CallsCovered'
  <2>1. SUFFICES ASSUME NEW t \in Slot \ {s}, calls'[t] # NoCall, calls'[t].effect.changes
                 PROVE  calls'[t].effect.marks \/ calls'[t].effect.stores
    BY AnswerCalls DEF CallsCovered
  <2>2. CASE calls[t] = NoCall
    <3>1. NoCall.stage # "done"
      BY DEF NoCall
    <3>2. calls'[t] = NoCall
      BY <2>2, <3>1, AnswerCalls
    <3> QED BY <2>1, <3>1, <3>2
  <2>3. CASE calls[t] \in AllCalls
    <3>1. calls'[t].effect = calls[t].effect
      BY <2>3, AnswerCalls DEF AllCalls
    <3>2. calls[t] # NoCall
      BY <2>3 DEF NoCall, AllCalls
    <3> QED BY <2>1, <3>1, <3>2 DEF Knows, CallsCovered
  <2> QED BY <2>2, <2>3 DEF TypeInv, CacheTypeOK, AllCalls
<1> QED
  BY <1>6, <1>7, <1>8, <1>9 DEF Knows

LEMMA NextKnows == Covered /\ TypeInv /\ Knows /\ [Next]_vars => Knows'
<1> SUFFICES ASSUME Covered, TypeInv, Knows, [Next]_vars PROVE Knows'
  OBVIOUS
<1>1. CASE UNCHANGED vars
  BY <1>1 DEF vars, Knows, ConfirmedChangesShow, FetchKnows, CallsKnow, CallsCovered
<1>2. CASE Next
  BY <1>2, QueryKnows, ScreenKnows, CallKnows, AnswerKnows DEF Next
<1> QED
  BY <1>1, <1>2

(* Where every command marks or stores what it changes, an entry that shows *)
(* as fresh has every change this browser was told of, whatever the pages,  *)
(* with any number of commands under way, whose answers come in any order.  *)
THEOREM ChangesShow ==
  ASSUME Covered
  PROVE  Spec => []ConfirmedChangesShow
<1>1. Init => TypeInv /\ Knows
  BY InitType, InitKnows
<1>2. TypeInv /\ Knows /\ [Next]_vars => (TypeInv /\ Knows)'
  BY NextType, NextKnows
<1>3. TypeInv /\ Knows => ConfirmedChangesShow
  BY DEF Knows
<1> QED
  BY <1>1, <1>2, <1>3, PTL DEF Spec
=============================================================================
