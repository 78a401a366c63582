-------------------------- MODULE ApplicationProofs --------------------------
(***************************************************************************)
(* What holds of the application for any number of processes and releases  *)
(* and any intervals: one primary as long as starts do not overlap and a   *)
(* probe reaches a server that listens, and what the updater asks and      *)
(* offers over restarts and crashes.                                       *)
(***************************************************************************)
EXTENDS Application, TLAPS

-----------------------------------------------------------------------------
(* The guard                                                               *)

Stages == {"off", "probing", "removing", "binding", "starting", "running", "closing", "closed"}

GuardTypes ==
  /\ platform \in {"unix", "windows"}
  /\ pc \in [Processes -> Stages]
  /\ listeners \subseteq Processes

(* While one process is unsettled no other can be, and once it has seen    *)
(* that nobody answers, or has given the name up, there is no primary.     *)
Settled ==
  /\ \A p, q \in Guard!Unsettled : p = q
  /\ \A p \in Processes : pc[p] \in {"removing", "binding", "closed"} => listeners = {}

GuardInv == GuardTypes /\ Settled /\ OnePrimary

LEMMA GuardInit == Guard!Init => GuardInv
BY DEF Guard!Init, GuardInv, GuardTypes, Stages, Settled, OnePrimary, Guard!OnePrimary,
       Guard!Unsettled, Guard!Primaries

(* Every step of one process moves that process alone.                     *)
LEMMA GuardStep ==
  ASSUME ~Overlap, Timely, GuardInv, NEW p \in Processes,
         \/ Guard!Launch(p) \/ Guard!Settle(p) \/ Guard!EnterLoop(p) \/ Guard!Activate(p)
         \/ Guard!Quit(p) \/ Guard!QuitOnRequest(p) \/ Guard!CloseServer(p) \/ Guard!Crash(p)
  PROVE  GuardInv'
<1> USE DEF GuardInv, GuardTypes, Stages, Settled, OnePrimary, Guard!OnePrimary,
            Guard!Unsettled, Guard!Primaries, Guard!At
<1>1. CASE Guard!Launch(p)
  BY <1>1 DEF Guard!Launch
<1>2. CASE Guard!ProbeAnswered(p)
  BY <1>2 DEF Guard!ProbeAnswered
<1>3. CASE Guard!ProbeFails(p)
  BY <1>3 DEF Guard!ProbeFails
<1>4. CASE Guard!RemoveServer(p)
  BY <1>4 DEF Guard!RemoveServer
<1>5. CASE Guard!Listen(p)
  BY <1>5 DEF Guard!Listen
<1>6. CASE Guard!UnlinkName(p)
  BY <1>6 DEF Guard!UnlinkName
<1>7. CASE Guard!EnterLoop(p)
  BY <1>7 DEF Guard!EnterLoop
<1>8. CASE Guard!Activate(p)
  BY <1>8 DEF Guard!Activate
<1>9. CASE Guard!Quit(p)
  BY <1>9 DEF Guard!Quit
<1>10. CASE Guard!QuitOnRequest(p)
  BY <1>10 DEF Guard!QuitOnRequest
<1>11. CASE Guard!CloseServer(p)
  BY <1>11 DEF Guard!CloseServer
<1>12. CASE Guard!Crash(p)
  BY <1>12 DEF Guard!Crash
<1>13. QED
  BY <1>1, <1>2, <1>3, <1>4, <1>5, <1>6, <1>7, <1>8, <1>9, <1>10, <1>11, <1>12 DEF Guard!Settle

LEMMA GuardNext == ~Overlap /\ Timely /\ GuardInv /\ [AppNext]_appVars => GuardInv'
<1> SUFFICES ASSUME ~Overlap, Timely, GuardInv, [AppNext]_appVars PROVE GuardInv'
  OBVIOUS
<1>1. CASE UNCHANGED guardVars
  BY <1>1 DEF guardVars, GuardInv, GuardTypes, Settled, OnePrimary, Guard!OnePrimary,
              Guard!Unsettled, Guard!Primaries
<1>2. CASE AskToQuit
  BY <1>2 DEF AskToQuit, Guard!AskToQuit, GuardInv, GuardTypes, Settled, OnePrimary,
              Guard!OnePrimary, Guard!Unsettled, Guard!Primaries
<1>3. ASSUME NEW p \in Processes,
             \/ Arrive(p) \/ RunLoop(p) \/ Attend(p) \/ LeaveExec(p) \/ ReturnFromMain(p) \/ Die(p)
      PROVE  GuardInv'
  BY <1>3, GuardStep DEF Arrive, RunLoop, Attend, LeaveExec, ReturnFromMain, Die
<1>4. QED
  BY <1>1, <1>2, <1>3 DEF AppNext, World, Work, appVars

(* One process at a time is past the guard, and the name leads to it       *)
(* (SingleInstanceGuard), as long as no start overlaps another process's   *)
(* start or the end of its server, and no probe times out on a server that *)
(* listens.                                                                *)
THEOREM OneProcessAtATime == ~Overlap /\ Timely => (AppSpec => []OnePrimary)
<1> SUFFICES ASSUME ~Overlap, Timely PROVE AppSpec => []OnePrimary
  OBVIOUS
<1>1. AppInit => GuardInv
  BY GuardInit DEF AppInit
<1>2. GuardInv /\ [AppNext]_appVars => GuardInv'
  BY GuardNext
<1>3. GuardInv => OnePrimary
  BY DEF GuardInv
<1>4. QED
  BY <1>1, <1>2, <1>3, PTL DEF AppSpec

-----------------------------------------------------------------------------
(* The updater                                                             *)

Ages == 0 .. Slow \cup {None}

UpdateTypes ==
  /\ phase \in {"off", "running", "closing"} /\ enabled \in BOOLEAN
  /\ checker \in [last : Ages, success : Ages, on : BOOLEAN, checking : BOOLEAN]
  /\ cache \in [last : Ages, success : Ages, dismissed : Tags \cup {None}]
  /\ ini \in [last : Ages, success : Ages, dismissed : Tags \cup {None}]
  /\ offered \in Tags \cup {None} /\ installed \in Tags
  /\ since \in Ages /\ answered \in BOOLEAN /\ refused \in Tags \cup {None}

(* What the user refused is what the cache would refuse, in memory and on  *)
(* disk alike; and nothing is on offer while the program does not run.     *)
Welcome ==
  /\ OfferIsWelcome
  /\ refused # None => cache.dismissed = refused /\ ini.dismissed = refused
  /\ phase = "off" => offered = None

(* The checker agrees with the cache while there is a program, the file    *)
(* while there is none; a request that is remembered is no younger than    *)
(* the attempt that is noted, nor is an answer older than that.            *)
Noted ==
  /\ phase = "off" => checker = Fresh /\ cache = ini
  /\ phase # "off" =>
       checker.last = cache.last /\ checker.success = cache.success /\ checker.on = enabled
  /\ checker.checking => ~answered
  /\ since # None =>
       /\ cache.last # None /\ cache.last <= since
       /\ answered => cache.success # None /\ cache.success <= cache.last

UpdateInv == UpdateTypes /\ Welcome /\ Noted

LEMMA FreshTypes ==
  Fresh \in [last : Ages, success : Ages, on : BOOLEAN, checking : BOOLEAN] /\ ~Fresh.checking
BY DEF Fresh, Ages

LEMMA UpdateInit == Init => UpdateInv
<1> SUFFICES ASSUME Init PROVE UpdateInv
  OBVIOUS
<1>1. cache \in [last : Ages, success : Ages, dismissed : Tags \cup {None}] /\ ini = cache
  BY DEF Init, Ages
<1>2. /\ phase = "off" /\ enabled \in BOOLEAN /\ answered \in BOOLEAN /\ refused = None
      /\ offered = None /\ since = None /\ checker = Fresh
  BY DEF Init
<1> installed \in Tags
  BY DEF Init
<1>3. UpdateTypes
  BY <1>1, <1>2, FreshTypes DEF UpdateTypes, Ages
<1>4. Welcome /\ Noted
  BY <1>1, <1>2, FreshTypes DEF Welcome, Noted, OfferIsWelcome
<1>5. QED
  BY <1>3, <1>4 DEF UpdateInv

(* Ages stay in order as time passes.                                      *)
LEMMA OlderIsMonotone ==
  ASSUME NEW a \in Ages
  PROVE  /\ Older(a) \in Ages /\ (Older(a) = None <=> a = None)
         /\ \A b \in Ages : a # None /\ b # None /\ a <= b => Older(a) <= Older(b)
BY UpdateAssumption DEF Ages, Older

(* What is noted when the timer fires on a checker that agrees with what   *)
(* is stored, and when a request may come of it.                           *)
LEMMA TimerNotes ==
  ASSUME UpdateTypes, NEW on \in BOOLEAN,
         NEW c \in [last : Ages, success : Ages, on : BOOLEAN, checking : BOOLEAN],
         NEW stored \in [last : Ages, success : Ages, dismissed : Tags \cup {None}],
         c.last = stored.last, c.success = stored.success, c.on = on,
         c.checking => ~answered,
         since # None =>
           /\ stored.last # None /\ stored.last <= since
           /\ answered => stored.success # None /\ stored.success <= stored.last,
         TimerFired(c, stored, on)
  PROVE  /\ cache' \in [last : Ages, success : Ages, dismissed : Tags \cup {None}]
         /\ checker' \in [last : Ages, success : Ages, on : BOOLEAN, checking : BOOLEAN]
         /\ since' \in Ages /\ answered' \in BOOLEAN
         /\ cache'.dismissed = stored.dismissed
         /\ checker'.last = cache'.last /\ checker'.success = cache'.success /\ checker'.on = on
         /\ checker'.checking => ~answered'
         /\ since' # None =>
              /\ cache'.last # None /\ cache'.last <= since'
              /\ answered' => cache'.success # None /\ cache'.success <= cache'.last
         /\ ~c.checking /\ checker'.checking =>
              on /\ (since # None => since >= (IF answered THEN Slow ELSE Fast))
<1>1. 0 \in Ages /\ \A a \in Ages : a # None => a \in Nat
  BY UpdateAssumption DEF Ages
<1>2. CASE IsCheckDue(c)
  <2>1. cache' = [stored EXCEPT !.last = 0]
    BY <1>2 DEF TimerFired
  <2>2. checker' = [c EXCEPT !.on = on, !.last = 0, !.success = stored.success, !.checking = TRUE]
    BY <1>2 DEF TimerFired, Policy
  <2>3. IF c.checking THEN UNCHANGED <<since, answered>> ELSE since' = 0 /\ answered' = FALSE
    BY <1>2 DEF TimerFired
  <2>4. on /\ (since # None => since >= (IF answered THEN Slow ELSE Fast))
    BY <1>1, <1>2, UpdateAssumption DEF IsCheckDue, UpdateTypes, Ages
  <2>5. /\ cache' \in [last : Ages, success : Ages, dismissed : Tags \cup {None}]
        /\ cache'.dismissed = stored.dismissed /\ cache'.last = 0 /\ cache'.success = stored.success
    BY <1>1, <2>1
  <2>6. /\ checker' \in [last : Ages, success : Ages, on : BOOLEAN, checking : BOOLEAN]
        /\ checker'.last = 0 /\ checker'.success = stored.success /\ checker'.on = on
        /\ checker'.checking
    BY <1>1, <2>2
  <2>7. /\ since' \in Ages /\ answered' = FALSE
        /\ since' # None => since' >= 0
    BY <1>1, <2>3, UpdateAssumption DEF UpdateTypes, Ages
  <2>8. cache'.last # None /\ (since' # None => cache'.last <= since')
    BY <2>5, <2>7, UpdateAssumption
  <2>9. QED
    BY <2>4, <2>5, <2>6, <2>7, <2>8
<1>3. CASE ~IsCheckDue(c)
  BY <1>3 DEF TimerFired, UpdateTypes
<1>4. QED
  BY <1>2, <1>3

RequestIsAllowed ==
  ~checker.checking /\ checker'.checking =>
    enabled' /\ (since # None => since >= (IF answered THEN Slow ELSE Fast))

LEMMA StartStep == ASSUME UpdateInv, Start PROVE UpdateInv' /\ RequestIsAllowed
<1> DEFINE c == Policy(Fresh, ini, enabled)
<1>1. /\ c \in [last : Ages, success : Ages, on : BOOLEAN, checking : BOOLEAN]
      /\ c.last = ini.last /\ c.success = ini.success /\ c.on = enabled /\ ~c.checking
      /\ ini \in [last : Ages, success : Ages, dismissed : Tags \cup {None}] /\ enabled \in BOOLEAN
  BY FreshTypes DEF UpdateInv, UpdateTypes, Policy
<1>2. phase = "off" /\ cache = ini /\ offered = None
  BY DEF Start, UpdateInv, Welcome, Noted
<1>3. TimerFired(c, ini, enabled)
  BY DEF Start
<1> HIDE DEF c
<1>4. /\ cache' \in [last : Ages, success : Ages, dismissed : Tags \cup {None}]
      /\ checker' \in [last : Ages, success : Ages, on : BOOLEAN, checking : BOOLEAN]
      /\ since' \in Ages /\ answered' \in BOOLEAN
      /\ cache'.dismissed = ini.dismissed
      /\ checker'.last = cache'.last /\ checker'.success = cache'.success /\ checker'.on = enabled
      /\ checker'.checking => ~answered'
      /\ since' # None =>
           /\ cache'.last # None /\ cache'.last <= since'
           /\ answered' => cache'.success # None /\ cache'.success <= cache'.last
      /\ ~c.checking /\ checker'.checking =>
           enabled /\ (since # None => since >= (IF answered THEN Slow ELSE Fast))
  BY <1>1, <1>2, <1>3, TimerNotes DEF UpdateInv, Noted
<1>5. QED
  BY <1>1, <1>2, <1>4 DEF Start, UpdateInv, UpdateTypes, Welcome, Noted, OfferIsWelcome, RequestIsAllowed

LEMMA TimerStep == ASSUME UpdateInv, Timer PROVE UpdateInv' /\ RequestIsAllowed
<1>1. /\ cache' \in [last : Ages, success : Ages, dismissed : Tags \cup {None}]
      /\ checker' \in [last : Ages, success : Ages, on : BOOLEAN, checking : BOOLEAN]
      /\ since' \in Ages /\ answered' \in BOOLEAN
      /\ cache'.dismissed = cache.dismissed
      /\ checker'.last = cache'.last /\ checker'.success = cache'.success /\ checker'.on = enabled
      /\ checker'.checking => ~answered'
      /\ since' # None =>
           /\ cache'.last # None /\ cache'.last <= since'
           /\ answered' => cache'.success # None /\ cache'.success <= cache'.last
      /\ ~checker.checking /\ checker'.checking =>
           enabled /\ (since # None => since >= (IF answered THEN Slow ELSE Fast))
  BY TimerNotes DEF Timer, UpdateInv, UpdateTypes, Noted
<1>2. QED
  BY <1>1 DEF Timer, UpdateInv, UpdateTypes, Welcome, Noted, OfferIsWelcome, RequestIsAllowed

LEMMA SwitchStep ==
  ASSUME UpdateInv, NEW v \in BOOLEAN, SetCheckForUpdates(v)
  PROVE  UpdateInv' /\ RequestIsAllowed
<1> DEFINE c == Policy(checker, cache, v)
<1>1. /\ c \in [last : Ages, success : Ages, on : BOOLEAN, checking : BOOLEAN]
      /\ c.last = cache.last /\ c.success = cache.success /\ c.on = v
      /\ c.checking = checker.checking
  BY DEF UpdateInv, UpdateTypes, Policy
<1>2. TimerFired(c, cache, v)
  BY DEF SetCheckForUpdates
<1> HIDE DEF c
<1>3. /\ cache' \in [last : Ages, success : Ages, dismissed : Tags \cup {None}]
      /\ checker' \in [last : Ages, success : Ages, on : BOOLEAN, checking : BOOLEAN]
      /\ since' \in Ages /\ answered' \in BOOLEAN
      /\ cache'.dismissed = cache.dismissed
      /\ checker'.last = cache'.last /\ checker'.success = cache'.success /\ checker'.on = v
      /\ checker'.checking => ~answered'
      /\ since' # None =>
           /\ cache'.last # None /\ cache'.last <= since'
           /\ answered' => cache'.success # None /\ cache'.success <= cache'.last
      /\ ~c.checking /\ checker'.checking =>
           v /\ (since # None => since >= (IF answered THEN Slow ELSE Fast))
  BY <1>1, <1>2, TimerNotes DEF UpdateInv, UpdateTypes, Noted
<1>4. QED
  BY <1>1, <1>3 DEF SetCheckForUpdates, UpdateInv, UpdateTypes, Welcome, Noted, OfferIsWelcome,
                    RequestIsAllowed

LEMMA TickStep == ASSUME UpdateInv, Tick PROVE UpdateInv' /\ RequestIsAllowed
<1>1. /\ checker' = [checker EXCEPT !.last = Older(@), !.success = Older(@)]
      /\ cache' = [cache EXCEPT !.last = Older(@), !.success = Older(@)]
      /\ ini' = [ini EXCEPT !.last = Older(@), !.success = Older(@)]
      /\ since' = Older(since)
      /\ UNCHANGED <<phase, enabled, offered, installed, answered, refused>>
  BY DEF Tick
<1>2. UpdateTypes'
  BY <1>1, OlderIsMonotone DEF UpdateInv, UpdateTypes
<1>3. Welcome'
  BY <1>1 DEF UpdateInv, UpdateTypes, Welcome, OfferIsWelcome
<1>4. Noted'
  <2>1. ASSUME phase = "off" PROVE checker' = Fresh
    <3>1. checker = Fresh /\ Older(None) = None
      BY <2>1, UpdateAssumption DEF UpdateInv, Noted, Older
    <3>2. QED
      BY <1>1, <3>1 DEF Fresh
  <2>2. since' # None =>
          /\ cache'.last # None /\ cache'.last <= since'
          /\ answered' => cache'.success # None /\ cache'.success <= cache'.last
    BY <1>1, OlderIsMonotone DEF UpdateInv, UpdateTypes, Noted
  <2>3. QED
    BY <1>1, <2>1, <2>2 DEF UpdateInv, UpdateTypes, Noted
<1>5. QED
  BY <1>1, <1>2, <1>3, <1>4 DEF UpdateInv, UpdateTypes, RequestIsAllowed

LEMMA UpdateStep == UpdateInv /\ [Next]_updateVars => UpdateInv' /\ RequestIsAllowed
<1> SUFFICES ASSUME UpdateInv, [Next]_updateVars PROVE UpdateInv' /\ RequestIsAllowed
  OBVIOUS
<1> USE UpdateAssumption DEF UpdateInv, UpdateTypes, Welcome, Noted, OfferIsWelcome, RequestIsAllowed
<1>1. CASE ReplySucceeds
  <2> 0 \in Ages
    BY DEF Ages
  <2>1. /\ cache' \in [last : Ages, success : Ages, dismissed : Tags \cup {None}]
        /\ cache'.last = cache.last /\ cache'.success = 0 /\ cache'.dismissed = cache.dismissed
    BY <1>1 DEF ReplySucceeds
  <2>2. /\ checker' \in [last : Ages, success : Ages, on : BOOLEAN, checking : BOOLEAN]
        /\ checker'.last = checker.last /\ checker'.success = 0 /\ checker'.on = checker.on
        /\ ~checker'.checking
    BY <1>1 DEF ReplySucceeds
  <2>3. Welcome'
    BY <1>1, <2>1 DEF ReplySucceeds
  <2>4. cache.last # None => cache.last >= 0
    BY DEF Ages
  <2>5. QED
    BY <1>1, <2>1, <2>2, <2>3, <2>4 DEF ReplySucceeds
<1>2. CASE ReplyFails
  BY <1>2 DEF ReplyFails, storeVars, historyVars
<1>3. CASE DismissAvailableRelease
  BY <1>3 DEF DismissAvailableRelease
<1>4. CASE Sync
  BY <1>4 DEF Sync, historyVars
<1>5. CASE LeaveLoop
  BY <1>5 DEF LeaveLoop, storeVars, historyVars
<1>6. CASE Stop
  BY <1>6 DEF Stop, historyVars, Fresh, Ages
<1>7. CASE Crash
  BY <1>7 DEF Crash, Fresh, Ages
<1>8. CASE Upgrade
  BY <1>8 DEF Upgrade, storeVars, historyVars
<1>9. CASE UNCHANGED updateVars
  BY <1>9 DEF updateVars, storeVars, historyVars
<1>10. QED
  BY <1>1, <1>2, <1>3, <1>4, <1>5, <1>6, <1>7, <1>8, <1>9, StartStep, TimerStep, SwitchStep,
     TickStep DEF Next, Inside, Outside, Reply

(* Whatever the processes do, the updater takes one of its own steps.      *)
LEMMA ApplicationUpdates == [AppNext]_appVars => [Next]_updateVars
BY DEF AppNext, appVars, AskToQuit, World, Arrive, RunLoop, Attend, LeaveExec, ReturnFromMain, Die,
       Work, Next, Inside, Outside

(* A release on offer is newer than the program as isReleaseNewer has it,  *)
(* or this is a debug build; and it is not the one the user dismissed      *)
(* last, however often the program ended or crashed since (AutoUpdater).   *)
THEOREM OffersAreWelcome == AppSpec => []OfferIsWelcome
<1>1. AppInit => UpdateInv
  BY UpdateInit DEF AppInit
<1>2. UpdateInv /\ [AppNext]_appVars => UpdateInv'
  BY UpdateStep, ApplicationUpdates
<1>3. UpdateInv => OfferIsWelcome
  BY DEF UpdateInv, Welcome
<1>4. QED
  BY <1>1, <1>2, <1>3, PTL DEF AppSpec

(* The release service is asked only when the setting and the intervals    *)
(* allow it, over restarts, switches of the setting and slow answers       *)
(* (Checker).                                                              *)
THEOREM RequestsKeepTheirDistance == AppSpec => RequestsAreAllowed
<1>1. AppInit => UpdateInv
  BY UpdateInit DEF AppInit
<1>2. UpdateInv /\ [AppNext]_appVars => UpdateInv'
  BY UpdateStep, ApplicationUpdates
<1>3. UpdateInv /\ [AppNext]_appVars => [RequestIsAllowed]_updateVars
  BY UpdateStep, ApplicationUpdates
<1>4. RequestIsAllowed <=>
        (~checker.checking /\ checker'.checking =>
           /\ enabled'
           /\ since # None => since >= (IF answered THEN Slow ELSE Fast))
  BY DEF RequestIsAllowed
<1>5. QED
  BY <1>1, <1>2, <1>3, <1>4, PTL DEF AppSpec, RequestsAreAllowed

=============================================================================
