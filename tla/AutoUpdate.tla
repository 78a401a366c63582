----------------------------- MODULE AutoUpdate -----------------------------
(***************************************************************************)
(* AutoUpdater and its Checker over many runs of the program: when the     *)
(* release service is asked, what is remembered of it, and which release   *)
(* is offered to the user.                                                 *)
(*                                                                         *)
(* A moment is kept as its age, up to Slow: past that every comparison the *)
(* code makes has one answer. A tick stands for FAST_INTERVAL or a part of *)
(* it. m_cache is a QSettings: written to its file when the event loop is  *)
(* next idle, by sync(), and when it is destroyed. The service may name    *)
(* any release as the latest, as releases are published and withdrawn.     *)
(***************************************************************************)
EXTENDS Naturals

CONSTANTS Fast, Slow,    \* FAST_INTERVAL and SLOW_INTERVAL, in ticks
          Tags,          \* the tags of releases, without a leading v
          Number,        \* [Tags -> the version number a tag starts with, or None]
          Stable,        \* \subseteq Tags: the number is all there is to the tag
          DebugBuild,    \* DEBUG_BUILD
          None

ASSUME UpdateAssumption ==
    /\ Fast \in Nat /\ Slow \in Nat /\ Fast <= Slow
    /\ Tags # {} /\ Number \in [Tags -> Nat \cup {None}] /\ Stable \subseteq Tags
    /\ DebugBuild \in BOOLEAN /\ None \notin Nat /\ None \notin Tags

VARIABLES phase,         \* "off", "running" (the event loop), "closing" (exec() has returned)
          enabled,       \* Settings::checkForUpdates
          checker,       \* m_checker
          cache, ini,    \* m_cache, and its file
          offered,       \* m_availableRelease
          installed,     \* this program's tag
          since, answered,     \* history: the age of the last request, and whether it succeeded
          refused              \* history: the last release dismissed, if that is on disk

storeVars == <<cache, ini>>
historyVars == <<since, answered, refused>>
updateVars == <<phase, enabled, checker, storeVars, offered, installed, historyVars>>

\* A tag that starts with no number is newer than any other. Of two tags with one number the stable
\* one is newer than the other.
IsReleaseNewer(current, release) ==
    /\ current # release
    /\ \/ None \in {Number[current], Number[release]}
       \/ Number[release] > Number[current]
       \/ Number[release] = Number[current] /\ release \in Stable /\ current \notin Stable

Fresh == [last |-> None, success |-> None, on |-> FALSE, checking |-> FALSE]
Older(age) == IF age \in 0 .. Slow - 1 THEN age + 1 ELSE age

Init ==
    /\ phase = "off" /\ enabled \in BOOLEAN
    /\ checker = Fresh
    /\ cache = [last |-> None, success |-> None, dismissed |-> None] /\ ini = cache
    /\ offered = None /\ installed \in Tags
    /\ since = None /\ answered = FALSE /\ refused = None

\* A plausible error: the age of a date that was never set is taken for nought.
DueWithoutFirst(c) ==
    /\ c.on /\ c.last # None
    /\ c.last >= (IF c.success # None /\ c.success <= c.last THEN Slow ELSE Fast)

\* Checker::isCheckDue. An invalid date is earlier than any other.
IsCheckDue(c) ==
    /\ c.on
    /\ c.last # None =>
          c.last >= (IF c.success # None /\ c.success <= c.last THEN Slow ELSE Fast)

----------------------------------------------------------------------------
\* reapplyCheckPolicy: the setting and what is stored, put into the checker.
Policy(c, stored, on) == [c EXCEPT !.on = on, !.last = stored.last, !.success = stored.success]

\* timerFired, on a checker whose policy is c: startCheck does nothing while a check is under way,
\* and the attempt is noted all the same.
TimerFired(c, stored, on) ==
    IF IsCheckDue(c)
    THEN /\ cache' = [stored EXCEPT !.last = 0]
         /\ checker' = [Policy(c, [stored EXCEPT !.last = 0], on) EXCEPT !.checking = TRUE]
         /\ IF c.checking THEN UNCHANGED <<since, answered>> ELSE since' = 0 /\ answered' = FALSE
    ELSE cache' = stored /\ checker' = c /\ UNCHANGED <<since, answered>>

----------------------------------------------------------------------------
(* Plausible errors, which the properties must exclude *)

\* A setting that is switched on asks at once.
SwitchAsks(v) ==
    /\ phase = "running" /\ enabled' = v
    /\ checker' = [checker EXCEPT !.on = v, !.checking = v \/ @]
    /\ since' = IF v /\ ~checker.checking THEN 0 ELSE since
    /\ UNCHANGED <<phase, storeVars, offered, installed, answered, refused>>

DismissedInMemory ==
    /\ phase = "running" /\ offered # None
    /\ cache' = [cache EXCEPT !.dismissed = offered] /\ offered' = None
    /\ refused' = offered
    /\ UNCHANGED <<phase, enabled, checker, ini, installed, since, answered>>

----------------------------------------------------------------------------
\* The constructor and finishInit: m_cache reads its file.
Start ==
    /\ phase = "off" /\ phase' = "running"
    /\ TimerFired(Policy(Fresh, ini, enabled), ini, enabled)
    /\ offered' = None
    /\ UNCHANGED <<enabled, ini, installed, refused>>

Timer ==
    /\ phase = "running" /\ IsCheckDue(checker)
    /\ TimerFired(checker, cache, enabled)
    /\ UNCHANGED <<phase, enabled, ini, offered, installed, refused>>

\* checkForUpdatesChanged: reapplyCheckPolicy is connected before timerFired.
SetCheckForUpdates(v) ==
    /\ phase = "running" /\ enabled' = v
    /\ TimerFired(Policy(checker, cache, v), cache, v)
    /\ UNCHANGED <<phase, ini, offered, installed, refused>>

\* finishCheck(SuccessfulCheck), and checkComplete.
ReplySucceeds ==
    /\ phase = "running" /\ checker.checking
    /\ cache' = [cache EXCEPT !.success = 0]
    /\ checker' = [checker EXCEPT !.success = 0, !.checking = FALSE]
    /\ \E latest \in Tags :
          offered' = IF (DebugBuild \/ IsReleaseNewer(installed, latest)) /\ cache.dismissed # latest
                     THEN latest ELSE offered
    /\ answered' = TRUE
    /\ UNCHANGED <<phase, enabled, ini, installed, since, refused>>

\* A transport error, a status other than 200, or a body that does not parse.
ReplyFails ==
    /\ phase = "running" /\ checker.checking
    /\ checker' = [checker EXCEPT !.checking = FALSE]
    /\ UNCHANGED <<phase, enabled, storeVars, offered, installed, historyVars>>

\* The cache has room for one dismissed release. sync() may fail to write it; it is then a matter
\* for the next write.
DismissAvailableRelease ==
    /\ phase = "running" /\ offered # None
    /\ cache' = [cache EXCEPT !.dismissed = offered] /\ offered' = None
    /\ \E written \in BOOLEAN :
          /\ ini' = IF written THEN cache' ELSE ini
          /\ refused' = IF written THEN offered ELSE None
    /\ UNCHANGED <<phase, enabled, checker, installed, since, answered>>

\* Qt writes a changed QSettings from the event loop.
Sync ==
    /\ phase = "running" /\ ini # cache /\ ini' = cache
    /\ UNCHANGED <<phase, enabled, checker, cache, offered, installed, historyVars>>

Tick ==
    /\ LET Aged(r) == [r EXCEPT !.last = Older(@), !.success = Older(@)] IN
          checker' = Aged(checker) /\ cache' = Aged(cache) /\ ini' = Aged(ini)
    /\ since' = Older(since)
    /\ UNCHANGED <<phase, enabled, offered, installed, answered, refused>>

LeaveLoop ==
    /\ phase = "running" /\ phase' = "closing"
    /\ UNCHANGED <<enabled, checker, storeVars, offered, installed, historyVars>>

\* The engine is destroyed, the singletons and the QSettings with it; a request under way is aborted.
Stop ==
    /\ phase = "closing" /\ phase' = "off"
    /\ ini' = cache /\ checker' = Fresh /\ offered' = None
    /\ UNCHANGED <<enabled, cache, installed, historyVars>>

\* What was not written is lost, and so is the claim on it.
Crash ==
    /\ phase # "off" /\ phase' = "off"
    /\ checker' = Fresh /\ cache' = ini /\ offered' = None
    /\ since' = IF ini = cache THEN since ELSE None
    /\ UNCHANGED <<enabled, ini, installed, answered, refused>>

Upgrade ==
    /\ phase = "off" /\ \E t \in Tags \ {installed} : installed' = t
    /\ UNCHANGED <<phase, enabled, checker, storeVars, offered, historyVars>>

Reply == ReplySucceeds \/ ReplyFails

\* What happens while the program runs on, and what happens whether it runs or not.
Inside == Timer \/ Reply \/ DismissAvailableRelease \/ Sync \/ \E v \in BOOLEAN : SetCheckForUpdates(v)
Outside == Tick \/ Upgrade

Next == Start \/ Inside \/ LeaveLoop \/ Stop \/ Crash \/ Outside

\* Time passes, the timer fires and the network answers each request, if only with an error.
Fairness == WF_updateVars(Tick) /\ WF_updateVars(Timer) /\ WF_updateVars(Reply)

Spec == Init /\ [][Next]_updateVars /\ Fairness

----------------------------------------------------------------------------
(* Properties *)

\* The release service is asked only while the setting allows it, not before Fast has passed since
\* the last request, and not before Slow when that one was answered: not after a restart, not when
\* the setting is switched off and on, and not while a request is still under way. (A crash that
\* comes before Qt has written the cache is the exception: the request is forgotten.)
RequestsAreAllowed ==
    [][~checker.checking /\ checker'.checking =>
          /\ enabled'
          /\ since # None => since >= (IF answered THEN Slow ELSE Fast)]_updateVars

\* A release on offer is newer than the program, by the order of isReleaseNewer and unless this is a
\* debug build, which offers every other release too (autoupdate.cpp:158-164); and it is not the one
\* the user dismissed last, in this run or, whatever crashed in between, in an earlier one. One
\* dismissed before that may be offered again, when a later release has been withdrawn.
OfferIsWelcome ==
    offered # None => /\ DebugBuild \/ IsReleaseNewer(installed, offered)
                      /\ offered # refused

\* While the program runs with checks enabled, it asks again and again: no failure, no slow answer
\* and no switch of the setting stops the checks for good.
ChecksGoOn == <>[](phase = "running" /\ enabled) => []<>(since = 0)

=============================================================================
