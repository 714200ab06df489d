---------------------------- MODULE PowerControl ----------------------------
(***************************************************************************)
(* Telemetry and radio power of one node ID.  The node reports and adapts  *)
(* its level (NodeRuntime.h, RadioPowerState.h).  Three gateway tasks      *)
(* share its controller: the radio task acknowledges a report and adds a   *)
(* target (RadioService.cpp), the main loop stores the report and feeds    *)
(* the controller (main.cpp, TelemetryStore.cpp, PowerControlService.cpp), *)
(* the web server changes the policy and deletes the node (WebServer.cpp). *)
(* The averaged RSSI is an input: it is too strong, too weak or fine.  The *)
(* ceiling of the image and of the record stay the same.                   *)
(***************************************************************************)
EXTENDS Integers, Sequences

CONSTANTS
  Ceiling,             \* power levels are 0 .. Ceiling
  ReportsPerDecision, MaxStepDown, MaxStepUp, FallbackMargin,  \* RadioPowerControl.h
  FallbackReports, TelemetryAttempts,                          \* RadioPowerState.h
  QueueDepth,          \* reports the telemetry queue holds
  Nothing,             \* no record or level
  MaxFallbacks,        \* bound: fallbacks of the node
  MaxChanges           \* bound: policy changes, restarts and deletions, together

ASSUME LevelAssumption ==
  Ceiling \in Nat /\ Nothing \notin 0 .. Ceiling + 1
ASSUME BoundsAssumption ==
  /\ {ReportsPerDecision, FallbackReports, TelemetryAttempts, QueueDepth} \subseteq Nat \ {0}
  /\ {MaxStepDown, MaxStepUp, FallbackMargin, MaxFallbacks, MaxChanges} \subseteq Nat

VARIABLES
  node,       \* the node's radio state
  policy,     \* of its record, or Nothing while it has none
  queue,      \* telemetryFrameQueue
  control,    \* ControlState
  desired,    \* the published level
  observed,   \* fallbackObserved
  loop,       \* what the main loop has in its hands
  web,        \* what the web server has in its hands
  changes,    \* how many changes so far
  alone       \* has automatic control been alone so far, and in time?

vars == <<node, policy, queue, control, desired, observed, loop, web, changes, alone>>
gateway == <<control, desired, observed, loop, web>>

Level == 0 .. Ceiling
PolicyAuto == 0
Fixed(level) == level + 1
FixedPolicies == {Fixed(level) : level \in Level}
Policy == {PolicyAuto} \cup FixedPolicies
Lower(a, b) == IF a < b THEN a ELSE b
Higher(a, b) == IF a > b THEN a ELSE b

\* Where a published level comes from: the node's fallback that the controller
\* had seen when it computed it, or the user's change of the policy.
User == -1
Source == User .. MaxFallbacks
Report == [level : Level, fallback : BOOLEAN, number : 0 .. MaxFallbacks]
Wanted == [level : Level \cup {Nothing}, source : Source]

\* A node begins at its ceiling.
NewNode(number) ==
  [level |-> Ceiling, fallback |-> FALSE, failures |-> 0, attempt |-> 0, number |-> number,
   noticed |-> TRUE]

\* "clear" is the highest floor since the controller began.
NewControl ==
  [known |-> FALSE, level |-> 0, fallback |-> FALSE, reports |-> 0, floor |-> 0, desired |-> 0,
   clear |-> 0]
NoLevel == [level |-> Nothing, source |-> 0]
Idle == [at |-> "idle"]

Node ==
  [level : Level, fallback : BOOLEAN, failures : 0 .. FallbackReports,
   attempt : 0 .. TelemetryAttempts - 1, number : 0 .. MaxFallbacks, noticed : BOOLEAN]
ControlState ==
  [known : BOOLEAN, level : Level, fallback : BOOLEAN, reports : 0 .. ReportsPerDecision,
   floor : Level, desired : Level, clear : Level]
Loop ==
  {Idle} \cup [at : {"accepted"}, report : Report]
         \cup [at : {"read"}, report : Report, policy : Policy]
         \cup [at : {"computed", "published"}, level : Level, report : Report]
Web ==
  [at : {"idle", "patched", "deleted", "forgotten", "withdrawn"}]
    \cup [at : {"changed"}, level : Level \cup {Nothing}]

TypeOK ==
  /\ node \in Node /\ (node.fallback => node.number > 0)
  /\ policy \in Policy \cup {Nothing}
  /\ queue \in Seq(Report) /\ Len(queue) <= QueueDepth
  /\ control \in ControlState
  /\ desired \in Wanted
  /\ {observed, alone} \subseteq BOOLEAN
  /\ loop \in Loop
  /\ web \in Web
  /\ changes \in 0 .. MaxChanges

Init ==
  /\ node = NewNode(0)
  /\ policy \in Policy
  /\ queue = << >>
  /\ control = NewControl
  /\ desired = NoLevel
  /\ observed = FALSE
  /\ loop = Idle
  /\ web = Idle
  /\ changes = 0
  /\ alone = (policy = PolicyAuto)

\* One more change of the surroundings.
Change(leavesAlone) ==
  /\ changes < MaxChanges
  /\ changes' = changes + 1
  /\ alone' = leavesAlone

-----------------------------------------------------------------------------
(* The controller: RadioPowerControl.h *)

\* changePolicy()
Changed(state, wish) ==
  [state EXCEPT !.reports = 0,
                !.desired = IF wish # PolicyAuto THEN wish - 1
                            ELSE IF state.known THEN state.level ELSE @]

\* The floor after a report: raised by the first report of a fallback.
FloorAfter(state, report) ==
  IF report.fallback /\ state.known /\ ~state.fallback
  THEN Lower(Ceiling, state.level + FallbackMargin)
  ELSE state.floor

Reports(state, report) ==
  IF state.known /\ report.level = state.level
  THEN Lower(state.reports + 1, ReportsPerDecision)
  ELSE 1

\* Mutant: a step up is not limited by the ceiling.
SteppedBeyond(level, average, wanted) ==
  CASE average = "strong" -> IF level > MaxStepDown THEN level - MaxStepDown ELSE 0
    [] average = "weak" -> level + MaxStepUp
    [] OTHER -> wanted

\* The level that the average asks for, or the one wanted so far.
Stepped(level, average, wanted) ==
  CASE average = "strong" -> IF level > MaxStepDown THEN level - MaxStepDown ELSE 0
    [] average = "weak" -> Lower(level + MaxStepUp, Ceiling)
    [] OTHER -> wanted

\* Mutant: the floor is left out.
AutomaticUnbounded(state, report, average, wanted) ==
  IF Reports(state, report) < ReportsPerDecision THEN wanted
  ELSE Stepped(report.level, average, wanted)

Automatic(state, report, average, wanted) ==
  IF Reports(state, report) < ReportsPerDecision THEN wanted
  ELSE Higher(Stepped(report.level, average, wanted), FloorAfter(state, report))

\* Mutant: a fallback report is taken at its word whatever the policy is.
NextWordTaken(state, wish, report, average) ==
  IF wish # PolicyAuto /\ ~report.fallback THEN wish - 1
  ELSE Automatic(state, report, average,
                 IF state.known /\ ~report.fallback THEN state.desired ELSE report.level)

\* A new level is averaged while the one wanted before is kept; a fallback report
\* is taken at its word, unless the level is fixed.
NextLevel(state, wish, report, average) ==
  IF wish # PolicyAuto THEN wish - 1
  ELSE Automatic(state, report, average,
                 IF state.known /\ ~report.fallback THEN state.desired ELSE report.level)

\* observe()
Observed(state, wish, report, average) ==
  [known |-> TRUE, level |-> report.level, fallback |-> report.fallback,
   reports |-> Reports(state, report), floor |-> FloorAfter(state, report),
   desired |-> NextLevel(state, wish, report, average),
   clear |-> Higher(state.clear, FloorAfter(state, report))]

-----------------------------------------------------------------------------
(* The node *)

\* telemetryAttempts(); an urgent report has all of them.
Attempts == IF node.failures < FallbackReports THEN {TelemetryAttempts} ELSE {1, TelemetryAttempts}

\* afterAcknowledged(); no level is above the ceiling here.
Acknowledged(target) ==
  LET answered == [node EXCEPT !.attempt = 0, !.failures = 0]
  IN  IF target = Nothing THEN answered
      ELSE [answered EXCEPT !.level = target, !.fallback = FALSE]

\* No report waits for the main loop.
Settled == queue = << >> /\ loop = Idle

\* afterUnacknowledged().  "noticed": the gateway had finished with all reports
\* that it had heard, and had seen the end of the fallback before.
Unacknowledged ==
  LET failures == Lower(node.failures + 1, FallbackReports)
      failed == [node EXCEPT !.attempt = 0, !.failures = failures]
  IN  IF failures < FallbackReports \/ node.level >= Ceiling THEN failed
      ELSE [failed EXCEPT !.level = Ceiling, !.fallback = TRUE, !.number = @ + 1,
                          !.noticed = ~observed /\ Settled]

\* A fallback beyond the bound does not happen.
WithinBound == Unacknowledged.number <= MaxFallbacks

Failing(limit) ==
  IF node.attempt + 1 < limit
  THEN node' = [node EXCEPT !.attempt = @ + 1]
  ELSE WithinBound /\ node' = Unacknowledged

\* Mutant: a target is sent whatever the controller has seen.
TargetAtOnce(report) ==
  IF desired.level = report.level THEN Nothing ELSE desired.level

\* target(): no target while the controller has not seen the fallback.
Target(report) ==
  IF (report.fallback /\ ~observed) \/ desired.level = report.level THEN Nothing
  ELSE desired.level

ReportOf == [level |-> node.level, fallback |-> node.fallback, number |-> node.number]

\* The gateway hears one transmission: it queues the report and answers, if the
\* sender is active and there is room.
Heard == policy # Nothing /\ Len(queue) < QueueDepth

\* Automatic control is in time if the main loop was when the node fell back.
InTime(condition) == alone' = (alone /\ (node'.number # node.number => condition))

ReportLost ==
  /\ \E limit \in Attempts : Failing(limit)
  /\ InTime(Settled)
  /\ UNCHANGED <<policy, queue, gateway, changes>>

AcknowledgementLost ==
  /\ Heard
  /\ queue' = Append(queue, ReportOf)
  /\ \E limit \in Attempts : Failing(limit)
  /\ InTime(node'.noticed)
  /\ UNCHANGED <<policy, gateway, changes>>

ReportAcknowledged ==
  /\ Heard
  /\ queue' = Append(queue, ReportOf)
  /\ node' = Acknowledged(Target(ReportOf))
  /\ UNCHANGED <<policy, gateway, changes, alone>>

\* A restart begins at the ceiling.
RestartNode ==
  /\ Change(FALSE)
  /\ node' = [NewNode(node.number) EXCEPT !.noticed = node.noticed]
  /\ UNCHANGED <<policy, queue, gateway>>

-----------------------------------------------------------------------------
(* The main loop *)

\* accept() and find(): the sender is active.
Accept ==
  /\ loop.at = "idle"
  /\ queue # << >>
  /\ queue' = Tail(queue)
  /\ loop' = IF policy = Nothing THEN Idle ELSE [at |-> "accepted", report |-> Head(queue)]
  /\ UNCHANGED <<node, policy, control, desired, observed, web, changes, alone>>

\* radioPolicy() of a node that is still active.
ReadPolicy ==
  /\ loop.at = "accepted"
  /\ loop' = IF policy = Nothing THEN Idle
             ELSE [at |-> "read", report |-> loop.report, policy |-> policy]
  /\ UNCHANGED <<node, policy, queue, control, desired, observed, web, changes, alone>>

Observe(average) ==
  /\ loop.at = "read"
  /\ control' = Observed(control, loop.policy, loop.report, average)
  /\ loop' = [at |-> "computed", level |-> control'.desired, report |-> loop.report]
  /\ UNCHANGED <<node, policy, queue, desired, observed, web, changes, alone>>

\* Mutant: the fallback is marked as seen before the level is published.
FallbackFirst == "fallback"

First == "level"

\* The level, and whether the fallback is seen: two stores, one after the other.
Publish(part, at) ==
  /\ loop.at = at
  /\ IF part = "level"
     THEN /\ desired' = [level |-> loop.level, source |-> loop.report.number]
          /\ UNCHANGED observed
     ELSE observed' = loop.report.fallback /\ UNCHANGED desired
  /\ loop' = IF at = "computed" THEN [loop EXCEPT !.at = "published"] ELSE Idle
  /\ UNCHANGED <<node, policy, queue, control, web, changes, alone>>

PublishOne == Publish(First, "computed")

PublishOther ==
  \E part \in {"level", "fallback"} \ {First} : Publish(part, "published")

-----------------------------------------------------------------------------
(* The web server *)

\* handlePatchNode(): the policy is committed, then computed with, then the level
\* is published.
PatchPolicy(wish) ==
  /\ web.at = "idle"
  /\ policy # Nothing
  /\ Change(FALSE)
  /\ policy' = wish
  /\ web' = [at |-> "patched"]
  /\ UNCHANGED <<node, queue, control, desired, observed, loop>>

ChangePolicy ==
  /\ web.at = "patched"
  /\ control' = Changed(control, policy)
  /\ web' = [at |-> "changed",
             level |-> IF policy = PolicyAuto /\ ~control.known THEN Nothing ELSE control'.desired]
  /\ UNCHANGED <<node, policy, queue, desired, observed, loop, changes, alone>>

PublishPolicy ==
  /\ web.at = "changed"
  /\ desired' = [level |-> web.level, source |-> User]
  /\ web' = Idle
  /\ UNCHANGED <<node, policy, queue, control, observed, loop, changes, alone>>

\* handleDeleteNode(), and forget() in three steps.
DeleteNode ==
  /\ web.at = "idle"
  /\ policy # Nothing
  /\ Change(FALSE)
  /\ policy' = Nothing
  /\ web' = [at |-> "deleted"]
  /\ UNCHANGED <<node, queue, control, desired, observed, loop>>

ForgetState ==
  /\ web.at = "deleted"
  /\ control' = NewControl
  /\ web' = [at |-> "forgotten"]
  /\ UNCHANGED <<node, policy, queue, desired, observed, loop, changes, alone>>

ForgetLevel ==
  /\ web.at = "forgotten"
  /\ desired' = NoLevel
  /\ web' = [at |-> "withdrawn"]
  /\ UNCHANGED <<node, policy, queue, control, observed, loop, changes, alone>>

ForgetFallback ==
  /\ web.at = "withdrawn"
  /\ observed' = FALSE
  /\ web' = Idle
  /\ UNCHANGED <<node, policy, queue, control, desired, loop, changes, alone>>

\* The ID is given to a node that joins.
Join ==
  /\ policy = Nothing
  /\ policy' = PolicyAuto
  /\ node' = NewNode(node.number)
  /\ UNCHANGED <<queue, gateway, changes, alone>>

RestartGateway ==
  /\ Change(alone)
  /\ queue' = << >>
  /\ control' = NewControl
  /\ desired' = NoLevel
  /\ observed' = FALSE
  /\ loop' = Idle
  /\ web' = Idle
  /\ UNCHANGED <<node, policy>>

-----------------------------------------------------------------------------
MainLoop ==
  \/ Accept \/ ReadPolicy \/ PublishOne \/ PublishOther
  \/ \E average \in {"strong", "weak", "fine"} : Observe(average)

WebServer ==
  ChangePolicy \/ PublishPolicy \/ ForgetState \/ ForgetLevel \/ ForgetFallback

Next ==
  \/ ReportLost \/ AcknowledgementLost \/ ReportAcknowledged
  \/ MainLoop \/ WebServer
  \/ \E wish \in Policy : PatchPolicy(wish)
  \/ DeleteNode \/ Join \/ RestartNode \/ RestartGateway

Spec == Init /\ [][Next]_vars

\* The tasks run.  Not every acknowledgement is lost.
Fairness == WF_vars(MainLoop) /\ WF_vars(WebServer) /\ SF_vars(ReportAcknowledged)

FairSpec == Spec /\ Fairness

-----------------------------------------------------------------------------
(* Properties *)

\* A node that lost the gateway gets no target that was computed before the
\* gateway saw this fallback, which could be the level that failed, if the
\* gateway had seen the end of the fallback before (PowerControlService.cpp,
\* fallbackObserved).
TargetKnowsFallback ==
  policy # Nothing /\ node.fallback /\ node.noticed /\ Target(ReportOf) # Nothing
    => desired.source \in {node.number, User}

\* Automatic control alone never comes closer again to a level that failed:
\* whatever reports and acknowledgements are lost or repeated, its decisions are
\* not below the highest floor so far (RadioPowerControl.h).  Alone: the policy
\* was never fixed, the node was not restarted or replaced by another one, and
\* it did not fall back while reports from before waited for the main loop: they
\* could let it have an old target, and a later floor be lower.
AutomaticStaysClear ==
  alone /\ control.reports = ReportsPerDecision => control.desired >= control.clear

\* A fixed level is used again and again, whatever the node falls back from, what
\* order the tasks publish in, and who restarts (API.md, PROTOCOL.md).
FixedTakesEffect ==
  <>[](policy \in FixedPolicies) => []<>(Fixed(node.level) = policy)

=============================================================================
