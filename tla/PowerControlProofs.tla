------------------------- MODULE PowerControlProofs -------------------------
(***************************************************************************)
(* Three tasks share the controller of a node, and a node may fall back    *)
(* while they are at work.  What keeps an old target from it is the order  *)
(* in which its reports wait, and what the gateway has seen of them.       *)
(***************************************************************************)
EXTENDS PowerControl, SequenceTheorems, TLAPS

\* Who falls back is at the ceiling; only a registered node has its policy changed.
PlaceInv ==
  /\ node.fallback => node.level = Ceiling
  /\ \A i \in DOMAIN queue : queue[i].fallback => queue[i].level = Ceiling
  /\ loop.at # "idle" /\ loop.report.fallback => loop.report.level = Ceiling
  /\ web.at = "patched" => policy # Nothing

\* While a node is in a fallback that the gateway could notice, at most one
\* report is older than it, the first; and what is published when the fallback
\* is marked as seen is newer than it.
Newer == desired.level = Nothing \/ desired.source \in {node.number, User}
NoticedInv ==
  node.fallback /\ node.noticed =>
    /\ \A i \in DOMAIN queue :
         \/ queue[i].number = node.number
         \/ i = 1 /\ loop = Idle /\ ~queue[i].fallback /\ ~observed
    /\ loop.at # "idle" =>
         loop.report.number = node.number \/ (~loop.report.fallback /\ ~observed)
    /\ observed => Newer
    /\ loop.at = "published" /\ loop.report.number = node.number => Newer

\* Whether the controller has seen the fallback goes with the reports it has
\* handled.  A fallback that it has not seen is still going on: nothing but
\* reports of the fallback waits then, after at most one from before.
SeenInv ==
  /\ loop.at \in {"idle", "accepted", "read"} => observed = control.fallback
  /\ loop.at \in {"computed", "published"} => loop.report.fallback = control.fallback
  /\ node.fallback =>
       /\ \A i \in DOMAIN queue : queue[i].fallback \/ (i = 1 /\ loop = Idle /\ ~observed)
       /\ loop.at # "idle" => loop.report.fallback \/ ~observed
  /\ ~node.fallback =>
       /\ \A i, j \in DOMAIN queue : i < j /\ queue[j].fallback => queue[i].fallback
       /\ loop.at # "idle" /\ ~loop.report.fallback =>
            \A i \in DOMAIN queue : ~queue[i].fallback
       /\ ~control.fallback =>
            /\ \A i \in DOMAIN queue : ~queue[i].fallback
            /\ loop.at \in {"accepted", "read"} => ~loop.report.fallback

\* No level that is reported, wanted or published is below the floor, and the
\* floor does not fall; what was published before the floor rose does not reach
\* the node, which is in the fallback that raised it.
FloorInv ==
  /\ control.clear = control.floor
  /\ ~control.known => control.floor = 0
  /\ control.desired >= control.floor /\ control.level >= control.floor
  /\ node.level >= control.floor
  /\ \A i \in DOMAIN queue : queue[i].level >= control.floor
  /\ loop.at # "idle" => loop.report.level >= control.floor
  /\ loop.at = "computed" => loop.level >= control.floor
  /\ loop.at = "published" => desired.level \in Level /\ desired.level >= control.floor
  /\ \/ desired.level = Nothing
     \/ desired.level >= control.floor
     \/ node.fallback /\ ~observed /\ loop.at # "published"

AloneInv ==
  alone =>
    /\ policy = PolicyAuto /\ web = Idle
    /\ loop.at = "read" => loop.policy = PolicyAuto
    /\ SeenInv
    /\ FloorInv

PowerInv == TypeOK /\ PlaceInv /\ NoticedInv /\ AloneInv

-----------------------------------------------------------------------------
(* Types *)

LEMMA Levels ==
  /\ Level \subseteq Nat /\ 0 \in Level /\ Ceiling \in Level
  /\ PolicyAuto \in Policy /\ \A wish \in Policy : wish # PolicyAuto => wish - 1 \in Level
  /\ Nothing \notin Level /\ Nothing \notin Policy
  /\ 0 \in 0 .. MaxFallbacks /\ 0 \in 0 .. TelemetryAttempts - 1
  /\ 0 \in 0 .. ReportsPerDecision /\ 1 \in 0 .. ReportsPerDecision
BY LevelAssumption, BoundsAssumption DEF Level, Policy, PolicyAuto, FixedPolicies, Fixed

LEMMA LevelsAreNatural == \A level \in Level : level \in Nat /\ level <= Ceiling
BY LevelAssumption DEF Level

LEMMA Bounds ==
  /\ ReportsPerDecision \in Nat /\ FallbackReports \in Nat /\ TelemetryAttempts \in Nat
  /\ ReportsPerDecision > 0 /\ FallbackReports > 0 /\ TelemetryAttempts > 0
  /\ MaxFallbacks \in Nat /\ MaxChanges \in Nat /\ QueueDepth \in Nat
BY BoundsAssumption

LEMMA NewNodeIsNode ==
  ASSUME NEW number \in 0 .. MaxFallbacks
  PROVE  NewNode(number) \in Node
BY Levels, BoundsAssumption DEF NewNode, Node

LEMMA NewControlIsControl == NewControl \in ControlState
BY Levels DEF NewControl, ControlState

\* What a report adds to the floor and to the number of reports.
LEMMA FloorIsLevel ==
  ASSUME NEW state \in ControlState, NEW report \in Report
  PROVE  FloorAfter(state, report) \in Level
BY LevelAssumption, BoundsAssumption DEF FloorAfter, Lower, ControlState, Report, Level

LEMMA ReportsAreBounded ==
  ASSUME NEW state \in ControlState, NEW report \in Report
  PROVE  Reports(state, report) \in 0 .. ReportsPerDecision
BY LevelAssumption, BoundsAssumption DEF Reports, Lower, ControlState, Report

LEMMA SteppedIsLevel ==
  ASSUME NEW level \in Level, NEW average, NEW wanted \in Level
  PROVE  Stepped(level, average, wanted) \in Level
BY LevelAssumption, BoundsAssumption DEF Stepped, Lower, Level

LEMMA NextLevelIsLevel ==
  ASSUME NEW state \in ControlState, NEW wish \in Policy, NEW report \in Report, NEW average
  PROVE  NextLevel(state, wish, report, average) \in Level
<1> DEFINE wanted == IF state.known /\ ~report.fallback THEN state.desired ELSE report.level
           step == Stepped(report.level, average, wanted)
<1>1. report.level \in Level /\ wanted \in Level
  BY DEF ControlState, Report
<1>2. step \in Level
  BY <1>1, SteppedIsLevel
<1> HIDE DEF step
<1>3. Higher(step, FloorAfter(state, report)) \in Level
  BY <1>2, FloorIsLevel DEF Higher
<1>4. Automatic(state, report, average, wanted) \in Level
  BY <1>1, <1>3 DEF Automatic, step
<1>5. QED
  BY <1>4, Levels DEF NextLevel

LEMMA ObservedIsControl ==
  ASSUME NEW state \in ControlState, NEW wish \in Policy, NEW report \in Report, NEW average
  PROVE  Observed(state, wish, report, average) \in ControlState
<1>1. Higher(state.clear, FloorAfter(state, report)) \in Level
  BY FloorIsLevel DEF Higher, ControlState
<1>2. QED
  BY <1>1, FloorIsLevel, ReportsAreBounded, NextLevelIsLevel DEF Observed, ControlState, Report

LEMMA ChangedIsControl ==
  ASSUME NEW state \in ControlState, NEW wish \in Policy
  PROVE  Changed(state, wish) \in ControlState
BY Levels DEF Changed, ControlState

\* A node after a report that was not acknowledged.
LEMMA UnacknowledgedIsNode ==
  ASSUME TypeOK, NEW limit \in Attempts, Failing(limit)
  PROVE  node' \in Node /\ (node'.fallback => node'.number > 0)
<1>1. CASE node.attempt + 1 < limit
  <2>1. limit <= TelemetryAttempts
    BY BoundsAssumption DEF Attempts
  <2>2. QED
    BY <1>1, <2>1, BoundsAssumption DEF Failing, Attempts, TypeOK, Node
<1>2. CASE ~(node.attempt + 1 < limit)
  <2>1. WithinBound /\ node' = Unacknowledged
    BY <1>2 DEF Failing
  <2>2. Lower(node.failures + 1, FallbackReports) \in 0 .. FallbackReports
    BY BoundsAssumption DEF Lower, TypeOK, Node
  <2> DEFINE failures == Lower(node.failures + 1, FallbackReports)
             failed == [node EXCEPT !.attempt = 0, !.failures = failures]
             back == [failed EXCEPT !.level = Ceiling, !.fallback = TRUE, !.number = @ + 1,
                                    !.noticed = ~observed /\ Settled]
  <2>3. node \in Node /\ (node.fallback => node.number > 0)
    BY DEF TypeOK
  <2>4. failed \in Node /\ failed.fallback = node.fallback /\ failed.number = node.number
    BY <2>2, <2>3, Levels DEF Node
  <2>5. node' = failed \/ node' = back
    BY <2>1 DEF Unacknowledged
  <2>6. CASE node' = failed
    BY <2>3, <2>4, <2>6
  <2>7. CASE node' = back
    <3>1. failed.number \in 0 .. MaxFallbacks /\ back.number = failed.number + 1
      BY <2>3, <2>4 DEF Node
    <3>2. back.number <= MaxFallbacks
      BY <2>1, <2>7 DEF WithinBound
    <3>3. back.number \in 0 .. MaxFallbacks /\ back.number > 0
      BY <3>1, <3>2, Bounds
    <3>4. (~observed /\ Settled) \in BOOLEAN
      OBVIOUS
    <3>5. QED
      BY <2>4, <2>7, <3>1, <3>3, <3>4, Levels DEF Node
  <2>8. QED
    BY <2>5, <2>6, <2>7
<1>3. QED
  BY <1>1, <1>2

LEMMA AcknowledgedIsNode ==
  ASSUME TypeOK, NEW target \in Level \cup {Nothing}
  PROVE  LET after == Acknowledged(target)
         IN  after \in Node /\ (after.fallback => after.number > 0)
<1> DEFINE answered == [node EXCEPT !.attempt = 0, !.failures = 0]
<1>1. /\ answered \in Node
      /\ answered.fallback = node.fallback /\ answered.number = node.number
      /\ node.fallback => node.number > 0
  <2>1. node \in Node /\ (node.fallback => node.number > 0)
    BY DEF TypeOK
  <2>2. 0 \in 0 .. FallbackReports /\ 0 \in 0 .. TelemetryAttempts - 1
    BY Bounds
  <2>3. QED
    BY <2>1, <2>2 DEF Node
<1>2. CASE target = Nothing
  BY <1>1, <1>2 DEF Acknowledged
<1>3. CASE target \in Level
  <2>1. Acknowledged(target) = [answered EXCEPT !.level = target, !.fallback = FALSE]
    BY <1>3, Levels DEF Acknowledged
  <2>2. QED
    BY <1>1, <1>3, <2>1 DEF Node
<1>4. QED
  BY <1>2, <1>3

LEMMA TargetIsLevel ==
  ASSUME TypeOK, NEW report
  PROVE  Target(report) \in Level \cup {Nothing}
BY DEF Target, TypeOK, Wanted

LEMMA ReportIsReport == TypeOK => ReportOf \in Report
BY DEF TypeOK, Node, Report, ReportOf

LEMMA LoopCases ==
  ASSUME NEW l \in Loop
  PROVE  /\ l.at = "idle" <=> l = Idle
         /\ l.at # "idle" => l.report \in Report
         /\ l.at = "read" => l.policy \in Policy
         /\ l.at \in {"computed", "published"} => l.level \in Level
         /\ l.at \in {"idle", "accepted", "read", "computed", "published"}
BY DEF Loop, Idle

\* The loop puts a report in the next place.
LEMMA LoopPlaces ==
  ASSUME NEW report \in Report, NEW wish \in Policy, NEW level \in Level
  PROVE  {Idle, [at |-> "accepted", report |-> report],
          [at |-> "read", report |-> report, policy |-> wish],
          [at |-> "computed", level |-> level, report |-> report],
          [at |-> "published", level |-> level, report |-> report]} \subseteq Loop
BY DEF Loop

LEMMA WebPlaces ==
  /\ {Idle, [at |-> "patched"], [at |-> "deleted"], [at |-> "forgotten"], [at |-> "withdrawn"]}
       \subseteq Web
  /\ \A level \in Level \cup {Nothing} : [at |-> "changed", level |-> level] \in Web
BY DEF Web, Idle

-----------------------------------------------------------------------------
(* Steps *)

\* What a report that was not acknowledged does to a node.
LEMMA FailingCases ==
  ASSUME TypeOK, NEW limit \in Attempts, Failing(limit)
  PROVE  \/ /\ node'.number = node.number /\ node'.level = node.level
            /\ node'.fallback = node.fallback /\ node'.noticed = node.noticed
         \/ /\ node'.number = node.number + 1 /\ node'.level = Ceiling /\ node'.fallback
            /\ node'.noticed <=> ~observed /\ Settled
            /\ node.level < Ceiling
<1>1. node \in Node /\ node.number \in Nat /\ node.level \in Nat
  <2>1. node \in Node
    BY DEF TypeOK
  <2>2. node.number \in 0 .. MaxFallbacks /\ node.level \in Level
    BY <2>1 DEF Node
  <2>3. QED
    BY <2>1, <2>2, LevelsAreNatural, Bounds
<1>2. CASE node.attempt + 1 < limit
  BY <1>1, <1>2 DEF Failing, Node
<1>3. CASE ~(node.attempt + 1 < limit)
  <2> DEFINE failures == Lower(node.failures + 1, FallbackReports)
             failed == [node EXCEPT !.attempt = 0, !.failures = failures]
             back == [failed EXCEPT !.level = Ceiling, !.fallback = TRUE, !.number = @ + 1,
                                    !.noticed = ~observed /\ Settled]
  <2>1. node' = failed \/ (node' = back /\ ~(node.level >= Ceiling))
    BY <1>3 DEF Failing, Unacknowledged
  <2>2. /\ failed.number = node.number /\ failed.level = node.level
        /\ failed.fallback = node.fallback /\ failed.noticed = node.noticed
    BY <1>1 DEF Node
  <2>3. /\ back.number = node.number + 1 /\ back.level = Ceiling /\ back.fallback
        /\ back.noticed <=> ~observed /\ Settled
    BY <1>1 DEF Node
  <2>4. QED
    <3>1. CASE node' = failed
      BY <2>2, <3>1
    <3>2. CASE node' = back /\ ~(node.level >= Ceiling)
      <4>1. node.level < Ceiling
        BY <1>1, <3>2, LevelAssumption
      <4>2. QED
        BY <2>3, <3>2, <4>1
    <3>3. QED
      BY <2>1, <3>1, <3>2
<1>4. QED
  BY <1>2, <1>3

LEMMA AcknowledgedCases ==
  ASSUME TypeOK, NEW target \in Level \cup {Nothing}, node' = Acknowledged(target)
  PROVE  /\ node'.number = node.number /\ node'.noticed = node.noticed
         /\ \/ target = Nothing /\ node'.level = node.level /\ node'.fallback = node.fallback
            \/ target \in Level /\ node'.level = target /\ ~node'.fallback
<1> DEFINE answered == [node EXCEPT !.attempt = 0, !.failures = 0]
<1>1. /\ answered.number = node.number /\ answered.level = node.level
      /\ answered.fallback = node.fallback /\ answered.noticed = node.noticed
  BY DEF TypeOK, Node
<1>2. CASE target = Nothing
  BY <1>1, <1>2 DEF Acknowledged
<1>3. CASE target # Nothing
  <2>1. node' = [answered EXCEPT !.level = target, !.fallback = FALSE]
    BY <1>3 DEF Acknowledged
  <2>2. QED
    BY <1>1, <1>3, <2>1 DEF TypeOK, Node
<1>4. QED
  BY <1>2, <1>3

\* A report is queued if there is room.
LEMMA QueueGrows ==
  ASSUME TypeOK, Heard, queue' = Append(queue, ReportOf)
  PROVE  /\ queue' \in Seq(Report) /\ Len(queue') <= QueueDepth
         /\ DOMAIN queue = 1 .. Len(queue) /\ DOMAIN queue' = 1 .. Len(queue) + 1
         /\ Len(queue) \in Nat
         /\ \A i \in DOMAIN queue : queue'[i] = queue[i]
         /\ queue'[Len(queue) + 1] = ReportOf
BY ReportIsReport, AppendProperties, Bounds DEF TypeOK, Heard

\* The first report is taken off.
LEMMA QueueShrinks ==
  ASSUME TypeOK, queue # << >>, queue' = Tail(queue)
  PROVE  /\ queue' \in Seq(Report) /\ Len(queue') <= QueueDepth
         /\ Head(queue) = queue[1] /\ 1 \in DOMAIN queue /\ queue[1] \in Report
         /\ \A i \in DOMAIN queue' : i + 1 \in DOMAIN queue /\ i \in Nat /\ i > 0 /\ queue'[i] = queue[i + 1]
BY HeadTailProperties, Bounds DEF TypeOK

\* The fields of the next place of the loop.
LEMMA PlaceFields ==
  ASSUME NEW report, NEW wish, NEW level
  PROVE  /\ LET l == [at |-> "accepted", report |-> report]
            IN  l.at = "accepted" /\ l.report = report
         /\ LET l == [at |-> "read", report |-> report, policy |-> wish]
            IN  l.at = "read" /\ l.report = report /\ l.policy = wish
         /\ LET l == [at |-> "computed", level |-> level, report |-> report]
            IN  l.at = "computed" /\ l.report = report /\ l.level = level
         /\ Idle.at = "idle"
BY DEF Idle

LEMMA NodeTypeStep ==
  ASSUME TypeOK, ReportLost \/ AcknowledgementLost \/ ReportAcknowledged
  PROVE  TypeOK'
<1>1. CASE ReportLost
  <2>1. node' \in Node /\ (node'.fallback => node'.number > 0)
    BY <1>1, UnacknowledgedIsNode DEF ReportLost
  <2>2. alone' \in BOOLEAN
    BY <1>1 DEF ReportLost, InTime, TypeOK
  <2>3. QED
    BY <1>1, <2>1, <2>2 DEF ReportLost, TypeOK, gateway
<1>2. CASE AcknowledgementLost
  <2>1. node' \in Node /\ (node'.fallback => node'.number > 0)
    BY <1>2, UnacknowledgedIsNode DEF AcknowledgementLost
  <2>2. alone' \in BOOLEAN
    BY <1>2 DEF AcknowledgementLost, InTime, TypeOK
  <2>3. queue' \in Seq(Report) /\ Len(queue') <= QueueDepth
    BY <1>2, QueueGrows DEF AcknowledgementLost
  <2>4. QED
    BY <1>2, <2>1, <2>2, <2>3 DEF AcknowledgementLost, TypeOK, gateway
<1>3. CASE ReportAcknowledged
  <2>1. node' \in Node /\ (node'.fallback => node'.number > 0)
    BY <1>3, TargetIsLevel, AcknowledgedIsNode DEF ReportAcknowledged
  <2>2. queue' \in Seq(Report) /\ Len(queue') <= QueueDepth
    BY <1>3, QueueGrows DEF ReportAcknowledged
  <2>3. QED
    BY <1>3, <2>1, <2>2 DEF ReportAcknowledged, TypeOK, gateway
<1>4. QED
  BY <1>1, <1>2, <1>3

LEMMA LoopTypeStep ==
  ASSUME TypeOK, MainLoop
  PROVE  TypeOK'
<1>1. CASE Accept
  <2>1. queue' \in Seq(Report) /\ Len(queue') <= QueueDepth /\ Head(queue) \in Report
    BY <1>1, QueueShrinks DEF Accept
  <2>2. loop' \in Loop
    BY <1>1, <2>1, LoopPlaces, Levels DEF Accept
  <2>3. QED
    BY <1>1, <2>1, <2>2 DEF Accept, TypeOK
<1>2. CASE ReadPolicy
  <2>1. loop.report \in Report /\ (policy # Nothing => policy \in Policy)
    BY <1>2, LoopCases DEF ReadPolicy, TypeOK
  <2>2. loop' \in Loop
    BY <1>2, <2>1, LoopPlaces, Levels DEF ReadPolicy
  <2>3. QED
    BY <1>2, <2>2 DEF ReadPolicy, TypeOK
<1>3. ASSUME NEW average \in {"strong", "weak", "fine"}, Observe(average)
      PROVE  TypeOK'
  <2>1. loop.report \in Report /\ loop.policy \in Policy
    BY <1>3, LoopCases DEF Observe, TypeOK
  <2>2. control' \in ControlState
    BY <1>3, <2>1, ObservedIsControl DEF Observe, TypeOK
  <2>3. loop' \in Loop
    <3>1. control'.desired \in Level
      BY <2>2 DEF ControlState
    <3>2. QED
      BY <1>3, <2>1, <3>1, LoopPlaces DEF Observe
  <2>4. QED
    BY <1>3, <2>2, <2>3 DEF Observe, TypeOK
<1>4. ASSUME NEW part, NEW at \in {"computed", "published"}, Publish(part, at)
      PROVE  TypeOK'
  <2>1. loop.report \in Report /\ loop.level \in Level
    BY <1>4, LoopCases DEF Publish, TypeOK
  <2>2. desired' \in Wanted /\ observed' \in BOOLEAN
    <3>1. loop.report.number \in Source /\ loop.report.fallback \in BOOLEAN
      BY <2>1, Bounds DEF Report, Source, User
    <3>2. [level |-> loop.level, source |-> loop.report.number] \in Wanted
      BY <2>1, <3>1 DEF Wanted
    <3>3. QED
      BY <1>4, <3>1, <3>2 DEF Publish, TypeOK
  <2>3. loop' \in Loop
    <3>1. at = "computed" => [loop EXCEPT !.at = "published"] \in Loop
      BY <1>4 DEF Publish, TypeOK, Loop, Idle
    <3>2. QED
      BY <1>4, <3>1, LoopPlaces, <2>1, Levels DEF Publish
  <2>4. QED
    BY <1>4, <2>2, <2>3 DEF Publish, TypeOK
<1>5. QED
  BY <1>1, <1>2, <1>3, <1>4 DEF MainLoop, PublishOne, PublishOther

LEMMA ChangeIsCounted ==
  ASSUME TypeOK, NEW leavesAlone, Change(leavesAlone)
  PROVE  changes' \in 0 .. MaxChanges /\ alone' = leavesAlone
BY Bounds DEF TypeOK, Change

LEMMA WebTypeStep ==
  ASSUME TypeOK, PlaceInv, WebServer \/ (\E wish \in Policy : PatchPolicy(wish)) \/ DeleteNode
  PROVE  TypeOK'
<1>1. ASSUME NEW wish \in Policy, PatchPolicy(wish)
      PROVE  TypeOK'
  BY <1>1, WebPlaces, ChangeIsCounted DEF PatchPolicy, TypeOK
<1>2. CASE ChangePolicy
  <2>1. policy \in Policy
    BY <1>2 DEF ChangePolicy, PlaceInv, TypeOK
  <2>2. control' \in ControlState
    BY <1>2, <2>1, ChangedIsControl DEF ChangePolicy, TypeOK
  <2>3. web' \in Web
    <3>1. control'.desired \in Level
      BY <2>2 DEF ControlState
    <3>2. QED
      BY <1>2, <3>1, WebPlaces DEF ChangePolicy
  <2>4. QED
    BY <1>2, <2>2, <2>3 DEF ChangePolicy, TypeOK
<1>3. CASE PublishPolicy
  <2>1. web.level \in Level \cup {Nothing}
    BY <1>3 DEF PublishPolicy, TypeOK, Web
  <2>2. User \in Source
    BY Bounds DEF User, Source
  <2>3. QED
    BY <1>3, <2>1, <2>2, WebPlaces DEF PublishPolicy, TypeOK, Wanted
<1>4. CASE DeleteNode
  BY <1>4, WebPlaces, ChangeIsCounted DEF DeleteNode, TypeOK
<1>5. CASE ForgetState
  BY <1>5, WebPlaces, NewControlIsControl DEF ForgetState, TypeOK
<1>6. CASE ForgetLevel
  BY <1>6, WebPlaces, Bounds DEF ForgetLevel, TypeOK, NoLevel, Wanted, Source, User
<1>7. CASE ForgetFallback
  BY <1>7, WebPlaces DEF ForgetFallback, TypeOK
<1>8. QED
  BY <1>1, <1>2, <1>3, <1>4, <1>5, <1>6, <1>7 DEF WebServer

LEMMA OtherTypeStep ==
  ASSUME TypeOK, Join \/ RestartNode \/ RestartGateway
  PROVE  TypeOK'
<1>1. node.number \in 0 .. MaxFallbacks /\ node.noticed \in BOOLEAN
  BY DEF TypeOK, Node
<1>2. NewNode(node.number) \in Node /\ ~NewNode(node.number).fallback
  BY <1>1, NewNodeIsNode DEF NewNode
<1>3. CASE Join
  BY <1>2, <1>3, Levels DEF Join, TypeOK, gateway
<1>4. CASE RestartNode
  <2>1. node' \in Node /\ ~node'.fallback
    BY <1>1, <1>2, <1>4 DEF RestartNode, Node
  <2>2. QED
    BY <1>4, <2>1, ChangeIsCounted DEF RestartNode, TypeOK, gateway
<1>5. CASE RestartGateway
  <2>1. << >> \in Seq(Report) /\ Len(<< >>) <= QueueDepth
    BY EmptySeq, Bounds
  <2>2. NoLevel \in Wanted
    BY Bounds DEF NoLevel, Wanted, Source, User
  <2>3. Idle \in Loop /\ Idle \in Web
    BY WebPlaces DEF Loop
  <2>4. QED
    BY <1>5, <2>1, <2>2, <2>3, ChangeIsCounted, NewControlIsControl DEF RestartGateway, TypeOK
<1>6. QED
  BY <1>3, <1>4, <1>5

LEMMA TypeStep == TypeOK /\ PlaceInv /\ [Next]_vars => TypeOK'
<1> SUFFICES ASSUME TypeOK, PlaceInv, [Next]_vars PROVE TypeOK'
  OBVIOUS
<1>1. CASE UNCHANGED vars
  BY <1>1 DEF vars, TypeOK
<1>2. CASE Next
  BY <1>2, NodeTypeStep, LoopTypeStep, WebTypeStep, OtherTypeStep DEF Next
<1>3. QED
  BY <1>1, <1>2

\* PlaceInv, by who moves.
LEMMA PlaceStep == TypeOK /\ PlaceInv /\ [Next]_vars => PlaceInv'
<1> SUFFICES ASSUME TypeOK, PlaceInv, [Next]_vars PROVE PlaceInv'
  OBVIOUS
<1> USE DEF PlaceInv
<1>1. CASE UNCHANGED vars
  BY <1>1 DEF vars
<1>2. CASE ReportLost
  BY <1>2, FailingCases DEF ReportLost, gateway
<1>3. ASSUME Heard, queue' = Append(queue, ReportOf), UNCHANGED <<loop, web, policy>>,
             node'.fallback => node'.level = Ceiling
      PROVE  PlaceInv'
  <2>1. ReportOf.fallback => ReportOf.level = Ceiling
    BY DEF ReportOf
  <2>2. \A i \in DOMAIN queue' : queue'[i].fallback => queue'[i].level = Ceiling
    <3>1. TAKE i \in DOMAIN queue'
    <3>2. CASE i \in DOMAIN queue
      BY <1>3, <3>2, QueueGrows
    <3>3. CASE i = Len(queue) + 1
      BY <1>3, <2>1, <3>3, QueueGrows
    <3>4. QED
      BY <1>3, <3>2, <3>3, QueueGrows
  <2>3. QED
    BY <1>3, <2>2
<1>4. CASE AcknowledgementLost
  BY <1>3, <1>4, FailingCases DEF AcknowledgementLost, gateway
<1>5. CASE ReportAcknowledged
  BY <1>3, <1>5, AcknowledgedCases, TargetIsLevel DEF ReportAcknowledged, gateway
<1>6. CASE Accept
  <2>1. \A i \in DOMAIN queue' : queue'[i].fallback => queue'[i].level = Ceiling
    BY <1>6, QueueShrinks DEF Accept
  <2>2. Head(queue).fallback => Head(queue).level = Ceiling
    BY <1>6, QueueShrinks DEF Accept
  <2>3. loop' = Idle \/ (loop'.at = "accepted" /\ loop'.report = Head(queue))
    BY <1>6 DEF Accept
  <2>4. QED
    BY <1>6, <2>1, <2>2, <2>3, PlaceFields DEF Accept
<1>7. ASSUME UNCHANGED <<node, policy, queue, web>>,
             loop'.at # "idle" => loop.at # "idle" /\ loop'.report = loop.report
      PROVE  PlaceInv'
  BY <1>7
<1>8. CASE ReadPolicy
  BY <1>7, <1>8, PlaceFields DEF ReadPolicy
<1>9. ASSUME NEW average \in {"strong", "weak", "fine"}, Observe(average)
      PROVE  PlaceInv'
  BY <1>7, <1>9, PlaceFields DEF Observe
<1>10. ASSUME NEW part, NEW at \in {"computed", "published"}, Publish(part, at)
       PROVE  PlaceInv'
  <2>1. loop'.at # "idle" => loop'.report = loop.report
    BY <1>10, PlaceFields DEF Publish, TypeOK, Loop, Idle
  <2>2. QED
    BY <1>7, <1>10, <2>1 DEF Publish
<1>11. CASE WebServer \/ (\E wish \in Policy : PatchPolicy(wish)) \/ DeleteNode
  <2>1. UNCHANGED <<node, queue, loop>>
    BY <1>11 DEF WebServer, PatchPolicy, DeleteNode, ChangePolicy, PublishPolicy, ForgetState,
                 ForgetLevel, ForgetFallback
  <2>2. web'.at = "patched" => policy' # Nothing
    <3>1. ASSUME NEW wish \in Policy, PatchPolicy(wish) PROVE policy' # Nothing
      BY <3>1, Levels DEF PatchPolicy
    <3>2. CASE WebServer \/ DeleteNode
      <4>1. CASE ChangePolicy
        BY <4>1 DEF ChangePolicy
      <4>2. CASE PublishPolicy \/ ForgetFallback
        BY <4>2, PlaceFields DEF PublishPolicy, ForgetFallback
      <4>3. CASE DeleteNode
        BY <4>3 DEF DeleteNode
      <4>4. CASE ForgetState
        BY <4>4 DEF ForgetState
      <4>5. CASE ForgetLevel
        BY <4>5 DEF ForgetLevel
      <4>6. QED
        BY <3>2, <4>1, <4>2, <4>3, <4>4, <4>5 DEF WebServer
    <3>3. QED
      BY <1>11, <3>1, <3>2
  <2>3. QED
    BY <2>1, <2>2
<1>12. CASE Join
  BY <1>12, Levels DEF Join, NewNode, gateway
<1>13. CASE RestartNode
  BY <1>13 DEF RestartNode, NewNode, gateway
<1>14. CASE RestartGateway
  BY <1>14, EmptySeq DEF RestartGateway, Idle
<1>15. QED
  BY <1>1, <1>2, <1>4, <1>5, <1>6, <1>8, <1>9, <1>10, <1>11, <1>12, <1>13, <1>14
  DEF Next, MainLoop, PublishOne, PublishOther

\* The two publications, by their stores.
LEMMA PublishCases ==
  /\ PublishOne =>
       /\ loop.at = "computed"
       /\ desired' = [level |-> loop.level, source |-> loop.report.number]
       /\ loop' = [loop EXCEPT !.at = "published"]
       /\ UNCHANGED <<node, policy, queue, control, observed, web, changes, alone>>
  /\ PublishOther =>
       /\ loop.at = "published"
       /\ observed' = loop.report.fallback
       /\ loop' = Idle
       /\ UNCHANGED <<node, policy, queue, control, desired, web, changes, alone>>
BY DEF PublishOne, PublishOther, Publish, First

LEMMA PublishedFields ==
  ASSUME TypeOK, loop.at = "computed", loop' = [loop EXCEPT !.at = "published"]
  PROVE  loop'.at = "published" /\ loop'.report = loop.report /\ loop'.level = loop.level
BY DEF TypeOK, Loop, Idle

LEMMA IdlePlaces ==
  /\ Idle.at = "idle"
  /\ TypeOK => (loop.at = "idle" <=> loop = Idle)
BY LoopCases DEF Idle, TypeOK

\* NoticedInv, by who moves.
LEMMA NoticedNodeStep ==
  ASSUME TypeOK, PlaceInv, NoticedInv, ReportLost \/ AcknowledgementLost \/ ReportAcknowledged
  PROVE  NoticedInv'
<1> SUFFICES ASSUME node'.fallback, node'.noticed
             PROVE  NoticedInv'
  BY DEF NoticedInv
<1> DEFINE Same == /\ node'.number = node.number /\ node'.fallback = node.fallback
                   /\ node'.noticed = node.noticed
           Back == ~node.fallback /\ ~observed /\ queue = << >> /\ loop = Idle
<1>1. Same \/ Back
  <2>1. ASSUME NEW limit \in Attempts, Failing(limit)
        PROVE  Same \/ Back
    <3>1. CASE node'.number = node.number + 1 /\ node.level < Ceiling /\ (node'.noticed <=> ~observed /\ Settled)
      <4>1. ~node.fallback
        BY <3>1, LevelAssumption DEF PlaceInv
      <4>2. QED
        BY <3>1, <4>1 DEF Settled
    <3>2. QED
      BY <2>1, <3>1, FailingCases
  <2>2. ReportAcknowledged => Same
    BY AcknowledgedCases, TargetIsLevel DEF ReportAcknowledged
  <2>3. QED
    BY <2>1, <2>2 DEF ReportLost, AcknowledgementLost
<1>2. UNCHANGED <<loop, observed, desired>>
  BY DEF ReportLost, AcknowledgementLost, ReportAcknowledged, gateway
<1>3. CASE UNCHANGED queue
  <2>1. CASE Same
    BY <1>2, <1>3, <2>1 DEF NoticedInv, Newer
  <2>2. CASE Back
    BY <1>2, <1>3, <2>2, IdlePlaces, EmptySeq DEF NoticedInv
  <2>3. QED
    BY <1>1, <2>1, <2>2
<1>4. CASE Heard /\ queue' = Append(queue, ReportOf)
  <2>1. CASE Same
    <3>1. \A i \in DOMAIN queue' :
            \/ queue'[i].number = node.number
            \/ i = 1 /\ loop = Idle /\ ~queue'[i].fallback /\ ~observed
      <4>1. ReportOf.number = node.number
        BY DEF ReportOf
      <4>2. TAKE i \in DOMAIN queue'
      <4>3. CASE i \in DOMAIN queue
        BY <1>4, <2>1, <4>3, QueueGrows DEF NoticedInv
      <4>4. CASE i = Len(queue) + 1
        BY <1>4, <4>1, <4>4, QueueGrows
      <4>5. QED
        BY <1>4, <4>3, <4>4, QueueGrows
    <3>2. QED
      BY <1>2, <2>1, <3>1 DEF NoticedInv, Newer
  <2>2. CASE Back
    <3>1. DOMAIN queue' = {1} /\ queue'[1] = ReportOf
      BY <1>4, <2>2, QueueGrows, EmptySeq
    <3>2. ~ReportOf.fallback
      BY <2>2 DEF ReportOf
    <3>3. QED
      BY <1>2, <2>2, <3>1, <3>2, IdlePlaces DEF NoticedInv
  <2>3. QED
    BY <1>1, <2>1, <2>2
<1>5. QED
  BY <1>3, <1>4 DEF ReportLost, AcknowledgementLost, ReportAcknowledged

LEMMA NoticedLoopStep ==
  ASSUME TypeOK, NoticedInv, MainLoop
  PROVE  NoticedInv'
<1> SUFFICES ASSUME node.fallback, node.noticed, UNCHANGED node
             PROVE  NoticedInv'
  BY DEF NoticedInv, MainLoop, Accept, ReadPolicy, Observe, PublishOne, PublishOther, Publish
<1>1. CASE Accept
  <2>1. \A i \in DOMAIN queue' : queue'[i].number = node.number
    BY <1>1, QueueShrinks DEF Accept, NoticedInv
  <2>2. Head(queue).number = node.number \/ (~Head(queue).fallback /\ ~observed)
    BY <1>1, QueueShrinks DEF Accept, NoticedInv
  <2>3. loop' = Idle \/ (loop'.at = "accepted" /\ loop'.report = Head(queue))
    BY <1>1 DEF Accept
  <2>4. QED
    BY <1>1, <2>1, <2>2, <2>3, IdlePlaces DEF Accept, NoticedInv, Newer
<1>2. ASSUME UNCHANGED <<queue, desired, observed>>, loop.at # "idle", loop'.at # "published",
             loop' = Idle \/ (loop'.at # "idle" /\ loop'.report = loop.report)
      PROVE  NoticedInv'
  BY <1>2, IdlePlaces DEF NoticedInv, Newer
<1>3. CASE ReadPolicy
  BY <1>2, <1>3, PlaceFields DEF ReadPolicy
<1>4. ASSUME NEW average \in {"strong", "weak", "fine"}, Observe(average)
      PROVE  NoticedInv'
  BY <1>2, <1>4, PlaceFields DEF Observe
<1>5. CASE PublishOne
  <2>1. loop'.at = "published" /\ loop'.report = loop.report
    BY <1>5, PublishCases, PublishedFields
  <2>2. desired'.source = loop.report.number
    BY <1>5, PublishCases
  <2>3. loop.report.number = node.number \/ (~loop.report.fallback /\ ~observed)
    BY <1>5, PublishCases DEF NoticedInv
  <2>4. \A i \in DOMAIN queue : queue[i].number = node.number
    BY <1>5, PublishCases, IdlePlaces DEF NoticedInv
  <2>5. QED
    BY <1>5, <2>1, <2>2, <2>3, <2>4, PublishCases DEF NoticedInv, Newer
<1>6. CASE PublishOther
  <2>1. \A i \in DOMAIN queue : queue[i].number = node.number
    BY <1>6, PublishCases, IdlePlaces DEF NoticedInv
  <2>2. observed' => Newer
    BY <1>6, PublishCases DEF NoticedInv
  <2>3. QED
    BY <1>6, <2>1, <2>2, PublishCases, IdlePlaces DEF NoticedInv, Newer
<1>7. QED
  BY <1>1, <1>3, <1>4, <1>5, <1>6 DEF MainLoop

LEMMA NoticedStep == TypeOK /\ PlaceInv /\ NoticedInv /\ [Next]_vars => NoticedInv'
<1> SUFFICES ASSUME TypeOK, PlaceInv, NoticedInv, [Next]_vars PROVE NoticedInv'
  OBVIOUS
<1>1. ASSUME UNCHANGED <<node, queue, loop>>,
             UNCHANGED observed \/ ~observed',
             UNCHANGED desired \/ desired'.level = Nothing \/ desired'.source = User
      PROVE  NoticedInv'
  BY <1>1 DEF NoticedInv, Newer
<1>2. CASE UNCHANGED vars
  BY <1>1, <1>2 DEF vars
<1>3. CASE ChangePolicy \/ ForgetState \/ DeleteNode \/ \E wish \in Policy : PatchPolicy(wish)
  BY <1>1, <1>3 DEF ChangePolicy, ForgetState, DeleteNode, PatchPolicy
<1>4. CASE PublishPolicy
  BY <1>1, <1>4 DEF PublishPolicy
<1>5. CASE ForgetLevel
  BY <1>1, <1>5 DEF ForgetLevel, NoLevel
<1>6. CASE ForgetFallback
  BY <1>1, <1>6 DEF ForgetFallback
<1>7. CASE Join \/ RestartNode
  <2>1. ~node'.fallback
    <3>1. CASE Join
      BY <3>1 DEF Join, NewNode
    <3>2. CASE RestartNode
      BY <3>2 DEF RestartNode, NewNode
    <3>3. QED
      BY <1>7, <3>1, <3>2
  <2>2. QED
    BY <2>1 DEF NoticedInv
<1>8. CASE RestartGateway
  BY <1>8, EmptySeq, IdlePlaces DEF RestartGateway, NoticedInv
<1>9. QED
  BY <1>2, <1>3, <1>4, <1>5, <1>6, <1>7, <1>8, NoticedNodeStep, NoticedLoopStep
  DEF Next, WebServer

LEMMA PowerInit == Init => TypeOK /\ PlaceInv /\ NoticedInv /\ AloneInv
<1> SUFFICES ASSUME Init PROVE TypeOK /\ PlaceInv /\ NoticedInv /\ AloneInv
  OBVIOUS
<1>1. NewNode(0) \in Node /\ NewControl \in ControlState
  BY NewNodeIsNode, NewControlIsControl, Bounds
<1>2. ~node.fallback /\ node.level = Ceiling /\ queue = << >>
  BY DEF Init, NewNode
<1>3. << >> \in Seq(Report) /\ Len(<< >>) <= QueueDepth
  BY EmptySeq, Bounds
<1>4. NoLevel \in Wanted
  BY Bounds DEF NoLevel, Wanted, Source, User
<1>5. Idle \in Loop /\ Idle \in Web
  BY WebPlaces DEF Loop
<1>6. TypeOK
  <2>1. {observed, alone} \subseteq BOOLEAN /\ changes \in 0 .. MaxChanges
    <3>1. observed \in BOOLEAN /\ alone \in BOOLEAN
      BY DEF Init
    <3>2. changes \in 0 .. MaxChanges
      BY Bounds DEF Init
    <3>3. QED
      BY <3>1, <3>2
  <2>2. node \in Node /\ control \in ControlState /\ queue \in Seq(Report)
          /\ Len(queue) <= QueueDepth
    BY <1>1, <1>3 DEF Init
  <2>3. desired \in Wanted /\ loop \in Loop /\ web \in Web /\ policy \in Policy
    BY <1>4, <1>5 DEF Init
  <2>4. QED
    BY <1>2, <2>1, <2>2, <2>3 DEF TypeOK
<1>7. PlaceInv /\ NoticedInv
  BY <1>2, IdlePlaces DEF Init, PlaceInv, NoticedInv
<1>8. SeenInv
  <2>1. observed = control.fallback /\ loop.at = "idle" /\ ~node.fallback /\ DOMAIN queue = {}
    <3>1. ~observed /\ ~control.fallback /\ loop.at = "idle"
      BY IdlePlaces DEF Init, NewControl
    <3>2. observed = control.fallback
      BY DEF Init, NewControl
    <3>3. QED
      BY <1>2, <3>1, <3>2
  <2>2. QED
    BY <2>1 DEF SeenInv
<1>9. FloorInv
  BY <1>2, IdlePlaces, LevelAssumption DEF Init, FloorInv, NewControl, NoLevel
<1>10. QED
  BY <1>6, <1>7, <1>8, <1>9, IdlePlaces DEF Init, AloneInv

\* Who stays alone was alone, and which steps leave it alone.
LEMMA AloneSteps ==
  ASSUME TypeOK, AloneInv, Next, alone'
  PROVE  /\ alone
         /\ ReportLost \/ AcknowledgementLost \/ ReportAcknowledged \/ MainLoop \/ RestartGateway
         /\ policy' = policy /\ web' = web
<1>1. alone
  BY DEF Next, ReportLost, AcknowledgementLost, ReportAcknowledged, InTime, MainLoop, Accept,
         ReadPolicy, Observe, PublishOne, PublishOther, Publish, WebServer, ChangePolicy,
         PublishPolicy, ForgetState, ForgetLevel, ForgetFallback, PatchPolicy, DeleteNode, Join,
         RestartNode, RestartGateway, Change
<1>2. policy = PolicyAuto /\ web = Idle /\ policy # Nothing
  BY <1>1, Levels DEF AloneInv
<1>3. ~WebServer
  BY <1>2, IdlePlaces DEF WebServer, ChangePolicy, PublishPolicy, ForgetState, ForgetLevel,
                          ForgetFallback
<1>4. ~RestartNode /\ ~DeleteNode /\ ~Join /\ ~\E wish \in Policy : PatchPolicy(wish)
  BY <1>2 DEF RestartNode, DeleteNode, Join, PatchPolicy, Change
<1>5. ReportLost \/ AcknowledgementLost \/ ReportAcknowledged \/ MainLoop \/ RestartGateway
  BY <1>3, <1>4 DEF Next
<1>6. QED
  BY <1>1, <1>2, <1>5 DEF ReportLost, AcknowledgementLost, ReportAcknowledged, MainLoop, Accept,
    ReadPolicy, Observe, PublishOne, PublishOther, Publish, RestartGateway, gateway

\* SeenInv, by who moves.
LEMMA SeenNodeStep ==
  ASSUME TypeOK, PlaceInv, SeenInv, alone', ReportLost \/ AcknowledgementLost \/ ReportAcknowledged
  PROVE  SeenInv'
<1> DEFINE Same == node'.fallback = node.fallback
           Back == /\ node'.fallback /\ ~node.fallback /\ queue = << >> /\ loop = Idle
                   /\ AcknowledgementLost => ~observed
           Sent == /\ node.fallback /\ ~node'.fallback /\ observed
                   /\ Heard /\ queue' = Append(queue, ReportOf)
<1>1. Same \/ Back \/ Sent
  <2>1. ASSUME NEW limit \in Attempts, Failing(limit), ReportLost \/ AcknowledgementLost
        PROVE  Same \/ Back
    <3>1. CASE node'.number = node.number + 1 /\ node'.fallback /\ node.level < Ceiling
               /\ (node'.noticed <=> ~observed /\ Settled)
      <4>1. ~node.fallback
        BY <3>1, LevelAssumption DEF PlaceInv
      <4>2. node.number \in Nat
        BY Bounds DEF TypeOK, Node
      <4>3. Settled /\ (AcknowledgementLost => ~observed)
        <5>1. node'.number # node.number
          BY <3>1, <4>2
        <5>2. ReportLost => Settled
          BY <5>1 DEF ReportLost, InTime
        <5>3. AcknowledgementLost => node'.noticed
          BY <5>1 DEF AcknowledgementLost, InTime
        <5>4. QED
          BY <2>1, <3>1, <5>2, <5>3
      <4>4. QED
        BY <3>1, <4>1, <4>3 DEF Settled
    <3>2. QED
      BY <2>1, <3>1, FailingCases
  <2>2. CASE ReportAcknowledged
    <3>1. Same \/ (Target(ReportOf) # Nothing /\ ~node'.fallback)
      BY <2>2, AcknowledgedCases, TargetIsLevel, Levels DEF ReportAcknowledged
    <3>2. Target(ReportOf) # Nothing /\ node.fallback => observed
      BY DEF Target, ReportOf
    <3>3. node.fallback \in BOOLEAN /\ node'.fallback \in BOOLEAN
      BY <2>2, NodeTypeStep DEF TypeOK, Node
    <3>4. QED
      BY <2>2, <3>1, <3>2, <3>3 DEF ReportAcknowledged
  <2>3. QED
    BY <2>1, <2>2 DEF ReportLost, AcknowledgementLost
<1>2. UNCHANGED <<loop, observed, control>>
  BY DEF ReportLost, AcknowledgementLost, ReportAcknowledged, gateway
<1>3. ReportOf.fallback = node.fallback
  BY DEF ReportOf
<1>4. CASE Same
  <2>1. CASE UNCHANGED queue
    BY <1>2, <1>4, <2>1 DEF SeenInv
  <2>2. CASE Heard /\ queue' = Append(queue, ReportOf)
    <3>1. node.fallback => \A i \in DOMAIN queue' :
             queue'[i].fallback \/ (i = 1 /\ loop = Idle /\ ~observed)
      <4>1. SUFFICES ASSUME node.fallback, NEW i \in DOMAIN queue'
                     PROVE  queue'[i].fallback \/ (i = 1 /\ loop = Idle /\ ~observed)
        OBVIOUS
      <4>2. CASE i \in DOMAIN queue
        BY <2>2, <4>1, <4>2, QueueGrows DEF SeenInv
      <4>3. CASE i = Len(queue) + 1
        BY <1>3, <2>2, <4>1, <4>3, QueueGrows
      <4>4. QED
        BY <2>2, <4>2, <4>3, QueueGrows
    <3>2. ~node.fallback =>
            /\ \A i, j \in DOMAIN queue' : i < j /\ queue'[j].fallback => queue'[i].fallback
            /\ (\A i \in DOMAIN queue : ~queue[i].fallback) =>
                  \A i \in DOMAIN queue' : ~queue'[i].fallback
      BY <1>3, <2>2, QueueGrows DEF SeenInv
    <3>3. QED
      BY <1>2, <1>4, <3>1, <3>2 DEF SeenInv
  <2>3. QED
    BY <2>1, <2>2 DEF ReportLost, AcknowledgementLost, ReportAcknowledged
<1>5. CASE Back
  <2>1. \A i \in DOMAIN queue' : i = 1 /\ loop = Idle /\ ~observed
    <3>1. CASE UNCHANGED queue
      BY <1>5, <3>1, EmptySeq
    <3>2. CASE AcknowledgementLost
      BY <1>5, <3>2, QueueGrows, EmptySeq DEF AcknowledgementLost
    <3>3. CASE ReportAcknowledged
      BY <1>5, <3>3, AcknowledgedCases, TargetIsLevel DEF ReportAcknowledged
    <3>4. QED
      BY <3>1, <3>2, <3>3 DEF ReportLost
  <2>2. QED
    BY <1>2, <1>5, <2>1, IdlePlaces DEF SeenInv
<1>6. CASE Sent
  <2>1. /\ \A i \in DOMAIN queue : queue[i].fallback
        /\ loop.at # "idle" => loop.report.fallback
    BY <1>6 DEF SeenInv
  <2>2. control.fallback
    BY <1>6, <2>1, LoopCases DEF SeenInv, TypeOK
  <2>3. ASSUME NEW i \in DOMAIN queue' PROVE queue'[i].fallback
    <3>1. CASE i \in DOMAIN queue
      BY <1>6, <2>1, <3>1, QueueGrows
    <3>2. CASE i = Len(queue) + 1
      BY <1>3, <1>6, <3>2, QueueGrows
    <3>3. QED
      BY <1>6, <3>1, <3>2, QueueGrows
  <2>4. QED
    BY <1>2, <1>6, <2>1, <2>2, <2>3 DEF SeenInv
<1>7. QED
  BY <1>1, <1>4, <1>5, <1>6

LEMMA SeenLoopStep ==
  ASSUME TypeOK, SeenInv, MainLoop
  PROVE  SeenInv'
<1>1. UNCHANGED node
  BY DEF MainLoop, Accept, ReadPolicy, Observe, PublishOne, PublishOther, Publish
<1>2. CASE Accept
  <2>1. /\ \A i \in DOMAIN queue' : i + 1 \in DOMAIN queue /\ i \in Nat /\ i > 0
                                   /\ queue'[i] = queue[i + 1]
        /\ Head(queue) = queue[1] /\ 1 \in DOMAIN queue
    BY <1>2, QueueShrinks DEF Accept
  <2>2. loop' = Idle \/ (loop'.at = "accepted" /\ loop'.report = queue[1])
    BY <1>2, <2>1 DEF Accept
  <2>3. node.fallback =>
          /\ \A i \in DOMAIN queue' : queue'[i].fallback
          /\ queue[1].fallback \/ ~observed
    BY <2>1 DEF SeenInv
  <2>4. ~node.fallback =>
          /\ \A i, j \in DOMAIN queue' : i < j /\ queue'[j].fallback => queue'[i].fallback
          /\ ~queue[1].fallback => \A i \in DOMAIN queue' : ~queue'[i].fallback
    BY <2>1 DEF SeenInv
  <2>5. ~node.fallback /\ ~control.fallback =>
          (\A i \in DOMAIN queue' : ~queue'[i].fallback) /\ ~queue[1].fallback
    BY <2>1 DEF SeenInv
  <2>6. observed = control.fallback /\ UNCHANGED <<observed, control>>
    BY <1>2 DEF Accept, SeenInv
  <2>7. QED
    BY <1>1, <2>2, <2>3, <2>4, <2>5, <2>6, IdlePlaces DEF SeenInv
<1>3. CASE ReadPolicy
  <2>1. UNCHANGED <<queue, observed, control>>
    BY <1>3 DEF ReadPolicy
  <2>2. loop.at = "accepted" /\ (loop' = Idle \/ (loop'.at = "read" /\ loop'.report = loop.report))
    BY <1>3, PlaceFields DEF ReadPolicy
  <2>3. QED
    BY <1>1, <2>1, <2>2, IdlePlaces DEF SeenInv
<1>4. ASSUME NEW average \in {"strong", "weak", "fine"}, Observe(average)
      PROVE  SeenInv'
  <2>1. UNCHANGED <<queue, observed>> /\ control'.fallback = loop.report.fallback
    BY <1>4 DEF Observe, Observed
  <2>2. loop.at = "read" /\ loop'.at = "computed" /\ loop'.report = loop.report
    BY <1>4, PlaceFields DEF Observe
  <2>3. QED
    BY <1>1, <2>1, <2>2, IdlePlaces DEF SeenInv
<1>5. CASE PublishOne
  <2>1. loop.at = "computed" /\ UNCHANGED <<queue, observed, control>>
    BY <1>5, PublishCases
  <2>2. loop'.at = "published" /\ loop'.report = loop.report
    BY <1>5, PublishCases, PublishedFields
  <2>3. QED
    BY <1>1, <2>1, <2>2, IdlePlaces DEF SeenInv
<1>6. CASE PublishOther
  <2>1. /\ loop.at = "published" /\ loop' = Idle /\ observed' = loop.report.fallback
        /\ UNCHANGED <<queue, control>>
    BY <1>6, PublishCases
  <2>2. QED
    BY <1>1, <2>1, IdlePlaces DEF SeenInv
<1>7. QED
  BY <1>2, <1>3, <1>4, <1>5, <1>6 DEF MainLoop

\* FloorInv, by who moves.
LEMMA FloorNodeStep ==
  ASSUME TypeOK, FloorInv, ReportLost \/ AcknowledgementLost \/ ReportAcknowledged
  PROVE  FloorInv'
<1>1. UNCHANGED <<loop, observed, control, desired>>
  BY DEF ReportLost, AcknowledgementLost, ReportAcknowledged, gateway
<1>2. control.floor \in Level /\ control.floor \in Nat /\ control.floor <= Ceiling
  BY LevelsAreNatural DEF TypeOK, ControlState
<1>3. /\ node'.level >= control.floor
      /\ \/ desired.level = Nothing
         \/ desired.level >= control.floor
         \/ node'.fallback /\ ~observed /\ loop.at # "published"
  <2>1. ASSUME NEW limit \in Attempts, Failing(limit)
        PROVE  /\ node'.level >= control.floor
               /\ node.fallback => node'.fallback
    <3>1. CASE node'.level = node.level /\ node'.fallback = node.fallback
      BY <3>1 DEF FloorInv
    <3>2. CASE node'.level = Ceiling /\ node'.fallback
      BY <1>2, <3>2, LevelAssumption
    <3>3. QED
      BY <2>1, <3>1, <3>2, FailingCases
  <2>2. CASE ReportAcknowledged
    <3>1. CASE node'.level = node.level /\ node'.fallback = node.fallback
      BY <3>1 DEF FloorInv
    <3>2. CASE Target(ReportOf) \in Level /\ node'.level = Target(ReportOf)
      <4>1. ~(node.fallback /\ ~observed) /\ node'.level = desired.level
        BY <3>2, Levels DEF Target, ReportOf
      <4>2. desired.level >= control.floor
        BY <3>2, <4>1, Levels DEF FloorInv
      <4>3. QED
        BY <4>1, <4>2
    <3>3. QED
      BY <2>2, <3>1, <3>2, AcknowledgedCases, TargetIsLevel DEF ReportAcknowledged
  <2>3. QED
    BY <2>1, <2>2 DEF ReportLost, AcknowledgementLost, FloorInv
<1>4. ASSUME NEW i \in DOMAIN queue' PROVE queue'[i].level >= control.floor
  <2>1. CASE UNCHANGED queue
    BY <1>4, <2>1 DEF FloorInv
  <2>2. CASE Heard /\ queue' = Append(queue, ReportOf)
    <3>1. CASE i \in DOMAIN queue
      BY <2>2, <3>1, QueueGrows DEF FloorInv
    <3>2. CASE i = Len(queue) + 1
      BY <2>2, <3>2, QueueGrows DEF FloorInv, ReportOf
    <3>3. QED
      BY <1>4, <2>2, <3>1, <3>2, QueueGrows
  <2>3. QED
    BY <2>1, <2>2 DEF ReportLost, AcknowledgementLost, ReportAcknowledged
<1>5. QED
  BY <1>1, <1>3, <1>4 DEF FloorInv

\* The next level is not below the floor.
LEMMA NextLevelClears ==
  ASSUME NEW state \in ControlState, NEW report \in Report, NEW average,
         state.desired >= state.floor, ~state.known => state.floor = 0,
         report.fallback => report.level = Ceiling
  PROVE  NextLevel(state, PolicyAuto, report, average) >= FloorAfter(state, report)
<1> DEFINE wanted == IF state.known /\ ~report.fallback THEN state.desired ELSE report.level
           step == Stepped(report.level, average, wanted)
           floor == FloorAfter(state, report)
<1>1. report.level \in Level /\ wanted \in Level
  BY DEF ControlState, Report
<1>2. step \in Level /\ floor \in Level
  BY <1>1, SteppedIsLevel, FloorIsLevel
<1>3. step \in Nat /\ floor \in Nat /\ floor <= Ceiling /\ report.level \in Nat /\ Ceiling \in Nat
  BY <1>1, <1>2, LevelsAreNatural, LevelAssumption
<1>4. wanted >= floor
  <2>1. CASE report.fallback
    BY <1>3, <2>1
  <2>2. CASE ~report.fallback
    <3>1. floor = state.floor
      BY <2>2 DEF FloorAfter
    <3>2. QED
      BY <1>3, <2>2, <3>1
  <2>3. QED
    BY <2>1, <2>2
<1> HIDE DEF step, floor
<1>5. Higher(step, floor) >= floor
  BY <1>3 DEF Higher
<1>6. Automatic(state, report, average, wanted) >= floor
  BY <1>4, <1>5 DEF Automatic, step, floor
<1>7. QED
  BY <1>6 DEF NextLevel, floor

\* The floor rises or stays, if the level before was not below it.
LEMMA FloorRises ==
  ASSUME NEW state \in ControlState, NEW report \in Report, state.level >= state.floor
  PROVE  /\ FloorAfter(state, report) >= state.floor
         /\ Higher(state.floor, FloorAfter(state, report)) = FloorAfter(state, report)
<1>1. /\ state.level \in Nat /\ state.floor \in Nat /\ state.floor <= Ceiling
      /\ FallbackMargin \in Nat /\ Ceiling \in Nat
  BY LevelsAreNatural, LevelAssumption, BoundsAssumption DEF ControlState
<1>2. FloorAfter(state, report) \in Nat
  BY FloorIsLevel, LevelsAreNatural
<1>3. FloorAfter(state, report) >= state.floor
  BY <1>1 DEF FloorAfter, Lower
<1>4. QED
  BY <1>1, <1>2, <1>3 DEF Higher

LEMMA FloorObserveStep ==
  ASSUME TypeOK, PlaceInv, SeenInv, FloorInv, loop.policy = PolicyAuto,
         NEW average \in {"strong", "weak", "fine"}, Observe(average)
  PROVE  FloorInv'
<1> DEFINE report == loop.report
           floor == FloorAfter(control, report)
<1>1. /\ loop.at = "read" /\ control' = Observed(control, PolicyAuto, report, average)
      /\ loop'.at = "computed" /\ loop'.report = report /\ loop'.level = control'.desired
      /\ UNCHANGED <<node, queue, desired, observed>>
  BY PlaceFields DEF Observe
<1>2. report \in Report /\ control \in ControlState
  BY <1>1, LoopCases DEF TypeOK
<1>3. /\ control'.floor = floor /\ control'.known /\ control'.level = report.level
      /\ control'.clear = Higher(control.floor, floor)
      /\ control'.desired = NextLevel(control, PolicyAuto, report, average)
  BY <1>1 DEF Observed, FloorInv
<1>4. /\ floor \in Nat /\ floor <= Ceiling /\ Ceiling \in Nat
      /\ floor >= control.floor /\ control'.clear = control'.floor
  BY <1>2, <1>3, FloorIsLevel, FloorRises, LevelsAreNatural, LevelAssumption DEF FloorInv
<1>5. control'.desired >= floor
  BY <1>1, <1>2, <1>3, NextLevelClears DEF FloorInv, PlaceInv
<1>6. CASE floor = control.floor
  BY <1>1, <1>3, <1>4, <1>5, <1>6 DEF FloorInv
<1>7. CASE report.fallback /\ control.known /\ ~control.fallback
  <2>1. node.fallback /\ ~observed
    BY <1>1, <1>7 DEF SeenInv
  <2>2. \A i \in DOMAIN queue : queue[i].fallback
    BY <1>1, <2>1, IdlePlaces DEF SeenInv
  <2>3. /\ node.level = Ceiling /\ report.level = Ceiling
        /\ \A i \in DOMAIN queue : queue[i].level = Ceiling
    BY <1>1, <1>7, <2>1, <2>2 DEF PlaceInv
  <2>4. QED
    BY <1>1, <1>3, <1>4, <1>5, <2>1, <2>3 DEF FloorInv
<1>8. QED
  BY <1>6, <1>7 DEF FloorAfter

LEMMA FloorLoopStep ==
  ASSUME TypeOK, PlaceInv, SeenInv, FloorInv, loop.at = "read" => loop.policy = PolicyAuto, MainLoop
  PROVE  FloorInv'
<1>1. CASE Accept
  <2>1. /\ \A i \in DOMAIN queue' : i + 1 \in DOMAIN queue /\ queue'[i] = queue[i + 1]
        /\ Head(queue) = queue[1] /\ 1 \in DOMAIN queue
    BY <1>1, QueueShrinks DEF Accept
  <2>2. loop' = Idle \/ (loop'.at = "accepted" /\ loop'.report = queue[1])
    BY <1>1, <2>1 DEF Accept
  <2>3. /\ \A i \in DOMAIN queue' : queue'[i].level >= control.floor
        /\ queue[1].level >= control.floor
    BY <2>1 DEF FloorInv
  <2>4. loop.at = "idle" /\ UNCHANGED <<node, control, desired, observed>>
    BY <1>1 DEF Accept
  <2>5. QED
    BY <2>2, <2>3, <2>4, IdlePlaces DEF FloorInv
<1>2. CASE ReadPolicy
  <2>1. UNCHANGED <<node, queue, observed, control, desired>>
    BY <1>2 DEF ReadPolicy
  <2>2. loop.at = "accepted" /\ (loop' = Idle \/ (loop'.at = "read" /\ loop'.report = loop.report))
    BY <1>2, PlaceFields DEF ReadPolicy
  <2>3. QED
    BY <2>1, <2>2, IdlePlaces DEF FloorInv
<1>3. ASSUME NEW average \in {"strong", "weak", "fine"}, Observe(average)
      PROVE  FloorInv'
  BY <1>3, FloorObserveStep DEF Observe
<1>4. CASE PublishOne
  <2>1. /\ loop.at = "computed" /\ UNCHANGED <<node, queue, observed, control>>
        /\ desired' = [level |-> loop.level, source |-> loop.report.number]
    BY <1>4, PublishCases
  <2>2. loop'.at = "published" /\ loop'.report = loop.report
    BY <1>4, PublishCases, PublishedFields
  <2>3. desired'.level = loop.level /\ loop.level \in Level
    BY <2>1, LoopCases DEF TypeOK
  <2>4. QED
    BY <2>1, <2>2, <2>3 DEF FloorInv
<1>5. CASE PublishOther
  <2>1. loop.at = "published" /\ loop' = Idle /\ UNCHANGED <<node, queue, control, desired>>
    BY <1>5, PublishCases
  <2>2. QED
    BY <2>1, IdlePlaces DEF FloorInv
<1>6. QED
  BY <1>1, <1>2, <1>3, <1>4, <1>5 DEF MainLoop

LEMMA AloneStep ==
  TypeOK /\ PlaceInv /\ AloneInv /\ [Next]_vars => AloneInv'
<1> SUFFICES ASSUME TypeOK, PlaceInv, AloneInv, [Next]_vars, alone' PROVE AloneInv'
  BY DEF AloneInv
<1>1. CASE UNCHANGED vars
  BY <1>1 DEF vars, AloneInv, SeenInv, FloorInv
<1>2. CASE Next
  <2>1. /\ alone /\ policy' = policy /\ web' = web
        /\ ReportLost \/ AcknowledgementLost \/ ReportAcknowledged \/ MainLoop \/ RestartGateway
    BY <1>2, AloneSteps
  <2>2. /\ policy = PolicyAuto /\ web = Idle /\ SeenInv /\ FloorInv
        /\ loop.at = "read" => loop.policy = PolicyAuto
    BY <2>1 DEF AloneInv
  <2>3. CASE ReportLost \/ AcknowledgementLost \/ ReportAcknowledged
    <3>1. UNCHANGED loop
      BY <2>3 DEF ReportLost, AcknowledgementLost, ReportAcknowledged, gateway
    <3>2. QED
      BY <2>1, <2>2, <2>3, <3>1, SeenNodeStep, FloorNodeStep DEF AloneInv
  <2>4. CASE MainLoop
    <3>1. loop'.at = "read" => loop'.policy = PolicyAuto
      <4>1. CASE Accept
        BY <4>1, IdlePlaces, PlaceFields DEF Accept
      <4>2. CASE ReadPolicy
        BY <2>2, <4>2, IdlePlaces, PlaceFields DEF ReadPolicy
      <4>3. ASSUME NEW average \in {"strong", "weak", "fine"}, Observe(average)
            PROVE  loop'.at # "read"
        BY <4>3, PlaceFields DEF Observe
      <4>4. CASE PublishOne
        BY <4>4, PublishCases, PublishedFields
      <4>5. CASE PublishOther
        BY <4>5, PublishCases, IdlePlaces
      <4>6. QED
        BY <2>4, <4>1, <4>2, <4>3, <4>4, <4>5 DEF MainLoop
    <3>2. QED
      BY <2>1, <2>2, <2>4, <3>1, SeenLoopStep, FloorLoopStep DEF AloneInv
  <2>5. CASE RestartGateway
    <3>1. /\ queue' = << >> /\ loop' = Idle /\ ~observed' /\ control' = NewControl
          /\ desired' = NoLevel /\ UNCHANGED node
      BY <2>5 DEF RestartGateway
    <3>2. SeenInv'
      <4>1. ~control'.fallback /\ loop'.at = "idle" /\ DOMAIN queue' = {}
        BY <3>1, IdlePlaces DEF NewControl
      <4>2. control'.fallback \in BOOLEAN /\ observed' \in BOOLEAN
        BY <2>5, OtherTypeStep DEF TypeOK, ControlState
      <4>3. observed' = control'.fallback
        BY <3>1, <4>1, <4>2
      <4>4. QED
        BY <4>1, <4>3 DEF SeenInv
    <3>3. FloorInv'
      <4>1. node.level \in Nat
        BY LevelsAreNatural DEF TypeOK, Node
      <4>2. QED
        BY <3>1, <4>1, IdlePlaces DEF FloorInv, NewControl, NoLevel
    <3>4. QED
      BY <2>1, <2>2, <3>1, <3>2, <3>3, IdlePlaces DEF AloneInv
  <2>6. QED
    BY <2>1, <2>3, <2>4, <2>5
<1>3. QED
  BY <1>1, <1>2

-----------------------------------------------------------------------------
(* Theorems *)

\* The invariant holds in every reachable state of the three tasks and the node.
THEOREM PowerInvariance == Spec => []PowerInv
<1>1. Init => PowerInv
  BY PowerInit DEF PowerInv
<1>2. PowerInv /\ [Next]_vars => PowerInv'
  BY TypeStep, PlaceStep, NoticedStep, AloneStep DEF PowerInv
<1>3. QED
  BY <1>1, <1>2, PTL DEF Spec

\* Levels stay within the ceiling and the queue within its depth, whatever the
\* controller computes from a report, a policy or a fallback (RadioPowerControl.h).
THEOREM PowerTypeOK == Spec => []TypeOK
<1>1. PowerInv => TypeOK
  BY DEF PowerInv
<1>2. QED
  BY <1>1, PowerInvariance, PTL

\* A node in a fallback that the gateway could notice gets no target that was
\* computed before the gateway saw this fallback (PowerControlService.cpp,
\* fallbackObserved).
THEOREM TargetsKnowFallback == Spec => []TargetKnowsFallback
<1>1. PowerInv => TargetKnowsFallback
  <2> SUFFICES ASSUME PowerInv, node.fallback, node.noticed, Target(ReportOf) # Nothing
               PROVE  desired.source \in {node.number, User}
    BY DEF TargetKnowsFallback
  <2>1. observed /\ desired.level # Nothing
    BY DEF Target, ReportOf
  <2>2. QED
    BY <2>1 DEF PowerInv, NoticedInv, Newer
<1>2. QED
  BY <1>1, PowerInvariance, PTL

\* Automatic control alone never decides on a level below the highest floor so
\* far (RadioPowerControl.h, observe and kFallbackMargin).
THEOREM AutomaticControlStaysClear == Spec => []AutomaticStaysClear
<1>1. PowerInv => AutomaticStaysClear
  BY DEF PowerInv, AloneInv, FloorInv, AutomaticStaysClear
<1>2. QED
  BY <1>1, PowerInvariance, PTL

=============================================================================
