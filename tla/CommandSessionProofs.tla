-------------------------- MODULE CommandSessionProofs --------------------------
(***************************************************************************)
(* Every behaviour of CommandSession is well typed, no node applies a      *)
(* command twice between two commissionings, and every result the gateway  *)
(* records is true.  The inductive invariants are SessionInvariant's IInv  *)
(* and TruthInv.                                                           *)
(***************************************************************************)
EXTENDS SessionInvariant, CommandGatewayProofs

\* uint32_t addition stays within a counter.
LEMMA NextCountIsCount ==
  ASSUME NEW x \in Count
  PROVE  (x + 1) % CountLimit \in Count
BY CountLimitAssumption

-----------------------------------------------------------------------------
(* The node's own steps *)

LEMMA NodeInitIsTyped == NodeInit => NodeTypeOK /\ PlaceOK
BY CountLimitAssumption, SessionAttemptsAssumption, ResultSendsAssumption
   DEF NodeInit, NodeTypeOK, PlaceOK, Unconfigured, NetworkConfig, EmptyJournal, Places,
       NoSession, InSession, IsActive, NoNode, NoCommandId

LEMMA PulseIsTyped ==
  ASSUME NodeTypeOK, PlaceOK, NEW d \in Device, Pulse(d)
  PROVE  NodeTypeOK' /\ PlaceOK'
<1>1. NodeTypeOK'
  BY NextCountIsCount DEF NodeTypeOK, Pulse
<1>2. PlaceOK'
  BY DEF PlaceOK, Pulse, InSession, IsActive
<1>3. QED
  BY <1>1, <1>2

LEMMA StartSessionIsTyped ==
  ASSUME NodeTypeOK, PlaceOK, NEW d \in Device, NEW nonce \in Nonce, StartSession(d, nonce)
  PROVE  NodeTypeOK' /\ PlaceOK'
<1>1. NodeTypeOK'
  BY SessionAttemptsAssumption, ResultSendsAssumption
     DEF NodeTypeOK, StartSession, Goto, Places
<1>2. PlaceOK'
  BY SessionAttemptsAssumption, NonceAssumption
     DEF NodeTypeOK, PlaceOK, StartSession, Goto, At, InSession, IsActive
<1>3. QED
  BY <1>1, <1>2

LEMMA SendReadyIsTyped ==
  ASSUME NodeTypeOK, PlaceOK, NEW d \in Device, SendReady(d)
  PROVE  NodeTypeOK' /\ PlaceOK'
<1>1. session[d].left > 0
  BY DEF PlaceOK, SendReady, At
<1>2. NodeTypeOK'
  BY <1>1, SessionAttemptsAssumption, ResultSendsAssumption
     DEF NodeTypeOK, SendReady, Goto, Places
<1>3. PlaceOK'
  BY DEF NodeTypeOK, PlaceOK, SendReady, Goto, At, InSession, IsActive
<1>4. QED
  BY <1>2, <1>3

LEMMA AttemptOverIsTyped ==
  ASSUME NodeTypeOK, PlaceOK, NEW d \in Device, AttemptOver(d)
  PROVE  NodeTypeOK' /\ PlaceOK'
<1>1. NodeTypeOK'
  <2>1. CASE session[d].left = 0
    <3>1. EndSession(d)
      BY <2>1 DEF AttemptOver
    <3>2. QED
      BY <3>1, SessionAttemptsAssumption, ResultSendsAssumption
         DEF NodeTypeOK, AttemptOver, EndSession, NoSession, Goto, Places
  <2>2. CASE session[d].left # 0
    BY <2>2 DEF NodeTypeOK, AttemptOver, Goto, Places
  <2>3. QED
    BY <2>1, <2>2
<1>2. PlaceOK'
  BY SessionAttemptsAssumption, ResultSendsAssumption
     DEF NodeTypeOK, PlaceOK, AttemptOver, EndSession, NoSession, Goto, At, InSession, IsActive
<1>3. QED
  BY <1>1, <1>2

LEMMA HearNoCommandIsTyped ==
  ASSUME NodeTypeOK, PlaceOK, NEW d \in Device, HearNoCommand(d)
  PROVE  NodeTypeOK' /\ PlaceOK'
<1>1. NodeTypeOK'
  BY SessionAttemptsAssumption, ResultSendsAssumption
     DEF NodeTypeOK, HearNoCommand, EndSession, NoSession, Goto, Places
<1>2. PlaceOK'
  BY DEF NodeTypeOK, PlaceOK, HearNoCommand, EndSession, NoSession, Goto, At, InSession, IsActive
<1>3. QED
  BY <1>1, <1>2

LEMMA HearRedeliveryIsTyped ==
  ASSUME NodeTypeOK, PlaceOK, NEW d \in Device, NEW id \in CommandId, HearRedelivery(d, id)
  PROVE  NodeTypeOK' /\ PlaceOK'
<1>1. NodeTypeOK'
  BY SessionAttemptsAssumption, ResultSendsAssumption
     DEF NodeTypeOK, HearRedelivery, Goto, Places
<1>2. PlaceOK'
  BY ResultSendsAssumption
     DEF NodeTypeOK, PlaceOK, HearRedelivery, IsRedelivery, Goto, At, InSession, IsActive
<1>3. QED
  BY <1>1, <1>2

LEMMA HearCommandIsTyped ==
  ASSUME NodeTypeOK, PlaceOK, NEW d \in Device, NEW id \in CommandId, NEW value \in Count,
         HearCommand(d, id, value)
  PROVE  NodeTypeOK' /\ PlaceOK'
<1>1. NodeTypeOK'
  BY DEF NodeTypeOK, HearCommand, RecordJournal, Effect, Goto, Places
<1>2. PlaceOK'
  BY DEF NodeTypeOK, PlaceOK, HearCommand, Goto, At, InSession, IsActive
<1>3. QED
  BY <1>1, <1>2

LEMMA SaveCountIsTyped ==
  ASSUME NodeTypeOK, PlaceOK, NEW d \in Device, SaveCount(d)
  PROVE  NodeTypeOK' /\ PlaceOK'
<1>1. journal[d].new \in Count
  BY CountLimitAssumption DEF NodeTypeOK, RecordJournal, EmptyJournal
<1>2. NodeTypeOK'
  BY <1>1 DEF NodeTypeOK, SaveCount, Goto, Places
<1>3. PlaceOK'
  BY DEF NodeTypeOK, PlaceOK, SaveCount, Goto, At, InSession, IsActive
<1>4. QED
  BY <1>2, <1>3

LEMMA SaveAppliedIsTyped ==
  ASSUME NodeTypeOK, PlaceOK, NEW d \in Device, SaveApplied(d)
  PROVE  NodeTypeOK' /\ PlaceOK'
<1>1. journal[d] \in RecordJournal /\ journal[d].commandId \in CommandId
  BY DEF NodeTypeOK, PlaceOK, SaveApplied, At, EmptyJournal
<1>2. NodeTypeOK'
  <2>1. [journal[d] EXCEPT !.status = "Applied"] \in RecordJournal
    BY <1>1 DEF RecordJournal
  <2>2. journal' \in [Device -> RecordJournal \cup {EmptyJournal}]
    BY <2>1 DEF NodeTypeOK, SaveApplied
  <2>3. [session[d] EXCEPT !.left = ResultSends]
          \in [nonce : Nonce \cup {NoNonce}, left : 0 .. SessionAttempts + ResultSends]
    BY SessionAttemptsAssumption, ResultSendsAssumption DEF NodeTypeOK
  <2>4. NoSession \in [nonce : Nonce \cup {NoNonce}, left : 0 .. SessionAttempts + ResultSends]
    BY SessionAttemptsAssumption, ResultSendsAssumption DEF NoSession
  <2>5. session' = [session EXCEPT ![d] = [session[d] EXCEPT !.left = ResultSends]]
          \/ session' = [session EXCEPT ![d] = NoSession]
    BY DEF NodeTypeOK, SaveApplied, EndSession
  <2>6. session' \in [Device -> [nonce : Nonce \cup {NoNonce},
                                 left : 0 .. SessionAttempts + ResultSends]]
    BY <2>3, <2>4, <2>5 DEF NodeTypeOK
  <2>7. pc' \in [Device -> Places]
    BY DEF NodeTypeOK, SaveApplied, EndSession, Goto, Places
  <2>8. QED
    BY <2>2, <2>6, <2>7 DEF NodeTypeOK, SaveApplied
<1>3. PlaceOK'
  BY <1>1, ResultSendsAssumption
     DEF NodeTypeOK, PlaceOK, SaveApplied, EndSession, NoSession, RecordJournal, Goto, At,
         InSession, IsActive
<1>4. QED
  BY <1>2, <1>3

LEMMA SendResultIsTyped ==
  ASSUME NodeTypeOK, PlaceOK, NEW d \in Device, NEW acknowledged, SendResult(d, acknowledged)
  PROVE  NodeTypeOK' /\ PlaceOK'
<1>1. session[d].left > 0
  BY DEF PlaceOK, SendResult, At
<1>2. NodeTypeOK'
  BY <1>1, SessionAttemptsAssumption, ResultSendsAssumption
     DEF NodeTypeOK, SendResult, EndSession, NoSession, Goto, Places
<1>3. PlaceOK'
  BY <1>1 DEF NodeTypeOK, PlaceOK, SendResult, EndSession, NoSession, Goto, At, InSession, IsActive
<1>4. QED
  BY <1>2, <1>3

LEMMA RebootIsTyped ==
  ASSUME NodeTypeOK, PlaceOK, NEW d \in Device, resets' \in Nat,
         ResetNode(d) \/ ResetNetwork(d)
  PROVE  NodeTypeOK' /\ PlaceOK'
<1>1. NodeTypeOK'
  <2>1. config' \in [Device -> NetworkConfig]
    BY DEF NodeTypeOK, ResetNode, ResetNetwork, Unconfigured, NetworkConfig
  <2>2. NoSession \in [nonce : Nonce \cup {NoNonce}, left : 0 .. SessionAttempts + ResultSends]
    BY SessionAttemptsAssumption, ResultSendsAssumption DEF NoSession
  <2>3. session' \in [Device -> [nonce : Nonce \cup {NoNonce},
                                 left : 0 .. SessionAttempts + ResultSends]]
    BY <2>2 DEF NodeTypeOK, ResetNode, ResetNetwork, Reboot
  <2>4. pc' \in [Device -> Places]
    BY DEF NodeTypeOK, ResetNode, ResetNetwork, Reboot, Goto, Places
  <2>5. QED
    BY <2>1, <2>3, <2>4 DEF NodeTypeOK, ResetNode, ResetNetwork
<1>2. PlaceOK'
  BY DEF NodeTypeOK, PlaceOK, ResetNode, ResetNetwork, Reboot, NoSession, Unconfigured,
         Goto, At, InSession, IsActive
<1>3. QED
  BY <1>1, <1>2

LEMMA ProvisionIsTyped ==
  ASSUME NodeTypeOK, PlaceOK, NEW d \in Device, NEW n \in NodeId, Provision(d, n)
  PROVE  NodeTypeOK' /\ PlaceOK'
<1>1. NodeTypeOK'
  BY DEF NodeTypeOK, Provision, NetworkConfig
<1>2. PlaceOK'
  BY DEF NodeTypeOK, PlaceOK, Provision, Unconfigured, At, InSession, IsActive
<1>3. QED
  BY <1>1, <1>2

LEMMA ActivateIsTyped ==
  ASSUME NodeTypeOK, PlaceOK, NEW d \in Device, Activate(d)
  PROVE  NodeTypeOK' /\ PlaceOK'
<1>1. NodeTypeOK'
  BY DEF NodeTypeOK, Activate, NetworkConfig, Goto, Places
<1>2. PlaceOK'
  BY DEF NodeTypeOK, PlaceOK, Activate, NetworkConfig, Goto, At, InSession, IsActive
<1>3. QED
  BY <1>1, <1>2

LEMMA ForgetCommandIdsIsTyped ==
  ASSUME NodeTypeOK, PlaceOK, NEW d \in Device, ForgetCommandIds(d)
  PROVE  NodeTypeOK' /\ PlaceOK'
<1>1. NodeTypeOK'
  BY DEF NodeTypeOK, ForgetCommandIds, RecordJournal, Goto, Places
<1>2. PlaceOK'
  BY DEF NodeTypeOK, PlaceOK, ForgetCommandIds, Goto, At, InSession, IsActive
<1>3. QED
  BY <1>1, <1>2

-----------------------------------------------------------------------------
(* What nodes have applied stays behind what can still reach them. *)

\* The IDs of frames to a node, and of commands it applied, were issued before.
LEMMA IssueKeepsNotLater ==
  ASSUME NEW issues \in Seq(Issue), NEW issue \in Issue,
         issue.commandId \notin IdsOf(issues),
         NEW id \in IdsOf(issues), NEW other \in IdsOf(issues),
         NotLater(id, other, issues)
  PROVE  NotLater(id, other, Append(issues, issue))
<1> DEFINE longer == Append(issues, issue)
<1>1. /\ Len(longer) = Len(issues) + 1
      /\ Len(issues) \in Nat
      /\ longer[Len(issues) + 1] = issue
      /\ \A i \in 1 .. Len(issues) : longer[i] = issues[i]
  BY AppendProperties, LenProperties
<1> HIDE DEF longer
<1>2. ASSUME NEW i \in 1 .. Len(longer), NEW j \in 1 .. Len(longer),
             longer[i].commandId = id, longer[j].commandId = other
      PROVE  i <= j
  <2>1. i \in 1 .. Len(issues) /\ j \in 1 .. Len(issues)
    BY <1>1, <1>2
  <2>2. issues[i].commandId = id /\ issues[j].commandId = other
    BY <1>1, <1>2, <2>1
  <2>3. QED
    BY <2>1, <2>2 DEF NotLater
<1>3. QED
  BY <1>2 DEF NotLater, longer

LEMMA IssueKeepsSpent ==
  ASSUME NEW issues \in Seq(Issue), NEW issue \in Issue,
         issue.commandId \notin IdsOf(issues),
         NEW sends, SentInOrder(sends, issues),
         NEW ids, NEW n \in NodeId, NEW last, SpentAt(ids, n, last, sends, issues)
  PROVE  SpentAt(ids, n, last, sends, Append(issues, issue))
<1> DEFINE longer == Append(issues, issue)
<1>1. /\ Len(longer) = Len(issues) + 1
      /\ Len(issues) \in Nat
      /\ \A i \in 1 .. Len(issues) : longer[i] = issues[i]
  BY AppendProperties, LenProperties
<1> HIDE DEF longer
<1>2. SUFFICES ASSUME NEW id \in ids
      PROVE  IsOver(id, n, last, longer) /\ IsPast(id, n, last, sends, longer)
  BY DEF SpentAt, longer
<1>3. IsOver(id, n, last, issues) /\ IsPast(id, n, last, sends, issues)
  BY DEF SpentAt
<1>4. IsOver(id, n, last, longer)
  BY <1>1, <1>3 DEF IsOver
<1>5. ASSUME NEW p \in 1 .. Len(sends), IsCommandTo(n, p, sends)
      PROVE  NotLater(id, sends[p].commandId, longer)
  <2>1. NotLater(id, sends[p].commandId, issues)
    BY <1>3, <1>5 DEF IsPast
  <2>2. id \in IdsOf(issues)
    BY <1>3 DEF IsOver, IdsOf
  <2>3. sends[p].commandId \in IdsOf(issues)
    BY <1>5 DEF SentInOrder, FrameIsIssued, IdsOf
  <2>4. QED
    BY <2>1, <2>2, <2>3, IssueKeepsNotLater DEF longer
<1>6. QED
  BY <1>3, <1>4, <1>5 DEF IsPast

LEMMA AppendKeepsSpent ==
  ASSUME NEW issues \in Seq(Issue), IdsDiffer(issues),
         NEW sends \in Seq(DownlinkFrame), NEW frame \in DownlinkFrame,
         IsNewest(frame, issues),
         NEW ids, NEW n \in NodeId, NEW last, SpentAt(ids, n, last, sends, issues)
  PROVE  SpentAt(ids, n, last, Append(sends, frame), issues)
<1> DEFINE longer == Append(sends, frame)
<1>1. /\ Len(longer) = Len(sends) + 1
      /\ Len(sends) \in Nat
      /\ longer[Len(sends) + 1] = frame
      /\ \A p \in 1 .. Len(sends) : longer[p] = sends[p]
  BY AppendProperties, LenProperties
<1> HIDE DEF longer
<1>2. SUFFICES ASSUME NEW id \in ids, NEW p \in 1 .. Len(longer), IsCommandTo(n, p, longer)
      PROVE  /\ NotLater(id, longer[p].commandId, issues)
             /\ longer[p].commandId = id => id = last
  BY DEF SpentAt, IsPast, longer
<1>3. CASE p \in 1 .. Len(sends)
  <2>1. IsCommandTo(n, p, sends) /\ longer[p] = sends[p]
    BY <1>1, <1>2, <1>3 DEF IsCommandTo
  <2>2. QED
    BY <1>3, <2>1 DEF SpentAt, IsPast
<1>4. CASE p = Len(sends) + 1
  <2>1. PICK i \in 1 .. Len(issues) :
          /\ issues[i].node = n
          /\ issues[i].commandId = id
          /\ id # last => \E j \in 1 .. Len(issues) : i < j /\ issues[j].node = n
    BY DEF SpentAt, IsOver
  <2>2. PICK k \in 1 .. Len(issues) :
          /\ issues[k].commandId = longer[p].commandId
          /\ \A j \in 1 .. Len(issues) : issues[j].node = n => j <= k
    BY <1>1, <1>2, <1>4 DEF IsCommandTo, IsNewest
  <2>3. NotLater(id, longer[p].commandId, issues)
    <3>1. i <= k
      BY <2>1, <2>2
    <3>2. QED
      BY <2>1, <2>2, <3>1 DEF NotLater, IdsDiffer
  <2>4. ASSUME longer[p].commandId = id PROVE id = last
    <3>1. i = k
      BY <2>1, <2>2, <2>4 DEF IdsDiffer
    <3>2. QED
      BY <2>1, <2>2, <3>1, LenProperties
  <2>5. QED
    BY <2>3, <2>4
<1>5. QED
  BY <1>1, <1>3, <1>4

LEMMA TailKeepsSpent ==
  ASSUME NEW issues, NEW sends \in Seq(DownlinkFrame), sends # << >>,
         NEW ids, NEW n \in NodeId, NEW last, SpentAt(ids, n, last, sends, issues)
  PROVE  SpentAt(ids, n, last, Tail(sends), issues)
<1>1. /\ Len(Tail(sends)) = Len(sends) - 1
      /\ Len(sends) \in Nat
      /\ \A p \in 1 .. Len(Tail(sends)) : Tail(sends)[p] = sends[p + 1]
  BY HeadTailProperties, LenProperties
<1>2. \A p \in 1 .. Len(Tail(sends)) : p + 1 \in 1 .. Len(sends)
  BY <1>1
<1>3. \A p \in 1 .. Len(Tail(sends)) :
        IsCommandTo(n, p, Tail(sends)) => IsCommandTo(n, p + 1, sends)
  BY <1>1, <1>2 DEF IsCommandTo
<1>4. QED
  BY <1>1, <1>2, <1>3 DEF SpentAt, IsPast

\* A node applies the command at the head of the radio queue.
LEMMA HearingKeepsSpent ==
  ASSUME NEW issues \in Seq(Issue), NEW sends \in Seq(DownlinkFrame), SentInOrder(sends, issues),
         NEW ids, NEW n \in NodeId, NEW last, SpentAt(ids, n, last, sends, issues),
         sends # << >>, IsCommandTo(n, 1, sends),
         NEW id, id = sends[1].commandId
  PROVE  SpentAt(ids \cup {id}, n, id, sends, issues)
<1>0. Len(sends) \in Nat \ {0} /\ Len(issues) \in Nat
  BY EmptySeq, LenProperties
<1>1. PICK k \in 1 .. Len(issues) : issues[k].node = n /\ issues[k].commandId = id
  BY <1>0 DEF SentInOrder, FrameIsIssued, IsCommandTo
<1>2. \A p \in 1 .. Len(sends) : IsCommandTo(n, p, sends) =>
        NotLater(id, sends[p].commandId, issues)
  <2>1. \A p \in 1 .. Len(sends) : 1 <= p
    BY <1>0
  <2>2. QED
    BY <1>0, <2>1 DEF SentInOrder
<1>3. IsOver(id, n, id, issues) /\ IsPast(id, n, id, sends, issues)
  BY <1>1, <1>2 DEF IsOver, IsPast
<1>4. ASSUME NEW old \in ids, old # id
      PROVE  IsOver(old, n, id, issues) /\ IsPast(old, n, id, sends, issues)
  <2>1. PICK i \in 1 .. Len(issues) : issues[i].node = n /\ issues[i].commandId = old
    BY DEF SpentAt, IsOver
  <2>2. NotLater(old, id, issues)
    BY <1>0 DEF SpentAt, IsPast
  <2>3. i < k
    BY <1>0, <1>1, <1>4, <2>1, <2>2 DEF NotLater
  <2>4. IsOver(old, n, id, issues)
    BY <1>1, <2>1, <2>3 DEF IsOver
  <2>5. ASSUME NEW p \in 1 .. Len(sends), IsCommandTo(n, p, sends)
        PROVE  NotLater(old, sends[p].commandId, issues) /\ sends[p].commandId # old
    <3>1. NotLater(old, sends[p].commandId, issues)
      BY <2>5 DEF SpentAt, IsPast
    <3>2. NotLater(id, sends[p].commandId, issues)
      BY <1>2, <2>5
    <3>3. sends[p].commandId # old
      BY <1>0, <1>1, <2>1, <2>3, <3>2 DEF NotLater
    <3>4. QED
      BY <3>1, <3>3
  <2>6. QED
    BY <2>4, <2>5 DEF IsPast
<1>5. QED
  BY <1>3, <1>4 DEF SpentAt

-----------------------------------------------------------------------------
(* Steps of the composition.  IInv has one part for each side, and one,    *)
(* SpentInOrder, that relates them.                                        *)

LEMMA NodesRest ==
  ASSUME NodeTypeOK, PlaceOK, UNCHANGED nodeVars
  PROVE  NodeTypeOK' /\ PlaceOK'
BY DEF NodeTypeOK, PlaceOK, nodeVars, InSession, IsActive

LEMMA GatewayRests ==
  ASSUME GatewayTypeOK, BookInOrder, SendsInOrder, UNCHANGED gatewayVars
  PROVE  GatewayTypeOK' /\ BookInOrder' /\ SendsInOrder'
BY DEF GatewayTypeOK, BookInOrder, SendsInOrder, gatewayVars

\* The gateway queues a frame or registers a node: neither moves a command.
LEMMA QueueFrameIsInOrder ==
  ASSUME BookInOrder, SendsInOrder, NEW frame, QueueFrame(frame)
  PROVE  BookInOrder' /\ SendsInOrder'
BY DEF QueueFrame, BookInOrder, SendsInOrder

LEMMA ConfirmNodeIsInOrder ==
  ASSUME BookInOrder, SendsInOrder, NEW n, NEW d, ConfirmNode(n, d)
  PROVE  BookInOrder' /\ SendsInOrder'
BY DEF ConfirmNode, BookInOrder, SendsInOrder

\* Each device keeps what SpentInOrder says of it, or starts afresh.
KeepsSpent(d) ==
  IsActive(d)' =>
    \/ spent'[d] = {}
    \/ /\ IsActive(d)
       /\ spent'[d] = spent[d]
       /\ config'[d].nodeId = config[d].nodeId
       /\ journal'[d].commandId = journal[d].commandId

LEMMA EmptyIsSpent ==
  ASSUME NEW n, NEW last, NEW sends, NEW issues
  PROVE  SpentAt({}, n, last, sends, issues)
BY DEF SpentAt

LEMMA KeepingIsInOrder ==
  ASSUME SpentInOrder, radioSends' = radioSends, issued' = issued,
         \A d \in Device : KeepsSpent(d)
  PROVE  SpentInOrder'
<1> SUFFICES ASSUME NEW d \in Device, IsActive(d)'
             PROVE  SpentAt(spent'[d], config'[d].nodeId, journal'[d].commandId,
                            radioSends, issued)
  BY DEF SpentInOrder
<1>1. CASE spent'[d] = {}
  BY <1>1, EmptyIsSpent
<1>2. CASE spent'[d] # {}
  BY <1>2 DEF KeepsSpent, SpentInOrder
<1>3. QED
  BY <1>1, <1>2

LEMMA NodesRestInOrder ==
  ASSUME SpentInOrder, radioSends' = radioSends, issued' = issued,
         config' = config, spent' = spent, journal' = journal
  PROVE  SpentInOrder'
BY KeepingIsInOrder DEF KeepsSpent, IsActive

LEMMA GatewaySendsKeepSpent ==
  ASSUME IInv, SendsOrIssues, UNCHANGED nodeVars
  PROVE  SpentInOrder'
<1>1. /\ radioSends \in Seq(DownlinkFrame)
      /\ issued \in Seq(Issue)
      /\ IdsDiffer(issued)
      /\ SentInOrder(radioSends, issued)
  BY DEF IInv, TypeOK, GatewayTypeOK, BookInOrder, InOrder, SendsInOrder
<1>2. SUFFICES ASSUME NEW d \in Device, IsActive(d)
      PROVE  SpentAt(spent[d], config[d].nodeId, journal[d].commandId, radioSends', issued')
  BY DEF SpentInOrder, nodeVars, IsActive
<1> DEFINE n == config[d].nodeId
           last == journal[d].commandId
<1>3. n \in NodeId
  BY <1>2 DEF IInv, PlaceOK, IsActive
<1>4. SpentAt(spent[d], n, last, radioSends, issued)
  BY <1>2 DEF IInv, SpentInOrder
<1> HIDE DEF n
<1> HIDE DEF last
<1>5. CASE radioSends' = radioSends /\ MayIssue
  BY <1>1, <1>3, <1>4, <1>5, IssueKeepsSpent DEF MayIssue, Issues, IssuedIds, n, last
<1>6. ASSUME issued' = issued, NEW frame \in DownlinkFrame, Sends(frame)
      PROVE  SpentAt(spent[d], n, last, radioSends', issued')
  BY <1>1, <1>3, <1>4, <1>6, AppendKeepsSpent DEF Sends
<1>7. CASE radioSends' = << >> /\ MayIssue
  <2>1. SpentAt(spent[d], n, last, radioSends, issued')
    BY <1>1, <1>3, <1>4, <1>7, IssueKeepsSpent DEF MayIssue, Issues, IssuedIds
  <2>2. QED
    BY <1>7, <2>1, EmptySeq DEF SpentAt, IsPast, n, last
<1>8. QED
  BY <1>5, <1>6, <1>7 DEF SendsOrIssues, n, last

LEMMA GatewayStepKeepsIInv ==
  ASSUME IInv, GatewayStep, UNCHANGED nodeVars
  PROVE  IInv'
<1>1. GatewayTypeOK /\ NodeTypeOK /\ PlaceOK /\ BookInOrder /\ SendsInOrder
  BY DEF IInv, TypeOK
<1>2. GatewayTypeOK' /\ BookInOrder'
  BY <1>1, GatewayStepIsTyped, GatewayStepIsInOrder
<1>3. SendsOrIssues
  BY <1>1, GatewayStepSendsOrIssues
<1>4. SendsInOrder'
  BY <1>1, <1>3, SendsOrIssuesKeepsOrder
<1>5. SpentInOrder'
  BY <1>3, GatewaySendsKeepSpent
<1>6. QED
  BY <1>1, <1>2, <1>4, <1>5, NodesRest DEF IInv, TypeOK

LEMMA EndTransmissionKeepsIInv ==
  ASSUME IInv, EndTransmission, UNCHANGED nodeVars
  PROVE  IInv'
<1>1. GatewayTypeOK /\ NodeTypeOK /\ PlaceOK /\ BookInOrder /\ SendsInOrder
  BY DEF IInv, TypeOK
<1>2. GatewayTypeOK' /\ SendsInOrder'
  BY <1>1, EndTransmissionIsTyped, EndTransmissionKeepsOrder
<1>3. BookInOrder'
  BY <1>1 DEF EndTransmission, BookInOrder
<1>4. SpentInOrder'
  <2> SUFFICES ASSUME NEW d \in Device, IsActive(d)
      PROVE  SpentAt(spent[d], config[d].nodeId, journal[d].commandId, radioSends', issued')
    BY DEF SpentInOrder, nodeVars, IsActive
  <2>1. config[d].nodeId \in NodeId
    BY DEF IInv, PlaceOK, IsActive
  <2>2. /\ radioSends \in Seq(DownlinkFrame)
        /\ radioSends # << >>
        /\ radioSends' = Tail(radioSends)
        /\ issued' = issued
    BY <1>1 DEF GatewayTypeOK, EndTransmission
  <2>3. SpentAt(spent[d], config[d].nodeId, journal[d].commandId, radioSends, issued)
    BY DEF IInv, SpentInOrder
  <2>4. QED
    BY <2>1, <2>2, <2>3, TailKeepsSpent
<1>5. QED
  BY <1>1, <1>2, <1>3, <1>4, NodesRest DEF IInv, TypeOK

\* A step of a node that the gateway does not take part in.
LEMMA NodeAloneKeepsIInv ==
  ASSUME IInv, UNCHANGED gatewayVars, NodeTypeOK', PlaceOK', \A d \in Device : KeepsSpent(d)
  PROVE  IInv'
<1>1. GatewayTypeOK' /\ BookInOrder' /\ SendsInOrder'
  BY GatewayRests DEF IInv, TypeOK
<1>2. SpentInOrder'
  BY KeepingIsInOrder DEF IInv, gatewayVars
<1>3. QED
  BY <1>1, <1>2 DEF IInv, TypeOK

\* A step in which a node's frame is queued.
LEMMA HeardFrameKeepsIInv ==
  ASSUME IInv, NEW frame \in SessionFrame, QueueFrame(frame), NodeTypeOK', PlaceOK',
         config' = config, spent' = spent, journal' = journal
  PROVE  IInv'
<1>1. GatewayTypeOK' /\ BookInOrder' /\ SendsInOrder'
  BY QueueFrameIsTyped, QueueFrameIsInOrder DEF IInv, TypeOK
<1>2. SpentInOrder'
  BY NodesRestInOrder DEF IInv, QueueFrame
<1>3. QED
  BY <1>1, <1>2 DEF IInv, TypeOK

-----------------------------------------------------------------------------
LEMMA NodeStepKeepsIInv ==
  ASSUME IInv, NEW d \in Device, NodeStep(d), UNCHANGED gatewayVars
  PROVE  IInv'
<1>1. NodeTypeOK /\ PlaceOK
  BY DEF IInv, TypeOK
<1>2. CASE Pulse(d)
  <2>1. NodeTypeOK' /\ PlaceOK'
    BY <1>1, <1>2, PulseIsTyped
  <2>2. \A e \in Device : KeepsSpent(e)
    BY <1>2 DEF Pulse, KeepsSpent, IsActive
  <2>3. QED
    BY <2>1, <2>2, NodeAloneKeepsIInv
<1>3. CASE SaveCount(d)
  <2>1. NodeTypeOK' /\ PlaceOK'
    BY <1>1, <1>3, SaveCountIsTyped
  <2>2. \A e \in Device : KeepsSpent(e)
    BY <1>3 DEF SaveCount, KeepsSpent, IsActive
  <2>3. QED
    BY <2>1, <2>2, NodeAloneKeepsIInv
<1>4. CASE SaveApplied(d)
  <2>1. NodeTypeOK' /\ PlaceOK'
    BY <1>1, <1>4, SaveAppliedIsTyped
  <2>2. \A e \in Device : journal'[e].commandId = journal[e].commandId
    BY <1>1, <1>4 DEF SaveApplied, NodeTypeOK, RecordJournal, EmptyJournal
  <2>3. \A e \in Device : KeepsSpent(e)
    BY <1>4, <2>2 DEF SaveApplied, KeepsSpent, IsActive
  <2>4. QED
    BY <2>1, <2>3, NodeAloneKeepsIInv
<1>5. CASE ResetNode(d) \/ ResetNetwork(d)
  <2>1. resets' \in Nat
    BY <1>1, <1>5 DEF ResetNode, ResetNetwork, NodeTypeOK
  <2>2. NodeTypeOK' /\ PlaceOK'
    BY <1>1, <1>5, <2>1, RebootIsTyped
  <2>3. ASSUME NEW e \in Device, IsActive(e)'
        PROVE  config'[e] = config[e]
    BY <1>1, <1>5, <2>3 DEF ResetNode, ResetNetwork, Unconfigured, IsActive, NodeTypeOK
  <2>4. \A e \in Device : KeepsSpent(e)
    BY <1>5, <2>3 DEF ResetNode, ResetNetwork, KeepsSpent, IsActive
  <2>5. QED
    BY <2>2, <2>4, NodeAloneKeepsIInv
<1>6. CASE ForgetCommandIds(d)
  <2>1. NodeTypeOK' /\ PlaceOK'
    BY <1>1, <1>6, ForgetCommandIdsIsTyped
  <2>2. spent'[d] = {}
    BY <1>1, <1>6 DEF ForgetCommandIds, At, PlaceOK
  <2>3. \A e \in Device : KeepsSpent(e)
    BY <1>1, <1>6, <2>2 DEF ForgetCommandIds, KeepsSpent, IsActive, NodeTypeOK
  <2>4. QED
    BY <2>1, <2>3, NodeAloneKeepsIInv
<1>7. QED
  BY <1>2, <1>3, <1>4, <1>5, <1>6 DEF NodeStep

\* Opening a session, and the frames and windows that only move it on.
LEMMA SessionStepKeepsIInv ==
  ASSUME IInv, NEW d \in Device,
         \/ \E nonce \in Nonce : OpenSession(d, nonce)
         \/ ReadyLost(d)
         \/ WindowCloses(d)
         \/ ReceiveNoCommand(d)
         \/ ReceiveStale(d)
         \/ ResultLost(d)
  PROVE  IInv'
<1>1. NodeTypeOK /\ PlaceOK
  BY DEF IInv, TypeOK
<1>2. \/ \E nonce \in Nonce : StartSession(d, nonce)
      \/ SendReady(d)
      \/ AttemptOver(d)
      \/ HearNoCommand(d)
      \/ SendResult(d, FALSE)
  BY DEF OpenSession, ReadyLost, WindowCloses, ReceiveNoCommand, ReceiveStale, ResultLost
<1>3. NodeTypeOK' /\ PlaceOK'
  BY <1>1, <1>2, StartSessionIsTyped, SendReadyIsTyped, AttemptOverIsTyped,
     HearNoCommandIsTyped, SendResultIsTyped
<1>4. \A e \in Device : KeepsSpent(e)
  BY <1>2 DEF StartSession, SendReady, AttemptOver, HearNoCommand, SendResult, KeepsSpent, IsActive
<1>5. UNCHANGED gatewayVars
  BY DEF OpenSession, ReadyLost, WindowCloses, ReceiveNoCommand, ReceiveStale, ResultLost
<1>6. QED
  BY <1>3, <1>4, <1>5, NodeAloneKeepsIInv

\* A node in a session has an ID, and a nonce.
LEMMA SessionIsTyped ==
  ASSUME NodeTypeOK, PlaceOK, NEW d \in Device, pc[d] \in {"ready", "listen", "answer"}
  PROVE  /\ IsActive(d)
         /\ config[d].nodeId \in NodeId
         /\ session[d].nonce \in Nonce
<1>1. InSession(d)
  BY DEF PlaceOK
<1>2. IsActive(d)
  BY <1>1 DEF PlaceOK
<1>3. config[d].nodeId \in NodeId
  BY <1>2 DEF PlaceOK, IsActive
<1>4. session[d].nonce \in Nonce
  BY <1>1 DEF InSession, NodeTypeOK
<1>5. QED
  BY <1>2, <1>3, <1>4

LEMMA ReadyHeardKeepsIInv ==
  ASSUME IInv, NEW d \in Device, ReadyHeard(d)
  PROVE  IInv'
<1>1. NodeTypeOK /\ PlaceOK
  BY DEF IInv, TypeOK
<1>2. SendReady(d) /\ QueueFrame(Ready(d))
  BY DEF ReadyHeard
<1>3. Ready(d) \in SessionFrame
  BY <1>1, <1>2, SessionIsTyped DEF SendReady, At, Ready, SessionFrame, ReadyFrame
<1>4. NodeTypeOK' /\ PlaceOK'
  BY <1>1, <1>2, SendReadyIsTyped
<1>5. QED
  BY <1>2, <1>3, <1>4, HeardFrameKeepsIInv DEF SendReady

\* A node that answers has a result to send.
LEMMA ResultIsFrame ==
  ASSUME NodeTypeOK, PlaceOK, NEW d \in Device, pc[d] = "answer"
  PROVE  ResultOf(d) \in SessionFrame
<1>1. journal[d].commandId \in CommandId
  BY DEF PlaceOK
<1>2. journal[d].old \in Count /\ journal[d].new \in Count
  BY CountLimitAssumption DEF NodeTypeOK, RecordJournal, EmptyJournal
<1>3. StoredResult(d) \in Result
  BY <1>2 DEF StoredResult, Result, CountData, CommandStatus
<1>4. QED
  BY <1>1, <1>3, SessionIsTyped DEF ResultOf, SessionFrame, ResultFrame

LEMMA ResultHeardKeepsIInv ==
  ASSUME IInv, NEW d \in Device, ResultHeard(d)
  PROVE  IInv'
<1>1. NodeTypeOK /\ PlaceOK
  BY DEF IInv, TypeOK
<1>2. PICK acknowledged \in BOOLEAN : SendResult(d, acknowledged) /\ QueueFrame(ResultOf(d))
  BY DEF ResultHeard
<1>3. pc[d] = "answer" /\ journal[d].commandId \in CommandId
  BY <1>1, <1>2 DEF SendResult, At, PlaceOK
<1>5. ResultOf(d) \in SessionFrame
  BY <1>1, <1>3, ResultIsFrame
<1>6. NodeTypeOK' /\ PlaceOK'
  BY <1>1, <1>2, SendResultIsTyped
<1>7. QED
  BY <1>2, <1>5, <1>6, HeardFrameKeepsIInv DEF SendResult

\* The command on the air is for the node that hears it.
LEMMA CommandOnAir ==
  ASSUME IInv, NEW d \in Device, OnAirForSession(d, "Command")
  PROVE  /\ radioSends # << >>
         /\ radioSends \in Seq(DownlinkFrame)
         /\ Head(radioSends) = radioSends[1]
         /\ IsCommandTo(config[d].nodeId, 1, radioSends)
         /\ Head(radioSends).commandId \in CommandId
         /\ Head(radioSends).count \in Count
<1>1. radioSends # << >> /\ radioSends \in Seq(DownlinkFrame)
  BY DEF OnAirForSession, OnAir, IInv, TypeOK, GatewayTypeOK
<1>2. Len(radioSends) \in Nat \ {0} /\ Head(radioSends) = radioSends[1]
  BY <1>1, EmptySeq, HeadTailProperties
<1>3. IsCommandTo(config[d].nodeId, 1, radioSends)
  BY <1>2 DEF OnAirForSession, OnAir, IsCommandTo
<1>4. Head(radioSends) \in CommandFrame
  BY <1>1, TailIsTyped DEF OnAirForSession, DownlinkFrame, NoCommandFrame
<1>5. QED
  BY <1>1, <1>2, <1>3, <1>4 DEF CommandFrame

LEMMA ReceiveRedeliveryKeepsIInv ==
  ASSUME IInv, NEW d \in Device, ReceiveRedelivery(d)
  PROVE  IInv'
<1>1. HearRedelivery(d, Head(radioSends).commandId) /\ UNCHANGED gatewayVars
  BY DEF ReceiveRedelivery
<1>2. Head(radioSends).commandId \in CommandId
  BY CommandOnAir DEF ReceiveRedelivery
<1>3. NodeTypeOK' /\ PlaceOK'
  BY <1>1, <1>2, HearRedeliveryIsTyped DEF IInv, TypeOK
<1>4. \A e \in Device : KeepsSpent(e)
  BY <1>1 DEF HearRedelivery, KeepsSpent, IsActive
<1>5. QED
  BY <1>1, <1>3, <1>4, NodeAloneKeepsIInv

\* The step that matters: the command a node applies is a new one, and it
\* comes after all the others.
LEMMA ReceivedCommandIsNotSpent ==
  ASSUME IInv, NEW d \in Device, ReceiveCommand(d)
  PROVE  Head(radioSends).commandId \notin spent[d]
<1> DEFINE id == Head(radioSends).commandId
<1>1. /\ IsCommandTo(config[d].nodeId, 1, radioSends)
      /\ id = radioSends[1].commandId
      /\ id \in CommandId
  BY CommandOnAir DEF ReceiveCommand
<1>2. IsActive(d)
  BY SessionIsTyped DEF ReceiveCommand, HearCommand, At, IInv, TypeOK
<1>3. id # journal[d].commandId
  BY <1>1 DEF ReceiveCommand, HearCommand, IsRedelivery, EmptyJournal, NoCommandId, CommandId
<1>4. SpentAt(spent[d], config[d].nodeId, journal[d].commandId, radioSends, issued)
  BY <1>2 DEF IInv, SpentInOrder
<1>5. QED
  BY <1>1, <1>3, <1>4 DEF SpentAt, IsPast, IsCommandTo

LEMMA ReceiveCommandKeepsIInv ==
  ASSUME IInv, NEW d \in Device, ReceiveCommand(d)
  PROVE  IInv'
<1> DEFINE id == Head(radioSends).commandId
           value == Head(radioSends).count
<1>1. HearCommand(d, id, value) /\ UNCHANGED gatewayVars
  BY DEF ReceiveCommand
<1>2. /\ radioSends # << >>
      /\ radioSends \in Seq(DownlinkFrame)
      /\ id = radioSends[1].commandId
      /\ IsCommandTo(config[d].nodeId, 1, radioSends)
      /\ id \in CommandId
      /\ value \in Count
  BY CommandOnAir DEF ReceiveCommand
<1> HIDE DEF id
<1> HIDE DEF value
<1>3. NodeTypeOK' /\ PlaceOK'
  BY <1>1, <1>2, HearCommandIsTyped DEF IInv, TypeOK
<1>4. GatewayTypeOK' /\ BookInOrder' /\ SendsInOrder'
  BY <1>1, GatewayRests DEF IInv, TypeOK
<1>5. IsActive(d) /\ config[d].nodeId \in NodeId
  BY <1>1, SessionIsTyped DEF HearCommand, At, IInv, TypeOK
<1>6. issued \in Seq(Issue) /\ SentInOrder(radioSends, issued)
  BY DEF IInv, TypeOK, GatewayTypeOK, SendsInOrder
<1>7. SpentAt(spent[d] \cup {id}, config[d].nodeId, id, radioSends, issued)
  BY <1>2, <1>5, <1>6, HearingKeepsSpent DEF IInv, SpentInOrder
<1>8. /\ spent'[d] = spent[d] \cup {id}
      /\ journal'[d].commandId = id
      /\ \A e \in Device \ {d} : spent'[e] = spent[e] /\ journal'[e] = journal[e]
      /\ config' = config /\ radioSends' = radioSends /\ issued' = issued
  BY <1>1 DEF HearCommand, IInv, TypeOK, NodeTypeOK, gatewayVars
<1>9. SpentInOrder'
  <2> SUFFICES ASSUME NEW e \in Device, IsActive(e)'
               PROVE  SpentAt(spent'[e], config'[e].nodeId, journal'[e].commandId,
                              radioSends', issued')
    BY DEF SpentInOrder
  <2>1. CASE e = d
    BY <1>7, <1>8, <2>1
  <2>2. CASE e # d
    BY <1>8, <2>2 DEF IInv, SpentInOrder, IsActive
  <2>3. QED
    BY <2>1, <2>2
<1>10. QED
  BY <1>3, <1>4, <1>9 DEF IInv, TypeOK

LEMMA JoinKeepsIInv ==
  ASSUME IInv, NEW n \in NodeId, NEW d \in Device, Join(n, d)
  PROVE  IInv'
<1>1. ConfirmNode(n, d) /\ Provision(d, n)
  BY DEF Join
<1>2. GatewayTypeOK' /\ BookInOrder' /\ SendsInOrder'
  BY <1>1, ConfirmNodeIsTyped, ConfirmNodeIsInOrder DEF IInv, TypeOK
<1>3. NodeTypeOK' /\ PlaceOK'
  BY <1>1, ProvisionIsTyped DEF IInv, TypeOK
<1>4. ASSUME NEW e \in Device, IsActive(e)'
      PROVE  config'[e] = config[e]
  BY <1>1, <1>4 DEF Provision, IsActive, IInv, TypeOK, NodeTypeOK
<1>5. \A e \in Device : KeepsSpent(e)
  BY <1>1, <1>4 DEF Provision, KeepsSpent, IsActive
<1>6. radioSends' = radioSends /\ issued' = issued
  BY <1>1 DEF ConfirmNode
<1>7. SpentInOrder'
  BY <1>5, <1>6, KeepingIsInOrder DEF IInv
<1>8. QED
  BY <1>2, <1>3, <1>7 DEF IInv, TypeOK

LEMMA JoinCompletesKeepsIInv ==
  ASSUME IInv, NEW d \in Device, JoinCompletes(d)
  PROVE  IInv'
<1>1. Activate(d) /\ UNCHANGED gatewayVars
  BY DEF JoinCompletes
<1>2. NodeTypeOK' /\ PlaceOK'
  BY <1>1, ActivateIsTyped DEF IInv, TypeOK
<1>3. \A e \in Device : KeepsSpent(e)
  BY <1>1 DEF Activate, KeepsSpent, IsActive, IInv, TypeOK, NodeTypeOK
<1>4. QED
  BY <1>1, <1>2, <1>3, NodeAloneKeepsIInv

-----------------------------------------------------------------------------
LEMMA InitIsIInv == Init => IInv
<1> SUFFICES ASSUME Init PROVE IInv
  OBVIOUS
<1>1. GatewayTypeOK /\ BookInOrder /\ SendsInOrder
  BY GatewayInitIsTyped, GatewayInitIsInOrder DEF Init
<1>2. NodeTypeOK /\ PlaceOK
  BY NodeInitIsTyped DEF Init
<1>3. SpentInOrder
  BY EmptyIsSpent DEF Init, NodeInit, SpentInOrder
<1>4. QED
  BY <1>1, <1>2, <1>3 DEF IInv, TypeOK

LEMMA NextKeepsIInv == IInv /\ [Next]_vars => IInv'
<1> SUFFICES ASSUME IInv, [Next]_vars PROVE IInv'
  OBVIOUS
<1>1. CASE GatewayStep /\ UNCHANGED nodeVars
  BY <1>1, GatewayStepKeepsIInv
<1>2. CASE EndTransmission /\ UNCHANGED nodeVars
  BY <1>2, EndTransmissionKeepsIInv
<1>3. ASSUME NEW d \in Device, NodeStep(d), UNCHANGED gatewayVars
      PROVE  IInv'
  BY <1>3, NodeStepKeepsIInv
<1>4. ASSUME NEW d \in Device,
             \/ \E nonce \in Nonce : OpenSession(d, nonce)
             \/ ReadyLost(d) \/ WindowCloses(d) \/ ReceiveNoCommand(d)
             \/ ReceiveStale(d) \/ ResultLost(d)
      PROVE  IInv'
  BY <1>4, SessionStepKeepsIInv
<1>5. ASSUME NEW d \in Device, ReadyHeard(d) \/ ResultHeard(d)
      PROVE  IInv'
  BY <1>5, ReadyHeardKeepsIInv, ResultHeardKeepsIInv
<1>6. ASSUME NEW d \in Device, ReceiveRedelivery(d) \/ ReceiveCommand(d)
      PROVE  IInv'
  BY <1>6, ReceiveRedeliveryKeepsIInv, ReceiveCommandKeepsIInv
<1>7. ASSUME NEW d \in Device, JoinCompletes(d) \/ \E n \in NodeId : Join(n, d)
      PROVE  IInv'
  BY <1>7, JoinKeepsIInv, JoinCompletesKeepsIInv
<1>8. CASE UNCHANGED vars
  <2>1. UNCHANGED gatewayVars /\ UNCHANGED nodeVars
    BY <1>8 DEF vars
  <2>2. \A d \in Device : KeepsSpent(d)
    BY <2>1 DEF nodeVars, KeepsSpent, IsActive
  <2>3. NodeTypeOK' /\ PlaceOK'
    BY <2>1, NodesRest DEF IInv, TypeOK
  <2>4. QED
    BY <2>1, <2>2, <2>3, NodeAloneKeepsIInv
<1>9. QED
  BY <1>1, <1>2, <1>3, <1>4, <1>5, <1>6, <1>7, <1>8 DEF Next

\* The invariant holds in every state of every behaviour.
THEOREM SessionInvariance == Spec => []IInv
<1>1. QED
  BY InitIsIInv, NextKeepsIInv, PTL DEF Spec

\* Every state is well typed: counters stay counters, the journal's Pending
\* result is complete, command IDs stay within 16 bits as the sequence wraps.
THEOREM SessionTypeOK == Spec => []TypeOK
<1>1. IInv => TypeOK
  BY DEF IInv
<1>2. QED
  BY <1>1, SessionInvariance, PTL

\* No node applies a command a second time before it is commissioned again,
\* whatever is lost, late or repeated and whoever restarts
\* (SetCountJournal::apply, CommandService handleCommandReady).
THEOREM CommandsAppliedOnce == Spec => AtMostOncePerCommissioning
<1>1. IInv /\ [Next]_vars =>
        [\A d \in Device : ReceiveCommand(d) => Head(radioSends).commandId \notin spent[d]]_vars
  BY ReceivedCommandIsNotSpent
<1>2. QED
  BY <1>1, SessionInvariance, PTL DEF Spec, AtMostOncePerCommissioning

-----------------------------------------------------------------------------
(* Where recorded results come from.  The book's operations keep results   *)
(* or take one from a frame; a frame takes it from a journal; a journal    *)
(* from the set_count that was done.                                       *)

\* Every applied result of c is in a record of b.
ResultsFrom(c, b) ==
  \A j \in Positions(c) : c.records[j].result.status = "applied" =>
    \E k \in Positions(b) : b.records[k] = c.records[j]

LEMMA ResultsFromTrueBook ==
  ASSUME NEW b, NEW c, NEW done, BookIsTrue(b, done), ResultsFrom(c, b)
  PROVE  BookIsTrue(c, done)
BY DEF BookIsTrue, ResultsFrom

LEMMA EraseKeepsResults ==
  ASSUME NEW b \in Book, NEW i \in Positions(b)
  PROVE  ResultsFrom(Erase(b, i), b)
<1> SUFFICES ASSUME NEW j \in Positions(Erase(b, i))
             PROVE  \E k \in Positions(b) : b.records[k] = Erase(b, i).records[j]
  BY DEF ResultsFrom
<1>1. LET k == IF j < i THEN j ELSE j + 1
      IN k \in Positions(b) \ {i} /\ Erase(b, i).records[j] = b.records[k]
  BY EraseKeeps
<1>2. QED
  BY <1>1

LEMMA WithoutKeepsResults ==
  ASSUME NEW b \in Book, NEW n
  PROVE  ResultsFrom(Without(b, n), b)
<1>1. CASE HasRecord(b, n)
  BY <1>1, IndexOfFinds, EraseKeepsResults DEF Without
<1>2. CASE ~HasRecord(b, n)
  BY <1>2 DEF Without, ResultsFrom
<1>3. QED
  BY <1>1, <1>2

LEMMA MakeRoomKeepsResults ==
  ASSUME NEW b \in Book, IsFull(b) => HasCompleted(b)
  PROVE  ResultsFrom(MakeRoom(b), b)
<1>1. CASE IsFull(b)
  BY <1>1, OldestCompletedFinds, EraseKeepsResults DEF MakeRoom
<1>2. CASE ~IsFull(b)
  BY <1>2 DEF MakeRoom, ResultsFrom
<1>3. QED
  BY <1>1, <1>2

\* A command is queued without a result.
LEMMA QueuedKeepsResults ==
  ASSUME NEW b \in Book, NEW uid \in Device, NEW n \in NodeId, NEW value \in Count,
         QueueStatus(b, uid, n) = "Queued"
  PROVE  ResultsFrom(Queued(b, uid, n, value), b)
<1> DEFINE w == Without(b, n)
           m == MakeRoom(w)
           r == NewRecord(b, uid, n, value)
           c == Queued(b, uid, n, value)
<1>1. w \in Book /\ m \in Book /\ (IsFull(w) => HasCompleted(w))
  BY WithoutIsBook, MakeRoomIsBook DEF QueueStatus
<1>2. ResultsFrom(w, b) /\ ResultsFrom(m, w)
  BY <1>1, WithoutKeepsResults, MakeRoomKeepsResults
<1> HIDE DEF w
<1> HIDE DEF m
<1>3. ResultsFrom(m, b)
  BY <1>2 DEF ResultsFrom
<1>4. c.records = Append(m.records, r)
  BY DEF Queued, m, w
<1>5. m.records \in Seq(Record) /\ r \in Record
  BY <1>1, NewRecordIsRecord DEF Book
<1>6. r.result.status # "applied"
  BY DEF NewRecord, NoResult
<1> HIDE DEF r
<1> HIDE DEF c
<1>7. /\ Len(c.records) = Len(m.records) + 1
      /\ Len(m.records) \in Nat
      /\ c.records[Len(m.records) + 1] = r
      /\ \A j \in 1 .. Len(m.records) : c.records[j] = m.records[j]
  BY <1>4, <1>5, AppendProperties, LenProperties
<1>8. ASSUME NEW j \in Positions(c), c.records[j].result.status = "applied"
      PROVE  j \in Positions(m) /\ c.records[j] = m.records[j]
  BY <1>6, <1>7, <1>8 DEF Positions
<1>9. ResultsFrom(c, b)
  BY <1>3, <1>8 DEF ResultsFrom
<1>10. QED
  BY <1>9 DEF c

\* complete() changes one record, and gives it the result it was asked to.
LEMMA CompletedIsTrue ==
  ASSUME NEW b \in Book, NEW n, HasRecord(b, n), NEW result, NEW done,
         BookIsTrue(b, done), IsDone(RecordOf(b, n).commandId, result, done)
  PROVE  BookIsTrue(Completed(b, n, result), done)
<1> DEFINE i == IndexOf(b, n)
           c == Completed(b, n, result)
<1>1. i \in Positions(b)
  BY IndexOfFinds
<1>2. b.records[i] \in Record
  BY <1>1, ElementOfSeq DEF Book, Positions
<1>3. c.records = [b.records EXCEPT ![i] =
                     [@ EXCEPT !.state = "Completed", !.result = result]]
  BY <1>1, <1>2 DEF Completed, Book, Record, Positions
<1>4. Len(c.records) = Len(b.records)
  BY <1>1, <1>3, LenProperties DEF Book, Positions
<1>5. Positions(c) = Positions(b)
  BY <1>4 DEF Positions
<1>6. c.records[i].commandId = b.records[i].commandId /\ c.records[i].result = result
  BY <1>1, <1>2, <1>3, LenProperties DEF Book, Positions, Record
<1>7. \A j \in Positions(b) \ {i} : c.records[j] = b.records[j]
  BY <1>1, <1>3, LenProperties DEF Book, Positions
<1> HIDE DEF c
<1>8. ASSUME NEW j \in Positions(c), c.records[j].result.status = "applied"
      PROVE  IsDone(c.records[j].commandId, c.records[j].result, done)
  <2>1. CASE j = i
    BY <1>6, <2>1 DEF RecordOf
  <2>2. CASE j # i
    BY <1>5, <1>7, <1>8, <2>2 DEF BookIsTrue
  <2>3. QED
    BY <2>1, <2>2
<1>9. BookIsTrue(c, done)
  BY <1>8 DEF BookIsTrue
<1>10. QED
  BY <1>9 DEF c

\* Whatever becomes of the write, the book and the store are true.
LEMMA CommitIsTrue ==
  ASSUME NEW done, BookIsTrue(nvs, done), BookIsTrue(book, done),
         NEW candidate, BookIsTrue(candidate, done),
         CommitSaved(candidate) \/ CommitFailed(candidate)
  PROVE  BookIsTrue(nvs', done) /\ BookIsTrue(book', done)
BY DEF CommitSaved, CommitFailed

LEMMA WithoutIsTrue ==
  ASSUME NEW b \in Book, NEW n, NEW done, BookIsTrue(b, done)
  PROVE  BookIsTrue(Without(b, n), done)
BY WithoutKeepsResults, ResultsFromTrueBook

-----------------------------------------------------------------------------
\* What was done stays done.
LEMMA DoneStays ==
  ASSUME NEW b, NEW frames, NEW done, NEW more, done \subseteq more,
         BookIsTrue(b, done), FramesAreTrue(frames, done)
  PROVE  BookIsTrue(b, more) /\ FramesAreTrue(frames, more)
BY DEF BookIsTrue, FramesAreTrue, IsDone

LEMMA TailIsTrue ==
  ASSUME NEW frames \in Seq(SessionFrame), frames # << >>, NEW done, FramesAreTrue(frames, done)
  PROVE  FramesAreTrue(Tail(frames), done)
<1>1. /\ Len(Tail(frames)) = Len(frames) - 1
      /\ Len(frames) \in Nat
      /\ \A p \in 1 .. Len(Tail(frames)) : Tail(frames)[p] = frames[p + 1]
  BY HeadTailProperties, LenProperties
<1>2. \A p \in 1 .. Len(Tail(frames)) : p + 1 \in 1 .. Len(frames)
  BY <1>1
<1>3. QED
  BY <1>1, <1>2 DEF FramesAreTrue

LEMMA AppendIsTrue ==
  ASSUME NEW frames \in Seq(SessionFrame), NEW frame \in SessionFrame, NEW done,
         FramesAreTrue(frames, done),
         frame.kind = "CommandResult" => IsDone(frame.commandId, frame.result, done)
  PROVE  FramesAreTrue(Append(frames, frame), done)
<1>1. /\ Len(Append(frames, frame)) = Len(frames) + 1
      /\ Len(frames) \in Nat
      /\ Append(frames, frame)[Len(frames) + 1] = frame
      /\ \A p \in 1 .. Len(frames) : Append(frames, frame)[p] = frames[p]
  BY AppendProperties, LenProperties
<1>2. QED
  BY <1>1 DEF FramesAreTrue

LEMMA IssuedStays ==
  ASSUME NEW done, AsIssued(done, issued), issued \in Seq(Issue), MayIssue
  PROVE  AsIssued(done, issued')
<1>1. CASE issued' = issued
  BY <1>1
<1>2. ASSUME NEW issue \in Issue, issued' = Append(issued, issue)
      PROVE  AsIssued(done, issued')
  <2>1. /\ Len(issued') = Len(issued) + 1
        /\ Len(issued) \in Nat
        /\ \A i \in 1 .. Len(issued) : issued'[i] = issued[i]
    BY <1>2, AppendProperties, LenProperties
  <2>2. \A i \in 1 .. Len(issued) : i \in 1 .. Len(issued')
    BY <2>1
  <2>3. QED
    BY <2>1, <2>2 DEF AsIssued
<1>3. QED
  BY <1>1, <1>2 DEF MayIssue, Issues

-----------------------------------------------------------------------------
(* The gateway's steps *)

GatewayIsTrue ==
  BookIsTrue(nvs, effects) /\ BookIsTrue(book, effects) /\ FramesAreTrue(sessionFrames, effects)

LEMMA QueueCommandIsTrue ==
  ASSUME GatewayTypeOK, GatewayIsTrue, effects' = effects,
         NEW n \in NodeId, NEW value \in Count, QueueCommand(n, value)
  PROVE  GatewayIsTrue'
<1> DEFINE candidate == Queued(book, registry[n], n, value)
<1>1. registry[n] \in Device /\ book \in Book
  BY DEF GatewayTypeOK, QueueCommand, Active
<1>2. BookIsTrue(candidate, effects)
  BY <1>1, QueuedKeepsResults, ResultsFromTrueBook DEF QueueCommand, GatewayIsTrue
<1>3. CommitSaved(candidate) \/ CommitFailed(candidate)
  BY DEF QueueCommand
<1>4. sessionFrames' = sessionFrames
  BY DEF QueueCommand
<1> HIDE DEF candidate
<1>5. QED
  BY <1>2, <1>3, <1>4, CommitIsTrue DEF GatewayIsTrue

LEMMA WithoutCommitIsTrue ==
  ASSUME GatewayTypeOK, GatewayIsTrue, effects' = effects, NEW n,
         CommitSaved(Without(book, n)) \/ CommitFailed(Without(book, n)),
         sessionFrames' = sessionFrames
  PROVE  GatewayIsTrue'
<1>1. BookIsTrue(Without(book, n), effects)
  BY WithoutIsTrue DEF GatewayTypeOK, GatewayIsTrue
<1>2. QED
  BY <1>1, CommitIsTrue DEF GatewayIsTrue

\* The step that matters: the result recorded under a command is the frame's.
LEMMA RecordResultIsTrue ==
  ASSUME GatewayTypeOK, GatewayIsTrue, effects' = effects, RecordResult
  PROVE  GatewayIsTrue'
<1> DEFINE frame == Head(sessionFrames)
           candidate == Completed(book, frame.sender, frame.result)
<1>1. /\ sessionFrames \in Seq(SessionFrame)
      /\ sessionFrames # << >>
      /\ frame.kind = "CommandResult"
      /\ sessionFrames' = Tail(sessionFrames)
      /\ book \in Book
  BY DEF RecordResult, NextFrameIs, GatewayTypeOK
<1>2. frame = sessionFrames[1] /\ 1 \in 1 .. Len(sessionFrames)
  BY <1>1, EmptySeq, HeadTailProperties, LenProperties
<1>3. IsDone(frame.commandId, frame.result, effects)
  BY <1>1, <1>2 DEF GatewayIsTrue, FramesAreTrue
<1>4. HasRecord(book, frame.sender) /\ RecordOf(book, frame.sender).commandId = frame.commandId
  BY DEF RecordResult, Completes, CompleteStatus, IsPending
<1>5. BookIsTrue(candidate, effects)
  BY <1>1, <1>3, <1>4, CompletedIsTrue DEF GatewayIsTrue
<1>6. CommitSaved(candidate) \/ CommitFailed(candidate)
  BY DEF RecordResult
<1> HIDE DEF candidate
<1>7. BookIsTrue(nvs', effects) /\ BookIsTrue(book', effects)
  BY <1>5, <1>6, CommitIsTrue DEF GatewayIsTrue
<1>8. FramesAreTrue(sessionFrames', effects)
  BY <1>1, TailIsTrue DEF GatewayIsTrue
<1>9. QED
  BY <1>7, <1>8 DEF GatewayIsTrue

\* The commands task takes a frame and leaves the book alone.
LEMMA TakingIsTrue ==
  ASSUME GatewayTypeOK, GatewayIsTrue, effects' = effects, nvs' = nvs, book' = book,
         sessionFrames # << >>, sessionFrames' = Tail(sessionFrames)
  PROVE  GatewayIsTrue'
BY TailIsTrue DEF GatewayTypeOK, GatewayIsTrue

LEMMA GatewayRestsTrue ==
  ASSUME GatewayIsTrue, effects' = effects, nvs' = nvs, book' = book,
         sessionFrames' = sessionFrames
  PROVE  GatewayIsTrue'
BY DEF GatewayIsTrue

LEMMA GatewayStepIsTrue ==
  ASSUME GatewayTypeOK, GatewayIsTrue, effects' = effects, GatewayStep
  PROVE  GatewayIsTrue'
<1>1. ASSUME NEW n \in NodeId, NEW value \in Count, QueueCommand(n, value)
      PROVE  GatewayIsTrue'
  BY <1>1, QueueCommandIsTrue
<1>2. ASSUME NEW n \in NodeId, CancelCommand(n)
      PROVE  GatewayIsTrue'
  BY <1>2, WithoutCommitIsTrue DEF CancelCommand
<1>3. ASSUME NEW n \in NodeId, DeleteNode(n)
      PROVE  GatewayIsTrue'
  BY <1>3, GatewayRestsTrue DEF DeleteNode
<1>4. CASE DeleteRecord
  BY <1>4, WithoutCommitIsTrue, GatewayRestsTrue DEF DeleteRecord
<1>5. CASE CommandsTask
  <2>1. CASE RecordResult
    BY <2>1, RecordResultIsTrue
  <2>2. CASE AnswerEmptySession \/ ReadIdentity \/ DiscardResult
    BY <2>2, TakingIsTrue DEF AnswerEmptySession, ReadIdentity, DiscardResult, NextFrameIs
  <2>3. CASE DeliverCommand \/ WithholdCommand
    BY <2>3, GatewayRestsTrue DEF DeliverCommand, WithholdCommand
  <2>4. QED
    BY <1>5, <2>1, <2>2, <2>3 DEF CommandsTask
<1>6. CASE RestartGateway
  <2>1. nvs' = nvs /\ book' = nvs /\ sessionFrames' = << >>
    BY <1>6 DEF RestartGateway
  <2>2. FramesAreTrue(<< >>, effects)
    BY EmptySeq DEF FramesAreTrue
  <2>3. QED
    BY <2>1, <2>2 DEF GatewayIsTrue
<1>7. QED
  BY <1>1, <1>2, <1>3, <1>4, <1>5, <1>6 DEF GatewayStep

-----------------------------------------------------------------------------
(* The nodes' steps *)

\* A command is applied: the journal and the effects gain the same set_count.
LEMMA ReceiveCommandKeepsTruth ==
  ASSUME TruthInv, NEW d \in Device, ReceiveCommand(d)
  PROVE  GatewayIsTrue' /\ JournalsAreTrue' /\ AsIssued(effects', issued')
<1> DEFINE id == Head(radioSends).commandId
           value == Head(radioSends).count
           effect == [device |-> d, commandId |-> id, old |-> count[d], new |-> value]
<1>1. IInv
  BY DEF TruthInv
<1>2. HearCommand(d, id, value) /\ UNCHANGED gatewayVars
  BY DEF ReceiveCommand
<1>3. /\ IsCommandTo(config[d].nodeId, 1, radioSends)
      /\ id = radioSends[1].commandId
      /\ value = radioSends[1].count
  BY <1>1, CommandOnAir DEF ReceiveCommand
<1>4. config[d].nodeId \in NodeId
  BY <1>1, <1>2, SessionIsTyped DEF HearCommand, At, IInv, TypeOK
<1>5. FrameIsIssued(radioSends[1], issued)
  BY <1>1, <1>3, <1>4 DEF IInv, SendsInOrder, SentInOrder, IsCommandTo
<1>6. effects' = effects \cup {effect}
  BY <1>2 DEF HearCommand
<1>7. GatewayIsTrue'
  <2>1. nvs' = nvs /\ book' = book /\ sessionFrames' = sessionFrames
    BY <1>2 DEF gatewayVars
  <2>2. QED
    BY <1>6, <2>1, DoneStays DEF TruthInv, GatewayIsTrue
<1>8. JournalsAreTrue'
  <2>1. journal \in [Device -> RecordJournal \cup {EmptyJournal}]
    BY <1>1 DEF IInv, TypeOK, NodeTypeOK
  <2>2. ASSUME NEW e \in Device, journal'[e].commandId \in CommandId
        PROVE  [device |-> e, commandId |-> journal'[e].commandId,
                old |-> journal'[e].old, new |-> journal'[e].new] \in effects'
    <3>1. CASE e = d
      BY <1>2, <1>6, <2>1, <3>1 DEF HearCommand
    <3>2. CASE e # d
      <4>1. journal'[e] = journal[e]
        BY <1>2, <2>1, <3>2 DEF HearCommand
      <4>2. QED
        BY <1>6, <2>2, <4>1 DEF TruthInv, JournalsAreTrue
    <3>3. QED
      BY <3>1, <3>2
  <2>3. QED
    BY <2>2 DEF JournalsAreTrue
<1>9. AsIssued(effects', issued')
  <2>1. issued' = issued
    BY <1>2 DEF gatewayVars
  <2>2. \E i \in 1 .. Len(issued) : issued[i].commandId = id /\ issued[i].count = value
    BY <1>3, <1>5 DEF FrameIsIssued
  <2>3. QED
    BY <1>6, <2>1, <2>2 DEF TruthInv, AsIssued
<1>10. QED
  BY <1>7, <1>8, <1>9

\* What every other step of a node does to the effects and the journals.
KeepsJournals ==
  /\ effects' = effects
  /\ \A d \in Device : journal'[d].commandId \in CommandId =>
       /\ journal'[d].commandId = journal[d].commandId
       /\ journal'[d].old = journal[d].old
       /\ journal'[d].new = journal[d].new

LEMMA KeptJournalsAreTrue ==
  ASSUME JournalsAreTrue, KeepsJournals
  PROVE  JournalsAreTrue'
BY DEF JournalsAreTrue, KeepsJournals

LEMMA SameJournalsKeep ==
  ASSUME journal' = journal, effects' = effects
  PROVE  KeepsJournals
BY DEF KeepsJournals

LEMMA NodeStepKeepsJournals ==
  ASSUME NodeTypeOK, NEW d \in Device, NodeStep(d)
  PROVE  KeepsJournals
<1>1. CASE Pulse(d) \/ SaveCount(d) \/ ResetNode(d) \/ ResetNetwork(d)
  BY <1>1, SameJournalsKeep DEF Pulse, SaveCount, ResetNode, ResetNetwork
<1>2. CASE SaveApplied(d)
  <2>1. journal \in [Device -> RecordJournal \cup {EmptyJournal}]
    BY DEF NodeTypeOK
  <2>2. journal' = [journal EXCEPT ![d].status = "Applied"] /\ effects' = effects
    BY <1>2 DEF SaveApplied
  <2>3. \A e \in Device : /\ journal'[e].commandId = journal[e].commandId
                          /\ journal'[e].old = journal[e].old
                          /\ journal'[e].new = journal[e].new
    BY <2>1, <2>2 DEF RecordJournal, EmptyJournal
  <2>4. QED
    BY <2>2, <2>3 DEF KeepsJournals
<1>3. CASE ForgetCommandIds(d)
  BY <1>3 DEF ForgetCommandIds, KeepsJournals, NodeTypeOK, CommandId, NoCommandId
<1>4. QED
  BY <1>1, <1>2, <1>3 DEF NodeStep

\* The result a node sends is the one its journal keeps.
LEMMA ResultHeardKeepsTruth ==
  ASSUME TruthInv, NEW d \in Device, ResultHeard(d)
  PROVE  GatewayIsTrue' /\ KeepsJournals
<1>1. NodeTypeOK /\ PlaceOK /\ GatewayTypeOK
  BY DEF TruthInv, IInv, TypeOK
<1>2. PICK acknowledged \in BOOLEAN : SendResult(d, acknowledged) /\ QueueFrame(ResultOf(d))
  BY DEF ResultHeard
<1>3. pc[d] = "answer" /\ journal[d].commandId \in CommandId
  BY <1>1, <1>2 DEF SendResult, At, PlaceOK
<1>4. ResultOf(d) \in SessionFrame
  BY <1>1, <1>3, ResultIsFrame
<1>5. IsDone(ResultOf(d).commandId, ResultOf(d).result, effects)
  BY <1>3 DEF TruthInv, JournalsAreTrue, IsDone, ResultOf, StoredResult
<1>6. FramesAreTrue(Append(sessionFrames, ResultOf(d)), effects)
  BY <1>1, <1>4, <1>5, AppendIsTrue DEF TruthInv, GatewayTypeOK
<1>7. effects' = effects /\ journal' = journal
  BY <1>2 DEF SendResult
<1>8. GatewayIsTrue'
  BY <1>2, <1>6, <1>7 DEF QueueFrame, TruthInv, GatewayIsTrue
<1>9. QED
  BY <1>7, <1>8, SameJournalsKeep

LEMMA ReadyHeardKeepsTruth ==
  ASSUME TruthInv, NEW d \in Device, ReadyHeard(d)
  PROVE  GatewayIsTrue' /\ KeepsJournals
<1>1. NodeTypeOK /\ PlaceOK /\ GatewayTypeOK
  BY DEF TruthInv, IInv, TypeOK
<1>2. SendReady(d) /\ QueueFrame(Ready(d))
  BY DEF ReadyHeard
<1>3. Ready(d) \in SessionFrame /\ Ready(d).kind # "CommandResult"
  BY <1>1, <1>2, SessionIsTyped DEF SendReady, At, Ready, SessionFrame, ReadyFrame
<1>4. FramesAreTrue(Append(sessionFrames, Ready(d)), effects)
  BY <1>1, <1>3, AppendIsTrue DEF TruthInv, GatewayTypeOK
<1>5. effects' = effects /\ journal' = journal
  BY <1>2 DEF SendReady
<1>6. GatewayIsTrue'
  BY <1>2, <1>4, <1>5 DEF QueueFrame, TruthInv, GatewayIsTrue
<1>7. QED
  BY <1>5, <1>6, SameJournalsKeep

-----------------------------------------------------------------------------
LEMMA InitIsTrue == Init => TruthInv
<1> SUFFICES ASSUME Init PROVE TruthInv
  OBVIOUS
<1>1. IInv
  BY InitIsIInv
<1>2. book.records = << >> /\ nvs.records = << >> /\ sessionFrames = << >>
  BY DEF Init, GatewayInit
<1>3. Len(<< >>) = 0
  BY EmptySeq
<1>4. GatewayIsTrue
  BY <1>2, <1>3 DEF GatewayIsTrue, BookIsTrue, FramesAreTrue, Positions
<1>5. JournalsAreTrue /\ AsIssued(effects, issued)
  BY DEF Init, NodeInit, JournalsAreTrue, AsIssued, EmptyJournal, NoCommandId, CommandId
<1>6. QED
  BY <1>1, <1>4, <1>5 DEF TruthInv, GatewayIsTrue

LEMMA NextKeepsTruth == TruthInv /\ [Next]_vars => TruthInv'
<1> SUFFICES ASSUME TruthInv, [Next]_vars PROVE TruthInv'
  OBVIOUS
<1>1. IInv /\ IInv' /\ GatewayTypeOK /\ NodeTypeOK /\ BookInOrder /\ GatewayIsTrue
  BY NextKeepsIInv DEF TruthInv, IInv, TypeOK, GatewayIsTrue
<1>2. SUFFICES GatewayIsTrue' /\ JournalsAreTrue' /\ AsIssued(effects', issued')
  BY <1>1 DEF TruthInv, GatewayIsTrue
<1>3. ASSUME GatewayIsTrue', KeepsJournals, MayIssue
      PROVE  GatewayIsTrue' /\ JournalsAreTrue' /\ AsIssued(effects', issued')
  BY <1>1, <1>3, KeptJournalsAreTrue, IssuedStays DEF KeepsJournals, TruthInv, GatewayTypeOK
<1>4. ASSUME UNCHANGED gatewayVars, KeepsJournals
      PROVE  GatewayIsTrue' /\ JournalsAreTrue' /\ AsIssued(effects', issued')
  BY <1>1, <1>3, <1>4, GatewayRestsTrue DEF gatewayVars, KeepsJournals, MayIssue
<1>5. CASE GatewayStep /\ UNCHANGED nodeVars
  <2>1. KeepsJournals
    BY <1>5, SameJournalsKeep DEF nodeVars
  <2>2. MayIssue
    BY <1>1, <1>5, GatewayStepSendsOrIssues DEF SendsOrIssues, MayIssue
  <2>3. GatewayIsTrue'
    BY <1>1, <1>5, GatewayStepIsTrue DEF nodeVars
  <2>4. QED
    BY <1>3, <2>1, <2>2, <2>3
<1>6. CASE EndTransmission /\ UNCHANGED nodeVars
  BY <1>1, <1>3, <1>6, GatewayRestsTrue, SameJournalsKeep DEF EndTransmission, nodeVars, MayIssue
<1>7. ASSUME NEW d \in Device, NodeStep(d), UNCHANGED gatewayVars
      PROVE  GatewayIsTrue' /\ JournalsAreTrue' /\ AsIssued(effects', issued')
  BY <1>1, <1>4, <1>7, NodeStepKeepsJournals
<1>8. ASSUME NEW d \in Device,
             \/ \E nonce \in Nonce : OpenSession(d, nonce)
             \/ ReadyLost(d) \/ WindowCloses(d) \/ ReceiveNoCommand(d)
             \/ ReceiveRedelivery(d) \/ ReceiveStale(d) \/ ResultLost(d) \/ JoinCompletes(d)
      PROVE  GatewayIsTrue' /\ JournalsAreTrue' /\ AsIssued(effects', issued')
  <2>1. UNCHANGED gatewayVars /\ journal' = journal /\ effects' = effects
    BY <1>8 DEF OpenSession, StartSession, ReadyLost, SendReady, WindowCloses, AttemptOver,
                ReceiveNoCommand, HearNoCommand, ReceiveRedelivery, HearRedelivery,
                ReceiveStale, ResultLost, SendResult, JoinCompletes, Activate
  <2>2. QED
    BY <1>4, <2>1, SameJournalsKeep
<1>9. ASSUME NEW d \in Device, ReadyHeard(d) \/ ResultHeard(d)
      PROVE  GatewayIsTrue' /\ JournalsAreTrue' /\ AsIssued(effects', issued')
  <2>1. GatewayIsTrue' /\ KeepsJournals
    BY <1>9, ReadyHeardKeepsTruth, ResultHeardKeepsTruth
  <2>2. MayIssue
    BY <1>9 DEF ReadyHeard, ResultHeard, QueueFrame, MayIssue
  <2>3. QED
    BY <1>3, <2>1, <2>2
<1>10. ASSUME NEW d \in Device, ReceiveCommand(d)
       PROVE  GatewayIsTrue' /\ JournalsAreTrue' /\ AsIssued(effects', issued')
  BY <1>10, ReceiveCommandKeepsTruth
<1>11. ASSUME NEW d \in Device, NEW n \in NodeId, Join(n, d)
       PROVE  GatewayIsTrue' /\ JournalsAreTrue' /\ AsIssued(effects', issued')
  BY <1>1, <1>3, <1>11, GatewayRestsTrue, SameJournalsKeep
     DEF Join, ConfirmNode, Provision, MayIssue
<1>12. CASE UNCHANGED vars
  BY <1>4, <1>12, SameJournalsKeep DEF vars, nodeVars
<1>13. QED
  BY <1>5, <1>6, <1>7, <1>8, <1>9, <1>10, <1>11, <1>12 DEF Next

\* The command a record is about was issued once, with one count.
LEMMA TruthInvIsTruth == TruthInv => ResultIsTruth
<1> SUFFICES ASSUME TruthInv, NEW i \in Positions(book),
                    book.records[i].result.status = "applied"
             PROVE  /\ book.records[i].result.data.new = book.records[i].count
                    /\ IsDone(book.records[i].commandId, book.records[i].result, effects)
  BY DEF ResultIsTruth, IsDone
<1> DEFINE record == book.records[i]
<1>1. PICK d \in Device :
        [device |-> d, commandId |-> record.commandId, old |-> record.result.data.old,
         new |-> record.result.data.new] \in effects
  BY DEF TruthInv, BookIsTrue, IsDone
<1>2. PICK j \in 1 .. Len(issued) :
        issued[j].commandId = record.commandId /\ issued[j].count = record.result.data.new
  BY <1>1 DEF TruthInv, AsIssued
<1>3. IsLatest(record, issued) /\ IdsDiffer(issued)
  BY DEF TruthInv, IInv, BookInOrder, InOrder
<1>4. PICK k \in 1 .. Len(issued) :
        issued[k].commandId = record.commandId /\ issued[k].count = record.count
  BY <1>3 DEF IsLatest, IssuedAs
<1>5. j = k
  BY <1>2, <1>3, <1>4 DEF IdsDiffer
<1>6. QED
  BY <1>1, <1>2, <1>4, <1>5 DEF IsDone

\* Every applied result the gateway ever records is a set_count that was done
\* for that command, with the count the user asked for, whatever is lost, late
\* or repeated and whoever restarts (handleCommandResult, CommandBook::complete).
THEOREM ResultsAreTrue == Spec => []ResultIsTruth
<1>1. Spec => []TruthInv
  BY InitIsTrue, NextKeepsTruth, PTL DEF Spec
<1>2. QED
  BY <1>1, TruthInvIsTruth, PTL

-----------------------------------------------------------------------------
(* The composition implements OneShotCommand.  A saved Pending result is    *)
(* the one step in which OneShotCommand applies a command; what the gateway *)
(* does is asking and showing results; everything else is a stutter.        *)

\* SavesInv is about one device at a time, and about three of its variables.
Saves(d) ==
  /\ journal[d].status = "Pending" => pc[d] \in {"saveCount", "saveApplied"}
  /\ pc[d] = "saveApplied" => count[d] = journal[d].new

LEMMA SavesOfOthers ==
  ASSUME SavesInv, NEW d \in Device, Saves(d)',
         \A e \in Device \ {d} :
           journal'[e] = journal[e] /\ pc'[e] = pc[e] /\ count'[e] = count[e]
  PROVE  SavesInv'
BY DEF SavesInv, Saves

LEMMA SavesRest ==
  ASSUME SavesInv, journal' = journal, pc' = pc, count' = count
  PROVE  SavesInv'
BY DEF SavesInv

\* A step of device d's loop that saves nothing, and does not leave a save undone.
LEMMA LoopKeepsSaves ==
  ASSUME NodeTypeOK, SavesInv, NEW d \in Device, NEW place \in Places \ {"saveApplied"},
         pc[d] \notin {"saveCount", "saveApplied"}, journal' = journal,
         pc' = pc \/ Goto(d, place),
         count' = [count EXCEPT ![d] = count'[d]]
  PROVE  SavesInv'
<1>1. Saves(d)'
  BY DEF NodeTypeOK, SavesInv, Saves, Goto
<1>2. \A e \in Device \ {d} :
        journal'[e] = journal[e] /\ pc'[e] = pc[e] /\ count'[e] = count[e]
  BY DEF NodeTypeOK, Goto
<1>3. QED
  BY <1>1, <1>2, SavesOfOthers

LEMMA RebootKeepsSaves ==
  ASSUME NodeTypeOK, SavesInv, NEW d \in Device, Reboot(d), journal' = journal, count' = count
  PROVE  SavesInv'
<1>1. Saves(d)'
  BY DEF NodeTypeOK, SavesInv, Saves, Reboot, Goto
<1>2. \A e \in Device \ {d} :
        journal'[e] = journal[e] /\ pc'[e] = pc[e] /\ count'[e] = count[e]
  BY DEF NodeTypeOK, Reboot, Goto
<1>3. QED
  BY <1>1, <1>2, SavesOfOthers

LEMMA NodeStepKeepsSaves ==
  ASSUME NodeTypeOK, SavesInv, NEW d \in Device, NodeStep(d)
  PROVE  SavesInv'
<1>1. CASE Pulse(d)
  BY <1>1, LoopKeepsSaves DEF Pulse, At, Places, NodeTypeOK
<1>2. CASE SaveCount(d)
  <2>1. Saves(d)'
    BY <1>2 DEF NodeTypeOK, Saves, SaveCount, Goto
  <2>2. \A e \in Device \ {d} :
          journal'[e] = journal[e] /\ pc'[e] = pc[e] /\ count'[e] = count[e]
    BY <1>2 DEF NodeTypeOK, SaveCount, Goto
  <2>3. QED
    BY <2>1, <2>2, SavesOfOthers
<1>3. CASE SaveApplied(d)
  <2>1. journal'[d].status = "Applied" /\ pc'[d] \in {"answer", "idle"}
    BY <1>3 DEF NodeTypeOK, SaveApplied, EndSession, Goto, RecordJournal, EmptyJournal
  <2>2. Saves(d)'
    BY <2>1 DEF Saves
  <2>3. \A e \in Device \ {d} :
          journal'[e] = journal[e] /\ pc'[e] = pc[e] /\ count'[e] = count[e]
    BY <1>3 DEF NodeTypeOK, SaveApplied, EndSession, Goto
  <2>4. QED
    BY <2>2, <2>3, SavesOfOthers
<1>4. CASE ResetNode(d) \/ ResetNetwork(d)
  BY <1>4, RebootKeepsSaves DEF ResetNode, ResetNetwork
<1>5. CASE ForgetCommandIds(d)
  <2>1. journal'[d].status # "Pending" /\ pc'[d] = "idle"
    BY <1>5 DEF NodeTypeOK, SavesInv, ForgetCommandIds, At, Goto
  <2>2. Saves(d)'
    BY <2>1 DEF Saves
  <2>3. \A e \in Device \ {d} :
          journal'[e] = journal[e] /\ pc'[e] = pc[e] /\ count'[e] = count[e]
    BY <1>5 DEF NodeTypeOK, ForgetCommandIds, Goto
  <2>4. QED
    BY <2>2, <2>3, SavesOfOthers
<1>6. QED
  BY <1>1, <1>2, <1>3, <1>4, <1>5 DEF NodeStep

LEMMA ReceiveCommandKeepsSaves ==
  ASSUME NodeTypeOK, SavesInv, NEW d \in Device, ReceiveCommand(d)
  PROVE  SavesInv'
<1>1. Saves(d)'
  BY DEF NodeTypeOK, Saves, ReceiveCommand, HearCommand, Goto
<1>2. \A e \in Device \ {d} :
        journal'[e] = journal[e] /\ pc'[e] = pc[e] /\ count'[e] = count[e]
  BY DEF NodeTypeOK, ReceiveCommand, HearCommand, Goto
<1>3. QED
  BY <1>1, <1>2, SavesOfOthers

\* The steps of a session, and of commissioning, that only move the node's loop.
OnlyMoves(d) ==
  \/ \E nonce \in Nonce : OpenSession(d, nonce)
  \/ ReadyHeard(d) \/ ReadyLost(d) \/ WindowCloses(d)
  \/ ReceiveNoCommand(d) \/ ReceiveRedelivery(d) \/ ReceiveStale(d)
  \/ ResultHeard(d) \/ ResultLost(d)
  \/ \E n \in NodeId : Join(n, d)

LEMMA MovesKeepSaves ==
  ASSUME NodeTypeOK, SavesInv, NEW d \in Device, OnlyMoves(d) \/ JoinCompletes(d)
  PROVE  SavesInv'
<1>1. /\ pc[d] \notin {"saveCount", "saveApplied"}
      /\ journal' = journal
      /\ count' = count
  BY DEF OnlyMoves, OpenSession, StartSession, ReadyHeard, ReadyLost, SendReady, WindowCloses,
         AttemptOver, ReceiveNoCommand, HearNoCommand, ReceiveRedelivery, HearRedelivery,
         ReceiveStale, ResultHeard, ResultLost, SendResult, Join, Provision, JoinCompletes,
         Activate, At
<1>2. \E place \in Places \ {"saveApplied"} : pc' = pc \/ Goto(d, place)
  BY DEF OnlyMoves, OpenSession, StartSession, ReadyHeard, ReadyLost, SendReady, WindowCloses,
         AttemptOver, ReceiveNoCommand, HearNoCommand, ReceiveRedelivery, HearRedelivery,
         ReceiveStale, ResultHeard, ResultLost, SendResult, Join, Provision, JoinCompletes,
         Activate, EndSession, Places
<1>3. count' = [count EXCEPT ![d] = count'[d]]
  BY <1>1 DEF NodeTypeOK
<1>4. QED
  BY <1>1, <1>2, <1>3, LoopKeepsSaves

LEMMA NextKeepsSaves == NodeTypeOK /\ SavesInv /\ [Next]_vars => SavesInv'
<1> SUFFICES ASSUME NodeTypeOK, SavesInv, [Next]_vars PROVE SavesInv'
  OBVIOUS
<1>1. CASE UNCHANGED nodeVars
  BY <1>1, SavesRest DEF nodeVars
<1>2. ASSUME NEW d \in Device, NodeStep(d) \/ ReceiveCommand(d) \/ OnlyMoves(d) \/ JoinCompletes(d)
      PROVE  SavesInv'
  BY <1>2, NodeStepKeepsSaves, ReceiveCommandKeepsSaves, MovesKeepSaves
<1>3. QED
  BY <1>1, <1>2 DEF Next, vars, OnlyMoves

-----------------------------------------------------------------------------
(* The refinement, action by action *)

LEMMA EffectsAreReported ==
  ASSUME NEW b, b.records \in Seq(Record), NEW done, BookIsTrue(b, done)
  PROVE  {[commandId |-> r.commandId, old |-> r.result.data.old, new |-> r.result.data.new] :
            r \in {s \in Range(b.records) : s.result.status = "applied"}}
           \subseteq {OneShot!Reported(e) : e \in done}
<1> SUFFICES ASSUME NEW r \in Range(b.records), r.result.status = "applied"
             PROVE  [commandId |-> r.commandId, old |-> r.result.data.old,
                     new |-> r.result.data.new] \in {OneShot!Reported(e) : e \in done}
  OBVIOUS
<1>1. PICK p \in Positions(b) : b.records[p] = r
  BY LenProperties DEF Range, Positions
<1>2. PICK d \in Device :
        [device |-> d, commandId |-> r.commandId, old |-> r.result.data.old,
         new |-> r.result.data.new] \in done
  BY <1>1 DEF BookIsTrue, IsDone
<1>3. QED
  BY <1>2 DEF OneShot!Reported

\* Whatever the gateway does with a book that stays true is asking and showing.
LEMMA GatewayAsks ==
  ASSUME TruthInv, TruthInv', UNCHANGED nodeVars, MayIssue
  PROVE  OneShot!Ask
<1>1. /\ issued \in Seq(Issue) /\ issued' \in Seq(Issue)
      /\ IdsDiffer(issued')
  BY DEF TruthInv, IInv, TypeOK, GatewayTypeOK, BookInOrder, InOrder
<1>2. Requests' \subseteq OneShot!Request
  <2>1. \A i \in 1 .. Len(issued') : issued'[i] \in Issue
    BY <1>1, ElementOfSeq
  <2>2. Requests' = {[commandId |-> issued'[i].commandId, count |-> issued'[i].count] :
                       i \in 1 .. Len(issued')}
    BY DEF Requests
  <2>3. OneShot!Request = [commandId : CommandId, count : Count]
    BY CountLimitAssumption DEF OneShot!Request, OneShot!CounterValue
  <2>4. QED
    BY <2>1, <2>2, <2>3 DEF Issue
<1>3. /\ Len(issued) \in Nat /\ Len(issued') \in Nat /\ Len(issued) <= Len(issued')
      /\ \A i \in 1 .. Len(issued) : issued'[i] = issued[i]
  BY <1>1, AppendProperties, LenProperties DEF MayIssue, Issues
<1>4. Requests \subseteq Requests'
  BY <1>3 DEF Requests
<1>5. \A new \in Requests' \ Requests, other \in Requests' :
        new.commandId = other.commandId => new = other
  BY <1>1 DEF Requests, IdsDiffer
<1>6. Outcomes' \subseteq {OneShot!Reported(e) : e \in effects}
  <2>1. book'.records \in Seq(Record) /\ BookIsTrue(book', effects)
    BY DEF TruthInv, IInv, TypeOK, GatewayTypeOK, Book, nodeVars
  <2>2. QED
    BY <2>1, EffectsAreReported DEF Outcomes
<1>7. UNCHANGED <<Settled, spent, effects>>
  BY DEF Settled, nodeVars
<1>8. QED
  BY <1>2, <1>4, <1>5, <1>6, <1>7 DEF OneShot!Ask

\* Users see the same book while a device works.
LEMMA SameToUsers ==
  ASSUME issued' = issued, book' = book
  PROVE  UNCHANGED <<Requests, Outcomes>>
BY DEF Requests, Outcomes

\* Device d's settled counter, as the saves of its loop leave it.
LEMMA SettledElsewhere ==
  ASSUME NodeTypeOK, NEW d \in Device,
         \A e \in Device \ {d} : journal'[e] = journal[e] /\ count'[e] = count[e]
  PROVE  Settled' = [Settled EXCEPT ![d] = Settled'[d]]
BY DEF Settled

LEMMA PulseImplements ==
  ASSUME NodeTypeOK, SavesInv, NEW d \in Device, Pulse(d), UNCHANGED gatewayVars
  PROVE  OneShot!Pulse(d)
<1>1. journal[d].status # "Pending" /\ journal' = journal
  BY DEF SavesInv, Pulse, At
<1>2. Settled[d] = count[d] /\ Settled'[d] = (count[d] + 1) % CountLimit
  BY <1>1 DEF NodeTypeOK, Settled, Pulse
<1>3. Settled' = [Settled EXCEPT ![d] = (@ + 1) % CountLimit]
  <2>1. \A e \in Device \ {d} : journal'[e] = journal[e] /\ count'[e] = count[e]
    BY <1>1 DEF NodeTypeOK, Pulse
  <2>2. QED
    BY <1>2, <2>1, SettledElsewhere
<1>4. UNCHANGED <<Requests, Outcomes>>
  BY SameToUsers DEF gatewayVars
<1>5. QED
  BY <1>3, <1>4 DEF OneShot!Pulse, Pulse

\* The save of a Pending result applies the command, once.
LEMMA ReceiveCommandImplements ==
  ASSUME TruthInv, SavesInv, NEW d \in Device, ReceiveCommand(d)
  PROVE  \E request \in Requests : OneShot!Apply(d, request)
<1> DEFINE id == Head(radioSends).commandId
           value == Head(radioSends).count
           request == [commandId |-> id, count |-> value]
<1>1. IInv /\ NodeTypeOK /\ HearCommand(d, id, value) /\ UNCHANGED gatewayVars
  BY DEF TruthInv, IInv, TypeOK, ReceiveCommand
<1>2. request \in Requests
  <2>1. /\ config[d].nodeId \in NodeId
        /\ IsCommandTo(config[d].nodeId, 1, radioSends)
        /\ Head(radioSends) = radioSends[1]
    BY <1>1, CommandOnAir, SessionIsTyped DEF ReceiveCommand, HearCommand, At, IInv, TypeOK
  <2>2. FrameIsIssued(radioSends[1], issued)
    BY <1>1, <2>1 DEF IInv, SendsInOrder, SentInOrder, IsCommandTo
  <2>3. QED
    BY <2>1, <2>2 DEF FrameIsIssued, Requests
<1>3. id \notin spent[d]
  BY <1>1, ReceivedCommandIsNotSpent
<1>4. Settled[d] = count[d] /\ Settled'[d] = value
  <2>1. journal[d].status # "Pending"
    BY <1>1 DEF SavesInv, HearCommand, At
  <2>2. QED
    BY <1>1, <2>1 DEF NodeTypeOK, Settled, HearCommand
<1>5. Settled' = [Settled EXCEPT ![d] = value]
  <2>1. \A e \in Device \ {d} : journal'[e] = journal[e] /\ count'[e] = count[e]
    BY <1>1 DEF NodeTypeOK, HearCommand
  <2>2. QED
    BY <1>1, <1>4, <2>1, SettledElsewhere
<1>6. /\ spent' = [spent EXCEPT ![d] = @ \cup {id}]
      /\ effects' = effects \cup {[device |-> d, commandId |-> id, old |-> count[d],
                                   new |-> value]}
  BY <1>1 DEF HearCommand
<1>7. UNCHANGED <<Requests, Outcomes>>
  BY <1>1, SameToUsers DEF gatewayVars
<1>8. OneShot!Apply(d, request)
  BY <1>3, <1>4, <1>5, <1>6, <1>7 DEF OneShot!Apply
<1>9. QED
  BY <1>2, <1>8

LEMMA JoinCompletesImplements ==
  ASSUME NEW d \in Device, JoinCompletes(d)
  PROVE  OneShot!Commission(d)
<1>1. UNCHANGED <<Requests, Outcomes>>
  BY SameToUsers DEF JoinCompletes, gatewayVars
<1>2. UNCHANGED <<Settled, effects>> /\ spent' = [spent EXCEPT ![d] = {}]
  BY DEF JoinCompletes, Activate, Settled
<1>3. QED
  BY <1>1, <1>2 DEF OneShot!Commission

\* Two more saves, resets and a cleared journal leave the settled counter alone.
LEMMA SaveStutters ==
  ASSUME NodeTypeOK, SavesInv, PlaceOK, NEW d \in Device, NodeStep(d), ~Pulse(d),
         UNCHANGED gatewayVars
  PROVE  UNCHANGED OneShot!vars
<1>1. UNCHANGED <<Requests, Outcomes>>
  BY SameToUsers DEF gatewayVars
<1>2. UNCHANGED <<effects, spent>>
  BY DEF NodeStep, SaveCount, SaveApplied, ResetNode, ResetNetwork, ForgetCommandIds
<1>3. \A e \in Device \ {d} : journal'[e] = journal[e] /\ count'[e] = count[e]
  BY DEF NodeTypeOK, NodeStep, SaveCount, SaveApplied, ResetNode, ResetNetwork, ForgetCommandIds
<1>4. Settled'[d] = Settled[d]
  <2>1. CASE SaveCount(d)
    BY <2>1 DEF NodeTypeOK, PlaceOK, Settled, SaveCount, At
  <2>2. CASE SaveApplied(d)
    BY <2>2 DEF NodeTypeOK, PlaceOK, SavesInv, Settled, SaveApplied, At, RecordJournal, EmptyJournal
  <2>3. CASE ResetNode(d) \/ ResetNetwork(d)
    BY <2>3 DEF Settled, ResetNode, ResetNetwork
  <2>4. CASE ForgetCommandIds(d)
    BY <2>4 DEF NodeTypeOK, SavesInv, Settled, ForgetCommandIds, At
  <2>5. QED
    BY <2>1, <2>2, <2>3, <2>4 DEF NodeStep
<1>5. Settled' = Settled
  BY <1>3, <1>4, SettledElsewhere DEF Settled
<1>6. QED
  BY <1>1, <1>2, <1>5 DEF OneShot!vars

LEMMA MoveStutters ==
  ASSUME NEW d \in Device, OnlyMoves(d)
  PROVE  UNCHANGED OneShot!vars
<1>1. /\ UNCHANGED <<journal, count, effects, spent>>
      /\ UNCHANGED <<issued, book>>
  BY DEF OnlyMoves, OpenSession, StartSession, ReadyHeard, ReadyLost, SendReady, WindowCloses,
         AttemptOver, ReceiveNoCommand, HearNoCommand, ReceiveRedelivery, HearRedelivery,
         ReceiveStale, ResultHeard, ResultLost, SendResult, Join, Provision, ConfirmNode,
         QueueFrame, gatewayVars
<1>2. QED
  BY <1>1, SameToUsers DEF OneShot!vars, Settled

LEMMA InitImplements == Init => OneShot!Init
<1> SUFFICES ASSUME Init PROVE OneShot!Init
  OBVIOUS
<1>1. Settled = [d \in Device |-> 0]
  BY DEF Init, NodeInit, Settled, EmptyJournal
<1>2. Requests = {} /\ Outcomes = {}
  BY EmptySeq DEF Init, GatewayInit, Requests, Outcomes, Range
<1>3. QED
  BY <1>1, <1>2 DEF OneShot!Init, Init, NodeInit

LEMMA NextImplements ==
  TruthInv /\ TruthInv' /\ SavesInv /\ [Next]_vars => [OneShot!Next]_OneShot!vars
<1> SUFFICES ASSUME TruthInv, TruthInv', SavesInv, [Next]_vars
             PROVE  OneShot!Next \/ UNCHANGED OneShot!vars
  OBVIOUS
<1>1. NodeTypeOK /\ PlaceOK /\ GatewayTypeOK /\ BookInOrder
  BY DEF TruthInv, IInv, TypeOK
<1>2. CASE (GatewayStep \/ EndTransmission) /\ UNCHANGED nodeVars
  <2>1. MayIssue
    BY <1>1, <1>2, GatewayStepSendsOrIssues DEF SendsOrIssues, MayIssue, EndTransmission
  <2>2. QED
    BY <1>2, <2>1, GatewayAsks DEF OneShot!Next
<1>3. ASSUME NEW d \in Device, NodeStep(d), UNCHANGED gatewayVars
      PROVE  OneShot!Next \/ UNCHANGED OneShot!vars
  BY <1>1, <1>3, PulseImplements, SaveStutters DEF OneShot!Next
<1>4. ASSUME NEW d \in Device, ReceiveCommand(d)
      PROVE  OneShot!Next
  BY <1>4, ReceiveCommandImplements DEF OneShot!Next
<1>5. ASSUME NEW d \in Device, JoinCompletes(d)
      PROVE  OneShot!Next
  BY <1>5, JoinCompletesImplements DEF OneShot!Next
<1>6. ASSUME NEW d \in Device, OnlyMoves(d)
      PROVE  UNCHANGED OneShot!vars
  BY <1>6, MoveStutters
<1>7. CASE UNCHANGED vars
  BY <1>7, SameToUsers DEF vars, gatewayVars, nodeVars, OneShot!vars, Settled
<1>8. QED
  BY <1>2, <1>3, <1>4, <1>5, <1>6, <1>7 DEF Next, OnlyMoves

LEMMA SavesInvariance == Spec => [](TruthInv /\ SavesInv)
<1>1. Init => TruthInv /\ SavesInv
  BY InitIsTrue DEF Init, NodeInit, SavesInv, EmptyJournal
<1>2. TruthInv /\ SavesInv /\ [Next]_vars => (TruthInv /\ SavesInv)'
  BY NextKeepsTruth, NextKeepsSaves DEF TruthInv, IInv, TypeOK
<1>3. QED
  BY <1>1, <1>2, PTL DEF Spec

\* Sessions, queues, lost and repeated frames, two-step saves, failed writes and
\* restarts of both sides add up to OneShotCommand, for any number of nodes,
\* devices and commands: each command sets a device's counter in one step, at most
\* once between two commissionings, to the value asked for, and what the gateway
\* shows was done (SetCountJournal::apply, CommandService.cpp).
THEOREM SessionsImplementOneShot == Spec => ImplementsOneShot
<1>1. Spec => [](TruthInv /\ SavesInv)
  BY SavesInvariance
<1>2. QED
  BY <1>1, InitImplements, NextImplements, PTL DEF Spec, ImplementsOneShot, OneShot!Spec

=============================================================================
