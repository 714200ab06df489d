------------------------- MODULE MCGatewayEnvironment -------------------------
(* GatewayEnvironment with the definitions its configuration needs. *)
EXTENDS GatewayEnvironment

DeviceSymmetry == Permutations(Device)

\* Bound: nodes report results that complete commands only.
CompletionsOnly ==
  \A i \in 1 .. Len(sessionFrames) :
    sessionFrames[i].kind = "CommandResult" =>
      sessionFrames[i].result.status = "applied" /\ HasExpectedData(sessionFrames[i].result)

\* Bound: commands are queued once all commissionings are over.
RegisteredFirst == issued # << >> => Len(confirmed) = MaxConfirms

\* Bound: no node opens a session after a fault.
NoSessionAfterFault == faults > 0 => sessionFrames = << >> /\ radioSends = << >>

=============================================================================
