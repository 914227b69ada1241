----------------------------- MODULE MCBdaClient -----------------------------
(* The functions of the BDA client: documents of two fields, two columns   *)
(* and up to two rows; outputs of up to three keys or up to two            *)
(* segments; and a polling.  One of the three varies at a time.            *)
EXTENDS BdaParse, BdaOutput, BdaPolling

CONSTANTS f1, f2, c1, c2

SomeDocument ==
    [shapes |-> [f \in Fields |-> [kind |-> "scalar", rows |-> 0]],
     form |-> [path \in {<<f>> : f \in Fields} |-> "value"], as |-> "dict"]

SomeOutput == CHOOSE o \in Outputs : TRUE

Polled == [pc |-> "answered", now |-> 0, begun |-> 0, ends |-> 0, limited |-> TRUE, idx |-> 0]

MCInit == \/ ParseInit /\ output = SomeOutput /\ poll = Polled
          \/ OutputInit /\ doc = SomeDocument /\ poll = Polled
          \/ PollingInit /\ doc = SomeDocument /\ output = SomeOutput

MCNext == PollingNext /\ UNCHANGED <<doc, output>>

MCSpec == MCInit /\ [][MCNext]_<<doc, output, poll>>
=============================================================================
