--------------------------- MODULE SignalingRelay ---------------------------
(***************************************************************************)
(* What the call signaling path promises TDLib, without locks, drains or   *)
(* notifications: at most one session is open at a time; the packets its   *)
(* instance emits are relayed, in order and exactly once, under the call   *)
(* the session was opened for, while TdClient is authorized; closing the   *)
(* session drops those still waiting; none waits for ever.                 *)
(***************************************************************************)
EXTENDS Sequences, Naturals

CONSTANTS Calls, Instances, Packets

VARIABLES open, owner, waiting, authorized, out

relayVars == <<open, owner, waiting, authorized, out>>

Init ==
  /\ open = {}
  /\ owner \in [Instances -> Calls \cup {"none"}]
  /\ waiting = [i \in Instances |-> <<>>]
  /\ authorized = TRUE
  /\ out = <<>>

Open(i, call) ==
  /\ open = {}
  /\ open' = {i}
  /\ owner' = [owner EXCEPT ![i] = call]
  /\ waiting' = [waiting EXCEPT ![i] = <<>>]
  /\ UNCHANGED <<authorized, out>>

Emit(i, p) ==
  /\ i \in open
  /\ waiting' = [waiting EXCEPT ![i] = Append(@, p)]
  /\ UNCHANGED <<open, owner, authorized, out>>

\* All that waits goes out at once; without authorization it is lost.
Relay(i) ==
  /\ i \in open /\ waiting[i] # <<>>
  /\ waiting' = [waiting EXCEPT ![i] = <<>>]
  /\ out' = IF authorized
            THEN out \o [n \in DOMAIN waiting[i] |->
                   [call |-> owner[i], instance |-> i, packet |-> waiting[i][n]]]
            ELSE out
  /\ UNCHANGED <<open, owner, authorized>>

Close(i) ==
  /\ i \in open
  /\ open' = open \ {i}
  /\ waiting' = [waiting EXCEPT ![i] = <<>>]
  /\ UNCHANGED <<owner, authorized, out>>

LoseAuthorization ==
  /\ authorized' = FALSE
  /\ UNCHANGED <<open, owner, waiting, out>>

Next ==
  \/ \E i \in Instances :
       \/ \E call \in Calls : Open(i, call)
       \/ \E p \in Packets : Emit(i, p)
       \/ Relay(i)
       \/ Close(i)
  \/ LoseAuthorization

Spec == Init /\ [][Next]_relayVars /\ WF_relayVars(\E i \in Instances : Relay(i))

=============================================================================
