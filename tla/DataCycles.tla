------------------------------ MODULE DataCycles ------------------------------
(***************************************************************************)
(* What a series of data cycles promises to the applications, with the scan *)
(* network hidden: no paths, no mux registers, no configuration.  A data     *)
(* register of the SUT only ever changes to the value last asked for, and    *)
(* the series is over only when all of them have it.  ScanNetwork            *)
(* implements it.                                                            *)
(***************************************************************************)
CONSTANT Values

VARIABLES
  busy,      \* a series of data cycles is under way
  content,   \* what the data registers of the SUT hold
  wanted     \* the value last asked for

vars == <<busy, content, wanted>>

Init == busy = FALSE /\ content = wanted

Request ==
  /\ \E r \in DOMAIN wanted, v \in Values : wanted' = [wanted EXCEPT ![r] = v]
  /\ UNCHANGED <<busy, content>>

\* A series may be started for a read only.
Begin ==
  /\ busy = FALSE /\ busy' = TRUE
  /\ UNCHANGED <<content, wanted>>

\* One cycle reaches some of the registers; the others are left alone.
Send ==
  /\ busy = TRUE
  /\ \E S \in SUBSET DOMAIN content :
       content' = [r \in DOMAIN content |-> IF r \in S THEN wanted[r] ELSE content[r]]
  /\ UNCHANGED <<busy, wanted>>

End ==
  /\ busy = TRUE /\ content = wanted
  /\ busy' = FALSE
  /\ UNCHANGED <<content, wanted>>

Next == Request \/ Begin \/ Send \/ End

Spec == Init /\ [][Next]_vars

\* What has been asked for is sent, and the series ends.
FairSpec ==
  /\ Spec
  /\ WF_vars(Begin /\ content # wanted)
  /\ WF_vars(Send \/ End)
===============================================================================
