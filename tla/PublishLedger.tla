--------------------------- MODULE PublishLedger ---------------------------
(***************************************************************************)
(* What publishing promises, without engines, queues or hosts: numbered    *)
(* changes to the domains of one device, how far the copy of each domain   *)
(* that the other devices can read has got, and how far the device claims  *)
(* to have published everything.                                           *)
(***************************************************************************)
EXTENDS Integers

CONSTANT Domains

VARIABLES counter, changes, published, claimed

ledger == <<counter, changes, published, claimed>>

Init ==
  /\ counter = 0
  /\ changes = [d \in Domains |-> {}]
  /\ published = [d \in Domains |-> 0]
  /\ claimed = 0

\* A change to some domains, or (to none) a request to publish again.
Change(touched) ==
  /\ counter' = counter + 1
  /\ changes' = [d \in Domains |-> IF d \in touched
                                   THEN changes[d] \cup {counter + 1}
                                   ELSE changes[d]]
  /\ UNCHANGED <<published, claimed>>

\* The readable copy of a domain only ever moves forward.
Publish(d, upTo) ==
  /\ published[d] <= upTo /\ upTo <= counter
  /\ published' = [published EXCEPT ![d] = upTo]
  /\ UNCHANGED <<counter, changes, claimed>>

Covers(d, upTo) == \A c \in changes[d] : c <= upTo => c <= published[d]

\* Nothing is claimed that the other devices cannot read.
Claim(upTo) ==
  /\ claimed < upTo /\ upTo <= counter
  /\ \A d \in Domains : Covers(d, upTo)
  /\ claimed' = upTo
  /\ UNCHANGED <<counter, changes, published>>

Next ==
  \/ \E touched \in SUBSET Domains : Change(touched)
  \/ \E d \in Domains, upTo \in 0 .. counter : Publish(d, upTo)
  \/ \E upTo \in 1 .. counter : Claim(upTo)

Spec == Init /\ [][Next]_ledger
=============================================================================
