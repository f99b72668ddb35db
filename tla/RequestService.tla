---------------------------- MODULE RequestService ----------------------------
(***************************************************************************)
(* What the extension promises a client that submits requests: each is     *)
(* carried out once, in the order of submission, and the handler of each   *)
(* that has one is called once, in that order too.  No thread, queue or    *)
(* alert is visible here.                                                  *)
(***************************************************************************)
EXTENDS Naturals, Sequences

VARIABLES
  submitted,   \* number of requests submitted so far
  pending,     \* requests submitted and not carried out
  owed,        \* requests carried out whose handler has not been called
  answered     \* requests whose handler has been called

serviceVars == <<submitted, pending, owed, answered>>

\* A request by the order of its submission, and whether it has a handler.
ServiceRequest == [id : Nat, hasHandler : BOOLEAN]

ServiceTypeOK ==
  /\ submitted \in Nat
  /\ pending \in Seq(ServiceRequest)
  /\ owed \in Seq(ServiceRequest)
  /\ answered \in Seq(ServiceRequest)

ServiceInit ==
  /\ submitted = 0
  /\ pending = <<>>
  /\ owed = <<>>
  /\ answered = <<>>

SubmitRequest ==
  /\ submitted' = submitted + 1
  /\ \E b \in BOOLEAN :
       pending' = Append(pending, [id |-> submitted + 1, hasHandler |-> b])
  /\ UNCHANGED <<owed, answered>>

CarryOut ==
  /\ pending # <<>>
  /\ pending' = Tail(pending)
  /\ owed' = IF Head(pending).hasHandler THEN Append(owed, Head(pending)) ELSE owed
  /\ UNCHANGED <<submitted, answered>>

CallHandler ==
  /\ owed # <<>>
  /\ owed' = Tail(owed)
  /\ answered' = Append(answered, Head(owed))
  /\ UNCHANGED <<submitted, pending>>

ServiceNext == SubmitRequest \/ CarryOut \/ CallHandler

\* Nothing happens in another order, or twice.
ServiceSafety == ServiceInit /\ [][ServiceNext]_serviceVars

\* And what is promised is done.
ServiceSpec ==
  /\ ServiceSafety
  /\ WF_serviceVars(CarryOut)
  /\ WF_serviceVars(CallHandler)

=============================================================================
