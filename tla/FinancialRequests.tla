------------------------- MODULE FinancialRequests -------------------------
(***************************************************************************)
(* What the import promises of a financial request: the person confirms a  *)
(* set of lines under a request id; the request is then applied or refused *)
(* once and for all; applying it books exactly the confirmed lines; and no *)
(* line is ever booked by two requests, whatever is repeated or raced.     *)
(***************************************************************************)
CONSTANTS Requests, Lines

VARIABLES
  status,   \* status[f]: where request f is
  content,  \* content[f]: the lines that f books
  booked    \* pairs of a request and a line it has booked

Init ==
  /\ status = [f \in Requests |-> "UNKNOWN"]
  /\ content = [f \in Requests |-> {}]
  /\ booked = {}

Confirm(f) == \E lines \in SUBSET Lines :
  /\ status[f] = "UNKNOWN"
  /\ status' = [status EXCEPT ![f] = "CONFIRMED"]
  /\ content' = [content EXCEPT ![f] = lines]
  /\ UNCHANGED booked

Apply(f) ==
  /\ status[f] = "CONFIRMED"
  /\ \A l \in content[f], g \in Requests : <<g, l>> \notin booked
  /\ status' = [status EXCEPT ![f] = "APPLIED"]
  /\ booked' = booked \cup ({f} \X content[f])
  /\ UNCHANGED content

Refusable == {f \in Requests : status[f] = "CONFIRMED"}

\* One transaction may refuse several requests.
Refuse == \E refused \in (SUBSET Refusable) \ {{}} :
  /\ status' = [f \in Requests |-> IF f \in refused THEN "REFUSED" ELSE status[f]]
  /\ content' = [f \in Requests |-> IF f \in refused THEN {} ELSE content[f]]
  /\ UNCHANGED booked

Next == Refuse \/ \E f \in Requests : Confirm(f) \/ Apply(f)

Spec == Init /\ [][Next]_<<status, content, booked>>
=============================================================================
