--------------------------- MODULE DocumentCustody ---------------------------
(***************************************************************************)
(* What the vault promises about the bytes of one stored document: they    *)
(* are kept while anybody holds them, condemned once and for all, and      *)
(* erased only after the last holder has left and the last reader has      *)
(* closed.  A blob has one life: its place is never filled again.          *)
(***************************************************************************)
EXTENDS FiniteSets

CONSTANTS Blobs, Users

VARIABLES
  life,     \* life[b]: where blob b is in its one life
  holders,  \* holders[b]: the users whose attachment is blob b
  readers   \* readers[b]: the users reading blob b

vars == <<life, holders, readers>>

Lives == {"NONE", "KEPT", "CONDEMNED", "GONE"}

Init ==
  /\ life = [b \in Blobs |-> "NONE"]
  /\ holders = [b \in Blobs |-> {}]
  /\ readers = [b \in Blobs |-> {}]

\* What one transaction may do to one blob.
Store(b)   == life[b] = "NONE" /\ life'[b] = "KEPT"
Discard(b) == life[b] = "NONE" /\ life'[b] = "GONE" /\ holders'[b] = {}
Join(b)    == life[b] = "KEPT" /\ life'[b] = "KEPT" /\ holders[b] \subseteq holders'[b]
Leave(b)   == life'[b] = life[b] /\ holders'[b] \subseteq holders[b]
Condemn(b) == life[b] = "KEPT" /\ life'[b] = "CONDEMNED" /\ holders'[b] \subseteq holders[b]
Erase(b)   == /\ life[b] = "CONDEMNED" /\ holders[b] = {} /\ readers[b] = {}
              /\ life'[b] = "GONE" /\ holders'[b] = {}

Transaction ==
  /\ life' \in [Blobs -> Lives]
  /\ holders' \in [Blobs -> SUBSET Users]
  /\ \A b \in Blobs : Store(b) \/ Discard(b) \/ Join(b) \/ Leave(b) \/ Condemn(b) \/ Erase(b)
  /\ UNCHANGED readers

Open(b, u) ==
  /\ life[b] \in {"KEPT", "CONDEMNED"}
  /\ readers' = [readers EXCEPT ![b] = @ \cup {u}]
  /\ UNCHANGED <<life, holders>>

\* A reader closes; a crash closes all of them.
Close ==
  /\ readers' \in [Blobs -> SUBSET Users]
  /\ \A b \in Blobs : readers'[b] \subseteq readers[b]
  /\ UNCHANGED <<life, holders>>

Next == Transaction \/ Close \/ \E b \in Blobs, u \in Users : Open(b, u)

Spec == Init /\ [][Next]_vars

=============================================================================
