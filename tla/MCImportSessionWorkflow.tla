---------------------- MODULE MCImportSessionWorkflow ----------------------
(***************************************************************************)
(* An instance of ImportSessionWorkflow.  Lines o1 and o2 were read by OCR *)
(* in two documents and tell of the same purchase in installments; o3 is   *)
(* the text line of another one.  Two sessions hold the same document, or  *)
(* a document each, or one session holds a scanned and a text document and *)
(* may end in a continuation while the purchases are registered elsewhere. *)
(***************************************************************************)
EXTENDS ImportSessionWorkflow, TLC

CONSTANTS s1, s2, c1, d1, d2, d3, o1, o2, o3, p1, p2, x1, x2, f1, f2, n1, n2

DocumentOf == (o1 :> d1) @@ (o2 :> d2) @@ (o3 :> d3)
PurchaseAs == (o1 :> p1) @@ (o2 :> p1) @@ (o3 :> p2)

SharedDocument  == (s1 :> {d1}) @@ (s2 :> {d1})
OwnDocuments    == (s1 :> {d1}) @@ (s2 :> {d2})
TwoDocuments    == (s1 :> {d1, d3}) @@ (s2 :> {})
Swapped(docs)   == (s1 :> docs[s2]) @@ (s2 :> docs[s1])
ThreeWays       == {SharedDocument, OwnDocuments, Swapped(OwnDocuments),
                    TwoDocuments, Swapped(TwoDocuments)}
OneScanned      == {s1 :> {d1}}

\* A statement import recognises the first purchase, a manual entry resembles the second.
Elsewhere   == (x1 :> p1) @@ (x2 :> p2)
KeysOf      == (x1 :> "STRONG") @@ (x2 :> "NATURAL")

Alike == Permutations(Nonces) \cup Permutations(FinIds) \cup Permutations(Opened)

----------------------------------------------------------------------------
(* To keep the instance small, not everything is combined with everything. *)

Lonely == \E s \in Opened : sess[s] = Blank \/ (sess[s].state = "DRAFT" /\ sess[s].docs = {})
Shared == \E s \in Opened : d1 \in sess[s].docs /\ \A t \in Opened : sess[t].docs \subseteq {d1}
Case ==
  /\ version > 0 \/ (\E e \in External : Present(e)) => Lonely
  /\ Cardinality({e \in External : Present(e)}) + version <= 1
  /\ \A s \in Opened : sess[s].late => sess[s].docs = {d1} /\ ocr[o1] = "HELD"
  /\ ocr[o2] = "HELD"
  /\ \A s \in Opened : /\ sess[s].state \in {"DRAFT", "NEEDS_INPUT"} => sess[s].rev <= 3
                       /\ sess[s].state = "READY" => sess[s].rev <= 4
  /\ Shared => \A s \in Opened : sess[s].dec[o1].do # "KEEP"
=============================================================================
