------------------------- MODULE MCDocumentAnalysis -------------------------
(***************************************************************************)
(* An instance of DocumentAnalysis: two sessions hold the same scanned     *)
(* document.  The first one asks for OCR, twice at most; the second one    *)
(* finds the result.  The first one may end in a continuation.             *)
(***************************************************************************)
EXTENDS DocumentAnalysis, TLC

CONSTANTS t1, t2, s1, s2, s3, a1, p1, p2, p3, q1

SharedDoc    == (t1 :> a1) @@ (t2 :> a1)
SharedHome   == (t1 :> s1) @@ (t2 :> s2)
SharedTarget == (p1 :> t1) @@ (p2 :> t1) @@ (p3 :> t2)
OcrThenAdopt == (p1 :> q1) @@ (p2 :> q1) @@ (p3 :> None)

\* The two requests of the first session ask for the same.
RunNames == Permutations({p1, p2})

\* To keep the instance small, a mishap or a continuation happens only as long as
\* the second session does nothing.
Alone == run[p3].pc = "IDLE" /\ sess[s2] = [state |-> "EDITABLE", rev |-> 1]
Case == Alone \/ (mishaps = 0 /\ sess[s3].state = "NEW")
=============================================================================
