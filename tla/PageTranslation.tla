--------------------------- MODULE PageTranslation ---------------------------
(***************************************************************************)
(* What translation promises whoever asks for it, without tables, queues   *)
(* or walks: every request for a translation gets one answer, the page     *)
(* that its virtual page is mapped to; the map only grows.                 *)
(***************************************************************************)
CONSTANTS Walk, Vpage, Page   \* requests, virtual and physical pages

VARIABLES pending,    \* <<id, virtual page>>: asked, not answered
          answered,   \* <<id, virtual page, physical page>>: not yet picked up
          mapping     \* a partial function from virtual to physical pages, as a set of pairs

abstractVars == <<pending, answered, mapping>>

Mapped(v) == {m \in mapping : m[1] = v}

Init ==
  /\ pending = {} /\ answered = {}
  /\ mapping \subseteq (Vpage \X Page) /\ \A v \in Vpage : \A m, n \in Mapped(v) : m = n

Ask(i, v) ==
  /\ \A w \in pending \cup answered : w[1] # i
  /\ pending' = pending \cup {<<i, v>>}
  /\ UNCHANGED <<answered, mapping>>

\* A page is mapped when it is first walked to.
Map(v, p) ==
  /\ Mapped(v) = {}
  /\ mapping' = mapping \cup {<<v, p>>}
  /\ UNCHANGED <<pending, answered>>

\* Requests for one page may share an answer.
Answer(v, p) ==
  /\ <<v, p>> \in mapping
  /\ \E A \in SUBSET {w \in pending : w[2] = v} :
       /\ A # {}
       /\ pending' = pending \ A
       /\ answered' = answered \cup {<<w[1], v, p>> : w \in A}
  /\ UNCHANGED mapping

PickUp(A) ==
  /\ answered' = answered \ A
  /\ UNCHANGED <<pending, mapping>>

Next ==
  \/ \E i \in Walk, v \in Vpage : Ask(i, v)
  \/ \E v \in Vpage, p \in Page : Map(v, p) \/ Answer(v, p)
  \/ \E A \in SUBSET answered : PickUp(A)

Spec == Init /\ [][Next]_abstractVars
=============================================================================
