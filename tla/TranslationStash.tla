--------------------------- MODULE TranslationStash ---------------------------
(***************************************************************************)
(* Address translation in a cache (src/cache.cc): accesses with virtual    *)
(* addresses ask lower_translate for their page; those whose turn for the  *)
(* tag check comes first wait in translation_stash and are initiated again *)
(* when they are translated.  Cache models what happens after that.        *)
(*                                                                         *)
(* A step is one iteration of a loop of operate(), or the whole of a loop  *)
(* that has no bandwidth.  Latencies, bandwidths and what the levels above *)
(* and below accept let each loop make no iteration in a cycle, so that a  *)
(* cycle is any selection of these steps in the order of the code, and     *)
(* cycles of one step each give every order.  Only translations precede    *)
(* everything else: the answer and finish_translation are one step.        *)
(***************************************************************************)
EXTENDS Integers, SequencesExt

CONSTANTS Vpage, Page,
          NoPage,
          PageOf,           \* external: what the TLB answers
          MSHR_SIZE,
          TagChecks,        \* MAX_TAG * HIT_LATENCY: tag checks in flight
          MaxAccesses       \* bound: accesses from above

ASSUME TranslationAssumption ==
  /\ PageOf \in [Vpage -> Page] /\ NoPage \notin Vpage \cup Page
  /\ MSHR_SIZE \in Nat \ {0} /\ TagChecks \in Nat \ {0} /\ MaxAccesses \in Nat

VARIABLES arrived,              \* how many accesses there were; they are numbered
          inflight_tag_check,
          translation_stash,
          outstanding           \* external: requests at lower_translate, as <<id, virtual page>>

vars == <<arrived, inflight_tag_check, translation_stash, outstanding>>

Access == 1..MaxAccesses

\* An access that comes with a physical address has no v_page here.
Entry == [id : Access, v_page : Vpage \cup {NoPage}, page : Page \cup {NoPage},
          is_translated : BOOLEAN, translate_issued : BOOLEAN]

IsTranslated(e) == e.is_translated
IsUntranslated(e) == ~e.is_translated

Translated == {e \in Entry : IsTranslated(e)}
Untranslated == {e \in Entry : IsUntranslated(e)}

\* The entries of s that are in T, in their order, as extract_if and
\* stable_partition take them.
Picked(s, T) ==
  LET upTo[n \in Nat] == IF n = 0 THEN <<>>
                         ELSE IF s[n] \in T THEN Append(upTo[n - 1], s[n])
                         ELSE upTo[n - 1]
  IN upTo[Len(s)]

Entries == inflight_tag_check \o translation_stash
StashIsAhead == translation_stash # <<>> /\ IsTranslated(Head(translation_stash))

Init ==
  /\ arrived = 0 /\ outstanding = {}
  /\ inflight_tag_check = <<>> /\ translation_stash = <<>>

-----------------------------------------------------------------------------
(* finish_translation *)

MatchesAnyVpage(e, v) == IsUntranslated(e)  \* mutant

MatchesVpage(e, v) == e.v_page = v /\ IsUntranslated(e)

Marked(e, v) == [e EXCEPT !.page = PageOf[v], !.is_translated = TRUE]

\* Every entry of the page is marked.
MarkedAll(s, v) == [i \in DOMAIN s |-> IF MatchesVpage(s[i], v) THEN Marked(s[i], v) ELSE s[i]]

RestartedInPlace(s, v) == MarkedAll(s, v)  \* mutant

\* In the stash they follow those that are translated already: the stable
\* partition of what begins with the first untranslated entry.
Restarted(s, v) ==
  LET k == SelectInSeq(s, IsUntranslated)
      rest == SubSeq(s, k, Len(s))
      matching == Picked(rest, {e \in Entry : MatchesVpage(e, v)})
  IN IF k = 0 THEN s
     ELSE SubSeq(s, 1, k - 1)
            \o [i \in DOMAIN matching |-> Marked(matching[i], v)]
            \o Picked(rest, {e \in Entry : ~MatchesVpage(e, v)})

\* Requests for one page may be merged below and then share an answer.
FinishTranslation(S) ==
  /\ S # {} /\ \A x, y \in S : x[2] = y[2]
  /\ outstanding' = outstanding \ S
  /\ \E x \in S :
       /\ translation_stash' = Restarted(translation_stash, x[2])
       /\ inflight_tag_check' = MarkedAll(inflight_tag_check, x[2])
  /\ UNCHANGED arrived

-----------------------------------------------------------------------------
(* Initiate tag checks *)

HasBandwidth == Len(inflight_tag_check) < TagChecks

FromStash ==
  /\ HasBandwidth /\ StashIsAhead
  /\ inflight_tag_check' = Append(inflight_tag_check, Head(translation_stash))
  /\ translation_stash' = Tail(translation_stash)
  /\ UNCHANGED <<arrived, outstanding>>

CanTranslate(translated) == Len(translation_stash) < MSHR_SIZE \/ translated

\* From the channels above and the internal prefetch queue, when the stash
\* leaves bandwidth.
FromAbove(v) ==
  /\ HasBandwidth /\ ~StashIsAhead /\ arrived < MaxAccesses
  /\ CanTranslate(v = NoPage)
  /\ arrived' = arrived + 1
  /\ inflight_tag_check' =
       Append(inflight_tag_check,
              [id |-> arrived', v_page |-> v, page |-> NoPage,
               is_translated |-> v = NoPage, translate_issued |-> FALSE])
  /\ UNCHANGED <<translation_stash, outstanding>>

-----------------------------------------------------------------------------
(* Issue translations *)

ToIssue(s) == Picked(s, {e \in Untranslated : ~e.translate_issued})

UnissuedInFlight == ToIssue(inflight_tag_check)  \* mutant

Unissued == ToIssue(Entries)

IssuedIn(s, ids) == [i \in DOMAIN s |-> [s[i] EXCEPT !.translate_issued = @ \/ s[i].id \in ids]]

\* lower_translate accepts requests until it is full.
IssueTranslations ==
  \E n \in 1..Len(Unissued) :
    LET accepted == ToSet(SubSeq(Unissued, 1, n))
        ids == {e.id : e \in accepted}
    IN /\ outstanding' = outstanding \cup {<<e.id, e.v_page>> : e \in accepted}
       /\ inflight_tag_check' = IssuedIn(inflight_tag_check, ids)
       /\ translation_stash' = IssuedIn(translation_stash, ids)
       /\ UNCHANGED arrived

-----------------------------------------------------------------------------
(* Stash what is ready and not translated, check the rest *)

\* The first n entries are ready.  A check may be refused and stay.
CheckTags(n) ==
  LET ready == SubSeq(inflight_tag_check, 1, n)
      translated == Picked(ready, Translated)
  IN \E checked \in SUBSET ToSet(translated) :
       /\ translation_stash' = translation_stash \o Picked(ready, Untranslated)
       /\ inflight_tag_check' = Picked(translated, ToSet(translated) \ checked)
                                  \o SubSeq(inflight_tag_check, n + 1, Len(inflight_tag_check))
       /\ UNCHANGED <<arrived, outstanding>>

-----------------------------------------------------------------------------
\* All accesses of this instance (MaxAccesses) are checked.
Done == arrived = MaxAccesses /\ Entries = <<>> /\ outstanding = {} /\ UNCHANGED vars

Operate ==
  \/ \E S \in SUBSET outstanding : FinishTranslation(S)
  \/ FromStash
  \/ IssueTranslations
  \/ \E n \in DOMAIN inflight_tag_check : CheckTags(n) /\ inflight_tag_check' # inflight_tag_check

Next ==
  \/ Operate
  \/ \E v \in Vpage \cup {NoPage} : FromAbove(v)
  \/ Done

Spec == Init /\ [][Next]_vars

\* operate() runs again and again, latencies are finite, lower_translate accepts a
\* request and answers it at last, and so does the tag check.  Nothing is assumed
\* of the accesses from above.
Fairness == SF_vars(Operate)

FairSpec == Spec /\ Fairness
-----------------------------------------------------------------------------
(* Properties *)

\* The entries keep their type, and the two containers their bounds.  For the stash
\* there is no test of its own: only untranslated accesses are turned away while it
\* holds MSHR_SIZE entries, so it may grow by all that is in flight (cache.cc:456).
TypeOK ==
  /\ arrived \in 0..MaxAccesses
  /\ inflight_tag_check \in Seq(Entry) /\ Len(inflight_tag_check) <= TagChecks
  /\ translation_stash \in Seq(Entry) /\ Len(translation_stash) <= MSHR_SIZE - 1 + TagChecks
  /\ outstanding \subseteq (Access \X Vpage)

\* In the stash translated entries precede all others, which both the search of
\* finish_translation and the taking of its first entries rely on (cache.cc:460, 652).
TranslatedFirst ==
  \A i, j \in DOMAIN translation_stash :
    i < j /\ IsTranslated(translation_stash[j]) => IsTranslated(translation_stash[i])

\* An access that has asked for its translation and has none can still get one: its
\* own request is not answered, for an answer that came for others of its page
\* served it too, wherever it was (cache.cc:635-662).  And it is at one place.
EveryTranslationIsOwed ==
  /\ \A e \in ToSet(Entries) :
       e.translate_issued /\ IsUntranslated(e) => <<e.id, e.v_page>> \in outstanding
  /\ \A i, j \in DOMAIN Entries : Entries[i].id = Entries[j].id => i = j

\* The stash and what is in flight are where finish_translation will look for them.
StashInOrder == TypeOK /\ TranslatedFirst /\ EveryTranslationIsOwed

Virtual == {e \in ToSet(Entries) : e.v_page # NoPage}

Pending == {<<e.id, e.v_page>> : e \in {x \in Virtual : IsUntranslated(x)}}
Answers == {<<e.id, e.v_page, e.page>> : e \in {x \in Virtual : IsTranslated(x)}}
Mapping == {<<v, PageOf[v]>> : v \in Vpage}

Translation ==
  INSTANCE PageTranslation
    WITH Walk <- Access, pending <- Pending, answered <- Answers, mapping <- Mapping

\* Every access is translated once, to the page that its virtual page has, whoever's
\* request brought the answer, and is checked after that (cache.cc:435, 452-513).
EveryAccessGetsItsPage == Translation!Spec

\* Every access comes to its tag check, through refused requests and a full stash.
EveryAccessIsChecked ==
  \A i \in Access : (\E e \in ToSet(Entries) : e.id = i) ~> (\A e \in ToSet(Entries) : e.id # i)
=============================================================================
