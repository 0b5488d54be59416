------------------------------ MODULE LruTable ------------------------------
(***************************************************************************)
(* One set of champsim::msl::lru_table (inc/msl/lru_table.h): a sequence   *)
(* of entries [tag, data], the least recently used first.  The position    *)
(* stands for last_used, whose value nothing else depends on.              *)
(***************************************************************************)
EXTENDS Integers, SequencesExt

WaysOf(t, tag) == {i \in 1..Len(t) : t[i].tag = tag}

Holds(t, tag) == WaysOf(t, tag) # {}

\* check_hit: what it returns on a hit, and the table after it.
Found(t, tag) == t[CHOOSE i \in WaysOf(t, tag) : TRUE].data

Checked(t, tag) ==
  IF Holds(t, tag)
    THEN LET i == CHOOSE i \in WaysOf(t, tag) : TRUE IN Append(RemoveAt(t, i), t[i])
    ELSE t

\* fill: an entry of this tag is replaced, else an unused way is taken, else the
\* least recently used one.
Filled(t, ways, tag, data) ==
  LET kept == IF Holds(t, tag) THEN RemoveAt(t, CHOOSE i \in WaysOf(t, tag) : TRUE)
              ELSE IF Len(t) < ways THEN t ELSE Tail(t)
  IN Append(kept, [tag |-> tag, data |-> data])
=============================================================================
