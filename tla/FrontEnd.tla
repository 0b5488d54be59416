------------------------------ MODULE FrontEnd ------------------------------
(***************************************************************************)
(* The front end of O3_CPU (src/ooo_cpu.cc): from the trace through the    *)
(* fetch buffer, past the decoded instruction buffer (DIB) or the decoder, *)
(* to the dispatch buffer.  A mispredicted branch stops fetching until it  *)
(* is decoded or completed.                                                *)
(*                                                                         *)
(* A step is one iteration of a loop of operate(); widths and latencies    *)
(* decide how many iterations a cycle has, and the model leaves that open. *)
(* The L1I and the back end are external.                                  *)
(***************************************************************************)
EXTENDS Naturals, FiniteSets, FiniteSetsExt, SequencesExt

CONSTANTS Window, Block, BlockOf,   \* windows of the DIB, and the block of each
          IFETCH_BUFFER_SIZE, DIB_HIT_BUFFER_SIZE, DECODE_BUFFER_SIZE, DISPATCH_BUFFER_SIZE,
          DIB_WAYS,                 \* entries of the DIB, all of one set
          MaxInstr                  \* bound: instructions of the trace

ASSUME FrontEndAssumption ==
  /\ BlockOf \in [Window -> Block]
  /\ IFETCH_BUFFER_SIZE \in Nat \ {0} /\ DIB_HIT_BUFFER_SIZE \in Nat \ {0}
  /\ DECODE_BUFFER_SIZE \in Nat \ {0} /\ DISPATCH_BUFFER_SIZE \in Nat \ {0}
  /\ DIB_WAYS \in Nat \ {0} /\ MaxInstr \in Nat

VARIABLES IFETCH_BUFFER, DIB_HIT_BUFFER, DECODE_BUFFER, DISPATCH_BUFFER,
          DIB,
          fetch_stopped,    \* fetch_resume_time = time_point::max()
          entered,          \* how many instructions were read from the trace
          left,             \* history: how many were put into the dispatch buffer
          requests,         \* external: what the L1I was asked, not answered
          returned,         \* the responses of the L1I
          backend           \* external: the mispredicted branches that are dispatched

buffers == <<IFETCH_BUFFER, DIB_HIT_BUFFER, DECODE_BUFFER, DISPATCH_BUFFER>>
l1i == <<requests, returned>>
vars == <<buffers, DIB, fetch_stopped, entered, left, l1i, backend>>

Lru == INSTANCE LruTable

Id == 1..MaxInstr

\* Where a mispredicted branch is found out: DECODE where the target or direction
\* is known by then, and EXECUTE.
Branch == {"none", "DECODE", "EXECUTE"}

Instr == [id : Id, ip : Window, branch_mispredicted : Branch, dib_checked : BOOLEAN,
          fetch_issued : BOOLEAN, fetch_completed : BOOLEAN, decoded : BOOLEAN]

\* A request or a response of the L1I: the ids that depend on a block.
Packet == [v_address : Block, instr_depend_on_me : SUBSET Id]

IdsOf(q) == {q[i].id : i \in 1..Len(q)}
-----------------------------------------------------------------------------
Init ==
  /\ IFETCH_BUFFER = <<>> /\ DIB_HIT_BUFFER = <<>> /\ DECODE_BUFFER = <<>> /\ DISPATCH_BUFFER = <<>>
  /\ DIB = <<>>
  /\ fetch_stopped = FALSE
  /\ entered = 0 /\ left = 0
  /\ requests = {} /\ returned = <<>>
  /\ backend = {}

-----------------------------------------------------------------------------
(* initialize_instruction and do_predict_branch *)

InitializeInstruction(w, b) ==
  /\ ~fetch_stopped
  /\ entered < MaxInstr /\ Len(IFETCH_BUFFER) < IFETCH_BUFFER_SIZE
  /\ entered' = entered + 1
  /\ IFETCH_BUFFER' = Append(IFETCH_BUFFER,
       [id |-> entered', ip |-> w, branch_mispredicted |-> b, dib_checked |-> FALSE,
        fetch_issued |-> FALSE, fetch_completed |-> FALSE, decoded |-> FALSE])
  /\ fetch_stopped' = (b # "none")
  /\ UNCHANGED <<DIB_HIT_BUFFER, DECODE_BUFFER, DISPATCH_BUFFER, DIB, left, l1i, backend>>

(* check_dib, of the first instruction not checked yet *)

CheckDIB ==
  \E i \in 1..Len(IFETCH_BUFFER) :
    LET x == IFETCH_BUFFER[i]
        hit == Lru!Holds(DIB, x.ip)
    IN
      /\ ~x.dib_checked /\ \A j \in 1..i - 1 : IFETCH_BUFFER[j].dib_checked
      /\ IFETCH_BUFFER' = [IFETCH_BUFFER EXCEPT ![i].dib_checked = TRUE,
                             ![i].fetch_completed = @ \/ hit, ![i].decoded = @ \/ hit]
      /\ DIB' = Lru!Checked(DIB, x.ip)
      /\ UNCHANGED <<DIB_HIT_BUFFER, DECODE_BUFFER, DISPATCH_BUFFER, fetch_stopped, entered, left,
                     l1i, backend>>

-----------------------------------------------------------------------------
(* fetch_instruction *)

FetchReady(i) == IFETCH_BUFFER[i].dib_checked /\ ~IFETCH_BUFFER[i].fetch_issued

SameBlock(i, j) == \A k \in i..j : BlockOf[IFETCH_BUFFER[k].ip] = BlockOf[IFETCH_BUFFER[i].ip]

\* Chunks begin at the first instruction to be fetched of a run in one block, and
\* take in the rest of the run, whatever its state.
ChunkStarts ==
  {i \in 1..Len(IFETCH_BUFFER) :
     FetchReady(i) /\ \A j \in 1..i - 1 : SameBlock(j, i) => ~FetchReady(j)}

Chunk(i) == {j \in i..Len(IFETCH_BUFFER) : SameBlock(i, j)}

\* The L1I accepts the request; a request that it refuses is made again.
FetchChunk(i) ==
  /\ i \in ChunkStarts
  /\ requests' = requests \cup {[v_address |-> BlockOf[IFETCH_BUFFER[i].ip],
                                 instr_depend_on_me |-> {IFETCH_BUFFER[j].id : j \in Chunk(i)}]}
  /\ IFETCH_BUFFER' = [j \in 1..Len(IFETCH_BUFFER) |->
       IF j \in Chunk(i) THEN [IFETCH_BUFFER[j] EXCEPT !.fetch_issued = TRUE] ELSE IFETCH_BUFFER[j]]
  /\ UNCHANGED <<DIB_HIT_BUFFER, DECODE_BUFFER, DISPATCH_BUFFER, DIB, fetch_stopped, entered, left,
                 returned, backend>>

\* External: requests for a block are answered, alone or merged, in any order.
L1IAnswers(S) ==
  /\ S # {} /\ \A x, y \in S : x.v_address = y.v_address
  /\ requests' = requests \ S
  /\ \E x \in S :
       returned' = Append(returned, [v_address |-> x.v_address,
                                     instr_depend_on_me |-> UNION {y.instr_depend_on_me : y \in S}])
  /\ UNCHANGED <<buffers, DIB, fetch_stopped, entered, left, backend>>

(* handle_memory_return, of one instruction of the first response *)

\* Mutant for EveryInstructionIsDispatched: what is named must be the oldest.
NamedIfFirst(p) == {i \in 1..Len(IFETCH_BUFFER) : i = 1 /\ IFETCH_BUFFER[i].id = Min(p.instr_depend_on_me)}

Named(p) == {i \in 1..Len(IFETCH_BUFFER) :
  /\ IFETCH_BUFFER[i].id = Min(p.instr_depend_on_me)
  /\ BlockOf[IFETCH_BUFFER[i].ip] = p.v_address
  /\ IFETCH_BUFFER[i].fetch_issued}

\* Mutant for FetchesAreOwed: the response is dropped with its first instruction.
ServedAtOnce(p) == Tail(returned)

\* The response is dropped with its last instruction.
Served(p) ==
  LET rest == p.instr_depend_on_me \ {Min(p.instr_depend_on_me)}
  IN IF rest = {} THEN Tail(returned) ELSE <<[p EXCEPT !.instr_depend_on_me = rest]>> \o Tail(returned)

HandleReturn ==
  /\ returned # <<>>
  /\ IFETCH_BUFFER' = [i \in 1..Len(IFETCH_BUFFER) |->
       IF i \in Named(Head(returned)) THEN [IFETCH_BUFFER[i] EXCEPT !.fetch_completed = TRUE]
                                      ELSE IFETCH_BUFFER[i]]
  /\ returned' = Served(Head(returned))
  /\ UNCHANGED <<DIB_HIT_BUFFER, DECODE_BUFFER, DISPATCH_BUFFER, DIB, fetch_stopped, entered, left,
                 requests, backend>>

-----------------------------------------------------------------------------
(* promote_to_decode *)

\* The width of the window is the smaller of the free space in the two buffers.
PromotionHasRoom == Len(DIB_HIT_BUFFER) < DIB_HIT_BUFFER_SIZE /\ Len(DECODE_BUFFER) < DECODE_BUFFER_SIZE

Promote ==
  /\ IFETCH_BUFFER # <<>> /\ Head(IFETCH_BUFFER).fetch_completed
  /\ PromotionHasRoom
  /\ \/ /\ Head(IFETCH_BUFFER).decoded
        /\ DIB_HIT_BUFFER' = Append(DIB_HIT_BUFFER, Head(IFETCH_BUFFER))
        /\ UNCHANGED DECODE_BUFFER
     \/ /\ ~Head(IFETCH_BUFFER).decoded
        /\ DECODE_BUFFER' = Append(DECODE_BUFFER, Head(IFETCH_BUFFER))
        /\ UNCHANGED DIB_HIT_BUFFER
  /\ IFETCH_BUFFER' = Tail(IFETCH_BUFFER)
  /\ UNCHANGED <<DISPATCH_BUFFER, DIB, fetch_stopped, entered, left, l1i, backend>>

(* decode_instruction *)

DispatchHasRoom == Len(DISPATCH_BUFFER) < DISPATCH_BUFFER_SIZE

\* Mutant for KeepsTheStream: each buffer is drained for itself.
GoesFirstOfItsOwn(p, q) == p # <<>>

\* Is the first instruction of p next, q being the other buffer?
GoesFirst(p, q) == p # <<>> /\ (q # <<>> => Head(p).id < Head(q).id)

\* A branch of the DIB stays mispredicted: only the back end resolves it.
TakeDIBHit ==
  /\ GoesFirst(DIB_HIT_BUFFER, DECODE_BUFFER) /\ DispatchHasRoom
  /\ DISPATCH_BUFFER' = Append(DISPATCH_BUFFER, Head(DIB_HIT_BUFFER))
  /\ DIB_HIT_BUFFER' = Tail(DIB_HIT_BUFFER)
  /\ left' = left + 1
  /\ UNCHANGED <<IFETCH_BUFFER, DECODE_BUFFER, DIB, fetch_stopped, entered, l1i, backend>>

\* Mutant for StopsForTheYoungest: the bit is not cleared.
DecodedAndMarked(x) == x

\* do_decode's instruction: what decoding resolves is not mispredicted any more.
Decoded(x) == [x EXCEPT !.branch_mispredicted = IF @ = "DECODE" THEN "none" ELSE @]

Decode ==
  /\ GoesFirst(DECODE_BUFFER, DIB_HIT_BUFFER) /\ DispatchHasRoom
  /\ LET x == Head(DECODE_BUFFER) IN
       /\ DISPATCH_BUFFER' = Append(DISPATCH_BUFFER, Decoded(x))
       /\ fetch_stopped' = (fetch_stopped /\ x.branch_mispredicted # "DECODE")
       /\ DIB' = Lru!Filled(DIB, DIB_WAYS, x.ip, TRUE)
  /\ DECODE_BUFFER' = Tail(DECODE_BUFFER)
  /\ left' = left + 1
  /\ UNCHANGED <<IFETCH_BUFFER, DIB_HIT_BUFFER, entered, l1i, backend>>

-----------------------------------------------------------------------------
(* The back end: dispatch_instruction and do_complete_execution *)

Dispatch ==
  /\ DISPATCH_BUFFER # <<>>
  /\ backend' = IF Head(DISPATCH_BUFFER).branch_mispredicted = "none" THEN backend
                ELSE backend \cup {Head(DISPATCH_BUFFER).id}
  /\ DISPATCH_BUFFER' = Tail(DISPATCH_BUFFER)
  /\ UNCHANGED <<IFETCH_BUFFER, DIB_HIT_BUFFER, DECODE_BUFFER, DIB, fetch_stopped, entered, left, l1i>>

CompleteBranch(b) ==
  /\ b \in backend
  /\ backend' = backend \ {b}
  /\ fetch_stopped' = FALSE
  /\ UNCHANGED <<buffers, DIB, entered, left, l1i>>

-----------------------------------------------------------------------------
Progress ==
  \/ \E w \in Window, b \in Branch : InitializeInstruction(w, b)
  \/ CheckDIB
  \/ \E i \in 1..Len(IFETCH_BUFFER) : FetchChunk(i)
  \/ \E S \in SUBSET requests : L1IAnswers(S)
  \/ HandleReturn
  \/ Promote \/ TakeDIBHit \/ Decode
  \/ Dispatch \/ \E b \in backend : CompleteBranch(b)

\* The trace (MaxInstr) is at its end, and so is everything else.
Done == entered = MaxInstr /\ left = MaxInstr /\ DISPATCH_BUFFER = <<>> /\ UNCHANGED vars

Next == Progress \/ Done

Spec == Init /\ [][Next]_vars

\* operate() runs again and again, latencies are finite, the L1I accepts and
\* answers requests, and the back end dispatches and completes instructions: as
\* long as one of them can move on, one of them does.
Fairness == SF_vars(Progress)

FairSpec == Spec /\ Fairness
-----------------------------------------------------------------------------
(* Properties *)

\* The fields keep their types and the buffers their sizes.
TypeOK ==
  /\ IFETCH_BUFFER \in Seq(Instr) /\ Len(IFETCH_BUFFER) <= IFETCH_BUFFER_SIZE
  /\ DIB_HIT_BUFFER \in Seq(Instr) /\ Len(DIB_HIT_BUFFER) <= DIB_HIT_BUFFER_SIZE
  /\ DECODE_BUFFER \in Seq(Instr) /\ Len(DECODE_BUFFER) <= DECODE_BUFFER_SIZE
  /\ DISPATCH_BUFFER \in Seq(Instr) /\ Len(DISPATCH_BUFFER) <= DISPATCH_BUFFER_SIZE
  /\ DIB \in Seq([tag : Window, data : {TRUE}]) /\ Len(DIB) <= DIB_WAYS
  /\ fetch_stopped \in BOOLEAN
  /\ entered \in 0..MaxInstr /\ left \in 0..entered
  /\ requests \subseteq Packet /\ returned \in Seq(Packet) /\ backend \subseteq Id

Mispredicted ==
  backend \cup {x.id : x \in {y \in UNION {ToSet(buffers[i]) : i \in 1..4} : y.branch_mispredicted # "none"}}

\* Fetching stands still exactly as long as one mispredicted branch is under way,
\* the youngest instruction there is: so two resumptions never meet, and none is
\* forgotten, whether the branch takes the way of the decoder or of the DIB
\* (ooo_cpu.cc:173-178, 360-370, 642-644).
StopsForTheYoungest ==
  IF fetch_stopped THEN Mispredicted = {entered} ELSE Mispredicted = {}

\* What waits for the L1I is named by a request or a response, so no answer that
\* is dropped, because its instruction came out of the DIB and is gone, was
\* anyone else's (ooo_cpu.cc:239-283, 661-687).
EveryFetchIsOwed ==
  \A i \in 1..Len(IFETCH_BUFFER) :
    IFETCH_BUFFER[i].fetch_issued /\ ~IFETCH_BUFFER[i].fetch_completed =>
      \E p \in requests \cup ToSet(returned) :
        p.v_address = BlockOf[IFETCH_BUFFER[i].ip] /\ IFETCH_BUFFER[i].id \in p.instr_depend_on_me

\* The buffers keep their sizes, and no fetch in them is forgotten.
FetchesAreOwed == TypeOK /\ EveryFetchIsOwed

Stream ==
  INSTANCE InstructionStream
    WITH output <- [i \in 1..Len(DISPATCH_BUFFER) |-> DISPATCH_BUFFER[i].id],
         awaited <- IF fetch_stopped THEN entered ELSE 0

\* Instructions reach the back end in program order, each once, though they go
\* through two buffers with separate widths; and none is read from the trace
\* behind a mispredicted branch before it is resolved (ooo_cpu.cc:96-115, 286-403).
KeepsTheStream == Stream!Spec

\* Every instruction of the trace is dispatched.
EveryInstructionIsDispatched ==
  \A n \in Id : [](entered < n => <>(left >= n /\ \A i \in 1..Len(DISPATCH_BUFFER) : DISPATCH_BUFFER[i].id # n))
=============================================================================
