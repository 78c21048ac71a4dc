------------------------------ MODULE RandomStream ------------------------------
(***************************************************************************)
(* Random numbers as resident state: ThreefryState and ThreefrySequence of *)
(* rxla-core, and the named streams that Cx::rng of rxla-nn opens.  A      *)
(* stream is a key and a 64-bit counter held in state slots; a draw hands  *)
(* out consecutive counter blocks inside the program being traced, and the *)
(* counter moves only if the sequence is committed and accepted.           *)
(*                                                                         *)
(* A traced program is straight-line, so tracing and one execution of it   *)
(* are followed together: `slot` holds what the slot's newest version will *)
(* evaluate to, and a proposal is stale once there is a newer one.  EndRun  *)
(* is the session that keeps the final versions if the execution succeeds. *)
(* For each key the cipher is a bijection of the counter, so the block     *)
(* <<key, counter>> stands for its two random words, also where they       *)
(* become a child's key.                                                   *)
(***************************************************************************)
EXTENDS Integers, FiniteSets

CONSTANTS Half,      \* words take the values -Half .. Half - 1 (2^31 in the code)
          Counters,  \* counters a session may start its streams with
          Counts,    \* bound: the numbers of blocks a call draws
          MaxBlocks, \* bound: blocks drawn in a behaviour
          MaxExecutions \* bound: executions

ASSUME RandomAssumption ==
    /\ Half \in Nat \ {0}
    /\ Counters \subseteq [low : -Half .. Half - 1, high : -Half .. Half - 1]
    /\ Counts \subseteq 0 .. Half - 1
    /\ {MaxBlocks, MaxExecutions} \subseteq Nat

States == {"parent", "child"}    \* ThreefryState
Proposals == {1, 2}              \* names for the open ThreefrySequences
Owners == States \union {"model"}  \* "model" is the stream of Cx::rng

VARIABLES slot,     \* key and counter of each stream, as of this point of the trace
          sequence, \* the open proposals
          rng,      \* Cx.rngs: the model's stream, once opened in this trace
          saved,    \* what the session holds: the slots, and the blocks given out
          given,    \* blocks of accepted commits, those of this trace included
          repeated, \* the keys a block of which was given out twice
          overrun,  \* whether an execution gave out draws of a model stream that
                    \* reached the end of its period
          origin,   \* where each key's counter started
          drawn,    \* blocks drawn so far
          executions \* executions so far

randomVars == <<slot, sequence, rng, saved, given, repeated, overrun, origin, drawn, executions>>

-----------------------------------------------------------------------------
\* Counters: two words of two's complement arithmetic.

Wrap(x) == ((x + Half) % (2 * Half)) - Half
FlipSign(x) == Wrap(x + Half)

\* Signed comparison after flipping the sign bits.
UnsignedLess(a, b) == ~(FlipSign(b) <= FlipSign(a))

\* add_counter: the low word carries into the high one.
AddCounter(counter, n) ==
    LET low == Wrap(counter.low + n)
        high == IF UnsignedLess(low, counter.low) THEN Wrap(counter.high + 1) ELSE counter.high
    IN  [next |-> [low |-> low, high |-> high], wrapped |-> UnsignedLess(high, counter.high)]

\* threefry2x32_blocks: element i of the draw gets the block at counter + i.
Blocks(key, counter, n) ==
    [lanes |-> {<<key, AddCounter(counter, i).next>> : i \in 0 .. n - 1},
     next |-> AddCounter(counter, n).next,
     wrapped |-> AddCounter(counter, n).wrapped]

\* The blocks a cursor has reserved, and whether it met one of them twice.
Reserve(cursor, n) ==
    LET draw == Blocks(cursor.key, cursor.next, n)
    IN  [cursor EXCEPT !.next = draw.next,
                       !.available = @ /\ ~draw.wrapped,
                       !.overlap = @ \/ draw.lanes \cap cursor.lanes # {} \/ Cardinality(draw.lanes) # n,
                       !.lanes = @ \union draw.lanes]

Cursor(s) ==
    [key |-> slot[s].key, next |-> slot[s].counter,
     available |-> TRUE, lanes |-> {}, overlap |-> FALSE]

-----------------------------------------------------------------------------
NoProposal == [open |-> FALSE, accepted |-> FALSE, keys |-> {}]
Zero == [low |-> 0, high |-> 0]

RandomInit ==
    \E c \in Counters :
        /\ slot = [s \in Owners |-> [key |-> <<s>>, counter |-> c]]
        /\ sequence = [p \in Proposals |-> NoProposal]
        /\ rng = NoProposal
        /\ saved = [slot |-> slot, given |-> {}]
        /\ given = {} /\ repeated = {} /\ overrun = FALSE
        /\ origin = {<<<<s>>, c>> : s \in Owners}
        /\ drawn = 0 /\ executions = 0

\* ThreefryState::begin.
BeginSequence(p, s) ==
    /\ executions < MaxExecutions
    /\ ~sequence[p].open /\ \A r \in 1 .. p - 1 : sequence[r].open
    /\ sequence' = [sequence EXCEPT ![p] =
          [open |-> TRUE, state |-> s, stale |-> FALSE, cursor |-> Cursor(s)]]
    /\ UNCHANGED <<slot, rng, saved, given, repeated, overrun, origin, drawn, executions>>

\* blocks, split_keys, uniform, normal, dropout and the categorical draws: all
\* propose n blocks and, once everything else has succeeded, move the cursor.
\* bernoulli and dropout with a certain outcome draw nothing (n = 0).
Draw(p, n) ==
    /\ sequence[p].open /\ drawn + n <= MaxBlocks
    /\ sequence' = [sequence EXCEPT ![p].cursor = Reserve(@, n)]
    /\ drawn' = drawn + n
    /\ UNCHANGED <<slot, rng, saved, given, repeated, overrun, origin, executions>>

\* Mutant: a proposal does not notice other writes of its state.
OutdatedNever(s) == sequence
\* Every write gives the slots of a state new versions, so the proposals made
\* on the old ones are stale.
Outdated(s) ==
    [p \in Proposals |->
        IF sequence[p].open /\ sequence[p].state = s THEN [sequence[p] EXCEPT !.stale = TRUE]
        ELSE sequence[p]]

\* The blocks a cursor reserved reach the caller.
Give(cursor) ==
    /\ given' = given \union cursor.lanes
    /\ repeated' = IF cursor.overlap \/ cursor.lanes \cap given # {}
                   THEN repeated \union {cursor.key} ELSE repeated

\* ThreefrySequence::commit_if on a predicate that evaluates to `condition`;
\* the caller uses the draws under the acceptance it returns.
AcceptCommit(p, condition) ==
    LET q == sequence[p]
        accepted == condition /\ q.cursor.available
    IN  /\ q.open /\ ~q.stale
        /\ IF accepted
           THEN /\ slot' = [slot EXCEPT ![q.state].counter = q.cursor.next]
                /\ Give(q.cursor)
           ELSE UNCHANGED <<slot, given, repeated>>
        /\ sequence' = [Outdated(q.state) EXCEPT ![p] =
              [open |-> FALSE, accepted |-> accepted, keys |-> q.cursor.lanes]]
        /\ UNCHANGED <<rng, saved, overrun, origin, drawn, executions>>

\* A key or counter was written since begin: an error, and the proposal is gone.
RefuseStale(p) ==
    /\ sequence[p].open /\ sequence[p].stale
    /\ sequence' = [sequence EXCEPT ![p] = NoProposal]
    /\ UNCHANGED <<slot, rng, saved, given, repeated, overrun, origin, drawn, executions>>

CommitIf(p) ==
    \/ \E condition \in BOOLEAN : AcceptCommit(p, condition)
    \/ RefuseStale(p)

\* ThreefryState::reset_key_if: the caller takes a pair of split_keys, each
\* one once, and guards the reset with the acceptance of the commit.  All the
\* proposals made on the child become stale, whatever the predicate evaluates to.
ResetKeyIf(p) ==
    /\ ~sequence[p].open
    /\ \E k \in sequence[p].keys :
          /\ IF sequence[p].accepted
             THEN /\ slot' = [slot EXCEPT !["child"] = [key |-> k, counter |-> Zero]]
                  /\ origin' = origin \union {<<k, Zero>>}
             ELSE UNCHANGED <<slot, origin>>
          /\ sequence' = [Outdated("child") EXCEPT ![p].keys = @ \ {k}]
    /\ UNCHANGED <<rng, saved, given, repeated, overrun, drawn, executions>>

-----------------------------------------------------------------------------
\* Cx::rng: the first call with a name reads the slots, later ones continue.
Rng ==
    /\ executions < MaxExecutions /\ ~rng.open
    /\ rng' = [open |-> TRUE, cursor |-> Cursor("model")]
    /\ UNCHANGED <<slot, sequence, saved, given, repeated, overrun, origin, drawn, executions>>

\* Rng::draw.
RngDraw(n) ==
    /\ rng.open /\ drawn + n <= MaxBlocks
    /\ rng' = [rng EXCEPT !.cursor = Reserve(@, n)]
    /\ drawn' = drawn + n
    /\ UNCHANGED <<slot, sequence, saved, given, repeated, overrun, origin, executions>>

\* The trace ends, and a session runs the program.  Cx::finish_rngs writes back
\* the model's stream unless one of its draws wrapped; the draws themselves are
\* outputs without a condition, and reach the caller also then.  The session
\* keeps the new state and the caller gets outputs only if the execution
\* succeeds; a sequence that was not committed goes with the trace.
EndRun ==
    /\ executions < MaxExecutions
    /\ LET final == IF rng.open /\ rng.cursor.available
                     THEN [slot EXCEPT !["model"].counter = rng.cursor.next] ELSE slot
       IN  \/ /\ slot' = final
              /\ IF rng.open THEN Give(rng.cursor) ELSE UNCHANGED <<given, repeated>>
              /\ overrun' = (overrun \/ (rng.open /\ ~rng.cursor.available))
              /\ saved' = [slot |-> final, given |-> given']
           \/ /\ slot' = saved.slot /\ given' = saved.given
              /\ UNCHANGED <<repeated, overrun, saved>>
    /\ sequence' = [p \in Proposals |-> NoProposal]
    /\ rng' = NoProposal
    /\ executions' = executions + 1
    /\ UNCHANGED <<origin, drawn>>

SequenceNext ==
    \E p \in Proposals :
        \/ \E s \in States : BeginSequence(p, s)
        \/ \E n \in Counts : Draw(p, n)
        \/ CommitIf(p)
        \/ ResetKeyIf(p)

StreamNext == Rng \/ \E n \in Counts : RngDraw(n)

RandomNext == SequenceNext \/ StreamNext \/ EndRun

RandomSpec == RandomInit /\ [][RandomNext]_randomVars

-----------------------------------------------------------------------------
RandomTypeOK ==
    /\ \A s \in Owners : slot[s].counter \in [low : -Half .. Half - 1, high : -Half .. Half - 1]
    /\ \A block \in given : block[2] \in [low : -Half .. Half - 1, high : -Half .. Half - 1]
    /\ overrun \in BOOLEAN
    /\ drawn \in 0 .. MaxBlocks /\ executions \in 0 .. MaxExecutions

\* The place of a counter in the stream's period.
Place(counter) == (counter.high % (2 * Half)) * (2 * Half) + (counter.low % (2 * Half))

\* Whatever was proposed, dropped, refused, rejected or lost with a failed
\* execution, no key gives out a block twice, and none is skipped: the blocks
\* given out under the key in a slot are those from the counter it started with
\* to the counter it has.  Child keys are blocks of their parent, so children
\* never share a stream either.  The exception is the stream of Cx::rng once an
\* execution has drawn to the end of its period (nn/lib.rs:943-955, 1053-1074):
\* the draws are given out and the counter stays, so later executions give them
\* out again.  Nothing is skipped even then, and no other stream is disturbed.
DrawsAreFresh ==
    /\ RandomTypeOK
    /\ repeated \subseteq IF overrun THEN {<<"model">>} ELSE {}
    /\ \A s \in Owners :
           \E start \in {o \in origin : o[1] = slot[s].key} :
               LET places == {Place(block[2]) : block \in {b \in given : b[1] = slot[s].key}}
                   passed == Place(start[2]) .. Place(slot[s].counter) - 1
               IN  passed \subseteq places /\ (places = passed \/ (s = "model" /\ overrun))
=============================================================================
